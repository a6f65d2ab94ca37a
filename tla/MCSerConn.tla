------------------------------ MODULE MCSerConn ------------------------------
(* Small instances of SerConn for TLC. *)
EXTENDS SerConn, TLC
CONSTANTS c1, c2, c3, c4, c5, c6, c7, e1, e2, big, mute, long

(* A host and a SoftDevice that keep to what the firmware supports. *)
GoodCmd == {c1, c2, c3}
GoodKind == c1 :> "ok" @@ c2 :> "ok" @@ c3 :> "reset"
GoodEvent == {e1, e2}

(* Every kind of command, events that are too large (big), that have no encoder
   (mute) and that their encoder refuses (long). *)
AnyCmd == {c1, c2, c3, c4, c5, c6, c7}
AnyKind ==
  c1 :> "ok" @@ c2 :> "dtm" @@ c3 :> "reset" @@ c4 :> "unsupported"
  @@ c5 :> "malformed" @@ c6 :> "unknown" @@ c7 :> "oversize"
AnyEvent == {e1, e2, big, mute, long}
SmallEvent == {e1, e2, mute, long}
Supported == {e1, e2, long}
=============================================================================
