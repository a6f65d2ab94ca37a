------------------------------ MODULE MCBleStrm ------------------------------
(***************************************************************************)
(* Two messages of the phone, one longer than a fragment and answered by   *)
(* three fragments, one without data; one read of two fragments.           *)
(***************************************************************************)
EXTENDS BleStrm

CONSTANTS m1, m2, m3, a1, r1

MCLength == [d \in {m1, m2, m3, a1, r1} |->
               CASE d = m1 -> 4 [] d = m2 -> 0 [] d = m3 -> 1 [] d = a1 -> 4 [] d = r1 -> 2]
MCAnswer == [m \in {m1, m2, m3} |-> IF m = m1 THEN a1 ELSE None]
=============================================================================
