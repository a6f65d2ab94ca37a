--------------------------- MODULE MCAppScheduler ---------------------------
(* Small instances of AppScheduler for TLC. *)
EXTENDS AppScheduler
CONSTANTS e1, e2, big

MCEvent == {e1, e2, big}
MCOversized == {big}
=============================================================================
