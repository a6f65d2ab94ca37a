----------------------------- MODULE MCSerSdHost -----------------------------
(***************************************************************************)
(* A call of the application and one of the handler of the first event,    *)
(* with one opcode, a reset, and a power off by the handler of the third;  *)
(* a mailbox of two.                                                       *)
(***************************************************************************)
EXTENDS SerSdHost

CONSTANTS c1, answer, reset, off

MCKind == [c \in {c1, answer, reset, off} |->
             IF c = reset THEN "reset" ELSE IF c = off THEN "off" ELSE "call"]
MCOp == [c \in {c1, answer, reset, off} |-> IF c = answer THEN c1 ELSE c]
MCReply == <<answer, None, off>>
=============================================================================
