------------------------------ MODULE MCOutbox ------------------------------
(* Instances of Outbox for TLC. *)
EXTENDS Outbox, TLC

CONSTANTS d1, d2

TwoDispatchers == {d1, d2}
=============================================================================
