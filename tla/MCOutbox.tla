------------------------------ MODULE MCOutbox ------------------------------
(* The outbox for TLC; the configurations choose events, loops and budgets. *)
EXTENDS Outbox
=============================================================================
