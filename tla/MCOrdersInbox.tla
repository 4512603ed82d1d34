--------------------------- MODULE MCOrdersInbox ----------------------------
(* Small instances of the orders consumer.  A claim is made only by a      *)
(* message, a fault or a retry, so attempts stay below a finite bound.     *)
EXTENDS OrdersInbox
=============================================================================
