--------------------------- MODULE MCFulfillment ----------------------------
(* The fulfillment consumer for TLC: an order event, a second trigger for    *)
(* the same fulfillment, and a cancellation.                                 *)
EXTENDS Fulfillment, TLC

CONSTANTS m1, m2, m3

MCBoth == (m1 :> "fulfillment") @@ (m3 :> "cancellation")
MCOneOp == (m1 :> "fulfillment") @@ (m2 :> "fulfillment")
MCOne == m1 :> "fulfillment"

Symmetry == Permutations(Workers)
=============================================================================
