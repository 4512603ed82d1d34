----------------------------- MODULE MCPayment ------------------------------
(* The payments for TLC: one order of two units, two authorize requests that *)
(* compete for it, and three request ids for capture, void and refund.       *)
EXTENDS Payment, TLC

CONSTANTS o1, a1, a2, r1, r2, r3

MCAmount == o1 :> 2
MCOrderOf == (a1 :> o1) @@ (a2 :> o1)
=============================================================================
