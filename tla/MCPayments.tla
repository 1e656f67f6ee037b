----------------------------- MODULE MCPayments -----------------------------
(* Small instances of Payments for TLC.                                    *)
EXTENDS Payments, TLC

CONSTANTS o1, w1, w2, n1

\* Every sort of order there is: Waffo sells no subscriptions.
AllKinds == [gateway : Gateways, sub : BOOLEAN] \ {[gateway |-> "waffo", sub |-> TRUE]}
OneNode == [w \in Workers |-> n1]
=============================================================================
