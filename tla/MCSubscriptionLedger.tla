------------------------ MODULE MCSubscriptionLedger ------------------------
(* Small instances of SubscriptionLedger for TLC.                          *)
EXTENDS SubscriptionLedger, TLC

CONSTANTS r1, r2, w1, w2

\* One plan that upgrades and resets at aligned times, one that resets at custom ones.
TwoPlans ==
  "vip" :> [total |-> 2, duration |-> 2, period |-> 1, aligned |-> TRUE, limit |-> 1,
            up |-> "vip", down |-> "", price |-> 1]
  @@ "plain" :> [total |-> 1, duration |-> 1, period |-> 0, aligned |-> FALSE, limit |-> 2,
                 up |-> "", down |-> "", price |-> 1]

=============================================================================
