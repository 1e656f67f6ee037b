-------------------------- MODULE MCBillingSession --------------------------
(* Small instances of BillingSession for TLC.                              *)
EXTENDS BillingSession, TLC

P(pref, quota) ==
  [pref |-> pref, quota |-> quota, free |-> FALSE, playground |-> FALSE,
   unlimited |-> FALSE, force |-> FALSE]

\* The wallet and the subscription, each falling back to the other, a playground with a
\* quota of 0 (a subscription still takes 1), an asynchronous task with an unlimited
\* token, and a free model.
MCProfiles ==
  {P("wallet_first", 2), P("subscription_first", 3),
   [P("subscription_first", 0) EXCEPT !.playground = TRUE],
   [P("wallet_only", 3) EXCEPT !.unlimited = TRUE, !.force = TRUE],
   [P("wallet_only", 1) EXCEPT !.free = TRUE]}
=============================================================================
