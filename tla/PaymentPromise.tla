--------------------------- MODULE PaymentPromise ---------------------------
(***************************************************************************)
(* What the payment code promises for every order, whatever the gateway,   *)
(* however often its callbacks arrive and whoever completes the order: the *)
(* user gets what the order is for only when the gateway reported the      *)
(* payment or an administrator completed the order, and only once.         *)
(***************************************************************************)
EXTENDS Naturals

CONSTANT Orders

VARIABLES
  due,    \* orders that were paid, or approved by an administrator
  grants  \* how often each order was credited

Init == due = {} /\ grants = [o \in Orders |-> 0]

Approve(o) == due' = due \cup {o} /\ UNCHANGED grants

Grant(o) ==
  /\ o \in due /\ grants[o] = 0
  /\ grants' = [grants EXCEPT ![o] = 1]
  /\ UNCHANGED due

Next == \E o \in Orders : Approve(o) \/ Grant(o)

Spec == Init /\ [][Next]_<<due, grants>>
=============================================================================
