------------------------------ MODULE Payments ------------------------------
(***************************************************************************)
(* Wallet top-ups and subscription orders paid through a gateway: the      *)
(* request that creates an order, the gateway's callbacks (which come      *)
(* twice, late, on any node and again after a crash), the completion by an *)
(* administrator, and the lock that serialises them within a process       *)
(* (model/topup.go, controller/topup*.go, subscription_payment_*.go and    *)
(* the orders of model/subscription.go).                                   *)
(*                                                                         *)
(* One action is one statement or one transaction's reads or its writes.   *)
(* The rows are read with Set("gorm:query_option", "FOR UPDATE"), which    *)
(* gorm.io/gorm ignores: a transaction takes no lock when it reads, and    *)
(* its Save writes the whole row that it read.                             *)
(***************************************************************************)
EXTENDS Naturals

CONSTANTS
  Orders,       \* trade numbers
  Kinds,        \* the gateways and sorts of order to consider
  Workers,      \* goroutines that run callbacks and admin requests
  Nodes,        \* processes
  NodeOf,       \* the process of each worker
  None,         \* no worker, no mutex
  QuotaPerUnit, \* common.QuotaPerUnit
  MaxExtra,     \* bound on duplicated callbacks and admin completions
  MaxFaults     \* bound on failing calls and crashes

Gateways == {"epay", "stripe", "creem", "waffo", "pancake"}

ASSUME PaymentAssumption ==
  /\ None \notin Workers
  /\ NodeOf \in [Workers -> Nodes]
  /\ Kinds \subseteq [gateway : Gateways, sub : BOOLEAN]
  /\ QuotaPerUnit \in Nat
  /\ MaxExtra \in Nat /\ MaxFaults \in Nat

Statuses == {"none", "pending", "success", "failed", "expired"}

VARIABLES
  kind,      \* the gateway of each order, and whether it buys a subscription
  phase,     \* the request: "new", "inserted", "open" (the user has a link), "closed"
  verdict,   \* what became of the payment at the gateway
  owed,      \* the gateway's callback is not acknowledged yet
  topups,    \* top_ups.status by trade number; "none": no row
  subs,      \* subscription_orders.status
  full,      \* the plan's purchase limit was reached by other purchases
  grants,    \* how often the order was credited (history)
  credited,  \* the quota that was credited for it (history)
  manual,    \* an administrator asked to complete the order (history)
  hit,       \* a call made for the order failed (history)
  table,     \* orderLocks of each node: the mutex of each order
  mutex,     \* the mutexes by order and creator: references and holder
  job,       \* what each worker does
  extra, faults

lockVars == <<table, mutex>>
rowVars == <<topups, subs, grants, credited>>
worldVars == <<kind, phase, verdict, full>>
vars == <<worldVars, owed, rowVars, manual, hit, lockVars, job, extra, faults>>

Free == [refs |-> 0, holder |-> None]
Idle == [pc |-> "idle", o |-> None, ev |-> "none", mu |-> None, ack |-> FALSE]

Init ==
  /\ kind \in [Orders -> Kinds]
  /\ phase = [o \in Orders |-> "new"] /\ verdict = [o \in Orders |-> "open"]
  /\ owed = [o \in Orders |-> FALSE] /\ full = FALSE
  /\ topups = [o \in Orders |-> "none"] /\ subs = [o \in Orders |-> "none"]
  /\ grants = [o \in Orders |-> 0] /\ credited = [o \in Orders |-> 0]
  /\ manual = [o \in Orders |-> FALSE] /\ hit = [o \in Orders |-> FALSE]
  /\ table = [n \in Nodes |-> [o \in Orders |-> None]]
  /\ mutex = [o \in Orders |-> [w \in Workers |-> Free]]
  /\ job = [w \in Workers |-> Idle]
  /\ extra = 0 /\ faults = 0

Is(o, g) == kind[o].gateway = g
Extra == extra < MaxExtra /\ extra' = extra + 1
Fault(o) ==
  /\ faults < MaxFaults /\ faults' = faults + 1
  /\ hit' = [hit EXCEPT ![o] = TRUE]
SetJob(w, j) == job' = [job EXCEPT ![w] = j]
Goto(w, l) == SetJob(w, [job[w] EXCEPT !.pc = l])

-----------------------------------------------------------------------------
(* The request for a payment                                               *)

Insert(o) ==
  IF kind[o].sub THEN subs' = [subs EXCEPT ![o] = "pending"] /\ UNCHANGED topups
  ELSE topups' = [topups EXCEPT ![o] = "pending"] /\ UNCHANGED subs

Request(o, g, sub, next) ==
  /\ phase[o] = "new" /\ kind[o] = [gateway |-> g, sub |-> sub]
  /\ Insert(o) /\ phase' = [phase EXCEPT ![o] = next]
  /\ UNCHANGED <<kind, verdict, full, owed, grants, credited, manual, hit, lockVars, job, extra, faults>>

\* Stripe orders and Epay top-ups are inserted once the payment link exists:
\* without link or row the user gets no link.
RequestEpay(o) == Request(o, "epay", FALSE, "open")
RequestStripePay(o) == Request(o, "stripe", FALSE, "open")
SubscriptionRequestStripePay(o) == Request(o, "stripe", TRUE, "open")

\* The others are inserted before the link is made.
RequestCreemPay(o) == Request(o, "creem", FALSE, "inserted")
RequestWaffoPay(o) == Request(o, "waffo", FALSE, "inserted")
RequestWaffoPancakePay(o) == Request(o, "pancake", FALSE, "inserted")
SubscriptionRequestEpay(o) == Request(o, "epay", TRUE, "inserted")
SubscriptionRequestCreemPay(o) == Request(o, "creem", TRUE, "inserted")
SubscriptionRequestWaffoPancakePay(o) == Request(o, "pancake", TRUE, "inserted")

LinkCreated(o) ==
  /\ phase[o] = "inserted" /\ phase' = [phase EXCEPT ![o] = "open"]
  /\ UNCHANGED <<kind, verdict, full, owed, rowVars, manual, hit, lockVars, job, extra, faults>>

\* The row is closed with a Save of the whole row and without LockOrder; Creem
\* leaves it pending.
LinkFailed(o) ==
  /\ phase[o] = "inserted" /\ phase' = [phase EXCEPT ![o] = "closed"]
  /\ topups' = IF ~kind[o].sub /\ ~Is(o, "creem") THEN [topups EXCEPT ![o] = "failed"] ELSE topups
  /\ subs' = CASE kind[o].sub /\ Is(o, "pancake") -> [subs EXCEPT ![o] = "failed"]
               [] kind[o].sub /\ Is(o, "epay") -> [subs EXCEPT ![o] = "expired"]
               [] OTHER -> subs
  /\ UNCHANGED <<kind, verdict, full, owed, grants, credited, manual, hit, lockVars, job, extra, faults>>

-----------------------------------------------------------------------------
(* The gateway: what becomes of the payment, and its callbacks             *)

\* Only Stripe and Waffo report that a payment failed, only Stripe that the
\* user let it expire; the outcomes exclude each other.
Verdicts(o) ==
  {"paid"} \cup (IF Is(o, "stripe") THEN {"failed", "expired"} ELSE {})
           \cup (IF Is(o, "waffo") THEN {"failed"} ELSE {})

Decide(o) ==
  /\ phase[o] = "open" /\ verdict[o] = "open"
  /\ \E v \in Verdicts(o) : verdict' = [verdict EXCEPT ![o] = v]
  /\ owed' = [owed EXCEPT ![o] = TRUE]
  /\ UNCHANGED <<kind, phase, full, rowVars, manual, hit, lockVars, job, extra, faults>>

\* The user reaches the plan's MaxPurchasePerUser by other purchases.
PlanFills ==
  /\ ~full /\ full' = TRUE /\ \E o \in Orders : kind[o].sub
  /\ UNCHANGED <<kind, phase, verdict, owed, rowVars, manual, hit, lockVars, job, extra, faults>>

Start(w, o, ev, first) ==
  /\ job[w].pc = "idle"
  /\ SetJob(w, [Idle EXCEPT !.pc = first, !.o = o, !.ev = ev])

\* A callback arrives at some node: as long as none is acknowledged, and a few
\* times more than necessary.
Callback(w, o, first) ==
  /\ verdict[o] # "open" /\ Start(w, o, verdict[o], first)
  /\ IF owed[o] THEN UNCHANGED extra ELSE Extra
  /\ UNCHANGED <<worldVars, owed, rowVars, manual, hit, lockVars, faults>>

EpayNotify(w, o) == Is(o, "epay") /\ ~kind[o].sub /\ Callback(w, o, "lock")
SubscriptionEpayNotify(w, o) == Is(o, "epay") /\ kind[o].sub /\ Callback(w, o, "lock")
StripeWebhook(w, o) == Is(o, "stripe") /\ Callback(w, o, "lock")
CreemWebhook(w, o) == Is(o, "creem") /\ Callback(w, o, "lock")

\* Failed payments are handled without LockOrder.
WaffoWebhook(w, o) ==
  Is(o, "waffo") /\ Callback(w, o, IF verdict[o] = "paid" THEN "lock" ELSE "topup")

\* The order is looked up before it is locked.
WaffoPancakeWebhook(w, o) == Is(o, "pancake") /\ Callback(w, o, "resolve")

Deliver(w, o) ==
  \/ EpayNotify(w, o) \/ SubscriptionEpayNotify(w, o) \/ StripeWebhook(w, o)
  \/ CreemWebhook(w, o) \/ WaffoWebhook(w, o) \/ WaffoPancakeWebhook(w, o)

\* The user's browser comes back from the payment.
SubscriptionEpayReturn(w, o) ==
  /\ verdict[o] = "paid" /\ Is(o, "epay") /\ kind[o].sub /\ Start(w, o, "return", "lock")
  /\ Extra
  /\ UNCHANGED <<worldVars, owed, rowVars, manual, hit, lockVars, faults>>

\* The administrator sees the rows of top_ups.
AdminCompleteTopUp(w, o) ==
  /\ topups[o] # "none" /\ Start(w, o, "manual", "lock")
  /\ manual' = [manual EXCEPT ![o] = TRUE] /\ Extra
  /\ UNCHANGED <<worldVars, owed, rowVars, hit, lockVars, faults>>

-----------------------------------------------------------------------------
(* LockOrder and UnlockOrder                                               *)

\* The mutex LockOrder takes: the one in the table, or a new one.
OrderMutex(w) ==
  LET o == job[w].o
      entry == table[NodeOf[w]][o]
  IN CASE entry # None -> entry
       [] entry = None /\ mutex[o][w] = Free -> w
       [] OTHER -> CHOOSE v \in Workers : mutex[o][v] = Free

\* Under createLock: the mutex of the order is loaded or made, and counted.
LockOrder(w) ==
  /\ job[w].pc = "lock"
  /\ LET o == job[w].o  id == OrderMutex(w)
     IN /\ table' = [table EXCEPT ![NodeOf[w]][o] = id]
        /\ mutex' = [mutex EXCEPT ![o][id].refs = @ + 1]
        /\ SetJob(w, [job[w] EXCEPT !.pc = "wait", !.mu = id])
  /\ UNCHANGED <<worldVars, owed, rowVars, manual, hit, extra, faults>>

\* Where a handler goes with the lock: Stripe and Creem look for a subscription
\* order first, as their callbacks serve both sorts.
Body(o, ev) ==
  IF ev \in {"paid", "return", "expired"} /\ (kind[o].sub \/ Is(o, "stripe") \/ Is(o, "creem"))
  THEN "sub" ELSE "topup"

MuLock(w) ==
  /\ job[w].pc = "wait" /\ mutex[job[w].o][job[w].mu].holder = None
  /\ mutex' = [mutex EXCEPT ![job[w].o][job[w].mu].holder = w]
  /\ Goto(w, Body(job[w].o, job[w].ev))
  /\ UNCHANGED <<worldVars, owed, rowVars, manual, hit, table, extra, faults>>

\* Mutant of UnlockOrder: it returns early.
UnlockOrderForgotten(w) ==
  /\ job[w].pc = "unlock" /\ Goto(w, "reply")
  /\ UNCHANGED <<worldVars, owed, rowVars, manual, hit, lockVars, extra, faults>>

\* The entry is loaded again; without one nothing would be unlocked.
UnlockOrder(w) ==
  /\ job[w].pc = "unlock"
  /\ LET id == table[NodeOf[w]][job[w].o]
     IN IF id = None THEN Goto(w, "reply") /\ UNCHANGED mutex
        ELSE /\ mutex' = [mutex EXCEPT ![job[w].o][id].holder = None]
             /\ SetJob(w, [job[w] EXCEPT !.pc = "unref", !.mu = id])
  /\ UNCHANGED <<worldVars, owed, rowVars, manual, hit, table, extra, faults>>

\* Under createLock again: the last user removes the entry.
Unref(w) ==
  /\ job[w].pc = "unref"
  /\ LET o == job[w].o
         refs == mutex[o][job[w].mu].refs - 1
     IN /\ mutex' = [mutex EXCEPT ![o][job[w].mu].refs = refs]
        /\ table' = [table EXCEPT ![NodeOf[w]][o] = IF refs = 0 THEN None ELSE @]
  /\ Goto(w, "reply")
  /\ UNCHANGED <<worldVars, owed, rowVars, manual, hit, extra, faults>>

\* The answer reaches the gateway when the handler has returned.
Reply(w) ==
  /\ job[w].pc = "reply"
  /\ owed' = [owed EXCEPT ![job[w].o] = @ /\ ~(job[w].ack /\ job[w].ev = verdict[job[w].o])]
  /\ SetJob(w, Idle)
  /\ UNCHANGED <<worldVars, rowVars, manual, hit, lockVars, extra, faults>>

\* Mutant of Done: every callback is acknowledged.
DoneAcknowledged(w, a) ==
  SetJob(w, [job[w] EXCEPT !.pc = IF job[w].mu = None THEN "reply" ELSE "unlock", !.ack = TRUE])

\* The handler is done; a says whether it tells the gateway to stop calling.
\* EpayNotify and StripeWebhook always do.
Done(w, a) ==
  LET o == job[w].o
      always == Is(o, "stripe") \/ (Is(o, "epay") /\ ~kind[o].sub)
  IN SetJob(w, [job[w] EXCEPT !.pc = IF job[w].mu = None THEN "reply" ELSE "unlock",
                              !.ack = a \/ always])

-----------------------------------------------------------------------------
(* Reading and completing an order                                         *)

\* ResolveWaffoPancakeTradeNo: a lookup that fails counts as an unknown order,
\* and the callback is acknowledged.
Resolve(w) ==
  /\ job[w].pc = "resolve"
  /\ \/ Goto(w, "lock") /\ UNCHANGED <<hit, faults>>
     \/ Done(w, TRUE) /\ Fault(job[w].o)
  /\ UNCHANGED <<worldVars, owed, rowVars, manual, lockVars, extra>>

\* No subscription order was found: Stripe and Creem go on with the top-up; Creem
\* acknowledges what is not a one-time payment.
NoSubscriptionOrder(w) ==
  \/ (Is(job[w].o, "stripe") \/ Is(job[w].o, "creem")) /\ Goto(w, "topup")
  \/ Is(job[w].o, "creem") /\ kind[job[w].o].sub /\ Done(w, TRUE)
  \/ ~Is(job[w].o, "stripe") /\ ~Is(job[w].o, "creem") /\ Done(w, FALSE)

\* What the transaction of CompleteSubscriptionOrder or ExpireSubscriptionOrder
\* reads; an error of the lookup counts as not found.
ReadSubscriptionOrder(w) ==
  /\ job[w].pc = "sub"
  /\ LET o == job[w].o
         paid == job[w].ev # "expired"
     IN \/ subs[o] # "none" /\ NoSubscriptionOrder(w) /\ Fault(o)
        \/ subs[o] = "none" /\ NoSubscriptionOrder(w) /\ UNCHANGED <<hit, faults>>
        \/ subs[o] = "success" /\ Done(w, TRUE) /\ UNCHANGED <<hit, faults>>
        \/ subs[o] \in {"failed", "expired"} /\ Done(w, ~paid) /\ UNCHANGED <<hit, faults>>
        \/ /\ subs[o] = "pending" /\ paid /\ full
           /\ Done(w, FALSE) /\ hit' = [hit EXCEPT ![o] = TRUE] /\ UNCHANGED faults
        \/ /\ subs[o] = "pending" /\ (paid => ~full)
           /\ Goto(w, IF paid THEN "grant" ELSE "expire")
           /\ UNCHANGED <<hit, faults>>
  /\ UNCHANGED <<worldVars, owed, rowVars, manual, lockVars, extra>>

\* The writes of CompleteSubscriptionOrder: the subscription, the row of top_ups
\* that upsertSubscriptionTopUpTx inserts or updates, and the order.  (On MySQL a
\* transaction that read before another one inserted that row inserts it too, and
\* fails; PostgreSQL lets it update the row.)
GrantSubscription(w) ==
  /\ job[w].pc = "grant"
  /\ LET o == job[w].o
     IN \/ /\ topups' = [topups EXCEPT ![o] = "success"]
           /\ subs' = [subs EXCEPT ![o] = "success"]
           /\ grants' = [grants EXCEPT ![o] = @ + 1]
           /\ Done(w, TRUE) /\ UNCHANGED <<hit, faults>>
        \/ Done(w, FALSE) /\ Fault(o) /\ UNCHANGED <<topups, subs, grants>>
  /\ UNCHANGED <<worldVars, owed, credited, manual, lockVars, extra>>

\* The Save of ExpireSubscriptionOrder.
ExpireSubscriptionOrder(w) ==
  /\ job[w].pc = "expire" /\ Done(w, TRUE)
  /\ \/ subs' = [subs EXCEPT ![job[w].o] = "expired"] /\ UNCHANGED <<hit, faults>>
     \/ UNCHANGED subs /\ Fault(job[w].o)
  /\ UNCHANGED <<worldVars, owed, topups, grants, credited, manual, lockVars, extra>>

\* What a handler makes of a row of top_ups that is not pending: Recharge,
\* RechargeCreem's caller and EpayNotify ignore it, RechargeWaffo and
\* RechargeWaffoPancake accept success and refuse the rest; failed and expired
\* payments are ignored.
Settled(w) ==
  LET o == job[w].o
      strict == job[w].ev = "paid" /\ (Is(o, "waffo") \/ Is(o, "pancake"))
  IN Done(w, strict => topups[o] = "success")

\* Mutant of ReadTopUp: the status is not looked at.
ReadTopUpUnchecked(w) ==
  /\ job[w].pc = "topup" /\ topups[job[w].o] # "none"
  /\ Goto(w, IF job[w].ev = "manual" \/ (job[w].ev = "paid" /\ ~Is(job[w].o, "epay"))
             THEN "recharge" ELSE "save")
  /\ UNCHANGED <<worldVars, owed, rowVars, manual, hit, lockVars, extra, faults>>

\* The read of every handler of top-ups; an error counts as not found, which
\* EpayNotify, Stripe and the handlers of failed payments acknowledge.
ReadTopUp(w) ==
  /\ job[w].pc = "topup"
  /\ LET o == job[w].o
         missing == Done(w, job[w].ev = "failed")
     IN \/ topups[o] = "none" /\ missing /\ UNCHANGED <<hit, faults>>
        \/ topups[o] # "none" /\ missing /\ Fault(o)
        \/ topups[o] \notin {"none", "pending"} /\ Settled(w) /\ UNCHANGED <<hit, faults>>
        \/ /\ topups[o] = "pending"
           /\ Goto(w, IF job[w].ev = "manual" \/ (job[w].ev = "paid" /\ ~Is(o, "epay"))
                      THEN "recharge" ELSE "save")
           /\ UNCHANGED <<hit, faults>>
  /\ UNCHANGED <<worldVars, owed, rowVars, manual, lockVars, extra>>

\* The writes of a transaction that completes a top-up: the row and the quota of
\* the user.  Every order is for one unit, or a quota of one.
CreditTopUp(w, worth) ==
  /\ job[w].pc = "recharge"
  /\ LET o == job[w].o
     IN \/ /\ topups' = [topups EXCEPT ![o] = "success"]
           /\ grants' = [grants EXCEPT ![o] = @ + 1]
           /\ credited' = [credited EXCEPT ![o] = @ + worth]
           /\ Done(w, TRUE) /\ UNCHANGED <<hit, faults>>
        \/ Done(w, FALSE) /\ Fault(o) /\ UNCHANGED <<topups, grants, credited>>
  /\ UNCHANGED <<worldVars, owed, subs, manual, lockVars, extra>>

By(w, g) == job[w].o # None /\ job[w].ev = "paid" /\ Is(job[w].o, g)
Recharge(w) == By(w, "stripe") /\ CreditTopUp(w, QuotaPerUnit)
RechargeWaffo(w) == By(w, "waffo") /\ CreditTopUp(w, QuotaPerUnit)
RechargeWaffoPancake(w) == By(w, "pancake") /\ CreditTopUp(w, QuotaPerUnit)

\* Creem's Amount is the quota itself, the others' a number of units ...
RechargeCreem(w) == By(w, "creem") /\ CreditTopUp(w, 1)

\* ... and here every Amount is taken for units.
ManualCompleteTopUp(w) == job[w].ev = "manual" /\ CreditTopUp(w, QuotaPerUnit)

\* topUp.Update of EpayNotify.
EpaySave(w) ==
  /\ job[w].pc = "save" /\ By(w, "epay")
  /\ \/ /\ topups' = [topups EXCEPT ![job[w].o] = "success"]
        /\ Goto(w, "credit") /\ UNCHANGED <<hit, faults>>
     \/ Done(w, TRUE) /\ Fault(job[w].o) /\ UNCHANGED topups
  /\ UNCHANGED <<worldVars, owed, subs, grants, credited, manual, lockVars, extra>>

\* The payment was not made.
CloseTopUp(w) ==
  /\ job[w].pc = "save" /\ Done(w, TRUE)
  /\ \/ /\ topups' = [topups EXCEPT ![job[w].o] = job[w].ev] /\ UNCHANGED <<hit, faults>>
     \/ Fault(job[w].o) /\ UNCHANGED topups
  /\ UNCHANGED <<worldVars, owed, subs, grants, credited, manual, lockVars, extra>>
SessionAsyncPaymentFailed(w) ==
  job[w].ev = "failed" /\ Is(job[w].o, "stripe") /\ CloseTopUp(w)

\* Mutant of UpdatePendingTopUpStatus: the user is credited.
UpdatePendingTopUpStatusCredits(w) ==
  /\ job[w].pc = "save" /\ job[w].ev # "paid" /\ Goto(w, "credit")
  /\ topups' = [topups EXCEPT ![job[w].o] = job[w].ev]
  /\ UNCHANGED <<worldVars, owed, subs, grants, credited, manual, hit, lockVars, extra, faults>>

UpdatePendingTopUpStatus(w) ==
  /\ job[w].ev = "expired" \/ (job[w].ev = "failed" /\ Is(job[w].o, "waffo"))
  /\ CloseTopUp(w)

\* EpayNotify credits the user in a second call.
EpayCredit(w) ==
  /\ job[w].pc = "credit" /\ Done(w, TRUE)
  /\ LET o == job[w].o
     IN \/ /\ grants' = [grants EXCEPT ![o] = @ + 1]
           /\ credited' = [credited EXCEPT ![o] = @ + QuotaPerUnit]
           /\ UNCHANGED <<hit, faults>>
        \/ Fault(o) /\ UNCHANGED <<grants, credited>>
  /\ UNCHANGED <<worldVars, owed, topups, subs, manual, lockVars, extra>>

\* A node dies and starts again: its handlers and its locks are gone, and what
\* they had not written.  Between the two calls of EpayNotify the credit is lost.
Crash(n) ==
  LET here == {w \in Workers : NodeOf[w] = n}
  IN /\ faults < MaxFaults /\ faults' = faults + 1
     /\ \E w \in here : job[w].pc # "idle"
     /\ job' = [w \in Workers |-> IF w \in here THEN Idle ELSE job[w]]
     /\ table' = [table EXCEPT ![n] = [o \in Orders |-> None]]
     /\ mutex' = [o \in Orders |-> [w \in Workers |-> IF w \in here THEN Free ELSE mutex[o][w]]]
     /\ hit' = [o \in Orders |-> hit[o] \/ (\E w \in here : job[w].o = o /\ job[w].pc = "credit")]
     /\ UNCHANGED <<worldVars, owed, rowVars, manual, extra>>

-----------------------------------------------------------------------------
Step(w) ==
  \/ LockOrder(w) \/ MuLock(w) \/ UnlockOrder(w) \/ Unref(w) \/ Reply(w)
  \/ Resolve(w) \/ ReadSubscriptionOrder(w) \/ GrantSubscription(w)
  \/ ExpireSubscriptionOrder(w) \/ ReadTopUp(w) \/ Recharge(w) \/ RechargeCreem(w)
  \/ RechargeWaffo(w) \/ RechargeWaffoPancake(w) \/ ManualCompleteTopUp(w)
  \/ EpaySave(w) \/ EpayCredit(w) \/ SessionAsyncPaymentFailed(w)
  \/ UpdatePendingTopUpStatus(w)

Next ==
  \/ \E o \in Orders :
       \/ RequestEpay(o) \/ RequestStripePay(o) \/ RequestCreemPay(o) \/ RequestWaffoPay(o)
       \/ RequestWaffoPancakePay(o) \/ SubscriptionRequestEpay(o)
       \/ SubscriptionRequestStripePay(o) \/ SubscriptionRequestCreemPay(o)
       \/ SubscriptionRequestWaffoPancakePay(o)
       \/ LinkCreated(o) \/ LinkFailed(o) \/ Decide(o)
       \/ \E w \in Workers :
            Deliver(w, o) \/ SubscriptionEpayReturn(w, o) \/ AdminCompleteTopUp(w, o)
  \/ PlanFills
  \/ \E w \in Workers : Step(w)
  \/ \E n \in Nodes : Crash(n)

Spec == Init /\ [][Next]_vars

\* Handlers run on (Go's mutexes do not starve a waiter), and the gateway calls
\* until it is answered.
Fairness ==
  /\ \A w \in Workers : WF_vars(Step(w)) /\ SF_vars(MuLock(w))
  /\ \A o \in Orders : WF_vars(owed[o] /\ \E w \in Workers : Deliver(w, o))

FairSpec == Spec /\ Fairness

-----------------------------------------------------------------------------
(* Properties                                                              *)

TypeOK ==
  /\ kind \in [Orders -> Kinds]
  /\ phase \in [Orders -> {"new", "inserted", "open", "closed"}]
  /\ verdict \in [Orders -> {"open", "paid", "failed", "expired"}]
  /\ owed \in [Orders -> BOOLEAN] /\ full \in BOOLEAN
  /\ topups \in [Orders -> Statuses] /\ subs \in [Orders -> Statuses]
  /\ grants \in [Orders -> Nat] /\ credited \in [Orders -> Nat]
  /\ manual \in [Orders -> BOOLEAN] /\ hit \in [Orders -> BOOLEAN]
  /\ table \in [Nodes -> [Orders -> Workers \cup {None}]]
  /\ mutex \in [Orders -> [Workers -> [refs : Nat, holder : Workers \cup {None}]]]
  /\ job \in [Workers -> [pc : {"idle", "lock", "wait", "unlock", "unref", "reply", "resolve",
                                "sub", "grant", "expire", "topup", "recharge", "save", "credit"},
                          o : Orders \cup {None},
                          ev : {"none", "paid", "return", "failed", "expired", "manual"},
                          mu : Workers \cup {None}, ack : BOOLEAN]]
  /\ extra \in 0 .. MaxExtra /\ faults \in 0 .. MaxFaults

SingleNode == \A m, n \in Nodes : m = n

\* In one process an order is credited once and with what it was sold for, whatever
\* the callbacks and the administrator do and whatever fails in between; only a Creem
\* order that an administrator completes is taken for units instead of quota.
Sold(o) == IF Is(o, "creem") THEN 1 ELSE QuotaPerUnit
CreditedOnce ==
  SingleNode =>
    \A o \in Orders :
      /\ grants[o] <= 1
      /\ ~kind[o].sub /\ ~(Is(o, "creem") /\ manual[o]) => credited[o] = grants[o] * Sold(o)

\* A gateway that was told to stop calling about a payment has been told so after
\* the order was credited.  EpayNotify and StripeWebhook acknowledge whatever
\* happens, and a failing lookup passes for an unknown order with Pancake and
\* for subscriptions with Creem: there only if no call failed.
Careful(o) ==
  Is(o, "waffo") \/ (Is(o, "creem") /\ ~kind[o].sub) \/ (Is(o, "epay") /\ kind[o].sub)
AcknowledgedIsCredited ==
  \A o \in Orders :
    (verdict[o] = "paid" /\ ~owed[o] /\ (Careful(o) \/ ~hit[o])) => grants[o] > 0

\* The payments keep PaymentPromise (in one process).
Promise ==
  INSTANCE PaymentPromise WITH due <- {o \in Orders : verdict[o] = "paid" \/ manual[o]}
KeepsPromise == Promise!Spec

\* A payment reported by a gateway that repeats its calls until the order is
\* completed is credited in the end, if the plan can still be bought.
PaidIsCredited ==
  \A o \in Orders : (verdict[o] = "paid" /\ Careful(o)) ~> (grants[o] > 0 \/ full)

=============================================================================
