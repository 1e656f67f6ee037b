------------------------- MODULE SubscriptionLedger -------------------------
(***************************************************************************)
(* The subscriptions of one user (model/subscription.go): purchases, the   *)
(* quota that requests take and give back, the periodic reset, expiry,     *)
(* cancellation and deletion, the user group that goes with them, and the  *)
(* maintenance task (service/subscription_reset_task.go).                  *)
(*                                                                         *)
(* A transaction is two steps: what it reads, and what it writes when it   *)
(* commits.  FOR UPDATE, asked for with Set("gorm:query_option"), is not   *)
(* sent by gorm.io/gorm: nothing is locked in between (MySQL, PostgreSQL), *)
(* and Save writes every column of the row that was read, inserting it     *)
(* again when it is gone.                                                  *)
(***************************************************************************)
EXTENDS Naturals, Integers, FiniteSets, FiniteSetsExt

CONSTANTS
  PlanInfo,   \* plan |-> its total, duration, period, aligned, limit, up, down, price
  Requests,   \* request ids
  Amounts,    \* what a request pre-consumes
  Workers,    \* goroutines that serve requests
  None,
  Wallet,     \* the user's quota at first
  MaxSubs,    \* bound on the rows of user_subscriptions
  MaxTime,    \* bound on the clock
  MaxOps      \* bound on the transactions of the workers

Plans == DOMAIN PlanInfo
Ids == 1 .. MaxSubs

ASSUME LedgerAssumption ==
  /\ \A p \in Plans :
       /\ PlanInfo[p].total \in Nat /\ PlanInfo[p].duration \in Nat
       /\ PlanInfo[p].price \in Nat /\ PlanInfo[p].limit \in Nat
  /\ None \notin Plans \cup Requests /\ Amounts \subseteq Nat
  /\ Wallet \in Nat /\ MaxSubs \in Nat /\ MaxTime \in Nat \ {0} /\ MaxOps \in Nat

VARIABLES
  clock,   \* GetDBTimestamp
  group,   \* users.group
  wallet,  \* users.quota
  subs,    \* user_subscriptions
  records, \* subscription_pre_consume_records
  charges, \* how often each request was charged (history)
  left,    \* what each subscription may still give (history)
  job,     \* the transaction each worker is in
  task,    \* the maintenance task
  ops,
  raced    \* a transaction committed on reads that were out of date (history)

vars == <<clock, group, wallet, subs, records, charges, left, job, task, ops, raced>>
userVars == <<group, wallet, charges, records>>

NoSub == [status |-> "none", plan |-> None, used |-> 0, start |-> 0, end |-> 0,
          last |-> 0, next |-> 0, prev |-> ""]
Gone == [NoSub EXCEPT !.status = "deleted"]
NoRecord == [status |-> "none", sub |-> 0, pre |-> 0]
Nothing == [now |-> 0, subs |-> [i \in Ids |-> NoSub], group |-> "", wallet |-> 0,
            record |-> NoRecord]
Idle == [pc |-> "idle", op |-> "none", arg |-> None, amt |-> 0, saw |-> Nothing, stale |-> FALSE]
TaskIdle == [pc |-> "idle", todo |-> {}, cur |-> 0, saw |-> Nothing, stale |-> FALSE]

Init ==
  /\ clock = 1 /\ group = "default" /\ wallet = Wallet
  /\ subs = [i \in Ids |-> NoSub]
  /\ records = [r \in Requests |-> NoRecord] /\ charges = [r \in Requests |-> 0]
  /\ left = [i \in Ids |-> 0]
  /\ job = [w \in Workers |-> Idle] /\ task = TaskIdle
  /\ ops = 0 /\ raced = FALSE

-----------------------------------------------------------------------------
(* Times and resets                                                        *)

Info(row) == PlanInfo[row.plan]
Exists(row) == row.status \notin {"none", "deleted"}
Active(row, now) == row.status = "active" /\ row.end > now

\* calcNextResetTime: daily, weekly and monthly resets are aligned, custom ones
\* count from the last; 0 when there is none before the end.
NextReset(base, plan, end) ==
  LET p == PlanInfo[plan].period
      next == IF PlanInfo[plan].aligned THEN (base \div p + 1) * p ELSE base + p
  IN IF p = 0 \/ next > end THEN 0 ELSE next

\* The loop of maybeResetUserSubscriptionWithPlanTx: from reset to reset up to now.
LastReset(row, base, now) ==
  LET next(b) == NextReset(b, row.plan, row.end)
      last[b \in 0 .. MaxTime] == IF next(b) \in 1 .. now THEN last[next(b)] ELSE b
  IN last[base]

\* A reset is due and has not been made.
Base(row) == IF row.last <= 0 THEN row.start ELSE row.last
Resets(row, now) ==
  row.next <= now /\ Info(row).period # 0 /\ LastReset(row, Base(row), now) # Base(row)

\* maybeResetUserSubscriptionWithPlanTx: all resets up to now are made up for; a row
\* without a next reset gets one.
MaybeReset(row, now) ==
  LET last == LastReset(row, Base(row), now)
      next == NextReset(last, row.plan, row.end)
  IN CASE Resets(row, now) -> [row EXCEPT !.used = 0, !.last = last, !.next = next]
       [] /\ ~Resets(row, now) /\ row.next = 0 /\ Info(row).period # 0 /\ next > 0
          -> [row EXCEPT !.next = next, !.last = Base(row)]
       [] OTHER -> row

\* History: row i, read as row, is written back after a reset or not, and a request
\* takes amt.  A reset grants the plan's total again.  So does a write over what
\* another transaction wrote since row was read: this is what a lost update costs.
Left(i, row, resets, amt) ==
  LET total == Info(row).total
  IN IF ~Exists(row) \/ total = 0 THEN left[i]
     ELSE left[i] - amt + (IF resets THEN total ELSE 0) + (IF row # subs[i] THEN total ELSE 0)

-----------------------------------------------------------------------------
(* Transactions                                                            *)

Snapshot(r) ==
  [now |-> clock, subs |-> subs, group |-> group, wallet |-> wallet,
   record |-> IF r \in Requests THEN records[r] ELSE NoRecord]

Begin(w, op, arg, amt) ==
  /\ job[w].pc = "idle" /\ ops < MaxOps /\ ops' = ops + 1
  /\ job' = [job EXCEPT ![w] = [pc |-> "tx", op |-> op, arg |-> arg, amt |-> amt,
                                saw |-> Snapshot(arg), stale |-> FALSE]]
  /\ UNCHANGED <<clock, subs, left, userVars, task, raced>>

Stale(j) == IF j.pc = "idle" THEN j ELSE [j EXCEPT !.stale = TRUE]

\* A transaction of w commits: the others have read what is out of date now.
Commit(w, next) ==
  /\ raced' = (raced \/ job[w].stale)
  /\ job' = [v \in Workers |-> IF v = w THEN next ELSE Stale(job[v])]
  /\ task' = IF task.pc = "idle" THEN task ELSE [task EXCEPT !.stale = TRUE]
  /\ UNCHANGED <<clock, ops>>

In(w, op) == job[w].pc = "tx" /\ job[w].op = op

\* A transaction that refuses, fails or is rolled back writes nothing.
Rollback(w) ==
  /\ job[w].pc \in {"tx", "credit"} /\ job' = [job EXCEPT ![w] = Idle]
  /\ UNCHANGED <<clock, subs, left, userVars, task, ops, raced>>

-----------------------------------------------------------------------------
(* Purchases                                                               *)

\* Mutant of CreateUserSubscription: the purchase limit is not looked at.
CreateUserSubscriptionUnlimited(w, plan, pays) ==
  LET saw == job[w].saw
      free == {i \in Ids : subs[i].status = "none"}
  IN /\ free # {}
     /\ subs' = [subs EXCEPT ![Min(free)] =
          [NoSub EXCEPT !.status = "active", !.plan = plan, !.start = saw.now,
             !.end = saw.now + PlanInfo[plan].duration]]
     /\ wallet' = wallet - pays
     /\ UNCHANGED <<group, records, charges, left>>
     /\ Commit(w, Idle)

\* The next id of the table.
NewId(i) == subs[i].status = "none" /\ \A k \in Ids : k < i => subs[k].status # "none"

\* CreateUserSubscriptionFromPlanTx, after what its caller does: the count of the
\* user's subscriptions of the plan, the user's group, the new row.
CreateUserSubscription(w, plan, pays) ==
  LET saw == job[w].saw
      info == PlanInfo[plan]
      end == saw.now + info.duration
      next == NextReset(saw.now, plan, end)
      upgrades == info.up # "" /\ saw.group # info.up
  IN /\ info.limit > 0 =>
          Cardinality({i \in Ids : saw.subs[i].plan = plan}) < info.limit
     /\ \E i \in Ids :
          /\ NewId(i)
          /\ subs' = [subs EXCEPT ![i] =
               [status |-> "active", plan |-> plan, used |-> 0, start |-> saw.now, end |-> end,
                last |-> IF next > 0 THEN saw.now ELSE 0, next |-> next,
                prev |-> IF upgrades THEN saw.group ELSE ""]]
          /\ left' = [left EXCEPT ![i] = info.total]
     /\ group' = IF upgrades THEN info.up ELSE group
     /\ wallet' = wallet - pays
     /\ UNCHANGED <<records, charges>>
     /\ Commit(w, Idle)

\* AdminBindSubscription, and what CompleteSubscriptionOrder does with a paid order.
AdminBindSubscription(w) ==
  In(w, "bind") /\ CreateUserSubscription(w, job[w].arg, 0)

\* The balance is compared with what was read, and decreased in the database.
PurchaseSubscriptionWithBalance(w) ==
  /\ In(w, "purchase") /\ job[w].saw.wallet >= PlanInfo[job[w].arg].price
  /\ CreateUserSubscription(w, job[w].arg, PlanInfo[job[w].arg].price)

-----------------------------------------------------------------------------
(* The quota of a subscription                                             *)

\* Mutant of Fits: a subscription with anything left is charged.
FitsPartly(row, amt) == Info(row).total > 0 => row.used <= Info(row).total

Fits(row, amt) == Info(row).total > 0 => row.used + amt <= Info(row).total

\* Mutant of PreConsumeUserSubscription: the record is not unique.
PreConsumeUserSubscriptionAgain(w) ==
  LET saw == job[w].saw
      fitting == {i \in Ids : Active(saw.subs[i], saw.now) /\ Fits(saw.subs[i], job[w].amt)}
  IN /\ In(w, "consume") /\ saw.record.status = "none" /\ fitting # {}
     /\ subs' = [subs EXCEPT ![Min(fitting)] = [saw.subs[Min(fitting)] EXCEPT !.used = @ + job[w].amt]]
     /\ records' = [records EXCEPT ![job[w].arg] =
          [status |-> "consumed", sub |-> Min(fitting), pre |-> job[w].amt]]
     /\ charges' = [charges EXCEPT ![job[w].arg] = @ + 1]
     /\ UNCHANGED <<group, wallet, left>>
     /\ Commit(w, Idle)

\* The subscriptions are tried in the order of their ends, each after its reset;
\* the first with enough left is charged, the resets before it are saved too.
\* The record is unique: a second one for the request charges nothing, the
\* resets are saved all the same.
PreConsumeUserSubscription(w) ==
  LET saw == job[w].saw
      amt == job[w].amt
      row(i) == MaybeReset(saw.subs[i], saw.now)
      tried == {i \in Ids : Active(saw.subs[i], saw.now)}
      fitting == {i \in tried : Fits(row(i), amt)}
      before(i, k) == saw.subs[i].end < saw.subs[k].end
                      \/ (saw.subs[i].end = saw.subs[k].end /\ i < k)
      fresh == records[job[w].arg].status = "none"
      saved(i, k) == i \in tried /\ (before(i, k) \/ (i = k /\ ~fresh)) /\ row(i) # saw.subs[i]
  IN /\ In(w, "consume") /\ saw.record.status = "none"
     /\ records[job[w].arg].status # "refunded"
     /\ \E charged \in fitting :
          /\ \A k \in fitting \ {charged} : before(charged, k)
          /\ subs' = [i \in Ids |->
               CASE i = charged /\ fresh -> [row(i) EXCEPT !.used = @ + amt]
                 [] saved(i, charged) -> row(i)
                 [] OTHER -> subs[i]]
          /\ left' = [i \in Ids |->
               CASE i = charged /\ fresh -> Left(i, saw.subs[i], Resets(saw.subs[i], saw.now), amt)
                 [] saved(i, charged) -> Left(i, saw.subs[i], Resets(saw.subs[i], saw.now), 0)
                 [] OTHER -> left[i]]
          /\ records' = IF ~fresh THEN records
                        ELSE [records EXCEPT ![job[w].arg] =
                                [status |-> "consumed", sub |-> charged, pre |-> amt]]
     /\ charges' = IF fresh THEN [charges EXCEPT ![job[w].arg] = @ + 1] ELSE charges
     /\ UNCHANGED <<group, wallet>>
     /\ Commit(w, Idle)

\* PostConsumeUserSubscriptionDelta: never below zero, refused above the total.
Used(row, delta) == Max({0, row.used + delta})
PostConsume(w, i, delta, next) ==
  LET row == job[w].saw.subs[i]
      used == Used(row, delta)
  IN /\ Exists(row) /\ (Info(row).total > 0 => used <= Info(row).total)
     /\ subs' = [subs EXCEPT ![i] = [row EXCEPT !.used = used]]
     /\ left' = [left EXCEPT ![i] = Left(i, row, FALSE, delta)]
     /\ UNCHANGED userVars
     /\ Commit(w, next)

\* The settlement of a request.
Settle(w) ==
  /\ In(w, "settle") /\ job[w].saw.record.status = "consumed"
  /\ PostConsume(w, job[w].saw.record.sub, job[w].amt, Idle)

\* RefundSubscriptionPreConsume: the record is read, the credit commits in a
\* transaction of its own, and the record is marked after it.
RefundSubscriptionPreConsume(w) ==
  /\ In(w, "refund") /\ job[w].saw.record.status = "consumed"
  /\ job' = [job EXCEPT ![w].pc = "credit", ![w].stale = FALSE,
                        ![w].saw = [Snapshot(None) EXCEPT !.record = job[w].saw.record]]
  /\ UNCHANGED <<clock, subs, left, userVars, task, ops, raced>>

RefundCredit(w) ==
  /\ job[w].pc = "credit"
  /\ PostConsume(w, job[w].saw.record.sub, - job[w].saw.record.pre, [job[w] EXCEPT !.pc = "mark"])

RefundMark(w) ==
  /\ job[w].pc = "mark"
  /\ records' = [records EXCEPT ![job[w].arg].status = "refunded"]
  /\ UNCHANGED <<subs, left, group, wallet, charges>>
  /\ Commit(w, Idle)

-----------------------------------------------------------------------------
(* The end of a subscription                                               *)

\* Another active subscription keeps its upgrade.
KeepsGroup(saw, now, but) ==
  \E i \in Ids \ {but} : Active(saw.subs[i], now) /\ Info(saw.subs[i]).up # ""

\* The group the user falls back to when row was the last to end.
FallBack(row, current) ==
  CASE Info(row).down # "" -> Info(row).down
    [] Info(row).down = "" /\ Info(row).up # "" /\ current = Info(row).up /\ row.prev # "" -> row.prev
    [] OTHER -> current

\* downgradeUserGroupForSubscriptionTx
Downgrade(saw, i) ==
  IF KeepsGroup(saw, saw.now, i) THEN saw.group ELSE FallBack(saw.subs[i], saw.group)
SetGroup(saw, g) == group' = IF g # saw.group THEN g ELSE group

\* Only status and end are updated.
AdminInvalidateUserSubscription(w) ==
  LET i == job[w].arg  saw == job[w].saw
  IN /\ In(w, "invalidate") /\ Exists(saw.subs[i])
     /\ subs' = IF ~Exists(subs[i]) THEN subs
                ELSE [subs EXCEPT ![i].status = "cancelled", ![i].end = saw.now]
     /\ SetGroup(saw, Downgrade(saw, i))
     /\ UNCHANGED <<wallet, records, charges, left>>
     /\ Commit(w, Idle)

AdminDeleteUserSubscription(w) ==
  LET i == job[w].arg  saw == job[w].saw
  IN /\ In(w, "delete") /\ Exists(saw.subs[i])
     /\ subs' = [subs EXCEPT ![i] = Gone]
     /\ SetGroup(saw, Downgrade(saw, i))
     /\ UNCHANGED <<wallet, records, charges, left>>
     /\ Commit(w, Idle)

-----------------------------------------------------------------------------
(* The maintenance task                                                    *)

Due(i) == subs[i].status = "active" /\ subs[i].end <= clock
ResetDue(i) == subs[i].status = "active" /\ subs[i].next \in 1 .. clock
ResetList(rows) ==
  [TaskIdle EXCEPT !.pc = "reset", !.saw.now = clock,
     !.todo = {i \in Ids : rows[i].status = "active" /\ rows[i].next \in 1 .. clock}]

TaskCommit(next) ==
  /\ raced' = (raced \/ task.stale)
  /\ job' = [w \in Workers |-> Stale(job[w])]
  /\ task' = next
  /\ UNCHANGED <<clock, ops>>

\* runSubscriptionQuotaResetOnce: one pass at a time, first the expiry.
StartPass ==
  /\ task.pc = "idle"
  /\ IF \E i \in Ids : Due(i)
     THEN task' = [TaskIdle EXCEPT !.pc = "expire", !.saw = Snapshot(None)]
     ELSE (\E i \in Ids : ResetDue(i)) /\ task' = ResetList(subs)
  /\ UNCHANGED <<clock, subs, left, userVars, job, ops, raced>>

\* Mutant of ExpireDueSubscriptions: the subscriptions are only looked at.
ExpireDueSubscriptionsSkipped ==
  /\ task.pc = "expire" /\ UNCHANGED <<subs, left, userVars>> /\ TaskCommit(TaskIdle)

\* Mutant of ExpireDueSubscriptions: the status is not looked at.
ExpireDueSubscriptionsAll ==
  /\ task.pc = "expire"
  /\ subs' = [i \in Ids |-> IF Exists(subs[i]) /\ subs[i].end <= task.saw.now
                            THEN [subs[i] EXCEPT !.status = "expired"] ELSE subs[i]]
  /\ UNCHANGED <<left, userVars>> /\ TaskCommit(ResetList(subs'))

\* The transaction of ExpireDueSubscriptions for the user: the due rows expire,
\* and the group falls back after the subscription that ended last.
ExpireDueSubscriptions ==
  LET saw == task.saw
      due(row) == row.status = "active" /\ row.end <= saw.now
      ended == {i \in Ids : due(saw.subs[i]) \/ saw.subs[i].status = "expired"}
      moves == {i \in ended : Info(saw.subs[i]).up # "" \/ Info(saw.subs[i]).down # ""}
      after(i, k) == saw.subs[i].end > saw.subs[k].end
                     \/ (saw.subs[i].end = saw.subs[k].end /\ i > k)
      last == CHOOSE i \in moves : \A k \in moves \ {i} : after(i, k)
  IN /\ task.pc = "expire"
     /\ subs' = [i \in Ids |-> IF due(subs[i]) THEN [subs[i] EXCEPT !.status = "expired"] ELSE subs[i]]
     /\ SetGroup(saw, IF moves = {} \/ KeepsGroup(saw, saw.now, 0) THEN saw.group
                      ELSE FallBack(saw.subs[last], saw.group))
     /\ UNCHANGED <<wallet, records, charges, left>>
     /\ TaskCommit(ResetList(subs'))

\* ResetDueSubscriptions: each row of the list is read again and saved.
ResetRead(i) ==
  /\ task.pc = "reset" /\ i \in task.todo
  /\ task' = IF subs[i].next \in 1 .. task.saw.now
             THEN [task EXCEPT !.pc = "save", !.todo = @ \ {i}, !.cur = i, !.stale = FALSE,
                               !.saw.subs = subs]
             ELSE [task EXCEPT !.todo = @ \ {i}]
  /\ UNCHANGED <<clock, subs, left, userVars, job, ops, raced>>

ResetSave ==
  /\ task.pc = "save"
  /\ LET row == task.saw.subs[task.cur]
     IN /\ subs' = [subs EXCEPT ![task.cur] = MaybeReset(row, task.saw.now)]
        /\ left' = [left EXCEPT ![task.cur] = Left(task.cur, row, Resets(row, task.saw.now), 0)]
  /\ UNCHANGED userVars
  /\ TaskCommit([task EXCEPT !.pc = "reset", !.cur = 0, !.saw.subs = Nothing.subs])

EndPass ==
  /\ task.pc = "reset" /\ task.todo = {} /\ task' = TaskIdle
  /\ UNCHANGED <<clock, subs, left, userVars, job, ops, raced>>

Tick ==
  /\ clock < MaxTime /\ clock' = clock + 1
  /\ UNCHANGED <<subs, left, userVars, job, task, ops, raced>>

-----------------------------------------------------------------------------
\* Requests and administrators name rows that exist when they begin.
Start(w) ==
  \/ \E p \in Plans, op \in {"bind", "purchase"} : Begin(w, op, p, 0)
  \/ \E r \in Requests :
       \/ /\ \E i \in Ids : subs[i].status = "active"
          /\ \E a \in Amounts : Begin(w, "consume", r, a)
       \/ /\ records[r].status = "consumed"
          /\ \/ \E a \in Amounts : Begin(w, "settle", r, a) \/ Begin(w, "settle", r, - a)
             \/ Begin(w, "refund", r, 0)
  \/ \E i \in Ids, op \in {"invalidate", "delete"} : Exists(subs[i]) /\ Begin(w, op, i, 0)

Finish(w) ==
  \/ AdminBindSubscription(w) \/ PurchaseSubscriptionWithBalance(w)
  \/ PreConsumeUserSubscription(w) \/ Settle(w) \/ RefundSubscriptionPreConsume(w)
  \/ RefundCredit(w) \/ RefundMark(w)
  \/ AdminInvalidateUserSubscription(w) \/ AdminDeleteUserSubscription(w) \/ Rollback(w)

Maintain ==
  StartPass \/ ExpireDueSubscriptions \/ (\E i \in Ids : ResetRead(i)) \/ ResetSave \/ EndPass

Next == (\E w \in Workers : Start(w) \/ Finish(w)) \/ Maintain \/ Tick

Spec == Init /\ [][Next]_vars

\* The task runs every minute on the master node; requests need not go on.
FairSpec == Spec /\ WF_vars(Maintain)

-----------------------------------------------------------------------------
(* Properties                                                              *)

SubType ==
  [status : {"none", "active", "expired", "cancelled", "deleted"}, plan : Plans \cup {None},
   used : Nat, start : 0 .. MaxTime, end : Nat, last : 0 .. MaxTime, next : Nat, prev : STRING]
TypeOK ==
  /\ clock \in 1 .. MaxTime /\ group \in STRING /\ wallet \in Int
  /\ subs \in [Ids -> SubType]
  /\ \A r \in Requests : records[r].status \in {"none", "consumed", "refunded"}
  /\ charges \in [Requests -> Nat] /\ left \in [Ids -> Int]
  /\ ops \in 0 .. MaxOps /\ raced \in BOOLEAN

\* A subscription gives no more than its total between two resets, except that each
\* write over a row which another transaction changed after it was read (a lost update:
\* nothing locks the row) can give the total once more.  The row never shows more than
\* the total as used.
GivenWithinTotal ==
  \A i \in Ids : (Exists(subs[i]) /\ Info(subs[i]).total > 0) =>
    subs[i].used <= Info(subs[i]).total /\ left[i] >= 0

\* A request is charged once, however often and concurrently it pre-consumes.
ChargedOnce == \A r \in Requests : charges[r] <= 1

\* MaxPurchasePerUser (deleted subscriptions do not count).
LimitKept ==
  \A p \in Plans : PlanInfo[p].limit > 0 =>
    Cardinality({i \in Ids : subs[i].plan = p}) <= PlanInfo[p].limit

\* All plans that upgrade the user name one group.
OneUpgradeGroup ==
  \A p, q \in Plans :
    PlanInfo[p].up # "" /\ PlanInfo[q].up # "" => PlanInfo[p].up = PlanInfo[q].up

\* A subscription that runs keeps the user in its upgrade group (if there is one
\* such group: another one that is still running keeps whatever group the user has).
GroupHeld ==
  \A i \in Ids : (Active(subs[i], clock) /\ Info(subs[i]).up # "") => group = Info(subs[i]).up

\* As long as no transaction overlaps another, purchases respect the limit and the
\* balance, and running subscriptions keep their group.
OrderlyUnlessRaced == ~raced => (LimitKept /\ GroupHeld /\ wallet >= 0)

\* As long as no transaction overlaps another, what was cancelled or deleted stays so.
EndedStays ==
  [][\A i \in Ids : (subs[i].status \in {"cancelled", "deleted"} /\ ~raced')
                      => subs'[i].status \in {"cancelled", "deleted"}]_vars

\* A subscription whose time is over does not stay active, and quota that is due
\* for a reset is given back, whatever else writes the rows meanwhile.
Overdue(i) == Due(i) \/ ResetDue(i)
MaintainedInTheEnd == (\E i \in Ids : Overdue(i)) ~> (\A i \in Ids : ~Overdue(i))

=============================================================================
