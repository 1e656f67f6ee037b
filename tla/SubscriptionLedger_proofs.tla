--------------------- MODULE SubscriptionLedger_proofs ----------------------
(***************************************************************************)
(* Proofs about SubscriptionLedger, for any plans, requests, amounts and   *)
(* numbers of workers and rows: a request is charged once and a            *)
(* subscription gives its total, and for each lost update the total once   *)
(* more; transactions that do not overlap keep the purchase limit, the     *)
(* balance, the group and what was cancelled.                              *)
(***************************************************************************)
EXTENDS SubscriptionLedger, FiniteSetTheorems, TLAPS

-----------------------------------------------------------------------------
(* The inductive invariant                                                 *)

Statuses == {"none", "active", "expired", "cancelled", "deleted"}

\* A record with the columns of user_subscriptions.  What LastReset makes of the times of
\* resets is left open: nothing here depends on it.
IsRow(row) ==
  row \in [status : Statuses, plan : Plans \cup {None}, used : Nat, start : {row.start},
           end : Nat, last : {row.last}, next : {row.next}, prev : {row.prev}]

\* A row within its total.
RowOk(row) ==
  /\ IsRow(row)
  /\ Exists(row) => row.plan \in Plans
  /\ Exists(row) /\ Info(row).total > 0 => row.used <= Info(row).total
RowsOk(s) == s = [i \in Ids |-> s[i]] /\ \A i \in Ids : RowOk(s[i])

\* A record names the row that was charged.
RecordOk(r) ==
  /\ r \in [status : {"none", "consumed", "refunded"}, sub : 0 .. MaxSubs, pre : Nat]
  /\ r.status = "consumed" => r.sub \in Ids

\* What a transaction has read.
SawOk(saw) ==
  /\ saw \in [now : 0 .. MaxTime, subs : {saw.subs}, group : {saw.group}, wallet : Int,
              record : {saw.record}]
  /\ saw.now <= clock /\ RowsOk(saw.subs) /\ RecordOk(saw.record)

\* It still is what the database says.
Current(saw) == saw.subs = subs /\ saw.group = group /\ saw.wallet = wallet

JobPcs == {"idle", "tx", "credit", "mark"}
JobOps == {"none", "bind", "purchase", "consume", "settle", "refund", "invalidate", "delete"}
ArgOk(j) ==
  /\ j.pc = "tx" =>
       /\ j.op \in {"bind", "purchase"} => j.arg \in Plans
       /\ j.op \in {"consume", "settle", "refund"} => j.arg \in Requests
       /\ j.op \in {"invalidate", "delete"} => j.arg \in Ids
       /\ j.op = "consume" => j.amt \in Nat
  /\ j.pc \in {"credit", "mark"} => j.arg \in Requests /\ j.saw.record.sub \in Ids
JobShape(j) ==
  /\ j \in [pc : JobPcs, op : JobOps, arg : {j.arg}, amt : Int, saw : {j.saw}, stale : {j.stale}]
  /\ SawOk(j.saw) /\ ArgOk(j)

\* A transaction that no other one overlapped has read what the database says.
JobOk(j) == JobShape(j) /\ (j.pc \in {"tx", "credit"} /\ ~j.stale => Current(j.saw))

TaskPcs == {"idle", "expire", "reset", "save"}
TaskShape(t) ==
  /\ t \in [pc : TaskPcs, todo : SUBSET Ids, cur : 0 .. MaxSubs, saw : {t.saw}, stale : {t.stale}]
  /\ SawOk(t.saw) /\ (t.pc = "save" => t.cur \in Ids)
TaskOk(t) ==
  /\ TaskShape(t)
  /\ t.pc = "expire" /\ ~t.stale => Current(t.saw)
  /\ t.pc = "save" /\ ~t.stale => t.saw.subs = subs

\* A request that has no record was not charged.
ChargesOk ==
  /\ records = [r \in Requests |-> records[r]] /\ charges \in [Requests -> {0, 1}]
  /\ \A r \in Requests : RecordOk(records[r]) /\ (records[r].status = "none" => charges[r] = 0)

Orderly == LimitKept /\ (OneUpgradeGroup => GroupHeld) /\ wallet >= 0

IInv ==
  /\ clock \in 1 .. MaxTime /\ wallet \in Int /\ RowsOk(subs) /\ ChargesOk
  /\ job = [w \in Workers |-> job[w]] /\ \A w \in Workers : JobOk(job[w])
  /\ TaskOk(task)
  /\ ~raced => Orderly

-----------------------------------------------------------------------------
(* Rows                                                                    *)

\* One column is written.
LEMMA StatusColumn ==
  ASSUME NEW row, IsRow(row), NEW s \in Statuses, NEW new, new = [row EXCEPT !.status = s]
  PROVE  /\ IsRow(new)
         /\ new.status = s /\ new.plan = row.plan /\ new.used = row.used /\ new.end = row.end
BY DEF IsRow

\* (the quota used)
LEMMA UsedColumn ==
  ASSUME NEW row, IsRow(row), NEW n \in Nat, NEW new, new = [row EXCEPT !.used = n]
  PROVE  /\ IsRow(new)
         /\ new.status = row.status /\ new.plan = row.plan /\ new.used = n /\ new.end = row.end
BY DEF IsRow

\* A row of the same status and plan is one when what is used fits.
LEMMA SameFits ==
  ASSUME NEW row, RowOk(row), NEW new, IsRow(new), new.status = row.status, new.plan = row.plan,
         Exists(row) /\ Info(row).total > 0 => new.used <= Info(row).total
  PROVE  RowOk(new)
<1>1. (Exists(new) <=> Exists(row)) /\ Info(new) = Info(row)  BY DEF Exists, Info
<1>2. QED  BY <1>1 DEF RowOk, IsRow

\* An empty row, and one that is gone.
LEMMA EmptyRows ==
  /\ RowOk(NoSub) /\ ~Exists(NoSub)
  /\ RowOk(Gone) /\ ~Exists(Gone) /\ Gone.plan = None /\ Gone.status = "deleted"
<1>1. IsRow(NoSub) /\ RowOk(NoSub) /\ ~Exists(NoSub) /\ NoSub.plan = None
  BY DEF RowOk, NoSub, Exists, Statuses, IsRow
<1>2. "deleted" \in Statuses  BY DEF Statuses
<1>3. IsRow(Gone) /\ Gone.status = "deleted" /\ Gone.plan = None
  BY <1>1, <1>2, StatusColumn DEF Gone
<1>4. QED  BY <1>1, <1>3 DEF RowOk, IsRow, Exists

\* A row with another quota used is one when that quota fits.
LEMMA UsedRow ==
  ASSUME NEW row, RowOk(row), NEW n \in Nat,
         Exists(row) /\ Info(row).total > 0 => n <= Info(row).total
  PROVE  LET new == [row EXCEPT !.used = n]
         IN  RowOk(new) /\ new.status = row.status /\ new.plan = row.plan /\ new.end = row.end
<1> PICK new : new = [row EXCEPT !.used = n]  OBVIOUS
<1>1. IsRow(row)  BY DEF RowOk, IsRow
<1>2. /\ IsRow(new) /\ new.status = row.status /\ new.plan = row.plan /\ new.used = n
      /\ new.end = row.end
  BY <1>1, UsedColumn
<1>3. RowOk(new)  BY <1>2, SameFits
<1>4. QED  BY <1>2, <1>3

\* The columns a reset writes.
WithReset(row, n, l, x) == [row EXCEPT !.used = n, !.last = l, !.next = x]

\* It writes nothing else.
LEMMA ResetColumns ==
  ASSUME NEW row, IsRow(row), NEW n \in Nat, NEW l, NEW x
  PROVE  LET new == WithReset(row, n, l, x)
         IN  /\ IsRow(new)
             /\ new.status = row.status /\ new.plan = row.plan /\ new.used = n /\ new.end = row.end
<1> PICK new : new = WithReset(row, n, l, x)  OBVIOUS
<1> PICK a : a = [row EXCEPT !.used = n]  OBVIOUS
<1> PICK b : b = [a EXCEPT !.last = l]  OBVIOUS
<1>1. IsRow(a) /\ a.status = row.status /\ a.plan = row.plan /\ a.used = n /\ a.end = row.end
  BY UsedColumn
<1>2. IsRow(b) /\ b.status = a.status /\ b.plan = a.plan /\ b.used = a.used /\ b.end = a.end
  BY <1>1 DEF IsRow
<1>3. new = [b EXCEPT !.next = x]  BY DEF WithReset
<1>4. /\ IsRow(new)
      /\ new.status = b.status /\ new.plan = b.plan /\ new.used = b.used /\ new.end = b.end
  BY <1>2, <1>3 DEF IsRow
<1>5. QED  BY <1>1, <1>2, <1>4

\* A reset gives the quota back and changes nothing else but its times.
LEMMA ResetRow ==
  ASSUME NEW row, RowOk(row), NEW now
  PROVE  LET new == MaybeReset(row, now)
         IN  /\ RowOk(new) /\ new.status = row.status /\ new.plan = row.plan /\ new.end = row.end
<1> DEFINE base == Base(row)
<1> DEFINE last == LastReset(row, base, now)
<1> DEFINE next == NextReset(last, row.plan, row.end)
<1> PICK new : new = MaybeReset(row, now)  OBVIOUS
<1>1. IsRow(row) /\ row.used \in Nat  BY DEF RowOk, IsRow
<1>2. \A l, x : [row EXCEPT !.next = x, !.last = l] = WithReset(row, row.used, l, x)
  BY <1>1 DEF IsRow, WithReset
<1>3. \/ new = row \/ new = WithReset(row, 0, last, next)
      \/ new = [row EXCEPT !.next = next, !.last = base]
  BY DEF MaybeReset, WithReset
<1>4. [row EXCEPT !.next = next, !.last = base] = WithReset(row, row.used, base, next)
  BY <1>2
<1> HIDE DEF base, last, next
<1>5. PICK n \in {0, row.used} : \E l, x : new = row \/ new = WithReset(row, n, l, x)
  BY <1>3, <1>4
<1>6. new # row => /\ IsRow(new) /\ new.status = row.status /\ new.plan = row.plan
                   /\ new.used = n /\ new.end = row.end
  BY <1>1, <1>5, ResetColumns
<1>7. Exists(row) => Info(row).total \in Nat  BY LedgerAssumption DEF RowOk, IsRow, Info
<1>8. Exists(row) /\ Info(row).total > 0 => n <= Info(row).total
  BY <1>5, <1>7 DEF RowOk, IsRow
<1>9. new # row => RowOk(new)  BY <1>6, <1>8, SameFits
<1>10. QED  BY <1>6, <1>9

\* One row is replaced.
Replaced(s, i, row) == [s EXCEPT ![i] = row]

\* The other rows stay.
LEMMA ReplaceRow ==
  ASSUME NEW s, RowsOk(s), NEW i \in Ids, NEW row, RowOk(row)
  PROVE  /\ RowsOk(Replaced(s, i, row)) /\ Replaced(s, i, row)[i] = row
         /\ \A k \in Ids : k # i => Replaced(s, i, row)[k] = s[k]
BY DEF RowsOk, Replaced

-----------------------------------------------------------------------------
(* What is read stays well-formed                                          *)

\* The bounds are numbers.
LEMMA Bounds == MaxSubs \in Nat /\ MaxTime \in Nat
BY LedgerAssumption

\* The clock does not run backwards.
LEMMA SawStays ==
  ASSUME NEW saw, SawOk(saw), clock \in Nat, clock' \in Nat, clock' >= clock
  PROVE  SawOk(saw)'
BY DEF SawOk, RowsOk, RowOk, IsRow, RecordOk

\* A transaction that waits while time passes.
LEMMA JobStays ==
  ASSUME NEW j, JobShape(j), clock \in Nat, clock' \in Nat, clock' >= clock
  PROVE  JobShape(j)'
<1>1. SawOk(j.saw)'
  <2> PICK saw : saw = j.saw  OBVIOUS
  <2>1. SawOk(saw)  BY DEF JobShape
  <2>2. SawOk(saw)'  BY <2>1, SawStays
  <2>3. QED  BY <2>2
<1>2. QED  BY <1>1 DEF JobShape, ArgOk

\* The maintenance task likewise.
LEMMA TaskStays ==
  ASSUME NEW t, TaskShape(t), clock \in Nat, clock' \in Nat, clock' >= clock
  PROVE  TaskShape(t)'
<1>1. SawOk(t.saw)'
  <2> PICK saw : saw = t.saw  OBVIOUS
  <2>1. SawOk(saw)  BY DEF TaskShape
  <2>2. SawOk(saw)'  BY <2>1, SawStays
  <2>3. QED  BY <2>2
<1>2. QED  BY <1>1 DEF TaskShape

\* A job that another transaction overtook.
LEMMA StaleJob ==
  ASSUME NEW j, JobShape(j)
  PROVE  JobShape(Stale(j)) /\ Stale(j).pc = j.pc /\ (j.pc # "idle" => Stale(j).stale)
<1>1. CASE j.pc = "idle"  BY <1>1 DEF Stale
<1>2. CASE j.pc # "idle"
  <2> PICK k : k = [j EXCEPT !.stale = TRUE]  OBVIOUS
  <2>1. /\ k \in [pc : JobPcs, op : JobOps, arg : {k.arg}, amt : Int, saw : {k.saw},
                  stale : {k.stale}]
        /\ k.pc = j.pc /\ k.op = j.op /\ k.arg = j.arg /\ k.amt = j.amt /\ k.saw = j.saw
        /\ k.stale = TRUE
    BY DEF JobShape
  <2>2. ArgOk(k)  BY <2>1 DEF JobShape, ArgOk
  <2>3. JobShape(k)  BY <2>1, <2>2 DEF JobShape
  <2>4. QED  BY <1>2, <2>1, <2>3 DEF Stale
<1>3. QED  BY <1>1, <1>2

\* The maintenance task, overtaken.
LEMMA StaleTask ==
  ASSUME NEW t, TaskShape(t), NEW u, u = IF t.pc = "idle" THEN t ELSE [t EXCEPT !.stale = TRUE]
  PROVE  TaskShape(u) /\ u.pc = t.pc /\ (t.pc # "idle" => u.stale)
<1>1. CASE t.pc = "idle"  BY <1>1
<1>2. CASE t.pc # "idle"
  <2>1. /\ u \in [pc : TaskPcs, todo : SUBSET Ids, cur : 0 .. MaxSubs, saw : {u.saw},
                  stale : {u.stale}]
        /\ u.pc = t.pc /\ u.cur = t.cur /\ u.saw = t.saw /\ u.stale = TRUE
    BY <1>2 DEF TaskShape
  <2>2. TaskShape(u)  BY <2>1 DEF TaskShape
  <2>3. QED  BY <2>1, <2>2
<1>3. QED  BY <1>1, <1>2

\* Before anything is read.
LEMMA EmptyReads ==
  clock \in Nat =>
    /\ SawOk(Nothing) /\ JobShape(Idle) /\ Idle.pc = "idle"
    /\ TaskShape(TaskIdle) /\ TaskIdle.pc = "idle"
<1>0. 0 \in 0 .. MaxSubs /\ 0 \in 0 .. MaxTime  BY Bounds
<1>1. RowsOk([i \in Ids |-> NoSub])  BY EmptyRows DEF RowsOk
<1>2. RecordOk(NoRecord)  BY <1>0 DEF RecordOk, NoRecord
<1>3. ASSUME clock \in Nat PROVE SawOk(Nothing)
  BY <1>1, <1>2, <1>3, <1>0 DEF SawOk, Nothing
<1>4. ASSUME clock \in Nat PROVE JobShape(Idle) /\ Idle.pc = "idle"
  BY <1>3, <1>4 DEF JobShape, Idle, ArgOk, JobPcs, JobOps
<1>5. ASSUME clock \in Nat PROVE TaskShape(TaskIdle) /\ TaskIdle.pc = "idle"
  BY <1>3, <1>5, <1>0 DEF TaskShape, TaskIdle, TaskPcs
<1>6. QED  BY <1>3, <1>4, <1>5

-----------------------------------------------------------------------------
(* Steps that write nothing, and commits                                   *)

\* Nothing is written, time may pass.
LEMMA OnlyReads ==
  ASSUME IInv, UNCHANGED <<subs, userVars, raced>>, clock' \in 1 .. MaxTime, clock' >= clock
  PROVE  /\ wallet' \in Int /\ RowsOk(subs)' /\ ChargesOk' /\ (~raced => Orderly)'
         /\ \A j : JobOk(j) => JobOk(j)'
         /\ \A t : TaskOk(t) => TaskOk(t)'
<1>0. clock \in Nat /\ clock' \in Nat  BY Bounds DEF IInv
<1>1. wallet' \in Int /\ RowsOk(subs)' /\ ChargesOk'
  BY DEF IInv, RowsOk, RowOk, IsRow, ChargesOk, userVars
<1>2. (~raced => Orderly)'
  <2> SUFFICES ASSUME ~raced PROVE Orderly'  BY Zenon DEF userVars
  <2>1. Orderly  BY DEF IInv
  <2>2. \A i \in Ids : subs[i].end \in Nat  BY DEF IInv, RowsOk, RowOk, IsRow
  <2>3. LimitKept' /\ wallet' >= 0  BY <2>1 DEF Orderly, LimitKept, userVars
  <2>4. ASSUME OneUpgradeGroup, NEW i \in Ids, Active(subs[i], clock)', Info(subs[i])'.up # ""
        PROVE  group' = Info(subs[i])'.up
    <3>0. subs' = subs  BY Zenon
    <3>1. Active(subs[i], clock)
      <4>1. subs[i].status = "active" /\ subs[i].end > clock'  BY <2>4, <3>0, Zenon DEF Active
      <4>2. subs[i].end > clock  BY <4>1, <1>0, <2>2
      <4>3. QED  BY <4>1, <4>2 DEF Active
    <3>2. group = Info(subs[i]).up  BY <2>1, <2>4, <3>1 DEF Orderly, GroupHeld, Info
    <3>3. QED  BY <3>2 DEF Info, userVars
  <2>5. OneUpgradeGroup => GroupHeld'  BY <2>4 DEF GroupHeld
  <2>6. QED  BY <2>3, <2>5 DEF Orderly
<1>3. ASSUME NEW j, JobOk(j) PROVE JobOk(j)'
  <2>1. JobShape(j)'  BY <1>0, <1>3, JobStays DEF JobOk
  <2>2. QED  BY <1>3, <2>1 DEF JobOk, Current, userVars
<1>4. ASSUME NEW t, TaskOk(t) PROVE TaskOk(t)'
  <2>1. TaskShape(t)'  BY <1>0, <1>4, TaskStays DEF TaskOk
  <2>2. QED  BY <1>4, <2>1 DEF TaskOk, Current, userVars
<1>5. QED  BY <1>1, <1>2, <1>3, <1>4

\* A worker reads, or ends without a write.
LEMMA JobStep ==
  ASSUME IInv, UNCHANGED <<clock, subs, userVars, task, raced>>, NEW w \in Workers, NEW j, JobOk(j),
         job' = [job EXCEPT ![w] = j]
  PROVE  IInv'
<1>0. clock' \in 1 .. MaxTime /\ clock' >= clock  BY Bounds DEF IInv
<1>1. /\ wallet' \in Int /\ RowsOk(subs)' /\ ChargesOk' /\ (~raced => Orderly)'
      /\ \A k : JobOk(k) => JobOk(k)'
      /\ \A t : TaskOk(t) => TaskOk(t)'
  BY <1>0, OnlyReads
<1>2. TaskOk(task)'
  <2> PICK t : t = task  OBVIOUS
  <2>1. TaskOk(t)  BY DEF IInv
  <2>2. TaskOk(t)' /\ task' = t  BY <1>1, <2>1
  <2>3. QED  BY <2>2
<1>3. job' = [v \in Workers |-> job'[v]]  BY DEF IInv
<1>4. ASSUME NEW v \in Workers PROVE JobOk(job[v])'
  <2> PICK k : k = job'[v]  OBVIOUS
  <2>1. k = j \/ k = job[v]  BY DEF IInv
  <2>2. JobOk(k)  BY <2>1 DEF IInv
  <2>3. JobOk(k)'  BY <1>1, <2>2
  <2>4. QED  BY <2>3
<1>5. QED  BY <1>0, <1>1, <1>2, <1>3, <1>4 DEF IInv

\* The maintenance task does.
LEMMA TaskStep ==
  ASSUME IInv, UNCHANGED <<clock, subs, userVars, job, raced>>, NEW t, TaskOk(t), task' = t
  PROVE  IInv'
<1>0. clock' \in 1 .. MaxTime /\ clock' >= clock  BY Bounds DEF IInv
<1>1. /\ wallet' \in Int /\ RowsOk(subs)' /\ ChargesOk' /\ (~raced => Orderly)'
      /\ \A k : JobOk(k) => JobOk(k)'
      /\ TaskOk(t)'
  BY <1>0, OnlyReads
<1>2. TaskOk(task)'  BY <1>1
<1>3. job' = [v \in Workers |-> job'[v]]  BY DEF IInv
<1>4. ASSUME NEW v \in Workers PROVE JobOk(job[v])'
  <2> PICK k : k = job[v]  OBVIOUS
  <2>1. JobOk(k)  BY DEF IInv
  <2>2. JobOk(k)' /\ job'[v] = k  BY <1>1, <2>1
  <2>3. QED  BY <2>2
<1>5. QED  BY <1>0, <1>1, <1>2, <1>3, <1>4 DEF IInv

\* Time passes.
LEMMA TickInv == ASSUME IInv, Tick PROVE IInv'
<1>0. clock' \in 1 .. MaxTime /\ clock' >= clock  BY Bounds DEF IInv, Tick
<1>1. /\ wallet' \in Int /\ RowsOk(subs)' /\ ChargesOk' /\ (~raced => Orderly)'
      /\ \A k : JobOk(k) => JobOk(k)'
      /\ \A t : TaskOk(t) => TaskOk(t)'
  BY <1>0, OnlyReads DEF Tick
<1>2. TaskOk(task)'
  <2> PICK t : t = task  OBVIOUS
  <2>1. TaskOk(t)  BY DEF IInv
  <2>2. TaskOk(t)' /\ task' = t  BY <1>1, <2>1 DEF Tick
  <2>3. QED  BY <2>2
<1>3. job' = [v \in Workers |-> job'[v]]  BY DEF IInv, Tick
<1>4. ASSUME NEW v \in Workers PROVE JobOk(job[v])'
  <2> PICK k : k = job[v]  OBVIOUS
  <2>1. JobOk(k)  BY DEF IInv
  <2>2. JobOk(k)' /\ job'[v] = k  BY <1>1, <2>1 DEF Tick
  <2>3. QED  BY <2>2
<1>5. QED  BY <1>0, <1>1, <1>2, <1>3, <1>4 DEF IInv

\* A transaction of w commits: what every other one has read is out of date.
LEMMA CommitInv ==
  ASSUME IInv, NEW w \in Workers, NEW next, Commit(w, next), JobShape(next),
         next.pc \in {"idle", "mark"},
         RowsOk(subs)', ChargesOk', wallet' \in Int, ~raced /\ ~job[w].stale => Orderly'
  PROVE  IInv'
<1>0. /\ clock \in Nat /\ clock' = clock
      /\ clock' \in Nat /\ clock' >= clock /\ clock' \in 1 .. MaxTime
  BY Bounds DEF IInv, Commit
<1>1. job' = [v \in Workers |-> job'[v]]  BY DEF Commit
<1>2. ASSUME NEW v \in Workers PROVE JobOk(job[v])'
  <2> PICK k : k = job'[v]  OBVIOUS
  <2>1. CASE v = w
    <3>1. k = next  BY <2>1 DEF Commit
    <3>2. JobShape(k)'  BY <1>0, <3>1, JobStays
    <3>3. JobOk(k)'  BY <3>1, <3>2 DEF JobOk
    <3>4. QED  BY <3>3
  <2>2. CASE v # w
    <3>1. k = Stale(job[v])  BY <2>2 DEF Commit
    <3>2. JobShape(job[v])  BY DEF IInv, JobOk
    <3>3. JobShape(k) /\ (k.pc # "idle" => k.stale)  BY <3>1, <3>2, StaleJob
    <3>4. JobShape(k)'  BY <1>0, <3>3, JobStays
    <3>5. JobOk(k)'  BY <3>3, <3>4 DEF JobOk
    <3>6. QED  BY <3>5
  <2>3. QED  BY <2>1, <2>2
<1>3. TaskOk(task)'
  <2> PICK u : u = task'  OBVIOUS
  <2>1. u = IF task.pc = "idle" THEN task ELSE [task EXCEPT !.stale = TRUE]  BY DEF Commit
  <2>2. TaskShape(task)  BY DEF IInv, TaskOk
  <2>3. TaskShape(u) /\ (u.pc # "idle" => u.stale)  BY <2>1, <2>2, StaleTask
  <2>4. TaskShape(u)'  BY <1>0, <2>3, TaskStays
  <2>5. TaskOk(u)'  BY <2>3, <2>4 DEF TaskOk
  <2>6. QED  BY <2>5
<1>4. ASSUME ~raced' PROVE Orderly'
  <2>1. ~raced /\ ~job[w].stale  BY <1>4, Zenon DEF Commit
  <2>2. QED  BY <2>1
<1>5. QED  BY <1>0, <1>1, <1>2, <1>3, <1>4 DEF IInv

\* A transaction of the maintenance task commits.
LEMMA TaskCommitInv ==
  ASSUME IInv, NEW next, TaskCommit(next), TaskShape(next), next.pc \in {"idle", "reset"},
         RowsOk(subs)', ChargesOk', wallet' \in Int, ~raced /\ ~task.stale => Orderly'
  PROVE  IInv'
<1>0. /\ clock \in Nat /\ clock' = clock
      /\ clock' \in Nat /\ clock' >= clock /\ clock' \in 1 .. MaxTime
  BY Bounds DEF IInv, TaskCommit
<1>1. job' = [v \in Workers |-> job'[v]]  BY DEF TaskCommit
<1>2. ASSUME NEW v \in Workers PROVE JobOk(job[v])'
  <2> PICK k : k = job'[v]  OBVIOUS
  <2>1. k = Stale(job[v])  BY DEF TaskCommit
  <2>2. JobShape(job[v])  BY DEF IInv, JobOk
  <2>3. JobShape(k) /\ (k.pc # "idle" => k.stale)  BY <2>1, <2>2, StaleJob
  <2>4. JobShape(k)'  BY <1>0, <2>3, JobStays
  <2>5. JobOk(k)'  BY <2>3, <2>4 DEF JobOk
  <2>6. QED  BY <2>5
<1>3. TaskOk(task)'
  <2>1. TaskShape(next)'  BY <1>0, TaskStays
  <2>2. TaskOk(next)'  BY <2>1 DEF TaskOk
  <2>3. QED  BY <2>2 DEF TaskCommit
<1>4. ASSUME ~raced' PROVE Orderly'
  <2>1. ~raced /\ ~task.stale  BY <1>4, Zenon DEF TaskCommit
  <2>2. QED  BY <2>1
<1>5. QED  BY <1>0, <1>1, <1>2, <1>3, <1>4 DEF IInv

-----------------------------------------------------------------------------
(* Transactions that begin, and the ones that write nothing                *)

\* What a transaction reads when it begins.
LEMMA SnapshotOk ==
  ASSUME IInv, NEW r
  PROVE  SawOk(Snapshot(r)) /\ Current(Snapshot(r))
<1>1. RecordOk(IF r \in Requests THEN records[r] ELSE NoRecord)
  <2>1. RecordOk(NoRecord)  BY Bounds DEF RecordOk, NoRecord
  <2>2. r \in Requests => RecordOk(records[r])  BY DEF IInv, ChargesOk
  <2>3. QED  BY <2>1, <2>2
<1>2. clock \in 0 .. MaxTime /\ clock <= clock /\ wallet \in Int /\ RowsOk(subs)  BY Bounds DEF IInv
<1> PICK rec : rec = IF r \in Requests THEN records[r] ELSE NoRecord  OBVIOUS
<1> PICK s : s = Snapshot(r)  OBVIOUS
<1>3. s = [now |-> clock, subs |-> subs, group |-> group, wallet |-> wallet, record |-> rec]
  BY DEF Snapshot
<1>4. SawOk(s)  BY <1>1, <1>2, <1>3 DEF SawOk
<1>5. Current(s)  BY <1>3 DEF Current
<1>6. QED  BY <1>4, <1>5

\* A transaction begins.
LEMMA BeginInv ==
  ASSUME IInv, NEW w \in Workers, NEW op \in JobOps, NEW arg, NEW amt \in Int,
         Begin(w, op, arg, amt),
         op \in {"bind", "purchase"} => arg \in Plans,
         op \in {"consume", "settle", "refund"} => arg \in Requests,
         op \in {"invalidate", "delete"} => arg \in Ids,
         op = "consume" => amt \in Nat
  PROVE  IInv'
<1> PICK s : s = Snapshot(arg)  OBVIOUS
<1> PICK j : j = [pc |-> "tx", op |-> op, arg |-> arg, amt |-> amt, saw |-> s, stale |-> FALSE]
  OBVIOUS
<1>1. SawOk(s) /\ Current(s)  BY SnapshotOk
<1>2. JobOk(j)  BY <1>1 DEF JobOk, JobShape, ArgOk, JobPcs
<1>3. job' = [job EXCEPT ![w] = j]  BY DEF Begin
<1>4. QED  BY <1>2, <1>3, JobStep DEF Begin

\* No transaction is open.
LEMMA IdleOk == IInv => JobOk(Idle) /\ TaskOk(TaskIdle)
<1> SUFFICES ASSUME IInv PROVE JobOk(Idle) /\ TaskOk(TaskIdle)  OBVIOUS
<1>1. clock \in Nat  BY Bounds DEF IInv
<1>2. QED  BY <1>1, EmptyReads DEF JobOk, TaskOk

\* A transaction is rolled back.
LEMMA RollbackInv == ASSUME IInv, NEW w \in Workers, Rollback(w) PROVE IInv'
BY IdleOk, JobStep DEF Rollback

\* RefundSubscriptionPreConsume opens the transaction of the credit.
LEMMA RefundReadInv == ASSUME IInv, NEW w \in Workers, RefundSubscriptionPreConsume(w) PROVE IInv'
<1> PICK old : old = job[w]  OBVIOUS
<1> PICK snap : snap = Snapshot(None)  OBVIOUS
<1> PICK s : s = [snap EXCEPT !.record = old.saw.record]  OBVIOUS
<1> PICK j : j = job'[w]  OBVIOUS
<1>0. JobShape(old) /\ old.pc = "tx" /\ old.op = "refund" /\ old.saw.record.status = "consumed"
  BY DEF IInv, JobOk, RefundSubscriptionPreConsume, In
<1>1. SawOk(snap) /\ Current(snap)  BY SnapshotOk
<1>2. SawOk(old.saw) /\ old.arg \in Requests  BY <1>0 DEF JobShape, ArgOk
<1>3. RecordOk(old.saw.record) /\ old.saw.record.sub \in Ids  BY <1>0, <1>2 DEF SawOk, RecordOk
<1>4. SawOk(s) /\ Current(s) /\ s.record = old.saw.record  BY <1>1, <1>3 DEF SawOk, Current
<1>5. /\ job' = [job EXCEPT ![w] = j]
      /\ j = [old EXCEPT !.pc = "credit", !.stale = FALSE, !.saw = s]
  BY DEF RefundSubscriptionPreConsume, IInv
<1>6. j = [pc |-> "credit", op |-> old.op, arg |-> old.arg, amt |-> old.amt, saw |-> s,
           stale |-> FALSE]
  BY <1>0, <1>5 DEF JobShape
<1>7. old.op \in JobOps /\ old.amt \in Int  BY <1>0 DEF JobShape
<1>8. JobOk(j)
  <2>1. /\ j \in [pc : JobPcs, op : JobOps, arg : {j.arg}, amt : Int, saw : {j.saw},
                  stale : {j.stale}]
        /\ j.pc = "credit" /\ j.arg = old.arg /\ j.saw = s
    BY <1>6, <1>7 DEF JobPcs
  <2>2. ArgOk(j)  BY <2>1, <1>2, <1>3, <1>4 DEF ArgOk
  <2>3. QED  BY <2>1, <2>2, <1>4 DEF JobOk, JobShape
<1>9. QED  BY <1>5, <1>8, JobStep DEF RefundSubscriptionPreConsume

\* The list of rows whose reset is due.
LEMMA ResetListOk ==
  ASSUME IInv, NEW rows
  PROVE  TaskShape(ResetList(rows)) /\ ResetList(rows).pc = "reset"
<1> PICK todo : todo = {i \in Ids : rows[i].status = "active" /\ rows[i].next \in 1 .. clock}
  OBVIOUS
<1> PICK s : s = [Nothing EXCEPT !.now = clock]  OBVIOUS
<1> PICK t : t = ResetList(rows)  OBVIOUS
<1>1. t = [pc |-> "reset", todo |-> todo, cur |-> 0, saw |-> s, stale |-> FALSE]
  BY DEF ResetList, TaskIdle
<1>2. clock \in 0 .. MaxTime /\ clock \in Nat /\ clock <= clock  BY Bounds DEF IInv
<1>3. SawOk(Nothing)  BY <1>2, EmptyReads
<1>4. SawOk(s)  BY <1>2, <1>3 DEF SawOk
<1>5. QED  BY <1>1, <1>4, Bounds DEF TaskShape, TaskPcs

\* A pass of the maintenance task starts.
LEMMA StartPassInv == ASSUME IInv, StartPass PROVE IInv'
<1> PICK t : t = task'  OBVIOUS
<1> PICK s : s = Snapshot(None)  OBVIOUS
<1>1. CASE t = [TaskIdle EXCEPT !.pc = "expire", !.saw = s]
  <2>1. t = [pc |-> "expire", todo |-> {}, cur |-> 0, saw |-> s, stale |-> FALSE]
    BY <1>1 DEF TaskIdle
  <2>2. SawOk(s) /\ Current(s)  BY SnapshotOk
  <2>3. TaskOk(t)  BY <2>1, <2>2, Bounds DEF TaskOk, TaskShape, TaskPcs
  <2>4. QED  BY <2>3, TaskStep DEF StartPass
<1>2. CASE t = ResetList(subs)
  <2>1. TaskOk(t)  BY <1>2, ResetListOk DEF TaskOk
  <2>2. QED  BY <2>1, TaskStep DEF StartPass
<1>3. QED  BY <1>1, <1>2 DEF StartPass

\* It ends.
LEMMA EndPassInv == ASSUME IInv, EndPass PROVE IInv'
BY IdleOk, TaskStep DEF EndPass

\* It reads the next row to reset.
LEMMA ResetReadInv == ASSUME IInv, NEW i \in Ids, ResetRead(i) PROVE IInv'
<1> PICK t : t = task'  OBVIOUS
<1> PICK old : old = task  OBVIOUS
<1>0. TaskShape(old) /\ old.pc = "reset" /\ SawOk(old.saw)
  BY DEF IInv, TaskOk, ResetRead, TaskShape
<1>1. CASE t = [old EXCEPT !.pc = "save", !.todo = @ \ {i}, !.cur = i, !.stale = FALSE,
                !.saw.subs = subs]
  <2> PICK s : s = [old.saw EXCEPT !.subs = subs]  OBVIOUS
  <2>1. t = [pc |-> "save", todo |-> old.todo \ {i}, cur |-> i, saw |-> s, stale |-> FALSE]
    BY <1>0, <1>1 DEF TaskShape
  <2>2. SawOk(s) /\ s.subs = subs  BY <1>0 DEF SawOk, IInv
  <2>3. old.todo \ {i} \in SUBSET Ids  BY <1>0 DEF TaskShape
  <2>4. i \in 0 .. MaxSubs  BY Bounds DEF Ids
  <2>5. TaskOk(t)
    <3>1. /\ t \in [pc : TaskPcs, todo : SUBSET Ids, cur : 0 .. MaxSubs, saw : {t.saw},
                    stale : {t.stale}]
          /\ t.pc = "save" /\ t.cur = i /\ t.saw = s
      BY <2>1, <2>3, <2>4 DEF TaskPcs
    <3>2. QED  BY <3>1, <2>2 DEF TaskOk, TaskShape
  <2>6. QED  BY <2>5, TaskStep DEF ResetRead
<1>2. CASE t = [old EXCEPT !.todo = @ \ {i}]
  <2>1. t = [pc |-> "reset", todo |-> old.todo \ {i}, cur |-> old.cur, saw |-> old.saw,
             stale |-> old.stale]
    BY <1>0, <1>2 DEF TaskShape
  <2>2. old.todo \ {i} \in SUBSET Ids /\ old.cur \in 0 .. MaxSubs  BY <1>0 DEF TaskShape
  <2>3. TaskOk(t)  BY <1>0, <2>1, <2>2 DEF TaskOk, TaskShape, TaskPcs
  <2>4. QED  BY <2>3, TaskStep DEF ResetRead
<1>3. QED  BY <1>1, <1>2 DEF ResetRead

-----------------------------------------------------------------------------
(* Orderly steps                                                           *)

\* What was cancelled or deleted stays so in a step that overlaps with none.
Ended == {"cancelled", "deleted"}
Stays == ~raced' => \A i \in Ids : subs[i].status \in Ended => subs'[i].status \in Ended

OfPlan(s, p) == {i \in Ids : s[i].plan = p}

\* The rows of a plan are finitely many.
LEMMA FewerRows ==
  ASSUME NEW s, NEW p
  PROVE  /\ IsFiniteSet(OfPlan(s, p)) /\ Cardinality(OfPlan(s, p)) \in Nat
         /\ \A T \in SUBSET OfPlan(s, p) : Cardinality(T) <= Cardinality(OfPlan(s, p))
<1>1. IsFiniteSet(Ids)  BY Bounds, FS_Interval DEF Ids
<1>2. IsFiniteSet(OfPlan(s, p))  BY <1>1, FS_Subset DEF OfPlan
<1>3. QED  BY <1>2, FS_Subset, FS_CardinalityType

\* The plans of rows stay, or the rows go.
LEMMA LimitStays ==
  ASSUME LimitKept, \A i \in Ids : subs'[i].plan = subs[i].plan \/ subs'[i].plan = None
  PROVE  LimitKept'
<1>1. ASSUME NEW p \in Plans, PlanInfo[p].limit > 0
      PROVE  Cardinality(OfPlan(subs', p)) <= PlanInfo[p].limit
  <2>1. None \notin Plans /\ PlanInfo[p].limit \in Nat  BY LedgerAssumption
  <2>2. OfPlan(subs', p) \in SUBSET OfPlan(subs, p)  BY <2>1 DEF OfPlan
  <2>3. Cardinality(OfPlan(subs', p)) <= Cardinality(OfPlan(subs, p))  BY <2>2, FewerRows
  <2>4. Cardinality(OfPlan(subs, p)) <= PlanInfo[p].limit  BY <1>1 DEF LimitKept, OfPlan
  <2>5. Cardinality(OfPlan(subs, p)) \in Nat /\ Cardinality(OfPlan(subs', p)) \in Nat  BY FewerRows
  <2>6. QED  BY <2>1, <2>3, <2>4, <2>5
<1>2. QED  BY <1>1 DEF LimitKept, OfPlan

\* Rows that keep status, plan and end.
LEMMA SameRows ==
  ASSUME Orderly, UNCHANGED <<clock, group, wallet>>,
         \A i \in Ids : /\ subs'[i].status = subs[i].status /\ subs'[i].plan = subs[i].plan
                        /\ subs'[i].end = subs[i].end
  PROVE  Orderly'
<1>1. LimitKept'  BY LimitStays DEF Orderly
<1>2. OneUpgradeGroup => GroupHeld'  BY DEF Orderly, GroupHeld, Active, Info
<1>3. QED  BY <1>1, <1>2 DEF Orderly

\* A row ends, and the group falls back when no other one holds it.
LEMMA EndRow ==
  ASSUME Orderly, NEW saw, saw.subs = subs, saw.group = group, saw.now \in Nat, saw.now <= clock,
         clock \in Nat, RowsOk(subs), UNCHANGED <<clock, wallet>>, NEW but,
         NEW g, SetGroup(saw, g), KeepsGroup(saw, saw.now, but) => g = saw.group,
         \A k \in Ids : subs'[k].status = "active" => k # but /\ subs'[k] = subs[k],
         \A k \in Ids : subs'[k].plan = subs[k].plan \/ subs'[k].plan = None
  PROVE  Orderly'
<1>1. LimitKept' /\ wallet' >= 0  BY LimitStays DEF Orderly
<1>2. ASSUME OneUpgradeGroup, NEW k \in Ids, subs'[k].status = "active",
             subs'[k].end > clock', Info(subs'[k]).up # ""
      PROVE  group' = Info(subs'[k]).up
  <2>1. k # but /\ subs'[k] = subs[k]  BY <1>2
  <2>2. subs[k].end \in Nat /\ subs[k].end > clock /\ subs[k].status = "active"
    BY <1>2, <2>1 DEF RowsOk, RowOk, IsRow
  <2>3. Active(subs[k], clock) /\ Active(saw.subs[k], saw.now)  BY <2>2 DEF Active
  <2>4. KeepsGroup(saw, saw.now, but)  BY <1>2, <2>1, <2>3 DEF KeepsGroup
  <2>5. group' = group  BY <2>4 DEF SetGroup
  <2>6. group = Info(subs[k]).up  BY <1>2, <2>1, <2>3 DEF Orderly, GroupHeld
  <2>7. QED  BY <2>1, <2>5, <2>6
<1>3. OneUpgradeGroup => GroupHeld'  BY <1>2 DEF GroupHeld, Active, Info
<1>4. QED  BY <1>1, <1>3 DEF Orderly

-----------------------------------------------------------------------------
(* Quota that is settled or given back                                     *)

\* max(0, n).
LEMMA MaxZero == ASSUME NEW n \in Int PROVE Max({0, n}) \in Nat /\ Max({0, n}) >= n
<1>1. \E x \in {0, n} : \A y \in {0, n} : x >= y
  <2>1. CASE n >= 0  BY <2>1
  <2>2. CASE ~(n >= 0)  BY <2>2
  <2>3. QED  BY <2>1, <2>2
<1>2. Max({0, n}) \in {0, n} /\ \A y \in {0, n} : Max({0, n}) >= y  BY <1>1 DEF Max
<1>3. QED  BY <1>2

\* What a transaction that is open has read.
LEMMA ReadRows ==
  ASSUME IInv, NEW w \in Workers
  PROVE  /\ JobShape(job[w]) /\ RowsOk(job[w].saw.subs) /\ RecordOk(job[w].saw.record)
         /\ job[w].saw.now \in 0 .. MaxTime /\ job[w].saw.now <= clock /\ job[w].saw.wallet \in Int
         /\ job[w].pc \in {"tx", "credit"} /\ ~job[w].stale => Current(job[w].saw)
BY DEF IInv, JobOk, JobShape, SawOk

\* PostConsumeUserSubscriptionDelta.
LEMMA PostConsumeInv ==
  ASSUME IInv, NEW w \in Workers, NEW i \in Ids, NEW delta \in Int, NEW next,
         PostConsume(w, i, delta, next), JobShape(next), next.pc \in {"idle", "mark"},
         job[w].pc \in {"tx", "credit"}
  PROVE  IInv' /\ Stays
<1> PICK row : row = job[w].saw.subs[i]  OBVIOUS
<1> PICK used : used = Used(row, delta)  OBVIOUS
<1> PICK new : new = [row EXCEPT !.used = used]  OBVIOUS
<1>1. RowOk(row)  BY ReadRows DEF RowsOk
<1>2. used \in Nat
  <2>1. row.used + delta \in Int  BY <1>1 DEF RowOk, IsRow
  <2>2. QED  BY <2>1, MaxZero DEF Used
<1>3. subs' = [subs EXCEPT ![i] = new] /\ (Info(row).total > 0 => used <= Info(row).total)
  BY DEF PostConsume
<1>4. RowOk(new) /\ new.status = row.status /\ new.plan = row.plan /\ new.end = row.end
  BY <1>1, <1>2, <1>3, UsedRow
<1>5. RowsOk(subs)  BY DEF IInv
<1>6. RowsOk(subs)' /\ subs'[i] = new /\ \A k \in Ids : k # i => subs'[k] = subs[k]
  <2>1. subs' = Replaced(subs, i, new)  BY <1>3 DEF Replaced
  <2>2. QED  BY <1>4, <1>5, <2>1, ReplaceRow
<1>7. ChargesOk' /\ wallet' \in Int  BY DEF PostConsume, userVars, IInv, ChargesOk, RecordOk
<1>8. Commit(w, next)  BY DEF PostConsume
<1>9. ASSUME ~raced, ~job[w].stale
      PROVE  \A k \in Ids : /\ subs'[k].status = subs[k].status /\ subs'[k].plan = subs[k].plan
                            /\ subs'[k].end = subs[k].end
  <2>1. row = subs[i]  BY <1>9, ReadRows DEF Current
  <2>2. QED  BY <1>4, <1>6, <2>1
<1>10. ASSUME ~raced, ~job[w].stale PROVE Orderly'
  <2>1. Orderly  BY <1>10 DEF IInv
  <2>2. UNCHANGED <<clock, group, wallet>>  BY <1>8 DEF Commit, PostConsume, userVars
  <2>3. QED  BY <1>9, <1>10, <2>1, <2>2, SameRows
<1>11. IInv'  BY <1>6, <1>7, <1>8, <1>10, CommitInv
<1>12. ASSUME ~raced' PROVE ~raced /\ ~job[w].stale  BY <1>8, <1>12, Zenon DEF Commit
<1>13. Stays  BY <1>9, <1>12 DEF Stays
<1>14. QED  BY <1>11, <1>13

\* The settlement of a request.
LEMMA SettleInv == ASSUME IInv, NEW w \in Workers, Settle(w) PROVE IInv' /\ Stays
<1> PICK i : i = job[w].saw.record.sub  OBVIOUS
<1> PICK delta : delta = job[w].amt  OBVIOUS
<1>1. i \in Ids /\ delta \in Int /\ job[w].pc = "tx"
  BY ReadRows DEF Settle, In, JobShape, RecordOk
<1>2. PostConsume(w, i, delta, Idle)  BY DEF Settle
<1>3. JobShape(Idle) /\ Idle.pc = "idle"  BY IdleOk, EmptyReads, Bounds DEF IInv
<1>4. QED  BY <1>1, <1>2, <1>3, PostConsumeInv

\* The credit of a refund.
LEMMA RefundCreditInv == ASSUME IInv, NEW w \in Workers, RefundCredit(w) PROVE IInv' /\ Stays
<1> PICK j : j = job[w]  OBVIOUS
<1> PICK i : i = j.saw.record.sub  OBVIOUS
<1> PICK delta : delta = - j.saw.record.pre  OBVIOUS
<1> PICK next : next = [j EXCEPT !.pc = "mark"]  OBVIOUS
<1>0. j.pc = "credit" /\ JobShape(j) /\ RecordOk(j.saw.record)  BY ReadRows DEF RefundCredit
<1>1. i \in Ids /\ delta \in Int  BY <1>0 DEF JobShape, ArgOk, RecordOk
<1>2. PostConsume(w, i, delta, next)  BY DEF RefundCredit
<1>3. /\ next \in [pc : JobPcs, op : JobOps, arg : {next.arg}, amt : Int, saw : {next.saw},
                   stale : {next.stale}]
      /\ next.pc = "mark" /\ next.arg = j.arg /\ next.saw = j.saw
  BY <1>0 DEF JobShape, JobPcs
<1>4. ArgOk(next)  BY <1>0, <1>3 DEF ArgOk, JobShape
<1>5. JobShape(next)  BY <1>0, <1>3, <1>4 DEF JobShape
<1>6. job[w].pc \in {"tx", "credit"}  BY <1>0
<1>7. QED  BY <1>1, <1>2, <1>3, <1>5, <1>6, PostConsumeInv

\* The record is marked as refunded.
LEMMA RefundMarkInv == ASSUME IInv, NEW w \in Workers, RefundMark(w) PROVE IInv' /\ Stays
<1> PICK r : r = job[w].arg  OBVIOUS
<1> PICK rec : rec = [records[r] EXCEPT !.status = "refunded"]  OBVIOUS
<1>1. r \in Requests  BY ReadRows DEF RefundMark, JobShape, ArgOk
<1>2. RecordOk(records[r]) /\ ChargesOk  BY <1>1 DEF IInv, ChargesOk
<1>3. RecordOk(rec) /\ rec.status = "refunded"  BY <1>2 DEF RecordOk
<1>4. records' = [records EXCEPT ![r] = rec]  BY DEF RefundMark
<1>5. UNCHANGED <<subs, group, wallet, charges>> /\ Commit(w, Idle)  BY DEF RefundMark
<1>6. ChargesOk'
  <2>1. records' = [q \in Requests |-> records'[q]]  BY <1>2, <1>4 DEF ChargesOk
  <2>2. ASSUME NEW q \in Requests
        PROVE  RecordOk(records'[q]) /\ (records'[q].status = "none" => charges'[q] = 0)
    <3>1. CASE q = r  BY <1>1, <1>2, <1>3, <1>4, <3>1 DEF ChargesOk
    <3>2. CASE q # r  BY <1>2, <1>4, <1>5, <3>2 DEF ChargesOk
    <3>3. QED  BY <3>1, <3>2
  <2>3. QED  BY <1>2, <1>5, <2>1, <2>2 DEF ChargesOk, RecordOk
<1>7. RowsOk(subs)' /\ wallet' \in Int  BY <1>5 DEF IInv, RowsOk, RowOk, IsRow
<1>8. ASSUME ~raced, ~job[w].stale PROVE Orderly'
  <2>1. Orderly  BY <1>8 DEF IInv
  <2>2. QED  BY <1>5, <2>1, SameRows DEF Commit
<1>9. JobShape(Idle) /\ Idle.pc = "idle"  BY IdleOk, EmptyReads, Bounds DEF IInv
<1>10. IInv'  BY <1>5, <1>6, <1>7, <1>8, <1>9, CommitInv
<1>11. Stays  BY <1>5 DEF Stays
<1>12. QED  BY <1>10, <1>11

-----------------------------------------------------------------------------
(* The end of a subscription, and the maintenance task                     *)

\* One that ends in a transaction of w.
LEMMA EndInv ==
  ASSUME IInv, NEW w \in Workers, NEW i \in Ids, NEW saw, saw = job[w].saw, job[w].pc = "tx",
         RowsOk(subs)', \A k \in Ids : k # i => subs'[k] = subs[k],
         subs'[i].status \in {"none"} \cup Ended,
         subs[i].status \in Ended => subs'[i].status \in Ended,
         subs'[i].plan = subs[i].plan \/ subs'[i].plan = None,
         SetGroup(saw, Downgrade(saw, i)), UNCHANGED <<wallet, records, charges>>, Commit(w, Idle)
  PROVE  IInv' /\ Stays
<1> PICK g : g = Downgrade(saw, i)  OBVIOUS
<1>1. JobShape(Idle) /\ Idle.pc = "idle"  BY EmptyReads, Bounds DEF IInv
<1>2. ChargesOk' /\ wallet' \in Int  BY DEF IInv, ChargesOk, RecordOk
<1>3. ASSUME ~raced, ~job[w].stale PROVE Orderly'
  <2>1. Orderly /\ RowsOk(subs) /\ clock \in Nat  BY <1>3, Bounds DEF IInv
  <2>2. saw.subs = subs /\ saw.group = group /\ saw.now \in Nat /\ saw.now <= clock
    BY <1>3, ReadRows, Bounds DEF Current
  <2>3. SetGroup(saw, g) /\ (KeepsGroup(saw, saw.now, i) => g = saw.group)  BY DEF Downgrade
  <2>4. \A k \in Ids : subs'[k].status = "active" => k # i /\ subs'[k] = subs[k]  BY DEF Ended
  <2>5. \A k \in Ids : subs'[k].plan = subs[k].plan \/ subs'[k].plan = None  OBVIOUS
  <2>6. UNCHANGED <<clock, wallet>>  BY DEF Commit
  <2>7. QED  BY <2>1, <2>2, <2>3, <2>4, <2>5, <2>6, EndRow
<1>4. IInv'  BY <1>1, <1>2, <1>3, CommitInv
<1>5. Stays  BY DEF Stays
<1>6. QED  BY <1>4, <1>5

\* Status and end are updated.
Cancelled(row, now) == [row EXCEPT !.status = "cancelled", !.end = now]

\* The rest of the row stays.
LEMMA CancelledRow ==
  ASSUME NEW row, RowOk(row), Exists(row), NEW now \in Nat
  PROVE  LET new == Cancelled(row, now)
         IN  RowOk(new) /\ new.status = "cancelled" /\ new.plan = row.plan
<1> PICK a : a = [row EXCEPT !.status = "cancelled"]  OBVIOUS
<1> PICK b : b = Cancelled(row, now)  OBVIOUS
<1>1. IsRow(row) /\ "cancelled" \in Statuses  BY DEF RowOk, IsRow, Statuses
<1>2. IsRow(a) /\ a.status = "cancelled" /\ a.plan = row.plan /\ a.used = row.used
  BY <1>1, StatusColumn
<1>3. b = [a EXCEPT !.end = now]  BY DEF Cancelled
<1>4. IsRow(b) /\ b.status = "cancelled" /\ b.plan = row.plan /\ b.used = row.used
  BY <1>2, <1>3 DEF IsRow
<1>5. RowOk(b)  BY <1>4 DEF RowOk, IsRow, Info
<1>6. QED  BY <1>4, <1>5

\* AdminInvalidateUserSubscription.
LEMMA InvalidateInv ==
  ASSUME IInv, NEW w \in Workers, AdminInvalidateUserSubscription(w) PROVE IInv' /\ Stays
<1> PICK i : i = job[w].arg  OBVIOUS
<1> PICK saw : saw = job[w].saw  OBVIOUS
<1>1. i \in Ids /\ job[w].pc = "tx"
  BY ReadRows DEF AdminInvalidateUserSubscription, In, JobShape, ArgOk
<1>2. RowsOk(subs) /\ RowOk(subs[i]) /\ saw.now \in Nat
  <2>1. RowsOk(subs)  BY DEF IInv
  <2>2. saw.now \in 0 .. MaxTime  BY ReadRows
  <2>3. QED  BY <1>1, <2>1, <2>2, Bounds DEF RowsOk
<1>3. /\ RowsOk(subs)' /\ \A k \in Ids : k # i => subs'[k] = subs[k]
      /\ subs'[i].status \in {"none"} \cup Ended
      /\ subs[i].status \in Ended => subs'[i].status \in Ended
      /\ subs'[i].plan = subs[i].plan
  <2>1. CASE ~Exists(subs[i])
    <3>1. subs' = subs  BY <2>1 DEF AdminInvalidateUserSubscription
    <3>2. QED  BY <1>2, <2>1, <3>1 DEF Exists, Ended
  <2>2. CASE Exists(subs[i])
    <3> PICK b : b = Cancelled(subs[i], saw.now)  OBVIOUS
    <3>1. RowOk(b) /\ b.status = "cancelled" /\ b.plan = subs[i].plan
      BY <1>2, <2>2, CancelledRow
    <3>2. subs' = [subs EXCEPT ![i].status = "cancelled", ![i].end = saw.now]
      BY <2>2 DEF AdminInvalidateUserSubscription
    <3>3. subs' = Replaced(subs, i, b)  BY <1>1, <1>2, <3>2 DEF Replaced, Cancelled, RowsOk
    <3>4. RowsOk(subs)' /\ subs'[i] = b /\ \A k \in Ids : k # i => subs'[k] = subs[k]
      BY <1>1, <1>2, <3>1, <3>3, ReplaceRow
    <3>5. QED  BY <3>1, <3>4 DEF Ended
  <2>3. QED  BY <2>1, <2>2
<1>4. /\ SetGroup(saw, Downgrade(saw, i)) /\ UNCHANGED <<wallet, records, charges>>
      /\ Commit(w, Idle)
  BY DEF AdminInvalidateUserSubscription
<1>5. QED  BY <1>1, <1>3, <1>4, EndInv

\* AdminDeleteUserSubscription.
LEMMA DeleteInv ==
  ASSUME IInv, NEW w \in Workers, AdminDeleteUserSubscription(w) PROVE IInv' /\ Stays
<1> PICK i : i = job[w].arg  OBVIOUS
<1> PICK saw : saw = job[w].saw  OBVIOUS
<1>1. i \in Ids /\ job[w].pc = "tx"
  BY ReadRows DEF AdminDeleteUserSubscription, In, JobShape, ArgOk
<1>2. RowsOk(subs)  BY DEF IInv
<1>3. /\ RowsOk(subs)' /\ \A k \in Ids : k # i => subs'[k] = subs[k]
      /\ subs'[i].status \in Ended /\ subs'[i].plan = None
  <2>1. subs' = Replaced(subs, i, Gone)  BY DEF AdminDeleteUserSubscription, Replaced
  <2>2. QED  BY <1>1, <1>2, <2>1, EmptyRows, ReplaceRow DEF Ended
<1>4. /\ SetGroup(saw, Downgrade(saw, i)) /\ UNCHANGED <<wallet, records, charges>>
      /\ Commit(w, Idle)
  BY DEF AdminDeleteUserSubscription
<1>5. QED  BY <1>1, <1>3, <1>4, EndInv

\* The due rows expire.
Expired(row, now) ==
  IF row.status = "active" /\ row.end <= now THEN [row EXCEPT !.status = "expired"] ELSE row

\* Rows that are not due stay.
LEMMA ExpiredRow ==
  ASSUME NEW row, RowOk(row), NEW now
  PROVE  LET new == Expired(row, now)
         IN  /\ RowOk(new) /\ new.plan = row.plan
             /\ new.status = "active" => new = row /\ ~(row.end <= now)
             /\ row.status \in Ended => new = row
<1>1. CASE row.status = "active" /\ row.end <= now
  <2> PICK new : new = [row EXCEPT !.status = "expired"]  OBVIOUS
  <2>1. IsRow(row) /\ "expired" \in Statuses  BY DEF RowOk, IsRow, Statuses
  <2>2. IsRow(new) /\ new.status = "expired" /\ new.plan = row.plan /\ new.used = row.used
    BY <2>1, StatusColumn
  <2>3. Exists(row)  BY <1>1 DEF Exists
  <2>4. RowOk(new)  BY <2>2, <2>3 DEF RowOk, IsRow, Info
  <2>5. QED  BY <1>1, <2>2, <2>4 DEF Expired, Ended
<1>2. CASE ~(row.status = "active" /\ row.end <= now)  BY <1>2 DEF Expired
<1>3. QED  BY <1>1, <1>2

\* The transaction of ExpireDueSubscriptions.
LEMMA ExpireInv == ASSUME IInv, ExpireDueSubscriptions PROVE IInv' /\ Stays
<1> PICK saw : saw = task.saw  OBVIOUS
<1> PICK next : next = ResetList(subs')  OBVIOUS
<1>0. SawOk(saw) /\ (~task.stale => Current(saw)) /\ RowsOk(subs) /\ clock \in Nat
  <2>1. TaskOk(task) /\ RowsOk(subs) /\ clock \in Nat  BY Bounds DEF IInv
  <2>2. task.pc = "expire"  BY DEF ExpireDueSubscriptions
  <2>3. QED  BY <2>1, <2>2 DEF TaskOk, TaskShape
<1>1. subs' = [i \in Ids |-> Expired(subs[i], saw.now)]  BY DEF ExpireDueSubscriptions, Expired
<1>2. \A i \in Ids : /\ RowOk(subs'[i]) /\ subs'[i].plan = subs[i].plan
                     /\ subs'[i].status = "active" => subs'[i] = subs[i]
                     /\ subs[i].status \in Ended => subs'[i] = subs[i]
  BY <1>0, <1>1, ExpiredRow DEF RowsOk
<1>3. RowsOk(subs)'  BY <1>1, <1>2 DEF RowsOk
<1>4. PICK g : SetGroup(saw, g) /\ (KeepsGroup(saw, saw.now, 0) => g = saw.group)
  BY DEF ExpireDueSubscriptions
<1>5. UNCHANGED <<wallet, records, charges>> /\ TaskCommit(next)  BY DEF ExpireDueSubscriptions
<1>6. TaskShape(next) /\ next.pc = "reset"  BY ResetListOk
<1>7. ChargesOk' /\ wallet' \in Int  BY <1>5 DEF IInv, ChargesOk, RecordOk
<1>8. ASSUME ~raced, ~task.stale PROVE Orderly'
  <2>1. Orderly  BY <1>8 DEF IInv
  <2>2. saw.subs = subs /\ saw.group = group /\ saw.now \in Nat /\ saw.now <= clock
    BY <1>0, <1>8, Bounds DEF Current, SawOk
  <2>3. \A k \in Ids : subs'[k].status = "active" => k # 0 /\ subs'[k] = subs[k]
    BY <1>2, Bounds DEF Ids
  <2>4. \A k \in Ids : subs'[k].plan = subs[k].plan \/ subs'[k].plan = None  BY <1>2
  <2>5. UNCHANGED <<clock, wallet>>  BY <1>5 DEF TaskCommit
  <2>6. QED  BY <1>0, <1>4, <2>1, <2>2, <2>3, <2>4, <2>5, EndRow
<1>9. IInv'  BY <1>3, <1>5, <1>6, <1>7, <1>8, TaskCommitInv
<1>10. Stays  BY <1>2 DEF Stays
<1>11. QED  BY <1>9, <1>10

\* The transaction of ResetDueSubscriptions.
LEMMA ResetSaveInv == ASSUME IInv, ResetSave PROVE IInv' /\ Stays
<1> PICK t : t = task  OBVIOUS
<1> PICK saw : saw = t.saw  OBVIOUS
<1> PICK i : i = t.cur  OBVIOUS
<1> PICK new : new = MaybeReset(saw.subs[i], saw.now)  OBVIOUS
<1> PICK next : next = [t EXCEPT !.pc = "reset", !.cur = 0, !.saw.subs = Nothing.subs]  OBVIOUS
<1>0. /\ TaskShape(t) /\ SawOk(saw) /\ (~t.stale => saw.subs = subs) /\ RowsOk(subs)
      /\ clock \in Nat /\ i \in Ids
  BY Bounds DEF IInv, TaskOk, TaskShape, ResetSave
<1>1. RowOk(saw.subs[i])  BY <1>0 DEF SawOk, RowsOk
<1>2. /\ RowOk(new) /\ new.status = saw.subs[i].status /\ new.plan = saw.subs[i].plan
      /\ new.end = saw.subs[i].end
  BY <1>1, ResetRow
<1>3. subs' = Replaced(subs, i, new)  BY DEF ResetSave, Replaced
<1>4. RowsOk(subs)' /\ subs'[i] = new /\ \A k \in Ids : k # i => subs'[k] = subs[k]
  BY <1>0, <1>2, <1>3, ReplaceRow
<1>5. UNCHANGED userVars /\ TaskCommit(next)  BY DEF ResetSave
<1>6. TaskShape(next) /\ next.pc = "reset"
  <2> PICK s : s = [saw EXCEPT !.subs = Nothing.subs]  OBVIOUS
  <2>1. next = [pc |-> "reset", todo |-> t.todo, cur |-> 0, saw |-> s, stale |-> t.stale]
    BY <1>0 DEF TaskShape
  <2>2. RowsOk(Nothing.subs)  BY <1>0, EmptyReads DEF SawOk
  <2>3. SawOk(s)  BY <1>0, <2>2 DEF SawOk
  <2>4. t.todo \in SUBSET Ids /\ 0 \in 0 .. MaxSubs  BY <1>0, Bounds DEF TaskShape
  <2>5. QED  BY <2>1, <2>3, <2>4 DEF TaskShape, TaskPcs
<1>7. ChargesOk' /\ wallet' \in Int  BY <1>5 DEF IInv, ChargesOk, RecordOk, userVars
<1>8. ASSUME ~raced, ~task.stale
      PROVE  \A k \in Ids : /\ subs'[k].status = subs[k].status /\ subs'[k].plan = subs[k].plan
                            /\ subs'[k].end = subs[k].end
  BY <1>0, <1>2, <1>4, <1>8
<1>9. ASSUME ~raced, ~task.stale PROVE Orderly'
  <2>1. Orderly  BY <1>9 DEF IInv
  <2>2. UNCHANGED <<clock, group, wallet>>  BY <1>5 DEF TaskCommit, userVars
  <2>3. QED  BY <1>8, <1>9, <2>1, <2>2, SameRows
<1>10. IInv'  BY <1>4, <1>5, <1>6, <1>7, <1>9, TaskCommitInv
<1>11. ASSUME ~raced' PROVE ~raced /\ ~task.stale  BY <1>5, <1>11, Zenon DEF TaskCommit
<1>12. Stays  BY <1>8, <1>11 DEF Stays
<1>13. QED  BY <1>10, <1>12

-----------------------------------------------------------------------------
(* Purchases                                                               *)

\* Numbers against a limit.
LEMMA Room ==
  /\ \A a, b, c \in Nat : b <= a + 1 /\ a < c => b <= c
  /\ \A a, b, c \in Nat : b <= a /\ a <= c => b <= c
  /\ \A a \in Int, p \in Nat : a - p \in Int /\ (a >= 0 /\ (p = 0 \/ a >= p) => a - p >= 0)
OBVIOUS

\* A row that is added to those of a plan.
LEMMA OneMore ==
  ASSUME NEW s, NEW t, NEW p, NEW i \in Ids, \A k \in Ids : k # i => t[k] = s[k]
  PROVE  Cardinality(OfPlan(t, p)) <= Cardinality(OfPlan(s, p)) + 1
<1>1. OfPlan(t, p) \subseteq OfPlan(s, p) \cup {i}  BY DEF OfPlan
<1>2. IsFiniteSet(OfPlan(s, p)) /\ Cardinality(OfPlan(s, p)) \in Nat  BY FewerRows
<1>3. /\ IsFiniteSet(OfPlan(s, p) \cup {i})
      /\ Cardinality(OfPlan(s, p) \cup {i}) <= Cardinality(OfPlan(s, p)) + 1
  BY <1>2, FS_AddElement
<1>4. Cardinality(OfPlan(t, p)) <= Cardinality(OfPlan(s, p) \cup {i})  BY <1>1, <1>3, FS_Subset
<1>5. Cardinality(OfPlan(s, p) \cup {i}) \in Nat /\ Cardinality(OfPlan(t, p)) \in Nat
  BY <1>3, FS_CardinalityType, FewerRows
<1>6. QED  BY <1>2, <1>3, <1>4, <1>5

\* The row of a new subscription.
NewRow(plan, now, end, last, next, prev) ==
  [status |-> "active", plan |-> plan, used |-> 0, start |-> now, end |-> end, last |-> last,
   next |-> next, prev |-> prev]

\* It has used nothing yet.
LEMMA NewRowOk ==
  ASSUME NEW plan \in Plans, NEW now, NEW end \in Nat, NEW last, NEW next, NEW prev
  PROVE  LET row == NewRow(plan, now, end, last, next, prev)
         IN  RowOk(row) /\ row.status = "active" /\ row.plan = plan
<1>1. PlanInfo[plan].total \in Nat  BY LedgerAssumption
<1>2. QED  BY <1>1 DEF NewRow, RowOk, IsRow, Exists, Info, Statuses

\* Limit, group and balance, when the purchase overlaps with no other transaction.
LEMMA OrderlyPurchase ==
  ASSUME Orderly, RowsOk(subs), clock \in Nat, wallet \in Int, NEW plan \in Plans, NEW i \in Ids,
         NEW row,
         row.plan = plan, RowsOk(subs)', subs'[i] = row, \A k \in Ids : k # i => subs'[k] = subs[k],
         PlanInfo[plan].limit > 0 => Cardinality(OfPlan(subs, plan)) < PlanInfo[plan].limit,
         group' = IF PlanInfo[plan].up # "" /\ group # PlanInfo[plan].up
                  THEN PlanInfo[plan].up ELSE group,
         NEW pays \in Nat, wallet' = wallet - pays, pays = 0 \/ wallet >= pays, clock' = clock
  PROVE  Orderly'
<1>1. ASSUME NEW p \in Plans, PlanInfo[p].limit > 0
      PROVE  Cardinality(OfPlan(subs', p)) <= PlanInfo[p].limit
  <2>0. PlanInfo[p].limit \in Nat  BY LedgerAssumption
  <2>1. Cardinality(OfPlan(subs, p)) \in Nat /\ Cardinality(OfPlan(subs', p)) \in Nat  BY FewerRows
  <2>2. CASE p = plan
    <3>1. Cardinality(OfPlan(subs', p)) <= Cardinality(OfPlan(subs, p)) + 1  BY OneMore
    <3>2. QED  BY <1>1, <2>0, <2>1, <2>2, <3>1, Room
  <2>3. CASE p # plan
    <3>1. OfPlan(subs', p) \in SUBSET OfPlan(subs, p)  BY <2>3 DEF OfPlan
    <3>2. Cardinality(OfPlan(subs', p)) <= Cardinality(OfPlan(subs, p))  BY <3>1, FewerRows
    <3>3. Cardinality(OfPlan(subs, p)) <= PlanInfo[p].limit
      BY <1>1 DEF Orderly, LimitKept, OfPlan
    <3>4. QED  BY <2>0, <2>1, <3>2, <3>3, Room
  <2>4. QED  BY <2>2, <2>3
<1>2. LimitKept'  BY <1>1 DEF LimitKept, OfPlan
<1>3. ASSUME OneUpgradeGroup, NEW k \in Ids, subs'[k].status = "active",
             subs'[k].end > clock', Info(subs'[k]).up # ""
      PROVE  group' = Info(subs'[k]).up
  <2>1. CASE k = i  BY <1>3, <2>1 DEF Info
  <2>2. CASE k # i
    <3>1. subs'[k] = subs[k]  BY <2>2
    <3>2. Active(subs[k], clock) /\ Info(subs[k]).up # ""  BY <1>3, <3>1 DEF Active
    <3>3. group = Info(subs[k]).up  BY <1>3, <3>2 DEF Orderly, GroupHeld
    <3>4. subs[k].plan \in Plans  BY <1>3, <3>1 DEF RowsOk, RowOk, IsRow, Exists
    <3>5. PlanInfo[plan].up # "" => PlanInfo[plan].up = Info(subs[k]).up
      BY <1>3, <3>2, <3>4 DEF Info, OneUpgradeGroup
    <3>6. QED  BY <3>1, <3>3, <3>5
  <2>3. QED  BY <2>1, <2>2
<1>4. OneUpgradeGroup => GroupHeld'  BY <1>3 DEF GroupHeld, Active, Info
<1>5. wallet' >= 0  BY Room DEF Orderly
<1>6. QED  BY <1>2, <1>4, <1>5 DEF Orderly

\* CreateUserSubscriptionFromPlanTx.
LEMMA CreateInv ==
  ASSUME IInv, NEW w \in Workers, job[w].pc = "tx", NEW plan \in Plans, NEW pays \in Nat,
         pays = 0 \/ job[w].saw.wallet >= pays, CreateUserSubscription(w, plan, pays)
  PROVE  IInv' /\ Stays
<1> PICK saw : saw = job[w].saw  OBVIOUS
<1> PICK end : end = saw.now + PlanInfo[plan].duration  OBVIOUS
<1>0. RowsOk(subs) /\ clock \in Nat /\ wallet \in Int  BY Bounds DEF IInv
<1>1. end \in Nat
  <2>1. saw.now \in 0 .. MaxTime  BY ReadRows
  <2>2. PlanInfo[plan].duration \in Nat  BY LedgerAssumption
  <2>3. QED  BY <2>1, <2>2, Bounds
<1>2. PICK i \in Ids : /\ NewId(i)
                       /\ \E last, next, prev :
                            subs' = Replaced(subs, i, NewRow(plan, saw.now, end, last, next, prev))
  <2> DEFINE next == NextReset(saw.now, plan, end)
  <2> DEFINE last == IF next > 0 THEN saw.now ELSE 0
  <2> DEFINE prev == IF PlanInfo[plan].up # "" /\ saw.group # PlanInfo[plan].up
                     THEN saw.group ELSE ""
  <2>1. PICK i \in Ids : /\ NewId(i)
                         /\ subs' = Replaced(subs, i, NewRow(plan, saw.now, end, last, next, prev))
    BY Zenon DEF CreateUserSubscription, Replaced, NewRow
  <2> HIDE DEF next, last, prev
  <2>2. QED  BY <2>1
<1>3. PICK row : subs' = Replaced(subs, i, row) /\ RowOk(row) /\ row.plan = plan
  BY <1>1, <1>2, NewRowOk
<1>4. RowsOk(subs)' /\ subs'[i] = row /\ \A k \in Ids : k # i => subs'[k] = subs[k]
  BY <1>0, <1>3, ReplaceRow
<1>5. /\ PlanInfo[plan].limit > 0 => Cardinality(OfPlan(saw.subs, plan)) < PlanInfo[plan].limit
      /\ group' = IF PlanInfo[plan].up # "" /\ saw.group # PlanInfo[plan].up
                  THEN PlanInfo[plan].up ELSE group
      /\ wallet' = wallet - pays /\ UNCHANGED <<records, charges>> /\ Commit(w, Idle)
  BY DEF CreateUserSubscription, OfPlan
<1>6. ChargesOk' /\ wallet' \in Int
  <2>1. ChargesOk'  BY <1>5 DEF IInv, ChargesOk, RecordOk
  <2>2. QED  BY <1>0, <1>5, <2>1, Room
<1>7. JobShape(Idle) /\ Idle.pc = "idle"  BY EmptyReads, <1>0
<1>8. ASSUME ~raced, ~job[w].stale PROVE Orderly'
  <2>1. saw.subs = subs /\ saw.group = group /\ saw.wallet = wallet  BY <1>8, ReadRows DEF Current
  <2>2. Orderly  BY <1>8 DEF IInv
  <2>3. clock' = clock  BY <1>5 DEF Commit
  <2>4. QED  BY <1>0, <1>3, <1>4, <1>5, <2>1, <2>2, <2>3, OrderlyPurchase
<1>9. IInv'  BY <1>4, <1>5, <1>6, <1>7, <1>8, CommitInv
<1>10. Stays  BY <1>2, <1>4 DEF Stays, NewId, Ended
<1>11. QED  BY <1>9, <1>10

\* AdminBindSubscription and PurchaseSubscriptionWithBalance.
LEMMA BuyInv ==
  ASSUME IInv, NEW w \in Workers, AdminBindSubscription(w) \/ PurchaseSubscriptionWithBalance(w)
  PROVE  IInv' /\ Stays
<1> PICK plan : plan = job[w].arg  OBVIOUS
<1>1. job[w].pc = "tx" /\ plan \in Plans
  BY ReadRows DEF AdminBindSubscription, PurchaseSubscriptionWithBalance, In, JobShape, ArgOk
<1>2. PlanInfo[plan].price \in Nat  BY <1>1, LedgerAssumption
<1>3. PICK pays \in Nat : /\ CreateUserSubscription(w, plan, pays)
                          /\ pays = 0 \/ job[w].saw.wallet >= pays
  BY <1>2 DEF AdminBindSubscription, PurchaseSubscriptionWithBalance
<1>4. QED  BY <1>1, <1>3, CreateInv

-----------------------------------------------------------------------------
(* Pre-consumption                                                         *)

\* A row after its reset and the charge of amt.
ChargedRow(row, now, amt) == [MaybeReset(row, now) EXCEPT !.used = @ + amt]

\* It fits.
LEMMA ChargedRowOk ==
  ASSUME NEW row, RowOk(row), NEW now, NEW amt \in Nat, Fits(MaybeReset(row, now), amt)
  PROVE  LET new == ChargedRow(row, now, amt)
         IN  RowOk(new) /\ new.status = row.status /\ new.plan = row.plan /\ new.end = row.end
<1> PICK mid : mid = MaybeReset(row, now)  OBVIOUS
<1> PICK n : n = mid.used + amt  OBVIOUS
<1>1. RowOk(mid) /\ mid.status = row.status /\ mid.plan = row.plan /\ mid.end = row.end  BY ResetRow
<1>2. mid.used \in Nat  BY <1>1 DEF RowOk, IsRow
<1>3. n \in Nat  BY <1>2
<1>4. Info(mid).total > 0 => n <= Info(mid).total  BY DEF Fits
<1>5. ChargedRow(row, now, amt) = [mid EXCEPT !.used = n]  BY DEF ChargedRow
<1>6. QED  BY <1>1, <1>3, <1>4, <1>5, UsedRow

\* What a pre-consumption does to the rows and to the records.
LEMMA PreConsumeWrites ==
  ASSUME NEW w \in Workers, PreConsumeUserSubscription(w)
  PROVE  LET saw == job[w].saw  r == job[w].arg IN
         /\ subs' = [i \in Ids |-> subs'[i]]
         /\ \A i \in Ids : \/ subs'[i] = subs[i]
                           \/ subs'[i] = MaybeReset(saw.subs[i], saw.now)
                           \/ /\ Fits(MaybeReset(saw.subs[i], saw.now), job[w].amt)
                              /\ subs'[i] = ChargedRow(saw.subs[i], saw.now, job[w].amt)
         /\ \/ UNCHANGED <<records, charges>>
            \/ /\ records[r].status = "none" /\ charges' = [charges EXCEPT ![r] = @ + 1]
               /\ \E i \in Ids : records' = [records EXCEPT ![r] =
                                   [status |-> "consumed", sub |-> i, pre |-> job[w].amt]]
<1> DEFINE saw == job[w].saw
           r == job[w].arg
           row(i) == MaybeReset(saw.subs[i], saw.now)
           tried == {i \in Ids : Active(saw.subs[i], saw.now)}
           fitting == {i \in tried : Fits(row(i), job[w].amt)}
           before(i, k) == saw.subs[i].end < saw.subs[k].end
                           \/ (saw.subs[i].end = saw.subs[k].end /\ i < k)
           fresh == records[r].status = "none"
           saved(i, k) == i \in tried /\ (before(i, k) \/ (i = k /\ ~fresh)) /\ row(i) # saw.subs[i]
<1>1. PICK charged \in fitting :
        /\ subs' = [i \in Ids |->
             CASE i = charged /\ fresh -> [row(i) EXCEPT !.used = @ + job[w].amt]
               [] saved(i, charged) -> row(i)
               [] OTHER -> subs[i]]
        /\ records' = IF ~fresh THEN records
                      ELSE [records EXCEPT ![r] =
                              [status |-> "consumed", sub |-> charged, pre |-> job[w].amt]]
  BY Zenon DEF PreConsumeUserSubscription
<1>2. charges' = IF fresh THEN [charges EXCEPT ![r] = @ + 1] ELSE charges
  BY DEF PreConsumeUserSubscription
<1>3. charged \in Ids /\ Fits(row(charged), job[w].amt)  OBVIOUS
<1>4. ASSUME NEW i \in Ids
      PROVE  \/ subs'[i] = subs[i] \/ subs'[i] = row(i)
             \/ i = charged /\ subs'[i] = ChargedRow(saw.subs[i], saw.now, job[w].amt)
  <2> HIDE DEF before, tried, fitting, saved
  <2>1. subs'[i] = CASE i = charged /\ fresh -> [row(i) EXCEPT !.used = @ + job[w].amt]
                     [] saved(i, charged) -> row(i)
                     [] OTHER -> subs[i]
    BY <1>1
  <2>2. QED  BY <2>1 DEF ChargedRow
<1>5. subs' = [i \in Ids |-> subs'[i]]  BY <1>1
<1>6. \/ UNCHANGED <<records, charges>>
      \/ /\ records[r].status = "none" /\ charges' = [charges EXCEPT ![r] = @ + 1]
         /\ \E i \in Ids : records' = [records EXCEPT ![r] =
                             [status |-> "consumed", sub |-> i, pre |-> job[w].amt]]
  BY <1>1, <1>2, <1>3
<1>7. QED  BY <1>3, <1>4, <1>5, <1>6

\* PreConsumeUserSubscription.
LEMMA PreConsumeInv ==
  ASSUME IInv, NEW w \in Workers, PreConsumeUserSubscription(w)
  PROVE  IInv' /\ Stays
<1> PICK saw : saw = job[w].saw  OBVIOUS
<1> PICK r : r = job[w].arg  OBVIOUS
<1> PICK amt : amt = job[w].amt  OBVIOUS
<1>0. job[w].pc = "tx" /\ r \in Requests /\ amt \in Nat
  BY ReadRows DEF PreConsumeUserSubscription, In, JobShape, ArgOk
<1>1. RowsOk(subs) /\ ChargesOk /\ clock \in Nat /\ RowsOk(saw.subs)  BY ReadRows, Bounds DEF IInv
<1>2. /\ subs' = [i \in Ids |-> subs'[i]]
      /\ \A i \in Ids : \/ subs'[i] = subs[i]
                        \/ subs'[i] = MaybeReset(saw.subs[i], saw.now)
                        \/ /\ Fits(MaybeReset(saw.subs[i], saw.now), amt)
                           /\ subs'[i] = ChargedRow(saw.subs[i], saw.now, amt)
      /\ \/ UNCHANGED <<records, charges>>
         \/ /\ records[r].status = "none" /\ charges' = [charges EXCEPT ![r] = @ + 1]
            /\ \E i \in Ids : records' = [records EXCEPT ![r] =
                                [status |-> "consumed", sub |-> i, pre |-> amt]]
  BY PreConsumeWrites
<1>3. ASSUME NEW i \in Ids
      PROVE  /\ RowOk(subs'[i])
             /\ \/ subs'[i] = subs[i]
                \/ /\ subs'[i].status = saw.subs[i].status /\ subs'[i].plan = saw.subs[i].plan
                   /\ subs'[i].end = saw.subs[i].end
  <2>1. RowOk(saw.subs[i]) /\ RowOk(subs[i])  BY <1>1 DEF RowsOk
  <2>2. CASE subs'[i] = subs[i]  BY <2>1, <2>2
  <2>3. CASE subs'[i] = MaybeReset(saw.subs[i], saw.now)  BY <2>1, <2>3, ResetRow
  <2>4. CASE /\ Fits(MaybeReset(saw.subs[i], saw.now), amt)
             /\ subs'[i] = ChargedRow(saw.subs[i], saw.now, amt)
    BY <1>0, <2>1, <2>4, ChargedRowOk
  <2>5. QED  BY <1>2, <2>2, <2>3, <2>4
<1>4. RowsOk(subs)'  BY <1>2, <1>3 DEF RowsOk
<1>5. ChargesOk'
  <2>1. CASE UNCHANGED <<records, charges>>  BY <1>1, <2>1 DEF ChargesOk, RecordOk
  <2>2. CASE ~UNCHANGED <<records, charges>>
    <3>1. PICK i \in Ids : /\ records[r].status = "none" /\ charges' = [charges EXCEPT ![r] = @ + 1]
                           /\ records' = [records EXCEPT ![r] =
                                [status |-> "consumed", sub |-> i, pre |-> amt]]
      BY <1>2, <2>2
    <3> PICK rec : rec = [status |-> "consumed", sub |-> i, pre |-> amt]  OBVIOUS
    <3>2. i \in 0 .. MaxSubs  BY Bounds DEF Ids
    <3>3. RecordOk(rec) /\ rec.status = "consumed"  BY <1>0, <3>2 DEF RecordOk
    <3>4. charges[r] = 0  BY <1>0, <1>1, <3>1 DEF ChargesOk
    <3>5. charges' = [charges EXCEPT ![r] = 1]  BY <3>1, <3>4
    <3>6. charges' \in [Requests -> {0, 1}]  BY <1>1, <3>5 DEF ChargesOk
    <3>7. records' = [records EXCEPT ![r] = rec]  BY <3>1
    <3>8. records' = [q \in Requests |-> records'[q]]  BY <1>1, <3>7 DEF ChargesOk
    <3>9. ASSUME NEW q \in Requests
          PROVE  RecordOk(records'[q]) /\ (records'[q].status = "none" => charges'[q] = 0)
      <4>1. CASE q = r
        <5>1. records'[q] = rec  BY <1>0, <1>1, <3>7, <4>1 DEF ChargesOk
        <5>2. QED  BY <3>3, <5>1
      <4>2. CASE q # r
        <5>1. records'[q] = records[q] /\ charges'[q] = charges[q]
          BY <1>1, <3>5, <3>7, <4>2 DEF ChargesOk
        <5>2. QED  BY <1>1, <5>1 DEF ChargesOk
      <4>3. QED  BY <4>1, <4>2
    <3>10. QED  BY <3>6, <3>8, <3>9 DEF ChargesOk, RecordOk
  <2>3. QED  BY <2>1, <2>2
<1>6. UNCHANGED <<group, wallet>> /\ Commit(w, Idle)  BY DEF PreConsumeUserSubscription
<1>7. wallet' \in Int  BY <1>6 DEF IInv
<1>8. ASSUME ~raced, ~job[w].stale
      PROVE  \A k \in Ids : /\ subs'[k].status = subs[k].status /\ subs'[k].plan = subs[k].plan
                            /\ subs'[k].end = subs[k].end
  <2>1. saw.subs = subs  BY <1>0, <1>8, ReadRows DEF Current
  <2>2. QED  BY <1>3, <2>1
<1>9. ASSUME ~raced, ~job[w].stale PROVE Orderly'
  <2>1. Orderly  BY <1>9 DEF IInv
  <2>2. UNCHANGED <<clock, group, wallet>>  BY <1>6 DEF Commit
  <2>3. QED  BY <1>8, <1>9, <2>1, <2>2, SameRows
<1>10. JobShape(Idle) /\ Idle.pc = "idle"  BY EmptyReads, <1>1
<1>11. IInv'  BY <1>4, <1>5, <1>6, <1>7, <1>9, <1>10, CommitInv
<1>12. ASSUME ~raced' PROVE ~raced /\ ~job[w].stale  BY <1>6, <1>12, Zenon DEF Commit
<1>13. Stays  BY <1>8, <1>12 DEF Stays
<1>14. QED  BY <1>11, <1>13

-----------------------------------------------------------------------------
(* Every step                                                              *)

\* Initially.
LEMMA InitInv == Init => IInv
<1> SUFFICES ASSUME Init PROVE IInv  OBVIOUS
<1>1. clock = 1 /\ clock \in Nat /\ clock \in 1 .. MaxTime /\ wallet \in Int /\ wallet >= 0
  <2>1. Wallet \in Nat /\ MaxTime \in Nat \ {0}  BY LedgerAssumption
  <2>2. QED  BY <2>1 DEF Init
<1>2. subs = [i \in Ids |-> NoSub] /\ RowsOk(subs)  BY EmptyRows DEF Init, RowsOk
<1>3. ChargesOk
  <2>1. RecordOk(NoRecord)  BY Bounds DEF RecordOk, NoRecord
  <2>2. QED  BY <2>1 DEF Init, ChargesOk
<1>4. /\ job = [w \in Workers |-> job[w]] /\ \A w \in Workers : JobOk(job[w])
      /\ TaskOk(task)
  BY <1>1, EmptyReads DEF Init, JobOk, TaskOk
<1>5. Orderly
  <2>1. GroupHeld  BY <1>2 DEF GroupHeld, Active, NoSub
  <2>2. ASSUME NEW p \in Plans, PlanInfo[p].limit > 0
        PROVE  Cardinality(OfPlan(subs, p)) <= PlanInfo[p].limit
    <3>1. None \notin Plans /\ PlanInfo[p].limit \in Nat  BY LedgerAssumption
    <3>2. OfPlan(subs, p) = {}  BY <1>2, <3>1 DEF OfPlan, NoSub
    <3>3. QED  BY <3>1, <3>2, FS_EmptySet
  <2>3. LimitKept  BY <2>2 DEF LimitKept, OfPlan
  <2>4. QED  BY <1>1, <2>1, <2>3 DEF Orderly
<1>6. QED  BY <1>1, <1>2, <1>3, <1>4, <1>5 DEF IInv

\* A request or an administrator begins.
LEMMA StartInv == ASSUME IInv, NEW w \in Workers, Start(w) PROVE IInv' /\ subs' = subs
<1>0. \A a \in Amounts : a \in Nat /\ a \in Int /\ -a \in Int
  <2>1. Amounts \subseteq Nat  BY LedgerAssumption
  <2>2. QED  BY <2>1
<1>1. ASSUME NEW p \in Plans, NEW op \in {"bind", "purchase"}, Begin(w, op, p, 0)
      PROVE  IInv' /\ subs' = subs
  <2>1. op \in JobOps /\ op \notin {"consume", "settle", "refund", "invalidate", "delete"}
    BY DEF JobOps
  <2>2. IInv'  BY <1>1, <2>1, BeginInv
  <2>3. QED  BY <1>1, <2>2 DEF Begin
<1>2. ASSUME NEW r \in Requests, NEW a \in Int, NEW op \in {"consume", "settle", "refund"},
             Begin(w, op, r, a), op = "consume" => a \in Nat
      PROVE  IInv' /\ subs' = subs
  <2>1. op \in JobOps /\ op \notin {"bind", "purchase", "invalidate", "delete"}  BY DEF JobOps
  <2>2. IInv'  BY <1>2, <2>1, BeginInv
  <2>3. QED  BY <1>2, <2>2 DEF Begin
<1>3. ASSUME NEW i \in Ids, NEW op \in {"invalidate", "delete"}, Begin(w, op, i, 0)
      PROVE  IInv' /\ subs' = subs
  <2>1. op \in JobOps /\ op \notin {"bind", "purchase", "consume", "settle", "refund"}
    BY DEF JobOps
  <2>2. IInv'  BY <1>3, <2>1, BeginInv
  <2>3. QED  BY <1>3, <2>2 DEF Begin
<1>4. QED  BY <1>0, <1>1, <1>2, <1>3 DEF Start

\* All steps.
LEMMA StepInv == ASSUME IInv, [Next]_vars PROVE IInv' /\ Stays
<1>1. ASSUME NEW w \in Workers, Start(w) PROVE IInv' /\ Stays  BY <1>1, StartInv DEF Stays
<1>2. ASSUME NEW w \in Workers, Finish(w) PROVE IInv' /\ Stays
  <2>1. CASE AdminBindSubscription(w) \/ PurchaseSubscriptionWithBalance(w)  BY <2>1, BuyInv
  <2>2. CASE PreConsumeUserSubscription(w)  BY <2>2, PreConsumeInv
  <2>3. CASE Settle(w)  BY <2>3, SettleInv
  <2>4. CASE RefundSubscriptionPreConsume(w)
    <3>1. subs' = subs  BY <2>4 DEF RefundSubscriptionPreConsume
    <3>2. QED  BY <2>4, <3>1, RefundReadInv DEF Stays
  <2>5. CASE RefundCredit(w)  BY <2>5, RefundCreditInv
  <2>6. CASE RefundMark(w)  BY <2>6, RefundMarkInv
  <2>7. CASE AdminInvalidateUserSubscription(w)  BY <2>7, InvalidateInv
  <2>8. CASE AdminDeleteUserSubscription(w)  BY <2>8, DeleteInv
  <2>9. CASE Rollback(w)
    <3>1. subs' = subs  BY <2>9 DEF Rollback
    <3>2. QED  BY <2>9, <3>1, RollbackInv DEF Stays
  <2>10. QED  BY <1>2, <2>1, <2>2, <2>3, <2>4, <2>5, <2>6, <2>7, <2>8, <2>9 DEF Finish
<1>3. ASSUME StartPass \/ EndPass \/ (\E i \in Ids : ResetRead(i)) \/ Tick PROVE IInv' /\ Stays
  <2>1. subs' = subs  BY <1>3 DEF StartPass, EndPass, ResetRead, Tick
  <2>2. QED  BY <1>3, <2>1, StartPassInv, EndPassInv, ResetReadInv, TickInv DEF Stays
<1>4. CASE ExpireDueSubscriptions  BY <1>4, ExpireInv
<1>5. CASE ResetSave  BY <1>5, ResetSaveInv
<1>6. CASE UNCHANGED vars
  <2>1. UNCHANGED <<clock, subs, userVars, job, raced>> /\ task' = task  BY <1>6 DEF vars, userVars
  <2>2. TaskOk(task)  BY DEF IInv
  <2> PICK t : t = task  OBVIOUS
  <2>3. IInv'  BY <2>1, <2>2, TaskStep
  <2>4. QED  BY <2>1, <2>3 DEF Stays
<1>7. QED  BY <1>1, <1>2, <1>3, <1>4, <1>5, <1>6 DEF Next, Maintain

-----------------------------------------------------------------------------
(* What a subscription gives                                               *)

\* What a row does not show as used may still be given.
LeftOf(row, n) ==
  /\ n \in Int /\ n >= 0
  /\ Exists(row) /\ Info(row).total > 0 => n >= Info(row).total - row.used
LeftOk == left = [i \in Ids |-> left[i]] /\ \A i \in Ids : LeftOf(subs[i], left[i])

\* A row is written back, with what is taken on top of what it showed.
LEMMA LeftWrite ==
  ASSUME NEW i \in Ids, LeftOf(subs[i], left[i]),
         NEW row, RowOk(row), NEW new, RowOk(new), new.plan = row.plan, new.status = row.status,
         NEW resets \in BOOLEAN, NEW amt \in Int,
         resets => new.used >= amt, ~resets => new.used >= row.used + amt
  PROVE  LeftOf(new, Left(i, row, resets, amt))
<1> PICK n : n = Left(i, row, resets, amt)  OBVIOUS
<1> PICK total : total = Info(row).total  OBVIOUS
<1> PICK l : l = left[i]  OBVIOUS
<1>1. Info(new).total = total /\ (Exists(new) <=> Exists(row))  BY DEF Info, Exists
<1>2. row.used \in Nat /\ new.used \in Nat /\ l \in Int /\ l >= 0
  BY DEF RowOk, IsRow, LeftOf
<1>3. CASE ~Exists(row) \/ total = 0
  <2>1. n = l  BY <1>3 DEF Left
  <2>2. QED  BY <1>1, <1>2, <1>3, <2>1 DEF LeftOf
<1>4. CASE Exists(row) /\ total # 0
  <2>0. total \in Nat /\ total > 0  BY <1>4, LedgerAssumption DEF RowOk, Info
  <2> PICK g : g = (IF resets THEN total ELSE 0)  OBVIOUS
  <2> PICK h : h = (IF row # subs[i] THEN total ELSE 0)  OBVIOUS
  <2>1. n = l - amt + g + h  BY <1>4 DEF Left
  <2>2. g \in Nat /\ h \in Nat /\ (resets => g = total) /\ (row # subs[i] => h = total)
    BY <2>0
  <2>3. row = subs[i] => l >= total - row.used  BY <2>0, <1>4 DEF LeftOf
  <2>4. row.used <= total  BY <2>0, <1>4 DEF RowOk
  <2>5. new.used <= total  BY <2>0, <1>1, <1>4 DEF RowOk
  <2>6. n \in Int /\ n >= total - new.used
    <3>1. CASE resets  BY <2>0, <1>2, <2>1, <2>2, <3>1
    <3>2. CASE ~resets /\ row = subs[i]  BY <2>0, <1>2, <2>1, <2>2, <2>3, <3>2
    <3>3. CASE ~resets /\ row # subs[i]  BY <2>0, <1>2, <2>1, <2>2, <3>3
    <3>4. QED  BY <3>1, <3>2, <3>3
  <2>7. QED  BY <2>0, <1>1, <1>2, <2>5, <2>6 DEF LeftOf
<1>5. QED  BY <1>3, <1>4

\* A row whose quota and plan stay, or that is gone.
LEMMA LeftSame ==
  ASSUME NEW row, NEW n, LeftOf(row, n), NEW new,
         Exists(new) => Exists(row) /\ new.plan = row.plan /\ new.used = row.used
  PROVE  LeftOf(new, n)
BY DEF LeftOf, Info

\* A reset takes nothing.
LEMMA ResetUsed ==
  ASSUME NEW row, RowOk(row), NEW now
  PROVE  /\ Resets(row, now) \in BOOLEAN
         /\ Resets(row, now) => MaybeReset(row, now).used = 0
         /\ ~Resets(row, now) => MaybeReset(row, now).used = row.used
<1> DEFINE last == LastReset(row, Base(row), now)
<1> DEFINE next == NextReset(last, row.plan, row.end)
<1> PICK new : new = MaybeReset(row, now)  OBVIOUS
<1>0. Resets(row, now) \in BOOLEAN  BY Zenon DEF Resets
<1>1. IsRow(row) /\ row.used \in Nat  BY DEF RowOk, IsRow
<1>2. Resets(row, now) => new = WithReset(row, 0, last, next)  BY DEF MaybeReset, WithReset
<1>3. ~Resets(row, now) => new = row \/ new = [row EXCEPT !.next = next, !.last = Base(row)]
  BY DEF MaybeReset
<1> HIDE DEF last, next
<1>4. Resets(row, now) => new.used = 0  BY <1>1, <1>2, ResetColumns
<1>5. [row EXCEPT !.next = next, !.last = Base(row)].used = row.used  BY <1>1 DEF IsRow
<1>6. ~Resets(row, now) => new.used = row.used  BY <1>3, <1>5
<1>7. QED  BY <1>0, <1>4, <1>6

\* Rows that are only read.
LEMMA LeftRead == ASSUME LeftOk, UNCHANGED <<subs, left>> PROVE LeftOk'
BY DEF LeftOk, LeftOf

\* PostConsumeUserSubscriptionDelta: what is given back beyond zero is lost.
LEMMA LeftPostConsume ==
  ASSUME IInv, LeftOk, NEW w \in Workers, NEW i \in Ids, NEW delta \in Int, NEW next,
         PostConsume(w, i, delta, next)
  PROVE  LeftOk'
<1> PICK row : row = job[w].saw.subs[i]  OBVIOUS
<1> PICK used : used = Used(row, delta)  OBVIOUS
<1> PICK new : new = [row EXCEPT !.used = used]  OBVIOUS
<1>1. RowOk(row) /\ row.used \in Nat /\ IsRow(row)  BY ReadRows DEF RowsOk, RowOk, IsRow
<1>2. row.used + delta \in Int  BY <1>1
<1>3. used \in Nat /\ used >= row.used + delta  BY <1>2, MaxZero DEF Used
<1>4. /\ subs' = [subs EXCEPT ![i] = new] /\ (Info(row).total > 0 => used <= Info(row).total)
      /\ left' = [left EXCEPT ![i] = Left(i, row, FALSE, delta)]
  BY DEF PostConsume
<1>5. RowOk(new) /\ new.status = row.status /\ new.plan = row.plan
  BY <1>1, <1>3, <1>4, UsedRow
<1>6. new.used = used  BY <1>1, <1>3, UsedColumn
<1>7. LeftOf(subs[i], left[i])  BY DEF LeftOk
<1> PICK n : n = Left(i, row, FALSE, delta)  OBVIOUS
<1>8. LeftOf(new, n)  BY <1>1, <1>3, <1>5, <1>6, <1>7, LeftWrite
<1>9. subs = [k \in Ids |-> subs[k]]  BY DEF IInv, RowsOk
<1>10. ASSUME NEW k \in Ids PROVE LeftOf(subs'[k], left'[k])
  <2>1. CASE k = i  BY <1>4, <1>8, <1>9, <2>1 DEF LeftOk
  <2>2. CASE k # i
    <3>1. subs'[k] = subs[k] /\ left'[k] = left[k]  BY <1>4, <1>9, <2>2 DEF LeftOk
    <3>2. QED  BY <3>1 DEF LeftOk
  <2>3. QED  BY <2>1, <2>2
<1>11. left' = [k \in Ids |-> left'[k]]  BY <1>4 DEF LeftOk
<1>12. QED  BY <1>10, <1>11 DEF LeftOk, LeftOf

\* ResetDueSubscriptions.
LEMMA LeftResetSave == ASSUME IInv, LeftOk, ResetSave PROVE LeftOk'
<1> PICK saw : saw = task.saw  OBVIOUS
<1> PICK i : i = task.cur  OBVIOUS
<1> PICK row : row = saw.subs[i]  OBVIOUS
<1> PICK new : new = MaybeReset(row, saw.now)  OBVIOUS
<1> PICK resets : resets = Resets(row, saw.now)  OBVIOUS
<1> PICK n : n = Left(i, row, resets, 0)  OBVIOUS
<1>1. i \in Ids /\ SawOk(saw)  BY DEF IInv, TaskOk, TaskShape, ResetSave
<1>2. RowOk(row) /\ row.used \in Nat  BY <1>1 DEF SawOk, RowsOk, RowOk, IsRow
<1>3. RowOk(new) /\ new.status = row.status /\ new.plan = row.plan  BY <1>2, ResetRow
<1>4. resets \in BOOLEAN /\ (resets => new.used >= 0) /\ (~resets => new.used >= row.used + 0)
  BY <1>2, ResetUsed
<1>5. LeftOf(subs[i], left[i])  BY <1>1 DEF LeftOk
<1>6. LeftOf(new, n)  BY <1>1, <1>2, <1>3, <1>4, <1>5, LeftWrite
<1>7. subs' = [subs EXCEPT ![i] = new] /\ left' = [left EXCEPT ![i] = n]  BY DEF ResetSave
<1>8. subs = [k \in Ids |-> subs[k]]  BY DEF IInv, RowsOk
<1>9. ASSUME NEW k \in Ids PROVE LeftOf(subs'[k], left'[k])
  <2>1. CASE k = i  BY <1>6, <1>7, <1>8, <2>1 DEF LeftOk
  <2>2. CASE k # i
    <3>1. subs'[k] = subs[k] /\ left'[k] = left[k]  BY <1>7, <1>8, <2>2 DEF LeftOk
    <3>2. QED  BY <3>1 DEF LeftOk
  <2>3. QED  BY <2>1, <2>2
<1>10. left' = [k \in Ids |-> left'[k]]  BY <1>7 DEF LeftOk
<1>11. QED  BY <1>9, <1>10 DEF LeftOk, LeftOf

\* CreateUserSubscriptionFromPlanTx.
LEMMA LeftCreate ==
  ASSUME IInv, LeftOk, NEW w \in Workers, NEW plan \in Plans, NEW pays,
         CreateUserSubscription(w, plan, pays)
  PROVE  LeftOk'
<1> PICK total : total = PlanInfo[plan].total  OBVIOUS
<1>1. PICK i, row : /\ i \in Ids
                    /\ subs' = [subs EXCEPT ![i] = row] /\ row.used = 0 /\ row.plan = plan
                    /\ left' = [left EXCEPT ![i] = total]
  <2> DEFINE end == job[w].saw.now + PlanInfo[plan].duration
  <2> DEFINE next == NextReset(job[w].saw.now, plan, end)
  <2> DEFINE last == IF next > 0 THEN job[w].saw.now ELSE 0
  <2> DEFINE prev == IF PlanInfo[plan].up # "" /\ job[w].saw.group # PlanInfo[plan].up
                     THEN job[w].saw.group ELSE ""
  <2>1. PICK i \in Ids : /\ subs' = [subs EXCEPT ![i] =
                               NewRow(plan, job[w].saw.now, end, last, next, prev)]
                         /\ left' = [left EXCEPT ![i] = total]
    BY Zenon DEF CreateUserSubscription, NewRow
  <2> HIDE DEF end, next, last, prev
  <2>2. /\ NewRow(plan, job[w].saw.now, end, last, next, prev).used = 0
        /\ NewRow(plan, job[w].saw.now, end, last, next, prev).plan = plan
    BY DEF NewRow
  <2>3. QED  BY <2>1, <2>2
<1>2. total \in Nat  BY LedgerAssumption
<1>3. LeftOf(row, total)  BY <1>1, <1>2 DEF LeftOf, Info
<1>4. subs = [k \in Ids |-> subs[k]]  BY DEF IInv, RowsOk
<1>5. ASSUME NEW k \in Ids PROVE LeftOf(subs'[k], left'[k])
  <2>1. CASE k = i  BY <1>1, <1>3, <1>4, <2>1 DEF LeftOk
  <2>2. CASE k # i
    <3>1. subs'[k] = subs[k] /\ left'[k] = left[k]  BY <1>1, <1>4, <2>2 DEF LeftOk
    <3>2. QED  BY <3>1 DEF LeftOk
  <2>3. QED  BY <2>1, <2>2
<1>6. left' = [k \in Ids |-> left'[k]]  BY <1>1 DEF LeftOk
<1>7. QED  BY <1>5, <1>6 DEF LeftOk, LeftOf

\* PreConsumeUserSubscription: resets and the charge.
LEMMA LeftPreConsume ==
  ASSUME IInv, LeftOk, NEW w \in Workers, PreConsumeUserSubscription(w)
  PROVE  LeftOk'
<1> DEFINE saw == job[w].saw
           amt == job[w].amt
           row(i) == MaybeReset(saw.subs[i], saw.now)
           tried == {i \in Ids : Active(saw.subs[i], saw.now)}
           fitting == {i \in tried : Fits(row(i), amt)}
           before(i, k) == saw.subs[i].end < saw.subs[k].end
                           \/ (saw.subs[i].end = saw.subs[k].end /\ i < k)
           fresh == records[job[w].arg].status = "none"
           saved(i, k) == i \in tried /\ (before(i, k) \/ (i = k /\ ~fresh)) /\ row(i) # saw.subs[i]
           resets(i) == Resets(saw.subs[i], saw.now)
<1>1. PICK charged \in fitting :
        /\ subs' = [i \in Ids |->
             CASE i = charged /\ fresh -> [row(i) EXCEPT !.used = @ + amt]
               [] saved(i, charged) -> row(i)
               [] OTHER -> subs[i]]
        /\ left' = [i \in Ids |->
             CASE i = charged /\ fresh -> Left(i, saw.subs[i], resets(i), amt)
               [] saved(i, charged) -> Left(i, saw.subs[i], resets(i), 0)
               [] OTHER -> left[i]]
  BY Zenon DEF PreConsumeUserSubscription
<1>2. amt \in Nat /\ RowsOk(saw.subs)
  BY ReadRows DEF PreConsumeUserSubscription, In, JobShape, ArgOk
<1>3. Fits(row(charged), amt) /\ charged \in Ids  OBVIOUS
<1>8. fresh => ~saved(charged, charged)
  <2>1. saw.subs[charged].end \in Nat /\ charged \in Nat
    BY <1>2, <1>3, Bounds DEF RowsOk, RowOk, IsRow, Ids
  <2>2. ~before(charged, charged)  BY <2>1
  <2>3. QED  BY <2>2
<1> HIDE DEF before, tried, fitting, saved, fresh
<1>4. ASSUME NEW i \in Ids PROVE LeftOf(subs'[i], left'[i])
  <2> PICK was : was = saw.subs[i]  OBVIOUS
  <2> PICK mid : mid = row(i)  OBVIOUS
  <2>1. RowOk(was) /\ was.used \in Nat /\ LeftOf(subs[i], left[i])
    BY <1>2 DEF RowsOk, RowOk, IsRow, LeftOk
  <2>2. RowOk(mid) /\ mid.status = was.status /\ mid.plan = was.plan /\ mid.used \in Nat
    <3>1. RowOk(mid) /\ mid.status = was.status /\ mid.plan = was.plan  BY <2>1, ResetRow
    <3>2. QED  BY <3>1 DEF RowOk, IsRow
  <2>3. resets(i) \in BOOLEAN /\ (resets(i) => mid.used = 0) /\ (~resets(i) => mid.used = was.used)
    BY <2>1, ResetUsed
  <2>4. CASE i = charged /\ fresh
    <3> PICK new : new = ChargedRow(was, saw.now, amt)  OBVIOUS
    <3> PICK n : n = Left(i, was, resets(i), amt)  OBVIOUS
    <3>1. subs'[i] = new /\ left'[i] = n
      <4>1. subs'[i] = [row(i) EXCEPT !.used = @ + amt]  BY <1>1, <1>8, <2>4
      <4>2. left'[i] = n
        <5> HIDE DEF row, resets
        <5>1. left'[i] = Left(i, saw.subs[i], resets(i), amt)  BY <1>1, <1>8, <2>4
        <5>2. QED  BY <5>1
      <4>3. QED  BY <4>1, <4>2 DEF ChargedRow
    <3>2. Fits(MaybeReset(was, saw.now), amt)  BY <1>3, <2>4
    <3>3. RowOk(new) /\ new.status = was.status /\ new.plan = was.plan
      BY <1>2, <2>1, <3>2, ChargedRowOk
    <3>4. new.used = mid.used + amt
      <4>1. IsRow(mid) /\ mid.used + amt \in Nat  BY <1>2, <2>2 DEF RowOk, IsRow
      <4>2. new = [mid EXCEPT !.used = mid.used + amt]  BY DEF ChargedRow
      <4>3. QED  BY <4>1, <4>2, UsedColumn
    <3>5. (resets(i) => new.used >= amt) /\ (~resets(i) => new.used >= was.used + amt) /\ amt \in Int
      BY <1>2, <2>1, <2>2, <2>3, <3>4
    <3>6. LeftOf(new, n)  BY <2>1, <2>3, <3>3, <3>5, LeftWrite
    <3>7. QED  BY <3>1, <3>6
  <2>5. CASE ~(i = charged /\ fresh) /\ saved(i, charged)
    <3> PICK n : n = Left(i, was, resets(i), 0)  OBVIOUS
    <3>1. subs'[i] = mid /\ left'[i] = n  BY <1>1, <2>5
    <3>2. (resets(i) => mid.used >= 0) /\ (~resets(i) => mid.used >= was.used + 0)
      BY <2>1, <2>2, <2>3
    <3>3. LeftOf(mid, n)  BY <2>1, <2>2, <2>3, <3>2, LeftWrite
    <3>4. QED  BY <3>1, <3>3
  <2>6. CASE ~(i = charged /\ fresh) /\ ~saved(i, charged)
    <3>1. subs'[i] = subs[i] /\ left'[i] = left[i]  BY <1>1, <2>6
    <3>2. QED  BY <2>1, <3>1
  <2>7. QED  BY <2>4, <2>5, <2>6
<1>5. left' = [i \in Ids |-> left'[i]]  BY <1>1
<1>6. QED  BY <1>4, <1>5 DEF LeftOk, LeftOf

\* A row ends.
LEMMA LeftEnd ==
  ASSUME IInv, LeftOk,
         \/ \E w \in Workers : AdminInvalidateUserSubscription(w) \/ AdminDeleteUserSubscription(w)
         \/ ExpireDueSubscriptions
  PROVE  LeftOk'
<1>0. left' = left
  BY DEF AdminInvalidateUserSubscription, AdminDeleteUserSubscription, ExpireDueSubscriptions
<1>1. RowsOk(subs)  BY DEF IInv
<1>2. ASSUME NEW k \in Ids
      PROVE  Exists(subs'[k]) =>
               Exists(subs[k]) /\ subs'[k].plan = subs[k].plan /\ subs'[k].used = subs[k].used
  <2> PICK row : row = subs[k]  OBVIOUS
  <2>1. RowOk(row) /\ IsRow(row)  BY <1>1 DEF RowsOk, RowOk, IsRow
  <2>2. CASE ExpireDueSubscriptions
    <3>1. subs'[k] = Expired(row, task.saw.now)  BY <2>2 DEF ExpireDueSubscriptions, Expired
    <3>2. CASE row.status = "active" /\ row.end <= task.saw.now
      <4>1. subs'[k] = [row EXCEPT !.status = "expired"]  BY <3>1, <3>2 DEF Expired
      <4>2. "expired" \in Statuses  BY DEF Statuses
      <4>3. subs'[k].plan = row.plan /\ subs'[k].used = row.used  BY <2>1, <4>1, <4>2, StatusColumn
      <4>4. QED  BY <3>2, <4>3 DEF Exists
    <3>3. CASE ~(row.status = "active" /\ row.end <= task.saw.now)  BY <3>1, <3>3 DEF Expired
    <3>4. QED  BY <3>2, <3>3
  <2>3. ASSUME NEW w \in Workers, AdminInvalidateUserSubscription(w)
        PROVE  Exists(subs'[k]) =>
                 Exists(row) /\ subs'[k].plan = row.plan /\ subs'[k].used = row.used
    <3> PICK i : i = job[w].arg  OBVIOUS
    <3> PICK now : now = job[w].saw.now  OBVIOUS
    <3>1. CASE subs' = subs  BY <3>1
    <3>2. CASE subs' # subs
      <4>1. subs' = [subs EXCEPT ![i].status = "cancelled", ![i].end = now] /\ Exists(subs[i])
        BY <2>3, <3>2 DEF AdminInvalidateUserSubscription
      <4>2. CASE k = i
        <5> PICK a : a = [row EXCEPT !.status = "cancelled"]  OBVIOUS
        <5>1. subs'[k] = [a EXCEPT !.end = now]  BY <1>1, <4>1, <4>2 DEF RowsOk
        <5>2. "cancelled" \in Statuses  BY DEF Statuses
        <5>3. IsRow(a) /\ a.plan = row.plan /\ a.used = row.used  BY <2>1, <5>2, StatusColumn
        <5>4. subs'[k].plan = a.plan /\ subs'[k].used = a.used  BY <5>1, <5>3 DEF IsRow
        <5>5. QED  BY <4>1, <4>2, <5>3, <5>4
      <4>3. CASE k # i  BY <1>1, <4>1, <4>3 DEF RowsOk
      <4>4. QED  BY <4>2, <4>3
    <3>3. QED  BY <3>1, <3>2
  <2>4. ASSUME NEW w \in Workers, AdminDeleteUserSubscription(w)
        PROVE  Exists(subs'[k]) => subs'[k] = row
    <3> PICK i : i = job[w].arg  OBVIOUS
    <3>1. subs' = [subs EXCEPT ![i] = Gone]  BY <2>4 DEF AdminDeleteUserSubscription
    <3>2. subs'[k] = Gone \/ subs'[k] = row  BY <1>1, <3>1 DEF RowsOk
    <3>3. QED  BY <3>2, EmptyRows
  <2>5. QED  BY <2>2, <2>3, <2>4
<1>3. ASSUME NEW k \in Ids PROVE LeftOf(subs'[k], left[k])
  <2>1. LeftOf(subs[k], left[k])  BY DEF LeftOk
  <2>2. QED  BY <1>2, <2>1, LeftSame
<1>4. QED  BY <1>0, <1>3 DEF LeftOk, LeftOf

\* All steps.
LEMMA LeftStep == ASSUME IInv, LeftOk, [Next]_vars PROVE LeftOk'
<1>1. CASE UNCHANGED <<subs, left>>  BY <1>1, LeftRead
<1>2. ASSUME NEW w \in Workers, Start(w) PROVE UNCHANGED <<subs, left>>
  BY <1>2 DEF Start, Begin
<1>3. ASSUME NEW w \in Workers, Finish(w) PROVE LeftOk'
  <2>1. CASE AdminBindSubscription(w) \/ PurchaseSubscriptionWithBalance(w)
    <3>1. job[w].arg \in Plans
      BY <2>1, ReadRows
         DEF AdminBindSubscription, PurchaseSubscriptionWithBalance, In, JobShape, ArgOk
    <3>2. QED  BY <2>1, <3>1, LeftCreate DEF AdminBindSubscription, PurchaseSubscriptionWithBalance
  <2>2. CASE PreConsumeUserSubscription(w)  BY <2>2, LeftPreConsume
  <2>3. CASE Settle(w)
    <3>1. job[w].saw.record.sub \in Ids /\ job[w].amt \in Int
      BY <2>3, ReadRows DEF Settle, In, JobShape, RecordOk
    <3>2. QED  BY <2>3, <3>1, LeftPostConsume DEF Settle
  <2>4. CASE RefundCredit(w)
    <3>1. job[w].saw.record.sub \in Ids /\ -job[w].saw.record.pre \in Int
      BY <2>4, ReadRows DEF RefundCredit, JobShape, ArgOk, RecordOk
    <3>2. QED  BY <2>4, <3>1, LeftPostConsume DEF RefundCredit
  <2>5. CASE AdminInvalidateUserSubscription(w) \/ AdminDeleteUserSubscription(w)
    BY <2>5, LeftEnd
  <2>6. CASE RefundSubscriptionPreConsume(w) \/ RefundMark(w) \/ Rollback(w)
    <3>1. UNCHANGED <<subs, left>>
      BY <2>6 DEF RefundSubscriptionPreConsume, RefundMark, Rollback
    <3>2. QED  BY <3>1, LeftRead
  <2>7. QED  BY <1>3, <2>1, <2>2, <2>3, <2>4, <2>5, <2>6 DEF Finish
<1>4. ASSUME StartPass \/ EndPass \/ (\E i \in Ids : ResetRead(i)) \/ Tick
      PROVE  UNCHANGED <<subs, left>>
  BY <1>4 DEF StartPass, EndPass, ResetRead, Tick
<1>5. CASE ExpireDueSubscriptions  BY <1>5, LeftEnd
<1>6. CASE ResetSave  BY <1>6, LeftResetSave
<1>7. CASE UNCHANGED vars  BY <1>7, LeftRead DEF vars
<1>8. QED  BY <1>1, <1>2, <1>3, <1>4, <1>5, <1>6, <1>7 DEF Next, Maintain

-----------------------------------------------------------------------------
(* Theorems                                                                *)

\* The rows, records and transactions of model/subscription.go stay well-formed: what a
\* transaction that none overlapped has read is what it overwrites.
THEOREM LedgerInvariant == Spec => []IInv
<1>1. IInv /\ [Next]_vars => IInv'  BY StepInv
<1>2. QED  BY <1>1, InitInv, PTL DEF Spec

\* What a row of user_subscriptions does not show as used has not been given, as long as every
\* write over a row that was changed since it was read is granted the total again.
THEOREM QuotaInvariant == Spec => []LeftOk
<1>1. Init => LeftOk  BY EmptyRows DEF Init, LeftOk, LeftOf
<1>2. IInv /\ LeftOk /\ [Next]_vars => LeftOk'  BY LeftStep
<1>3. QED  BY <1>1, <1>2, LedgerInvariant, PTL DEF Spec

\* PreConsumeUserSubscription charges a request at most once, whatever else runs: the unique
\* record of the request decides.
THEOREM ChargeUnique == Spec => []ChargedOnce
<1>1. IInv => ChargedOnce  BY DEF IInv, ChargesOk, ChargedOnce
<1>2. QED  BY <1>1, LedgerInvariant, PTL

\* A subscription gives its total once between two resets, and once more for each write over
\* a row that another transaction changed after it was read: pre-consumption, settlement and
\* reset write back whole rows, and a lost update costs no more than that.
THEOREM TotalHolds == Spec => []GivenWithinTotal
<1>1. IInv /\ LeftOk => GivenWithinTotal
  BY DEF IInv, RowsOk, RowOk, IsRow, LeftOk, LeftOf, GivenWithinTotal
<1>2. QED  BY <1>1, LedgerInvariant, QuotaInvariant, PTL

\* While no transaction commits on reads that are out of date, purchases keep the plan's limit
\* and the wallet's balance.
THEOREM LimitAndBalance == Spec => [](~raced => LimitKept /\ wallet >= 0)
<1>1. IInv => (~raced => LimitKept /\ wallet >= 0)  BY Zenon DEF IInv, Orderly
<1>2. QED  BY <1>1, LedgerInvariant, PTL

\* If the plans that upgrade the user name one group, the user also stays in it as long as one of
\* these subscriptions runs, through purchases, cancellations, deletions and expiries.
THEOREM OrderlyWithoutRaces == OneUpgradeGroup => (Spec => []OrderlyUnlessRaced)
<1> SUFFICES ASSUME OneUpgradeGroup PROVE Spec => []OrderlyUnlessRaced  OBVIOUS
<1>1. IInv => OrderlyUnlessRaced  BY Zenon DEF IInv, Orderly, OrderlyUnlessRaced
<1>2. QED  BY <1>1, LedgerInvariant, PTL

\* A step that commits on reads that are not out of date revives no subscription that an
\* administrator has cancelled or deleted.
THEOREM EndedStaysEnded == Spec => EndedStays
<1>1. IInv /\ [Next]_vars =>
        [\A i \in Ids : (subs[i].status \in {"cancelled", "deleted"} /\ ~raced')
                          => subs'[i].status \in {"cancelled", "deleted"}]_vars
  BY StepInv, Zenon DEF Stays, Ended
<1>2. QED  BY <1>1, LedgerInvariant, PTL DEF Spec, EndedStays

=============================================================================
