----------------------- MODULE SystemTaskLease_proofs -----------------------
(***************************************************************************)
(* Proofs about SystemTaskLease, for any number of runners, rows, faults   *)
(* and delays: rows are executed once and final rows stay final however    *)
(* slow a claim is, and running rows are covered by a lock as long as a    *)
(* claim takes no longer than the TTL.                                     *)
(***************************************************************************)
EXTENDS SystemTaskLease, TLAPS

USE LeaseAssumption
USE DEF Rows, Active, Final, Holders, ClaimPcs, CleanupPcs, JobPcs, HandlerPcs

-----------------------------------------------------------------------------
(* The inductive invariant                                                 *)

\* The unique index on active_key.
OneActive ==
  \A j, k \in Rows : status[j] \in Active /\ status[k] \in Active => j = k

\* A row that was not claimed yet has no handler and no runner.
Untouched ==
  \A k \in Rows : status[k] \in {"none", "pending"} =>
    starts[k] = 0 /\ exec[k].pc = "none" /\ exec[k].by = "none" /\ lockedBy[k] = "none"

\* A handler releases the lock only after it recorded its result.
ReleaseAfterFinish == \A k \in Rows : exec[k].pc = "release" => status[k] \in Final

RowInv == OneActive /\ ExecutedOnce /\ Untouched /\ ReleaseAfterFinish

\* A claim or cleanup has a row, and a claimer did not start that row before.
ClaimsAnew ==
  \A r \in Runners :
    /\ job[r].pc # "idle" => job[r].row \in Rows
    /\ job[r].pc \in ClaimPcs => /\ exec[job[r].row].by # r
                                 /\ lockedBy[job[r].row] # r

IInv == TypeOK /\ RowInv /\ ClaimsAnew

\* A claim that acquired the lock holds it until it starts its row.
ClaimHolds ==
  \A r \in Runners : job[r].pc \in {"markOld", "start"} =>
    lock.row = job[r].row /\ lock.by = r /\ lock.left >= TTL - job[r].age

Covered == \A k \in Rows : status[k] = "running" => lock.row = k /\ lock.by = lockedBy[k]

\* A row that is running while a claim wants the lock was started after that
\* claim read the clock, so to the claim the lock is not stale.
NotStaleToClaims ==
  \A r \in Runners, k \in Rows :
    job[r].pc \in {"insert", "read", "take"} /\ status[k] = "running" =>
      lock.left >= -job[r].age

\* The same of a cleanup that already marked the row it is about to unlock.
NotStaleToCleanups ==
  \A r \in Runners, k \in Rows :
    job[r].pc = "delete" /\ job[r].row = k /\ status[k] = "running" =>
      lock.left >= -job[r].age

\* What holds as long as no claim outlasts the TTL.
LeaseInv == ClaimHolds /\ Covered /\ NotStaleToClaims /\ NotStaleToCleanups

-----------------------------------------------------------------------------
(* The effect of each action on jobs, handlers and the lock                *)

\* Only r's job changes.
OnlyJobOf(r) ==
  /\ job' \in [Runners -> JobType]
  /\ \A q \in Runners : q # r => job'[q] = job[q]

\* The rows of system_tasks stay as they are.
RowsStay == status' = status /\ lockedBy' = lockedBy /\ starts' = starts

\* Row k is marked, if it is running.
Marked(k) ==
  /\ \A j \in Rows : status'[j] = IF j = k /\ status[j] = "running" THEN "failed" ELSE status[j]
  /\ lockedBy' = lockedBy /\ starts' = starts /\ exec' = exec /\ lock' = lock

\* The fields the invariants compare.
LEMMA FieldTypes ==
  ASSUME TypeOK
  PROVE  /\ lock.left \in Int /\ lock.row \in Int
         /\ \A r \in Runners : job[r].age \in 0 .. MaxDelay /\ job[r].pc \in JobPcs
         /\ \A k \in Rows : starts[k] \in Nat
<1>1. lock \in LockType /\ \A r \in Runners : job[r] \in JobType  BY DEF TypeOK
<1>2. QED  BY <1>1 DEF LockType, JobType, TypeOK

\* The constants of the records have their types.
LEMMA ConstantTypes ==
  /\ Idle \in JobType /\ Idle.pc = "idle" /\ Idle.age = 0
  /\ NoLock \in LockType /\ NoLock.row = 0
  /\ NoHandler \in HandlerType /\ NoHandler.pc = "none" /\ NoHandler.by = "none"
BY DEF Idle, NewJob, JobType, NoLock, LockType, NoHandler, HandlerType

\* SetJob changes one job.
LEMMA SetJobEffect ==
  ASSUME TypeOK, NEW r \in Runners, NEW j \in JobType, SetJob(r, j)
  PROVE  OnlyJobOf(r) /\ job'[r] = j
BY DEF TypeOK, SetJob, OnlyJobOf

\* SetJob(r, Idle) ends a job.
LEMMA IdleEffect ==
  ASSUME TypeOK, NEW r \in Runners, SetJob(r, Idle)
  PROVE  OnlyJobOf(r) /\ job'[r].pc = "idle"
BY SetJobEffect, ConstantTypes

\* Goto moves a job on.
LEMMA GotoEffect ==
  ASSUME TypeOK, NEW r \in Runners, NEW l \in JobPcs, Goto(r, l)
  PROVE  /\ OnlyJobOf(r) /\ job'[r].pc = l
         /\ job'[r].row = job[r].row /\ job'[r].age = job[r].age
<1> DEFINE j == [job[r] EXCEPT !.pc = l]
<1>1. job[r] \in JobType  BY DEF TypeOK
<1>2. j \in JobType /\ j.pc = l /\ j.row = job[r].row /\ j.age = job[r].age
  BY <1>1 DEF JobType
<1>3. SetJob(r, j)  BY DEF Goto
<1> HIDE DEF j
<1> QED  BY <1>2, <1>3, SetJobEffect

\* The lock a claim writes.
LEMMA MyLockType ==
  ASSUME TypeOK, ClaimsAnew, NEW r \in Runners, job[r].pc # "idle"
  PROVE  /\ MyLock(r) \in LockType /\ MyLock(r).row = job[r].row /\ MyLock(r).by = r
         /\ MyLock(r).left = TTL - job[r].age
         /\ job[r].row \in Rows
<1>1. job[r] \in JobType  BY DEF TypeOK
<1>2. job[r].row \in Rows  BY DEF ClaimsAnew
<1>3. QED  BY <1>1, <1>2 DEF MyLock, LockType, JobType

\* A handler's program counter is set.
LEMMA ExecPc ==
  ASSUME TypeOK, NEW k \in Rows, NEW p \in HandlerPcs, exec' = [exec EXCEPT ![k].pc = p]
  PROVE  /\ exec' \in [Rows -> HandlerType] /\ exec'[k].pc = p
         /\ \A j \in Rows : exec'[j].by = exec[j].by /\ (j # k => exec'[j] = exec[j])
<1> DEFINE e == [exec[k] EXCEPT !.pc = p]
<1>1. exec[k] \in HandlerType  BY DEF TypeOK
<1>2. e \in HandlerType /\ e.pc = p /\ e.by = exec[k].by  BY <1>1 DEF HandlerType
<1>3. exec' = [exec EXCEPT ![k] = e]  OBVIOUS
<1> HIDE DEF e
<1> QED  BY <1>2, <1>3 DEF TypeOK

\* A failing heartbeat stops; a successful one extends the lease.
LEMMA RenewEffect ==
  ASSUME TypeOK, NEW k \in Rows, Renew(k)
  PROVE  /\ TypeOK'
         /\ RowsStay /\ job' = job
         /\ \A j \in Rows : exec'[j].pc = exec[j].pc /\ exec'[j].by = exec[j].by
         /\ \/ lock' = lock
            \/ lock.row = k /\ lock.by = exec[k].by /\ lock'.row = k /\ lock'.by = lock.by
               /\ lock'.left = TTL
<1>1. exec[k] \in HandlerType /\ lock \in LockType  BY DEF TypeOK
<1>2. CASE HoldsLease(k) /\ lock' = [lock EXCEPT !.left = TTL] /\ UNCHANGED <<exec, faults>>
  <2>1. lock' \in LockType /\ lock'.row = lock.row /\ lock'.by = lock.by /\ lock'.left = TTL
    BY <1>1, <1>2 DEF LockType
  <2>2. lock.row \in Rows /\ lock.by \in Runners
    BY <1>2, ConstantTypes DEF HoldsLease, TypeOK
  <2>3. QED  BY <1>2, <2>1, <2>2 DEF TypeOK, Renew, HoldsLease, RowsStay
<1>3. CASE exec' = [exec EXCEPT ![k].beats = FALSE] /\ UNCHANGED lock
  <2> DEFINE e == [exec[k] EXCEPT !.beats = FALSE]
  <2>1. e \in HandlerType /\ e.pc = exec[k].pc /\ e.by = exec[k].by  BY <1>1 DEF HandlerType
  <2>2. exec' = [exec EXCEPT ![k] = e]  BY <1>3
  <2>3. faults' \in Nat  BY DEF Renew, Fault, TypeOK
  <2> HIDE DEF e
  <2> QED  BY <1>3, <2>1, <2>2, <2>3 DEF TypeOK, Renew, RowsStay
<1>4. QED  BY <1>2, <1>3 DEF Renew

\* A handler's result is recorded, or refused.
LEMMA FinishSystemTaskEffect ==
  ASSUME TypeOK, NEW k \in Rows, FinishSystemTask(k)
  PROVE  /\ TypeOK' /\ lockedBy' = lockedBy /\ starts' = starts /\ job' = job /\ lock' = lock
         /\ exec[k].pc = "run"
         /\ \A j \in Rows : exec'[j].by = exec[j].by /\ (j # k => exec'[j] = exec[j])
         /\ \/ status[k] = "running" /\ status'[k] \in Final /\ exec'[k].pc = "release"
               /\ \A j \in Rows : j # k => status'[j] = status[j]
            \/ status' = status /\ exec'[k].pc = "done"
<1>1. CASE /\ status[k] = "running" /\ exec' = [exec EXCEPT ![k].pc = "release"]
           /\ \E s \in Final : status' = [status EXCEPT ![k] = s]
  <2>1. PICK s \in Final : status' = [status EXCEPT ![k] = s]  BY <1>1
  <2>2. /\ exec' \in [Rows -> HandlerType] /\ exec'[k].pc = "release"
        /\ \A j \in Rows : exec'[j].by = exec[j].by /\ (j # k => exec'[j] = exec[j])
    BY <1>1, ExecPc
  <2>3. /\ status' \in [Rows -> {"none"} \cup Active \cup Final] /\ status'[k] = s
        /\ \A j \in Rows : j # k => status'[j] = status[j]
    BY <2>1 DEF TypeOK
  <2>4. UNCHANGED <<lockedBy, lock, job, dead, starts, faults>> /\ exec[k].pc = "run"
    BY DEF FinishSystemTask
  <2>5. TypeOK'  BY <2>2, <2>3, <2>4 DEF TypeOK
  <2>6. QED  BY <1>1, <2>2, <2>3, <2>4, <2>5
<1>2. CASE exec' = [exec EXCEPT ![k].pc = "done"] /\ UNCHANGED status
  <2>1. /\ exec' \in [Rows -> HandlerType] /\ exec'[k].pc = "done"
        /\ \A j \in Rows : exec'[j].by = exec[j].by /\ (j # k => exec'[j] = exec[j])
    BY <1>2, ExecPc
  <2>2. QED  BY <1>2, <2>1 DEF FinishSystemTask, TypeOK
<1>3. QED  BY <1>1, <1>2 DEF FinishSystemTask

\* The lock of a finished row is released.
LEMMA ReleaseFinishedEffect ==
  ASSUME TypeOK, NEW k \in Rows, ReleaseFinished(k)
  PROVE  /\ TypeOK' /\ RowsStay /\ job' = job
         /\ exec[k].pc = "release" /\ exec'[k].pc = "done"
         /\ \A j \in Rows : exec'[j].by = exec[j].by /\ (j # k => exec'[j] = exec[j])
         /\ lock' = lock \/ (lock.row = k /\ lock.by = exec[k].by)
<1>1. /\ exec' \in [Rows -> HandlerType] /\ exec'[k].pc = "done"
      /\ \A j \in Rows : exec'[j].by = exec[j].by /\ (j # k => exec'[j] = exec[j])
  BY ExecPc DEF ReleaseFinished
<1>2. QED  BY <1>1, ConstantTypes DEF ReleaseFinished, Release, TypeOK, RowsStay

\* A handler gives up.
LEMMA HandlerFailsEffect ==
  ASSUME TypeOK, NEW k \in Rows, HandlerFails(k)
  PROVE  /\ TypeOK' /\ RowsStay /\ job' = job /\ lock' = lock
         /\ exec[k].pc # "none" /\ exec'[k].pc = "done"
         /\ \A j \in Rows : exec'[j].by = exec[j].by /\ (j # k => exec'[j] = exec[j])
<1>1. /\ exec' \in [Rows -> HandlerType] /\ exec'[k].pc = "done"
      /\ \A j \in Rows : exec'[j].by = exec[j].by /\ (j # k => exec'[j] = exec[j])
  BY ExecPc DEF HandlerFails
<1>2. faults' \in Nat  BY DEF HandlerFails, Fault, TypeOK
<1>3. QED  BY <1>1, <1>2 DEF HandlerFails, TypeOK, RowsStay

\* A claim begins with a pending row.
LEMMA StartClaimEffect ==
  ASSUME TypeOK, NEW r \in Runners, StartClaim(r)
  PROVE  /\ TypeOK' /\ OnlyJobOf(r) /\ job'[r].pc = "insert" /\ job'[r].age = 0
         /\ job'[r].row \in Rows /\ status[job'[r].row] = "pending"
         /\ RowsStay /\ exec' = exec /\ lock' = lock
<1>1. PICK k \in Rows : status[k] = "pending" /\ SetJob(r, NewJob("insert", k, "none"))
  BY DEF StartClaim
<1> DEFINE j == NewJob("insert", k, "none")
<1>2. j \in JobType /\ j.pc = "insert" /\ j.row = k /\ j.age = 0
  BY DEF NewJob, JobType
<1> HIDE DEF j
<1>3. OnlyJobOf(r) /\ job'[r] = j  BY <1>1, <1>2, SetJobEffect DEF j
<1>4. QED  BY <1>1, <1>2, <1>3 DEF StartClaim, TypeOK, OnlyJobOf, RowsStay

\* The insertion succeeds if there is no lock.
LEMMA InsertLockEffect ==
  ASSUME TypeOK, ClaimsAnew, NEW r \in Runners, InsertLock(r)
  PROVE  /\ TypeOK' /\ OnlyJobOf(r) /\ job'[r].row = job[r].row /\ job'[r].age = job[r].age
         /\ RowsStay /\ exec' = exec /\ job[r].pc = "insert"
         /\ \/ /\ lock.row = 0 /\ job'[r].pc = "start"
               /\ lock'.row = job[r].row /\ lock'.by = r /\ lock'.left = TTL - job[r].age
            \/ lock' = lock /\ job'[r].pc = "read"
<1>1. CASE lock = NoLock /\ lock' = MyLock(r) /\ Goto(r, "start")
  BY <1>1, GotoEffect, MyLockType, ConstantTypes DEF InsertLock, TypeOK, OnlyJobOf, RowsStay
<1>2. CASE lock # NoLock /\ Goto(r, "read") /\ UNCHANGED lock
  BY <1>2, GotoEffect DEF InsertLock, TypeOK, OnlyJobOf, RowsStay
<1>3. QED  BY <1>1, <1>2 DEF InsertLock

\* The claim goes on if the lock it reads is stale.
LEMMA ReadLockEffect ==
  ASSUME TypeOK, NEW r \in Runners, ReadLock(r)
  PROVE  /\ TypeOK' /\ OnlyJobOf(r) /\ RowsStay /\ exec' = exec /\ lock' = lock
         /\ job[r].pc = "read"
         /\ \/ job'[r].pc = "idle"
            \/ /\ job'[r].pc = "take"
               /\ job'[r].row = job[r].row /\ job'[r].age = job[r].age
<1>1. CASE SetJob(r, [job[r] EXCEPT !.pc = "take", !.old = lock.row])
  <2> DEFINE j == [job[r] EXCEPT !.pc = "take", !.old = lock.row]
  <2>1. job[r] \in JobType /\ lock.row \in {0} \cup Rows  BY DEF TypeOK, LockType
  <2>2. j \in JobType /\ j.pc = "take" /\ j.row = job[r].row /\ j.age = job[r].age
    BY <2>1 DEF JobType
  <2>3. SetJob(r, j)  BY <1>1
  <2> HIDE DEF j
  <2>4. OnlyJobOf(r) /\ job'[r] = j  BY <2>2, <2>3, SetJobEffect
  <2>5. QED  BY <2>2, <2>4 DEF ReadLock, TypeOK, OnlyJobOf, RowsStay
<1>2. CASE SetJob(r, Idle)
  BY <1>2, IdleEffect DEF ReadLock, TypeOK, OnlyJobOf, RowsStay
<1>3. QED  BY <1>1, <1>2 DEF ReadLock

\* The take-over succeeds if the lock is still stale.
LEMMA TakeLockEffect ==
  ASSUME TypeOK, ClaimsAnew, NEW r \in Runners, TakeLock(r)
  PROVE  /\ TypeOK' /\ OnlyJobOf(r) /\ RowsStay /\ exec' = exec /\ job[r].pc = "take"
         /\ \/ /\ lock.left < -job[r].age /\ job'[r].pc \in {"markOld", "start"}
               /\ job'[r].row = job[r].row /\ job'[r].age = job[r].age
               /\ lock'.row = job[r].row /\ lock'.by = r /\ lock'.left = TTL - job[r].age
            \/ lock' = lock /\ job'[r].pc = "idle"
<1>1. CASE /\ Stale(r) /\ lock' = MyLock(r)
           /\ Goto(r, IF job[r].old # job[r].row THEN "markOld" ELSE "start")
  <2>1. PICK l \in {"markOld", "start"} : Goto(r, l)  BY <1>1
  <2>2. QED  BY <1>1, <2>1, GotoEffect, MyLockType DEF TakeLock, Stale, TypeOK, OnlyJobOf, RowsStay
<1>2. CASE ~Stale(r) /\ SetJob(r, Idle) /\ UNCHANGED lock
  BY <1>2, IdleEffect DEF TakeLock, TypeOK, OnlyJobOf, RowsStay
<1>3. QED  BY <1>1, <1>2 DEF TakeLock

\* The row of the lock that was taken over is marked.
LEMMA MarkOldEffect ==
  ASSUME TypeOK, NEW r \in Runners, MarkOld(r)
  PROVE  /\ TypeOK' /\ OnlyJobOf(r) /\ job[r].pc = "markOld" /\ job'[r].pc = "start"
         /\ Marked(job[r].old)
         /\ job'[r].row = job[r].row /\ job'[r].age = job[r].age
<1>1. /\ OnlyJobOf(r) /\ job'[r].pc = "start"
      /\ job'[r].row = job[r].row /\ job'[r].age = job[r].age
  BY GotoEffect DEF MarkOld
<1>2. QED  BY <1>1 DEF MarkOld, MarkSystemTaskLeaseExpired, TypeOK, OnlyJobOf, Marked

\* A pending row is started, by a handler or not; any other is left.
LEMMA StartTaskEffect ==
  ASSUME TypeOK, ClaimsAnew, NEW r \in Runners, StartTask(r)
  PROVE  /\ TypeOK' /\ OnlyJobOf(r) /\ job[r].pc = "start" /\ job[r].row \in Rows
         /\ lock' = lock
         /\ \A j \in Rows : j # job[r].row =>
              /\ status'[j] = status[j] /\ lockedBy'[j] = lockedBy[j]
              /\ starts'[j] = starts[j] /\ exec'[j] = exec[j]
         /\ LET k == job[r].row IN
            \/ /\ status[k] = "pending" /\ status'[k] = "running" /\ lockedBy'[k] = r
               /\ job'[r].pc = "idle"
               /\ \/ exec'[k].pc = "run" /\ exec'[k].by = r /\ starts'[k] = starts[k] + 1
                  \/ exec'[k] = exec[k] /\ starts'[k] = starts[k]
            \/ /\ status' = status /\ lockedBy' = lockedBy /\ exec' = exec /\ starts' = starts
               /\ job'[r].pc = "release" /\ job'[r].row = k
<1> DEFINE k == job[r].row
           h == [pc |-> "run", by |-> r, beats |-> TRUE]
<1>1. job[r].pc = "start" /\ k \in Rows  BY DEF StartTask, ClaimsAnew
<1>2. h \in HandlerType /\ h.pc = "run" /\ h.by = r  BY DEF HandlerType
<1>3. CASE status[k] = "pending"
  <2>1. /\ status' = [status EXCEPT ![k] = "running"] /\ lockedBy' = [lockedBy EXCEPT ![k] = r]
        /\ SetJob(r, Idle) /\ UNCHANGED <<lock, dead>>
        /\ \/ /\ exec' = [exec EXCEPT ![k] = h] /\ starts' = [starts EXCEPT ![k] = @ + 1]
              /\ faults' = faults
           \/ faults' = faults + 1 /\ exec' = exec /\ starts' = starts
    BY <1>3 DEF StartTask, Fault
  <2> HIDE DEF h, k
  <2>2. OnlyJobOf(r) /\ job'[r].pc = "idle"  BY <2>1, IdleEffect
  <2>3. /\ status' \in [Rows -> {"none"} \cup Active \cup Final]
        /\ lockedBy' \in [Rows -> Holders]
    BY <1>1, <2>1 DEF TypeOK
  <2>4. /\ exec' \in [Rows -> HandlerType] /\ starts' \in [Rows -> Nat] /\ faults' \in Nat
        /\ \A j \in Rows : j # k => starts'[j] = starts[j] /\ exec'[j] = exec[j]
        /\ \/ exec'[k] = h /\ starts'[k] = starts[k] + 1
           \/ exec'[k] = exec[k] /\ starts'[k] = starts[k]
    <3>1. CASE exec' = [exec EXCEPT ![k] = h] /\ starts' = [starts EXCEPT ![k] = @ + 1]
      BY <1>1, <1>2, <2>1, <3>1 DEF TypeOK
    <3>2. CASE exec' = exec /\ starts' = starts
      BY <1>1, <2>1, <3>2 DEF TypeOK
    <3>3. QED  BY <2>1, <3>1, <3>2
  <2>5. TypeOK'  BY <2>1, <2>2, <2>3, <2>4 DEF TypeOK, OnlyJobOf
  <2>6. QED  BY <1>1, <1>2, <1>3, <2>1, <2>2, <2>4, <2>5 DEF TypeOK, k
<1>4. CASE status[k] # "pending"
  <2>1. /\ Goto(r, "release") /\ UNCHANGED <<lock, dead, status, lockedBy, exec, starts, faults>>
    BY <1>4 DEF StartTask
  <2>2. OnlyJobOf(r) /\ job'[r].pc = "release" /\ job'[r].row = k  BY <2>1, GotoEffect
  <2>3. QED  BY <1>1, <2>1, <2>2 DEF TypeOK, OnlyJobOf
<1>5. QED  BY <1>3, <1>4

\* A claim that cannot go on releases its lock.
LEMMA ReleaseClaimEffect ==
  ASSUME TypeOK, NEW r \in Runners, ReleaseClaim(r)
  PROVE  /\ TypeOK' /\ OnlyJobOf(r) /\ job'[r].pc = "idle" /\ RowsStay /\ exec' = exec
         /\ job[r].pc = "release"
         /\ lock' = lock \/ (lock.row = job[r].row /\ lock.by = r)
BY IdleEffect, ConstantTypes DEF ReleaseClaim, Release, TypeOK, OnlyJobOf, RowsStay

\* A cleanup begins with an expired lock.
LEMMA StartCleanupEffect ==
  ASSUME TypeOK, NEW r \in Runners, StartCleanup(r)
  PROVE  /\ TypeOK' /\ OnlyJobOf(r) /\ job'[r].pc = "mark" /\ job'[r].row \in Rows
         /\ RowsStay /\ exec' = exec /\ lock' = lock
<1> DEFINE j == NewJob("mark", lock.row, lock.by)
<1>1. lock.row \in Rows /\ lock.by \in Runners  BY DEF StartCleanup, TypeOK
<1>2. j \in JobType /\ j.pc = "mark" /\ j.row = lock.row  BY <1>1 DEF NewJob, JobType
<1>3. SetJob(r, j)  BY DEF StartCleanup
<1> HIDE DEF j
<1>4. OnlyJobOf(r) /\ job'[r] = j  BY <1>2, <1>3, SetJobEffect
<1>5. QED  BY <1>1, <1>2, <1>4 DEF StartCleanup, TypeOK, OnlyJobOf, RowsStay

\* The row of an expired lock is marked.
LEMMA MarkStaleEffect ==
  ASSUME TypeOK, NEW r \in Runners, MarkStale(r)
  PROVE  /\ TypeOK' /\ OnlyJobOf(r) /\ job'[r].pc = "delete" /\ job'[r].row = job[r].row
         /\ job[r].pc = "mark" /\ Marked(job[r].row)
<1>1. OnlyJobOf(r) /\ job'[r].pc = "delete" /\ job'[r].row = job[r].row
  BY GotoEffect DEF MarkStale
<1>2. QED  BY <1>1 DEF MarkStale, MarkSystemTaskLeaseExpired, TypeOK, OnlyJobOf, Marked

\* An expired lock is deleted.
LEMMA DeleteStaleEffect ==
  ASSUME TypeOK, NEW r \in Runners, DeleteStale(r)
  PROVE  /\ TypeOK' /\ OnlyJobOf(r) /\ job'[r].pc = "idle" /\ RowsStay /\ exec' = exec
         /\ job[r].pc = "delete"
         /\ \/ lock' = lock
            \/ lock.row = job[r].row /\ lock.left < -job[r].age
BY IdleEffect, ConstantTypes DEF DeleteStale, Stale, TypeOK, OnlyJobOf, RowsStay

\* A call that fails ends the job or has it release its lock.
LEMMA CallFailsEffect ==
  ASSUME TypeOK, NEW r \in Runners, CallFails(r)
  PROVE  /\ TypeOK' /\ OnlyJobOf(r) /\ RowsStay /\ exec' = exec /\ lock' = lock
         /\ \/ job'[r].pc = "idle"
            \/ /\ job'[r].row = job[r].row /\ job'[r].age = job[r].age
               /\ \/ job[r].pc = "insert" /\ job'[r].pc = "read"
                  \/ job[r].pc \in {"markOld", "start"} /\ job'[r].pc = "release"
<1>1. CASE job[r].pc = "insert"
  <2>1. Goto(r, "read")  BY <1>1 DEF CallFails, AfterError
  <2>2. QED  BY <1>1, <2>1, GotoEffect DEF CallFails, Fault, TypeOK, OnlyJobOf, RowsStay
<1>2. CASE job[r].pc \in {"markOld", "start"}
  <2>1. Goto(r, "release")  BY <1>2 DEF CallFails, AfterError
  <2>2. QED  BY <1>2, <2>1, GotoEffect DEF CallFails, Fault, TypeOK, OnlyJobOf, RowsStay
<1>3. CASE job[r].pc \notin {"insert", "markOld", "start"}
  <2>1. SetJob(r, Idle)  BY <1>3 DEF CallFails, AfterError
  <2>2. QED  BY <2>1, IdleEffect DEF CallFails, Fault, TypeOK, OnlyJobOf, RowsStay
<1>4. QED  BY <1>1, <1>2, <1>3

\* A dead runner has no job, and its handlers are gone.
LEMMA CrashEffect ==
  ASSUME TypeOK, NEW r \in Runners, Crash(r)
  PROVE  /\ TypeOK' /\ OnlyJobOf(r) /\ job'[r].pc = "idle" /\ RowsStay /\ lock' = lock
         /\ \A k \in Rows : /\ exec'[k].by = exec[k].by
                            /\ exec[k].by # r => exec'[k] = exec[k]
                            /\ exec'[k].pc = exec[k].pc \/ exec'[k].pc = "done"
<1>1. OnlyJobOf(r) /\ job'[r].pc = "idle"
  BY ConstantTypes DEF Crash, TypeOK, OnlyJobOf
<1>2. ASSUME NEW k \in Rows
      PROVE  /\ exec'[k] \in HandlerType /\ exec'[k].by = exec[k].by
             /\ exec[k].by # r => exec'[k] = exec[k]
             /\ exec'[k].pc = exec[k].pc \/ exec'[k].pc = "done"
  <2>1. exec[k] \in HandlerType  BY DEF TypeOK
  <2>2. LET e == [exec[k] EXCEPT !.pc = "done"]
        IN  e \in HandlerType /\ e.pc = "done" /\ e.by = exec[k].by
    BY <2>1 DEF HandlerType
  <2>3. QED  BY <2>1, <2>2 DEF Crash
<1>3. exec' \in [Rows -> HandlerType]
  BY <1>2 DEF Crash
<1>4. QED  BY <1>1, <1>2, <1>3 DEF Crash, Fault, TypeOK, OnlyJobOf, RowsStay

\* Time passes for every job and for the lock.
LEMMA TickEffect ==
  ASSUME TypeOK, Tick
  PROVE  /\ TypeOK' /\ RowsStay /\ exec' = exec /\ lock'.row = lock.row /\ lock'.by = lock.by
         /\ lock'.left \in Int /\ lock'.left >= lock.left - 1
         /\ \A r \in Runners :
              /\ job'[r].pc = job[r].pc /\ job'[r].row = job[r].row
              /\ job[r].pc # "idle" => job'[r].age = job[r].age + 1
<1>1. /\ lock' \in LockType /\ lock'.row = lock.row /\ lock'.by = lock.by
      /\ lock'.left \in Int /\ lock'.left >= lock.left - 1
      /\ lock = NoLock => lock' = NoLock
  <2>1. lock \in LockType  BY DEF TypeOK
  <2>2. CASE lock # NoLock /\ lock.left > -(MaxDelay + 1)
    <3>1. lock' = [lock EXCEPT !.left = @ - 1]  BY <2>2 DEF Tick
    <3>2. QED  BY <2>1, <2>2, <3>1 DEF LockType
  <2>3. CASE ~(lock # NoLock /\ lock.left > -(MaxDelay + 1))
    <3>1. lock' = lock  BY <2>3 DEF Tick
    <3>2. QED  BY <2>1, <3>1 DEF LockType
  <2>4. QED  BY <2>2, <2>3
<1>2. ASSUME NEW r \in Runners
      PROVE  /\ job'[r] \in JobType /\ job'[r].pc = job[r].pc /\ job'[r].row = job[r].row
             /\ job[r].pc # "idle" => job'[r].age = job[r].age + 1
  <2>1. job[r] \in JobType /\ (job[r].pc # "idle" => job[r].age < MaxDelay)
    BY DEF TypeOK, Tick
  <2>2. CASE job[r].pc # "idle"
    <3>1. job'[r] = [job[r] EXCEPT !.age = @ + 1]  BY <2>2 DEF Tick
    <3>2. QED  BY <2>1, <2>2, <3>1 DEF JobType
  <2>3. CASE job[r].pc = "idle"
    BY <2>1, <2>3 DEF Tick
  <2>4. QED  BY <2>2, <2>3
<1>3. job' \in [Runners -> JobType]  BY <1>2 DEF Tick
<1>4. QED  BY <1>1, <1>2, <1>3 DEF Tick, TypeOK, RowsStay

-----------------------------------------------------------------------------
(* The invariant is inductive                                              *)


\* Every step keeps the type of every variable.
LEMMA TypeStep == ASSUME TypeOK, ClaimsAnew, [Next]_vars PROVE TypeOK'
<1>1. ASSUME NEW k \in Rows, CreateSystemTask(k) PROVE TypeOK'
  BY <1>1 DEF TypeOK, CreateSystemTask
<1>2. ASSUME NEW k \in Rows, Renew(k) PROVE TypeOK'
  BY <1>2, RenewEffect DEF TypeOK, RowsStay
<1>3. ASSUME NEW k \in Rows, FinishSystemTask(k) PROVE TypeOK'
  BY <1>3, FinishSystemTaskEffect DEF TypeOK
<1>4. ASSUME NEW k \in Rows, ReleaseFinished(k) PROVE TypeOK'
  BY <1>4, ReleaseFinishedEffect DEF TypeOK, RowsStay
<1>5. ASSUME NEW k \in Rows, HandlerFails(k) PROVE TypeOK'
  BY <1>5, HandlerFailsEffect DEF TypeOK, RowsStay
<1>6. ASSUME NEW r \in Runners, StartClaim(r) PROVE TypeOK'
  BY <1>6, StartClaimEffect DEF TypeOK, RowsStay, OnlyJobOf
<1>7. ASSUME NEW r \in Runners, InsertLock(r) PROVE TypeOK'
  BY <1>7, InsertLockEffect DEF TypeOK, RowsStay, OnlyJobOf
<1>8. ASSUME NEW r \in Runners, ReadLock(r) PROVE TypeOK'
  BY <1>8, ReadLockEffect DEF TypeOK, RowsStay, OnlyJobOf
<1>9. ASSUME NEW r \in Runners, TakeLock(r) PROVE TypeOK'
  BY <1>9, TakeLockEffect DEF TypeOK, RowsStay, OnlyJobOf
<1>10. ASSUME NEW r \in Runners, MarkOld(r) PROVE TypeOK'
  BY <1>10, MarkOldEffect DEF TypeOK, Marked, OnlyJobOf
<1>11. ASSUME NEW r \in Runners, StartTask(r) PROVE TypeOK'
  BY <1>11, StartTaskEffect DEF TypeOK, OnlyJobOf
<1>12. ASSUME NEW r \in Runners, ReleaseClaim(r) PROVE TypeOK'
  BY <1>12, ReleaseClaimEffect DEF TypeOK, RowsStay, OnlyJobOf
<1>13. ASSUME NEW r \in Runners, StartCleanup(r) PROVE TypeOK'
  BY <1>13, StartCleanupEffect DEF TypeOK, RowsStay, OnlyJobOf
<1>14. ASSUME NEW r \in Runners, MarkStale(r) PROVE TypeOK'
  BY <1>14, MarkStaleEffect DEF TypeOK, Marked, OnlyJobOf
<1>15. ASSUME NEW r \in Runners, DeleteStale(r) PROVE TypeOK'
  BY <1>15, DeleteStaleEffect DEF TypeOK, RowsStay, OnlyJobOf
<1>16. ASSUME NEW r \in Runners, CallFails(r) PROVE TypeOK'
  BY <1>16, CallFailsEffect DEF TypeOK, RowsStay, OnlyJobOf
<1>17. ASSUME NEW r \in Runners, Crash(r) PROVE TypeOK'
  BY <1>17, CrashEffect DEF TypeOK, RowsStay, OnlyJobOf
<1>18. CASE Tick
  BY <1>18, TickEffect DEF TypeOK, RowsStay
<1>19. CASE UNCHANGED vars
  BY <1>19 DEF TypeOK, vars
<1>20. QED
  BY <1>1, <1>2, <1>3, <1>4, <1>5, <1>6, <1>7, <1>8, <1>9, <1>10, <1>11, <1>12,
     <1>13, <1>14, <1>15, <1>16, <1>17, <1>18, <1>19
  DEF Next, Claim, Cleanup, Handler

\* Every step keeps what is known of the rows: at most one is active, and none
\* is given to a second handler.
LEMMA RowStep == ASSUME TypeOK, ClaimsAnew, RowInv, [Next]_vars PROVE RowInv'
<1>1. ASSUME NEW k \in Rows, CreateSystemTask(k) PROVE RowInv'
  BY <1>1
  DEF RowInv, OneActive, ExecutedOnce, Untouched, ReleaseAfterFinish,
      CreateSystemTask
<1>2. ASSUME NEW k \in Rows, Renew(k) PROVE RowInv'
  BY <1>2, RenewEffect, FieldTypes
  DEF RowInv, OneActive, ExecutedOnce, Untouched, ReleaseAfterFinish, RowsStay
<1>3. ASSUME NEW k \in Rows, FinishSystemTask(k) PROVE RowInv'
  BY <1>3, FinishSystemTaskEffect, FieldTypes
  DEF RowInv, OneActive, ExecutedOnce, Untouched, ReleaseAfterFinish
<1>4. ASSUME NEW k \in Rows, ReleaseFinished(k) PROVE RowInv'
  BY <1>4, ReleaseFinishedEffect, FieldTypes
  DEF RowInv, OneActive, ExecutedOnce, Untouched, ReleaseAfterFinish, RowsStay
<1>5. ASSUME NEW k \in Rows, HandlerFails(k) PROVE RowInv'
  BY <1>5, HandlerFailsEffect, FieldTypes
  DEF RowInv, OneActive, ExecutedOnce, Untouched, ReleaseAfterFinish, RowsStay
<1>6. ASSUME NEW r \in Runners, StartClaim(r) PROVE RowInv'
  BY <1>6, StartClaimEffect, FieldTypes
  DEF RowInv, OneActive, ExecutedOnce, Untouched, ReleaseAfterFinish, RowsStay,
      OnlyJobOf
<1>7. ASSUME NEW r \in Runners, InsertLock(r) PROVE RowInv'
  BY <1>7, InsertLockEffect, FieldTypes
  DEF RowInv, OneActive, ExecutedOnce, Untouched, ReleaseAfterFinish, RowsStay,
      OnlyJobOf
<1>8. ASSUME NEW r \in Runners, ReadLock(r) PROVE RowInv'
  BY <1>8, ReadLockEffect, FieldTypes
  DEF RowInv, OneActive, ExecutedOnce, Untouched, ReleaseAfterFinish, RowsStay,
      OnlyJobOf
<1>9. ASSUME NEW r \in Runners, TakeLock(r) PROVE RowInv'
  BY <1>9, TakeLockEffect, FieldTypes
  DEF RowInv, OneActive, ExecutedOnce, Untouched, ReleaseAfterFinish, RowsStay,
      OnlyJobOf
<1>10. ASSUME NEW r \in Runners, MarkOld(r) PROVE RowInv'
  BY <1>10, MarkOldEffect, FieldTypes
  DEF RowInv, OneActive, ExecutedOnce, Untouched, ReleaseAfterFinish, Marked,
      OnlyJobOf
<1>11. ASSUME NEW r \in Runners, StartTask(r) PROVE RowInv'
  BY <1>11, StartTaskEffect, FieldTypes
  DEF RowInv, OneActive, ExecutedOnce, Untouched, ReleaseAfterFinish, OnlyJobOf
<1>12. ASSUME NEW r \in Runners, ReleaseClaim(r) PROVE RowInv'
  BY <1>12, ReleaseClaimEffect, FieldTypes
  DEF RowInv, OneActive, ExecutedOnce, Untouched, ReleaseAfterFinish, RowsStay,
      OnlyJobOf
<1>13. ASSUME NEW r \in Runners, StartCleanup(r) PROVE RowInv'
  BY <1>13, StartCleanupEffect, FieldTypes
  DEF RowInv, OneActive, ExecutedOnce, Untouched, ReleaseAfterFinish, RowsStay,
      OnlyJobOf
<1>14. ASSUME NEW r \in Runners, MarkStale(r) PROVE RowInv'
  BY <1>14, MarkStaleEffect, FieldTypes
  DEF RowInv, OneActive, ExecutedOnce, Untouched, ReleaseAfterFinish, Marked,
      OnlyJobOf
<1>15. ASSUME NEW r \in Runners, DeleteStale(r) PROVE RowInv'
  BY <1>15, DeleteStaleEffect, FieldTypes
  DEF RowInv, OneActive, ExecutedOnce, Untouched, ReleaseAfterFinish, RowsStay,
      OnlyJobOf
<1>16. ASSUME NEW r \in Runners, CallFails(r) PROVE RowInv'
  BY <1>16, CallFailsEffect, FieldTypes
  DEF RowInv, OneActive, ExecutedOnce, Untouched, ReleaseAfterFinish, RowsStay,
      OnlyJobOf
<1>17. ASSUME NEW r \in Runners, Crash(r) PROVE RowInv'
  BY <1>17, CrashEffect, FieldTypes
  DEF RowInv, OneActive, ExecutedOnce, Untouched, ReleaseAfterFinish, RowsStay,
      OnlyJobOf
<1>18. CASE Tick
  BY <1>18, TickEffect, FieldTypes
  DEF RowInv, OneActive, ExecutedOnce, Untouched, ReleaseAfterFinish, RowsStay
<1>19. CASE UNCHANGED vars
  BY <1>19
  DEF RowInv, OneActive, ExecutedOnce, Untouched, ReleaseAfterFinish, vars
<1>20. QED
  BY <1>1, <1>2, <1>3, <1>4, <1>5, <1>6, <1>7, <1>8, <1>9, <1>10, <1>11, <1>12,
     <1>13, <1>14, <1>15, <1>16, <1>17, <1>18, <1>19
  DEF Next, Claim, Cleanup, Handler

\* Every step keeps what is known of claims.
LEMMA ClaimStep == ASSUME TypeOK, ClaimsAnew, RowInv, [Next]_vars PROVE ClaimsAnew'
<1>1. ASSUME NEW k \in Rows, CreateSystemTask(k) PROVE ClaimsAnew'
  BY <1>1 DEF ClaimsAnew, RowInv, Untouched, CreateSystemTask
<1>2. ASSUME NEW k \in Rows, Renew(k) PROVE ClaimsAnew'
  BY <1>2, RenewEffect DEF ClaimsAnew, RowInv, Untouched, RowsStay
<1>3. ASSUME NEW k \in Rows, FinishSystemTask(k) PROVE ClaimsAnew'
  BY <1>3, FinishSystemTaskEffect DEF ClaimsAnew, RowInv, Untouched
<1>4. ASSUME NEW k \in Rows, ReleaseFinished(k) PROVE ClaimsAnew'
  BY <1>4, ReleaseFinishedEffect DEF ClaimsAnew, RowInv, Untouched, RowsStay
<1>5. ASSUME NEW k \in Rows, HandlerFails(k) PROVE ClaimsAnew'
  BY <1>5, HandlerFailsEffect DEF ClaimsAnew, RowInv, Untouched, RowsStay
<1>6. ASSUME NEW r \in Runners, StartClaim(r) PROVE ClaimsAnew'
  BY <1>6, StartClaimEffect
  DEF ClaimsAnew, RowInv, Untouched, RowsStay, OnlyJobOf
<1>7. ASSUME NEW r \in Runners, InsertLock(r) PROVE ClaimsAnew'
  BY <1>7, InsertLockEffect
  DEF ClaimsAnew, RowInv, Untouched, RowsStay, OnlyJobOf
<1>8. ASSUME NEW r \in Runners, ReadLock(r) PROVE ClaimsAnew'
  BY <1>8, ReadLockEffect DEF ClaimsAnew, RowInv, Untouched, RowsStay, OnlyJobOf
<1>9. ASSUME NEW r \in Runners, TakeLock(r) PROVE ClaimsAnew'
  BY <1>9, TakeLockEffect DEF ClaimsAnew, RowInv, Untouched, RowsStay, OnlyJobOf
<1>10. ASSUME NEW r \in Runners, MarkOld(r) PROVE ClaimsAnew'
  BY <1>10, MarkOldEffect DEF ClaimsAnew, RowInv, Untouched, Marked, OnlyJobOf
<1>11. ASSUME NEW r \in Runners, StartTask(r) PROVE ClaimsAnew'
  BY <1>11, StartTaskEffect DEF ClaimsAnew, RowInv, Untouched, OnlyJobOf
<1>12. ASSUME NEW r \in Runners, ReleaseClaim(r) PROVE ClaimsAnew'
  BY <1>12, ReleaseClaimEffect
  DEF ClaimsAnew, RowInv, Untouched, RowsStay, OnlyJobOf
<1>13. ASSUME NEW r \in Runners, StartCleanup(r) PROVE ClaimsAnew'
  BY <1>13, StartCleanupEffect
  DEF ClaimsAnew, RowInv, Untouched, RowsStay, OnlyJobOf
<1>14. ASSUME NEW r \in Runners, MarkStale(r) PROVE ClaimsAnew'
  BY <1>14, MarkStaleEffect DEF ClaimsAnew, RowInv, Untouched, Marked, OnlyJobOf
<1>15. ASSUME NEW r \in Runners, DeleteStale(r) PROVE ClaimsAnew'
  BY <1>15, DeleteStaleEffect
  DEF ClaimsAnew, RowInv, Untouched, RowsStay, OnlyJobOf
<1>16. ASSUME NEW r \in Runners, CallFails(r) PROVE ClaimsAnew'
  BY <1>16, CallFailsEffect
  DEF ClaimsAnew, RowInv, Untouched, RowsStay, OnlyJobOf
<1>17. ASSUME NEW r \in Runners, Crash(r) PROVE ClaimsAnew'
  BY <1>17, CrashEffect DEF ClaimsAnew, RowInv, Untouched, RowsStay, OnlyJobOf
<1>18. CASE Tick
  BY <1>18, TickEffect DEF ClaimsAnew, RowInv, Untouched, RowsStay
<1>19. CASE UNCHANGED vars
  BY <1>19 DEF ClaimsAnew, RowInv, Untouched, vars
<1>20. QED
  BY <1>1, <1>2, <1>3, <1>4, <1>5, <1>6, <1>7, <1>8, <1>9, <1>10, <1>11, <1>12,
     <1>13, <1>14, <1>15, <1>16, <1>17, <1>18, <1>19
  DEF Next, Claim, Cleanup, Handler

\* Every step keeps the leases, if no claim outlasts the TTL.
LEMMA LeaseStep == ASSUME MaxDelay <= TTL, IInv, LeaseInv, [Next]_vars PROVE LeaseInv'
<1>1. ASSUME NEW k \in Rows, CreateSystemTask(k) PROVE LeaseInv'
  BY <1>1
  DEF IInv, ClaimsAnew, RowInv, OneActive, Untouched, ReleaseAfterFinish, LeaseInv,
      ClaimHolds, Covered, NotStaleToClaims, NotStaleToCleanups, CreateSystemTask
<1>2. ASSUME NEW k \in Rows, Renew(k) PROVE LeaseInv'
  BY <1>2, RenewEffect, FieldTypes
  DEF IInv, ClaimsAnew, RowInv, OneActive, Untouched, ReleaseAfterFinish, LeaseInv,
      ClaimHolds, Covered, NotStaleToClaims, NotStaleToCleanups, RowsStay
<1>3. ASSUME NEW k \in Rows, FinishSystemTask(k) PROVE LeaseInv'
  BY <1>3, FinishSystemTaskEffect, FieldTypes
  DEF IInv, ClaimsAnew, RowInv, OneActive, Untouched, ReleaseAfterFinish, LeaseInv,
      ClaimHolds, Covered, NotStaleToClaims, NotStaleToCleanups
<1>4. ASSUME NEW k \in Rows, ReleaseFinished(k) PROVE LeaseInv'
  BY <1>4, ReleaseFinishedEffect, FieldTypes
  DEF IInv, ClaimsAnew, RowInv, OneActive, Untouched, ReleaseAfterFinish, LeaseInv,
      ClaimHolds, Covered, NotStaleToClaims, NotStaleToCleanups, RowsStay
<1>5. ASSUME NEW k \in Rows, HandlerFails(k) PROVE LeaseInv'
  BY <1>5, HandlerFailsEffect, FieldTypes
  DEF IInv, ClaimsAnew, RowInv, OneActive, Untouched, ReleaseAfterFinish, LeaseInv,
      ClaimHolds, Covered, NotStaleToClaims, NotStaleToCleanups, RowsStay
<1>6. ASSUME NEW r \in Runners, StartClaim(r) PROVE LeaseInv'
  BY <1>6, StartClaimEffect, FieldTypes
  DEF IInv, ClaimsAnew, RowInv, OneActive, Untouched, ReleaseAfterFinish, LeaseInv,
      ClaimHolds, Covered, NotStaleToClaims, NotStaleToCleanups, RowsStay, OnlyJobOf
<1>7. ASSUME NEW r \in Runners, InsertLock(r) PROVE LeaseInv'
  BY <1>7, InsertLockEffect, FieldTypes
  DEF IInv, ClaimsAnew, RowInv, OneActive, Untouched, ReleaseAfterFinish, LeaseInv,
      ClaimHolds, Covered, NotStaleToClaims, NotStaleToCleanups, RowsStay, OnlyJobOf
<1>8. ASSUME NEW r \in Runners, ReadLock(r) PROVE LeaseInv'
  BY <1>8, ReadLockEffect, FieldTypes
  DEF IInv, ClaimsAnew, RowInv, OneActive, Untouched, ReleaseAfterFinish, LeaseInv,
      ClaimHolds, Covered, NotStaleToClaims, NotStaleToCleanups, RowsStay, OnlyJobOf
<1>9. ASSUME NEW r \in Runners, TakeLock(r) PROVE LeaseInv'
  BY <1>9, TakeLockEffect, FieldTypes
  DEF IInv, ClaimsAnew, RowInv, OneActive, Untouched, ReleaseAfterFinish, LeaseInv,
      ClaimHolds, Covered, NotStaleToClaims, NotStaleToCleanups, RowsStay, OnlyJobOf
<1>10. ASSUME NEW r \in Runners, MarkOld(r) PROVE LeaseInv'
  BY <1>10, MarkOldEffect, FieldTypes
  DEF IInv, ClaimsAnew, RowInv, OneActive, Untouched, ReleaseAfterFinish, LeaseInv,
      ClaimHolds, Covered, NotStaleToClaims, NotStaleToCleanups, Marked, OnlyJobOf
<1>11. ASSUME NEW r \in Runners, StartTask(r) PROVE LeaseInv'
  BY <1>11, StartTaskEffect, FieldTypes
  DEF IInv, ClaimsAnew, RowInv, OneActive, Untouched, ReleaseAfterFinish, LeaseInv,
      ClaimHolds, Covered, NotStaleToClaims, NotStaleToCleanups, OnlyJobOf
<1>12. ASSUME NEW r \in Runners, ReleaseClaim(r) PROVE LeaseInv'
  BY <1>12, ReleaseClaimEffect, FieldTypes
  DEF IInv, ClaimsAnew, RowInv, OneActive, Untouched, ReleaseAfterFinish, LeaseInv,
      ClaimHolds, Covered, NotStaleToClaims, NotStaleToCleanups, RowsStay, OnlyJobOf
<1>13. ASSUME NEW r \in Runners, StartCleanup(r) PROVE LeaseInv'
  BY <1>13, StartCleanupEffect, FieldTypes
  DEF IInv, ClaimsAnew, RowInv, OneActive, Untouched, ReleaseAfterFinish, LeaseInv,
      ClaimHolds, Covered, NotStaleToClaims, NotStaleToCleanups, RowsStay, OnlyJobOf
<1>14. ASSUME NEW r \in Runners, MarkStale(r) PROVE LeaseInv'
  BY <1>14, MarkStaleEffect, FieldTypes
  DEF IInv, ClaimsAnew, RowInv, OneActive, Untouched, ReleaseAfterFinish, LeaseInv,
      ClaimHolds, Covered, NotStaleToClaims, NotStaleToCleanups, Marked, OnlyJobOf
<1>15. ASSUME NEW r \in Runners, DeleteStale(r) PROVE LeaseInv'
  BY <1>15, DeleteStaleEffect, FieldTypes
  DEF IInv, ClaimsAnew, RowInv, OneActive, Untouched, ReleaseAfterFinish, LeaseInv,
      ClaimHolds, Covered, NotStaleToClaims, NotStaleToCleanups, RowsStay, OnlyJobOf
<1>16. ASSUME NEW r \in Runners, CallFails(r) PROVE LeaseInv'
  BY <1>16, CallFailsEffect, FieldTypes
  DEF IInv, ClaimsAnew, RowInv, OneActive, Untouched, ReleaseAfterFinish, LeaseInv,
      ClaimHolds, Covered, NotStaleToClaims, NotStaleToCleanups, RowsStay, OnlyJobOf
<1>17. ASSUME NEW r \in Runners, Crash(r) PROVE LeaseInv'
  BY <1>17, CrashEffect, FieldTypes
  DEF IInv, ClaimsAnew, RowInv, OneActive, Untouched, ReleaseAfterFinish, LeaseInv,
      ClaimHolds, Covered, NotStaleToClaims, NotStaleToCleanups, RowsStay, OnlyJobOf
<1>18. CASE Tick
  <2>1. TypeOK  BY DEF IInv
  <2>2. /\ RowsStay /\ lock'.row = lock.row /\ lock'.by = lock.by
        /\ lock.left \in Int /\ lock'.left \in Int /\ lock'.left >= lock.left - 1
        /\ \A r \in Runners :
             /\ job[r].age \in Nat /\ job'[r].pc = job[r].pc /\ job'[r].row = job[r].row
             /\ job[r].pc # "idle" => job'[r].age = job[r].age + 1
    BY <1>18, <2>1, TickEffect, FieldTypes
  <2>3. ClaimHolds' /\ Covered'
    BY <2>2 DEF LeaseInv, ClaimHolds, Covered, RowsStay
  <2>4. NotStaleToClaims' /\ NotStaleToCleanups'
    BY <2>2 DEF LeaseInv, NotStaleToClaims, NotStaleToCleanups, RowsStay
  <2>5. QED  BY <2>3, <2>4 DEF LeaseInv
<1>19. CASE UNCHANGED vars
  BY <1>19
  DEF IInv, ClaimsAnew, RowInv, OneActive, Untouched, ReleaseAfterFinish, LeaseInv,
      ClaimHolds, Covered, NotStaleToClaims, NotStaleToCleanups, vars
<1>20. QED
  BY <1>1, <1>2, <1>3, <1>4, <1>5, <1>6, <1>7, <1>8, <1>9, <1>10, <1>11, <1>12,
     <1>13, <1>14, <1>15, <1>16, <1>17, <1>18, <1>19
  DEF Next, Claim, Cleanup, Handler

-----------------------------------------------------------------------------
(* The theorems                                                            *)

\* The invariant holds initially.
LEMMA InitInv == Init => IInv /\ LeaseInv
<1> SUFFICES ASSUME Init PROVE IInv /\ LeaseInv
  OBVIOUS
<1>1. TypeOK
  BY ConstantTypes DEF Init, TypeOK
<1>2. RowInv
  BY ConstantTypes DEF Init, RowInv, OneActive, ExecutedOnce, Untouched, ReleaseAfterFinish
<1>3. ClaimsAnew /\ LeaseInv
  BY ConstantTypes DEF Init, ClaimsAnew, LeaseInv, ClaimHolds, Covered, NotStaleToClaims,
     NotStaleToCleanups
<1>4. QED
  BY <1>1, <1>2, <1>3 DEF IInv

\* The invariant of rows and claims holds however long claims take.
THEOREM LeaseInvariant == Spec => []IInv
<1>1. IInv /\ [Next]_vars => IInv'
  BY TypeStep, RowStep, ClaimStep DEF IInv
<1>2. QED
  BY InitInv, <1>1, PTL DEF Spec

\* Every variable keeps its type.
THEOREM LeaseTypeCorrect == Spec => []TypeOK
<1>1. IInv => TypeOK
  BY DEF IInv
<1>2. QED
  BY LeaseInvariant, <1>1, PTL

\* No row is given to two handlers, whatever expires or crashes in between.
THEOREM NoRowRunsTwice == Spec => []ExecutedOnce
<1>1. IInv => ExecutedOnce
  BY DEF IInv, RowInv
<1>2. QED
  BY LeaseInvariant, <1>1, PTL

\* At most one handler has a row that counts as running.
THEOREM AtMostOneLive == Spec => []OneLiveHandler
<1>1. IInv => OneLiveHandler
  BY DEF IInv, RowInv, OneActive, OneLiveHandler, LiveHandler, Active
<1>2. QED
  BY LeaseInvariant, <1>1, PTL

\* No step changes the status of a finished row.
LEMMA FinalStep ==
  ASSUME TypeOK, [Next]_vars
  PROVE  \A k \in Rows : status[k] \in Final => status'[k] = status[k]
<1> SUFFICES ASSUME NEW j \in Rows, status[j] \in Final PROVE status'[j] = status[j]
  OBVIOUS
<1>1. ASSUME NEW k \in Rows, CreateSystemTask(k) PROVE status'[j] = status[j]
  BY <1>1 DEF CreateSystemTask, TypeOK, Final
<1>2. ASSUME NEW k \in Rows, FinishSystemTask(k) PROVE status'[j] = status[j]
  BY <1>2 DEF FinishSystemTask, TypeOK, Final
<1>3. ASSUME NEW r \in Runners, StartTask(r) PROVE status'[j] = status[j]
  BY <1>3 DEF StartTask, TypeOK, Final
<1>4. ASSUME NEW r \in Runners, MarkOld(r) \/ MarkStale(r) PROVE status'[j] = status[j]
  BY <1>4 DEF MarkOld, MarkStale, MarkSystemTaskLeaseExpired, TypeOK, Final
<1>5. CASE UNCHANGED status
  BY <1>5
<1>6. ASSUME NEW k \in Rows, Renew(k) \/ ReleaseFinished(k) \/ HandlerFails(k)
      PROVE  UNCHANGED status
  BY <1>6 DEF Renew, ReleaseFinished, HandlerFails
<1>7. ASSUME NEW r \in Runners,
             \/ StartClaim(r) \/ InsertLock(r) \/ ReadLock(r) \/ TakeLock(r) \/ ReleaseClaim(r)
             \/ StartCleanup(r) \/ DeleteStale(r) \/ CallFails(r) \/ Crash(r)
      PROVE  UNCHANGED status
  BY <1>7 DEF StartClaim, InsertLock, ReadLock, TakeLock, ReleaseClaim, StartCleanup,
              DeleteStale, CallFails, Crash
<1>8. Tick \/ UNCHANGED vars => UNCHANGED status
  BY DEF Tick, vars
<1>9. QED
  BY <1>1, <1>2, <1>3, <1>4, <1>5, <1>6, <1>7, <1>8 DEF Next, Claim, Cleanup, Handler

\* No late result and no late cleanup changes a finished row.
THEOREM FinishedForGood == Spec => FinalStays
<1>1. IInv /\ [Next]_vars =>
        [\A k \in Rows : status[k] \in Final => status'[k] = status[k]]_vars
  BY FinalStep DEF IInv
<1>2. QED
  BY LeaseInvariant, <1>1, PTL DEF Spec, FinalStays

\* A running row is covered by a lock of its runner as long as no claim outlasts
\* the TTL, so that a cleanup finds it should the runner die.
THEOREM AlwaysCovered == Spec => []RunningIsCovered
<1>1. CASE MaxDelay <= TTL
  <2>1. IInv /\ LeaseInv /\ [Next]_vars => LeaseInv'
    BY <1>1, LeaseStep
  <2>2. LeaseInv => RunningIsCovered
    BY DEF LeaseInv, Covered, RunningIsCovered
  <2>3. QED
    BY InitInv, LeaseInvariant, <2>1, <2>2, PTL DEF Spec
<1>2. CASE ~(MaxDelay <= TTL)
  <2>1. RunningIsCovered
    BY <1>2 DEF RunningIsCovered
  <2>2. QED
    BY <2>1, PTL
<1>3. QED
  BY <1>1, <1>2
=============================================================================
