--------------------------- MODULE SystemTaskLease ---------------------------
(***************************************************************************)
(* The rows and the lease of one type of system task, such as the polling  *)
(* of asynchronous tasks: rows are created when none is active, and the    *)
(* runners of several nodes claim them, keep their lease by a heartbeat,   *)
(* finish them, and clean up after runners whose lease ran out             *)
(* (model/system_task.go, service/system_task.go).  Types do not interact: *)
(* the unique active_key and the lock row are per type.                    *)
(*                                                                         *)
(* One action is one database call.  Times are relative to the common      *)
(* clock: lock.left is locked_until - now, and job[r].age is how long ago  *)
(* runner r read the clock (the now of ClaimSystemTask and of              *)
(* ExpireStaleSystemTaskLocks), so that now' = now - age.                  *)
(***************************************************************************)
EXTENDS Integers

CONSTANTS
  Runners,    \* runner ids; a restarted node runs under a new one
  MaxRows,    \* bound on the rows created
  TTL,        \* systemTaskLockTTL
  MaxDelay,   \* bound on how long a claim or a cleanup may take
  MaxFaults   \* bound on failing calls and crashes

ASSUME LeaseAssumption ==
  /\ "none" \notin Runners
  /\ MaxRows \in Nat /\ TTL \in Nat /\ MaxDelay \in Nat /\ MaxFaults \in Nat

Rows == 1 .. MaxRows

VARIABLES
  status,    \* system_tasks.status; "none" before the row is created
  lockedBy,  \* system_tasks.locked_by
  lock,      \* the row of system_task_locks
  job,       \* what each runner's claim or cleanup does
  exec,      \* the handler of each row
  dead,      \* runners whose node died
  starts,    \* how many handlers each row was given to (history)
  faults     \* failing calls and crashes so far

vars == <<status, lockedBy, lock, job, exec, dead, starts, faults>>

Active == {"pending", "running"}
Final == {"succeeded", "failed"}

NoLock == [row |-> 0, by |-> "none", left |-> 0]
NoHandler == [pc |-> "none", by |-> "none", beats |-> FALSE]

\* old: the row of the expired lock that was read; by: its holder (cleanup).
NewJob(l, k, holder) == [pc |-> l, row |-> k, age |-> 0, old |-> 0, by |-> holder]
Idle == NewJob("idle", 0, "none")

Init ==
  /\ status = [k \in Rows |-> "none"] /\ lockedBy = [k \in Rows |-> "none"]
  /\ lock = NoLock
  /\ job = [r \in Runners |-> Idle]
  /\ exec = [k \in Rows |-> NoHandler]
  /\ dead = {}
  /\ starts = [k \in Rows |-> 0]
  /\ faults = 0

SetJob(r, j) == job' = [job EXCEPT ![r] = j]
Goto(r, l) == SetJob(r, [job[r] EXCEPT !.pc = l])

Fault == faults < MaxFaults /\ faults' = faults + 1

-----------------------------------------------------------------------------
(* Rows                                                                    *)

\* Mutant of CreateSystemTask: active_key is not unique.
CreateSystemTaskAnyway(k) ==
  /\ status[k] = "none" /\ \A j \in Rows : j < k => status[j] # "none"
  /\ status' = [status EXCEPT ![k] = "pending"]
  /\ UNCHANGED <<lockedBy, lock, job, exec, dead, starts, faults>>

\* The scheduler or EnqueueSystemTask: the unique index on active_key admits the
\* row if no other is active; otherwise, or on an error, nothing happens.
CreateSystemTask(k) ==
  /\ status[k] = "none" /\ \A j \in Rows : j < k => status[j] # "none"
  /\ \A j \in Rows : status[j] \notin Active
  /\ status' = [status EXCEPT ![k] = "pending"]
  /\ UNCHANGED <<lockedBy, lock, job, exec, dead, starts, faults>>

\* Mutant of MarkSystemTaskLeaseExpired: the status is not compared.
MarkAnyLeaseExpired(k) == status' = [status EXCEPT ![k] = "failed"]

MarkSystemTaskLeaseExpired(k) ==
  status' = [status EXCEPT ![k] = IF @ = "running" THEN "failed" ELSE @]

\* ReleaseSystemTaskLock
Release(k, r) == lock' = IF lock.row = k /\ lock.by = r THEN NoLock ELSE lock

-----------------------------------------------------------------------------
(* ClaimSystemTask                                                         *)

StartClaim(r) ==
  /\ r \notin dead /\ job[r].pc = "idle"
  /\ \E k \in Rows : status[k] = "pending" /\ SetJob(r, NewJob("insert", k, "none"))
  /\ UNCHANGED <<status, lockedBy, lock, exec, dead, starts, faults>>

MyLock(r) == [row |-> job[r].row, by |-> r, left |-> TTL - job[r].age]

\* The lock had run out when r read the clock.
Stale(r) == lock # NoLock /\ lock.left < -job[r].age

\* acquireSystemTaskLock: the insertion fails if there is a lock of the type.
InsertLock(r) ==
  /\ job[r].pc = "insert"
  /\ \/ lock = NoLock /\ lock' = MyLock(r) /\ Goto(r, "start")
     \/ lock # NoLock /\ Goto(r, "read") /\ UNCHANGED lock
  /\ UNCHANGED <<status, lockedBy, exec, dead, starts, faults>>

ReadLock(r) ==
  /\ job[r].pc = "read"
  /\ \/ Stale(r) /\ SetJob(r, [job[r] EXCEPT !.pc = "take", !.old = lock.row])
     \/ ~Stale(r) /\ SetJob(r, Idle)
  /\ UNCHANGED <<status, lockedBy, lock, exec, dead, starts, faults>>

TakeLock(r) ==
  /\ job[r].pc = "take"
  /\ \/ /\ Stale(r) /\ lock' = MyLock(r)
        /\ Goto(r, IF job[r].old # job[r].row THEN "markOld" ELSE "start")
     \/ ~Stale(r) /\ SetJob(r, Idle) /\ UNCHANGED lock
  /\ UNCHANGED <<status, lockedBy, exec, dead, starts, faults>>

MarkOld(r) ==
  /\ job[r].pc = "markOld"
  /\ MarkSystemTaskLeaseExpired(job[r].old) /\ Goto(r, "start")
  /\ UNCHANGED <<lockedBy, lock, exec, dead, starts, faults>>

\* Mutant of StartTask: the status is not compared.
StartTaskAnyway(r) ==
  /\ job[r].pc = "start"
  /\ status' = [status EXCEPT ![job[r].row] = "running"]
  /\ lockedBy' = [lockedBy EXCEPT ![job[r].row] = r]
  /\ exec' = [exec EXCEPT ![job[r].row] = [pc |-> "run", by |-> r, beats |-> TRUE]]
  /\ starts' = [starts EXCEPT ![job[r].row] = @ + 1]
  /\ SetJob(r, Idle)
  /\ UNCHANGED <<lock, dead, faults>>

\* The row becomes running if it is still pending, and is read back and given to
\* a handler in a goroutine of its own; if it cannot be read back it is left.
StartTask(r) ==
  /\ job[r].pc = "start"
  /\ LET k == job[r].row IN
     \/ /\ status[k] = "pending"
        /\ status' = [status EXCEPT ![k] = "running"]
        /\ lockedBy' = [lockedBy EXCEPT ![k] = r]
        /\ SetJob(r, Idle)
        /\ \/ /\ exec' = [exec EXCEPT ![k] = [pc |-> "run", by |-> r, beats |-> TRUE]]
              /\ starts' = [starts EXCEPT ![k] = @ + 1]
              /\ UNCHANGED faults
           \/ Fault /\ UNCHANGED <<exec, starts>>
     \/ /\ status[k] # "pending" /\ Goto(r, "release")
        /\ UNCHANGED <<status, lockedBy, exec, starts, faults>>
  /\ UNCHANGED <<lock, dead>>

ReleaseClaim(r) ==
  /\ job[r].pc = "release"
  /\ Release(job[r].row, r) /\ SetJob(r, Idle)
  /\ UNCHANGED <<status, lockedBy, exec, dead, starts, faults>>

-----------------------------------------------------------------------------
(* ExpireStaleSystemTaskLocks                                              *)

\* Mutant of StartCleanup: a runner only looks at its own locks.
StartCleanupOfOwn(r) ==
  /\ r \notin dead /\ job[r].pc = "idle" /\ lock # NoLock /\ lock.left < 0 /\ lock.by = r
  /\ SetJob(r, NewJob("mark", lock.row, lock.by))
  /\ UNCHANGED <<status, lockedBy, lock, exec, dead, starts, faults>>

StartCleanup(r) ==
  /\ r \notin dead /\ job[r].pc = "idle" /\ lock # NoLock /\ lock.left < 0
  /\ SetJob(r, NewJob("mark", lock.row, lock.by))
  /\ UNCHANGED <<status, lockedBy, lock, exec, dead, starts, faults>>

MarkStale(r) ==
  /\ job[r].pc = "mark"
  /\ MarkSystemTaskLeaseExpired(job[r].row) /\ Goto(r, "delete")
  /\ UNCHANGED <<lockedBy, lock, exec, dead, starts, faults>>

\* Mutant of DeleteStale: whoever holds the lock by now.
DeleteStaleOfAnyone(r) ==
  /\ job[r].pc = "delete"
  /\ lock' = NoLock /\ SetJob(r, Idle)
  /\ UNCHANGED <<status, lockedBy, exec, dead, starts, faults>>

DeleteStale(r) ==
  /\ job[r].pc = "delete"
  /\ lock' = IF lock.row = job[r].row /\ lock.by = job[r].by /\ Stale(r) THEN NoLock ELSE lock
  /\ SetJob(r, Idle)
  /\ UNCHANGED <<status, lockedBy, exec, dead, starts, faults>>

-----------------------------------------------------------------------------
(* runWithLeaseHeartbeat                                                   *)

HoldsLease(k) == lock.row = k /\ lock.by = exec[k].by /\ lock.left >= 0

\* RenewSystemTaskLock; once it fails, for the lock is lost or the call returns an
\* error, the heartbeat stops and the handler's context is cancelled.
Renew(k) ==
  /\ exec[k].pc = "run" /\ exec[k].beats
  /\ \/ HoldsLease(k) /\ lock' = [lock EXCEPT !.left = TTL] /\ UNCHANGED <<exec, faults>>
     \/ /\ \/ ~HoldsLease(k) /\ UNCHANGED faults
           \/ Fault
        /\ exec' = [exec EXCEPT ![k].beats = FALSE] /\ UNCHANGED lock
  /\ UNCHANGED <<status, lockedBy, job, dead, starts>>

\* FinishSystemTask, which ends every handler, cancelled or not.
FinishSystemTask(k) ==
  /\ exec[k].pc = "run"
  /\ \/ /\ status[k] = "running" /\ lockedBy[k] = exec[k].by /\ HoldsLease(k)
        /\ \E s \in Final : status' = [status EXCEPT ![k] = s]
        /\ exec' = [exec EXCEPT ![k].pc = "release"]
     \/ /\ ~(status[k] = "running" /\ lockedBy[k] = exec[k].by /\ HoldsLease(k))
        /\ exec' = [exec EXCEPT ![k].pc = "done"] /\ UNCHANGED status
  /\ UNCHANGED <<lockedBy, lock, job, dead, starts, faults>>

ReleaseFinished(k) ==
  /\ exec[k].pc = "release"
  /\ Release(k, exec[k].by) /\ exec' = [exec EXCEPT ![k].pc = "done"]
  /\ UNCHANGED <<status, lockedBy, job, dead, starts, faults>>

-----------------------------------------------------------------------------
(* Failures and time                                                       *)

\* A call of a claim or a cleanup returns an error, without effect.  A failed
\* insertion is taken for a lock of another runner; a claim that cannot go on
\* releases its lock.
AfterError(l) ==
  CASE l = "insert" -> "read"
    [] l \in {"markOld", "start"} -> "release"
    [] OTHER -> "idle"

CallFails(r) ==
  /\ job[r].pc # "idle" /\ Fault
  /\ LET l == AfterError(job[r].pc) IN IF l = "idle" THEN SetJob(r, Idle) ELSE Goto(r, l)
  /\ UNCHANGED <<status, lockedBy, lock, exec, dead, starts>>

\* A handler that cannot save its progress or its result returns.
HandlerFails(k) ==
  /\ exec[k].pc \in {"run", "release"} /\ Fault
  /\ exec' = [exec EXCEPT ![k].pc = "done"]
  /\ UNCHANGED <<status, lockedBy, lock, job, dead, starts>>

\* A node dies, though never the last one.
Crash(r) ==
  /\ r \notin dead /\ Runners \ dead # {r} /\ Fault
  /\ dead' = dead \cup {r}
  /\ job' = [job EXCEPT ![r] = Idle]
  /\ exec' = [k \in Rows |-> IF exec[k].by = r THEN [exec[k] EXCEPT !.pc = "done"] ELSE exec[k]]
  /\ UNCHANGED <<status, lockedBy, lock, starts>>

\* Beyond MaxDelay + 1 it makes no difference how long ago a lock ran out.
Tick ==
  /\ \A r \in Runners : job[r].pc # "idle" => job[r].age < MaxDelay
  /\ job' = [r \in Runners |->
       IF job[r].pc = "idle" THEN job[r] ELSE [job[r] EXCEPT !.age = @ + 1]]
  /\ lock' = IF lock # NoLock /\ lock.left > -(MaxDelay + 1)
             THEN [lock EXCEPT !.left = @ - 1] ELSE lock
  /\ UNCHANGED <<status, lockedBy, exec, dead, starts, faults>>

Claim(r) ==
  \/ InsertLock(r) \/ ReadLock(r) \/ TakeLock(r) \/ MarkOld(r) \/ StartTask(r)
  \/ ReleaseClaim(r)

Cleanup(r) == MarkStale(r) \/ DeleteStale(r)

Handler(k) == FinishSystemTask(k) \/ ReleaseFinished(k)

Next ==
  \/ \E k \in Rows : CreateSystemTask(k) \/ Renew(k) \/ Handler(k) \/ HandlerFails(k)
  \/ \E r \in Runners : \/ StartClaim(r) \/ Claim(r) \/ StartCleanup(r) \/ Cleanup(r)
                        \/ CallFails(r) \/ Crash(r)
  \/ Tick

Spec == Init /\ [][Next]_vars

\* The loop of a live runner comes back to the cleanup and to the claim, calls
\* return, handlers end, and time passes.
FairSpec ==
  /\ Spec
  /\ \A r \in Runners : /\ SF_vars(StartClaim(r)) /\ SF_vars(StartCleanup(r))
                        /\ WF_vars(Claim(r)) /\ WF_vars(Cleanup(r))
  /\ \A k \in Rows : WF_vars(Handler(k))
  /\ WF_vars(Tick)

-----------------------------------------------------------------------------
(* Properties                                                              *)

ClaimPcs == {"insert", "read", "take", "markOld", "start", "release"}
CleanupPcs == {"mark", "delete"}
Holders == Runners \cup {"none"}

JobPcs == {"idle"} \cup ClaimPcs \cup CleanupPcs
HandlerPcs == {"none", "run", "release", "done"}
LockType == [row : {0} \cup Rows, by : Holders, left : -(MaxDelay + 1) .. TTL]
JobType ==
  [pc : JobPcs, row : {0} \cup Rows, age : 0 .. MaxDelay, old : {0} \cup Rows, by : Holders]
HandlerType == [pc : HandlerPcs, by : Holders, beats : BOOLEAN]

\* The type of every variable.
TypeOK ==
  /\ status \in [Rows -> {"none"} \cup Active \cup Final]
  /\ lockedBy \in [Rows -> Holders]
  /\ lock \in LockType /\ (lock = NoLock \/ (lock.row \in Rows /\ lock.by \in Runners))
  /\ job \in [Runners -> JobType]
  /\ exec \in [Rows -> HandlerType]
  /\ dead \in SUBSET Runners
  /\ starts \in [Rows -> Nat] /\ faults \in Nat

\* However claims, expiries, cleanups and crashes interleave, no row is ever
\* given to two handlers.
ExecutedOnce == \A k \in Rows : starts[k] <= 1

LiveHandler(k) == exec[k].pc = "run" /\ status[k] = "running"

\* Of the handlers still running, at most one has a row that counts as running:
\* all others can no longer record a result.
OneLiveHandler == \A j, k \in Rows : LiveHandler(j) /\ LiveHandler(k) => j = k

\* As long as no claim takes longer than the TTL, a running row is always
\* covered by a lock of its runner, valid or expired, so that a cleanup will
\* find it.
RunningIsCovered ==
  MaxDelay <= TTL =>
    \A k \in Rows : status[k] = "running" => lock.row = k /\ lock.by = lockedBy[k]

\* A finished row keeps its status: no late result, no late cleanup changes it.
FinalStays ==
  [][\A k \in Rows : status[k] \in Final => status'[k] = status[k]]_vars

\* Every row is finished in the end, whichever runners die, so that the next one
\* can be created.
EveryRowEnds == \A k \in Rows : status[k] \in Active ~> status[k] \in Final
=============================================================================
