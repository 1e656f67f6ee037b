------------------------- MODULE TaskBilling_proofs -------------------------
(* Theorems about TaskBilling, for any number of tasks, passes and clients. *)
EXTENDS TaskBilling, TLAPS

USE DEF Open, Terminal, BillingPcs, BilledAs

-----------------------------------------------------------------------------
(* Jobs                                                                    *)

\* A job value that a worker may be given.
LEMMA NoJobType == NoJob \in JobType /\ NoJob.pc = "none" /\ ~NoJob.unsaved
BY DEF NoJob, JobType, Pcs

\* SetJob changes one entry of job.
LEMMA SetJobEffect ==
  ASSUME TypeOK, NEW w \in Workers, NEW t \in Tasks, NEW j \in JobType, SetJob(w, t, j)
  PROVE  /\ job' \in [Workers -> [Tasks -> JobType]]
         /\ job'[w][t] = j
         /\ \A v \in Workers, u \in Tasks : v # w \/ u # t => job'[v][u] = job[v][u]
BY DEF TypeOK, SetJob

\* Goto keeps the rest of the job.
LEMMA GotoEffect ==
  ASSUME TypeOK, NEW w \in Workers, NEW t \in Tasks, NEW l \in Pcs, Goto(w, t, l)
  PROVE  /\ job' \in [Workers -> [Tasks -> JobType]]
         /\ job'[w][t].pc = l /\ job'[w][t].from = job[w][t].from
         /\ job'[w][t].unsaved = job[w][t].unsaved
         /\ \A v \in Workers, u \in Tasks : v # w \/ u # t => job'[v][u] = job[v][u]
<1> DEFINE j == [job[w][t] EXCEPT !.pc = l]
<1>1. job[w][t] \in JobType  BY DEF TypeOK
<1>2. /\ j \in JobType /\ j.pc = l /\ j.from = job[w][t].from
      /\ j.unsaved = job[w][t].unsaved
  BY <1>1 DEF JobType
<1>3. SetJob(w, t, j)  BY DEF Goto
<1> HIDE DEF j
<1> QED  BY <1>2, <1>3, SetJobEffect

\* Done clears the job.
LEMMA DoneEffect ==
  ASSUME TypeOK, NEW w \in Workers, NEW t \in Tasks, Done(w, t)
  PROVE  /\ job' \in [Workers -> [Tasks -> JobType]]
         /\ job'[w][t] = NoJob
         /\ \A v \in Workers, u \in Tasks : v # w \/ u # t => job'[v][u] = job[v][u]
BY SetJobEffect, NoJobType DEF Done

\* What one step does to the jobs of a single task t: worker w's job changes.
JobsChange(w, t) ==
  /\ job' \in [Workers -> [Tasks -> JobType]]
  /\ \A v \in Workers, u \in Tasks : v # w \/ u # t => job'[v][u] = job[v][u]

-----------------------------------------------------------------------------
(* Steps of one task                                                       *)

\* The row and the ledgers of u stay as they are.
RowUnchanged(u) ==
  /\ status'[u] = status[u] /\ quota'[u] = quota[u] /\ cost'[u] = cost[u]
  /\ submitted'[u] = submitted[u] /\ funding'[u] = funding[u] /\ token'[u] = token[u]
  /\ u \in hit => u \in hit'
  /\ was'[u] = was[u]

\* A job that holds a task without billing it.
Harmless(w, j) ==
  /\ j.pc \notin BillingPcs /\ ~j.unsaved
  /\ j.pc \in {"sweep", "fetch", "save"} => j.from \in Open
  /\ j.pc = "save" => j.to # "new"
  /\ w \in Clients => j = NoJob

\* The invariant of a task depends on its own row, ledgers and jobs only, and
\* workers may take up and drop jobs that do not bill.
LEMMA Frame ==
  ASSUME NEW u \in Tasks, GuardedInv(u), RowUnchanged(u),
         \A w \in Workers : \/ job'[w][u] = job[w][u]
                            \/ job[w][u].pc \notin BillingPcs /\ Harmless(w, job'[w][u])
  PROVE  GuardedInv(u)'
<1> USE DEF RowUnchanged
<1>1. ASSUME NEW w \in Workers PROVE JobShape(w, u)' /\ Progress(w, u)'
  BY <1>1 DEF GuardedInv, JobShape, Progress, Harmless
<1>2. OneBiller(u)'  BY DEF GuardedInv, OneBiller, Harmless
<1>3. Untouched(u)'  BY DEF GuardedInv, Untouched
<1>4. Billed(u)'
  <2>1. (\A w \in Workers : job'[w][u].pc \notin BillingPcs)
          => \A w \in Workers : job[w][u].pc \notin BillingPcs
    OBVIOUS
  <2> QED
    BY <2>1 DEF GuardedInv, Billed, ChargeMatches, Settled, IsLegacy, LegacyTaskCutoff
<1>5. GivenUp(u)'  BY DEF GuardedInv, GivenUp
<1> QED  BY <1>1, <1>2, <1>3, <1>4, <1>5 DEF GuardedInv

\* No worker bills an open task.
LEMMA OpenIsUnbilled ==
  ASSUME NEW t \in Tasks, GuardedInv(t), status[t] \notin Terminal
  PROVE  was[t] = "none" /\ \A w \in Workers : job[w][t].pc \notin BillingPcs
<1>1. was[t] = "none"  BY DEF GuardedInv, GivenUp
<1> QED  BY <1>1 DEF GuardedInv, JobShape

\* A task that is being billed is finished.
LEMMA BilledIsFinal ==
  ASSUME NEW t \in Tasks, GuardedInv(t), NEW w \in Workers, job[w][t].pc \in BillingPcs
  PROVE  status[t] \in Terminal
BY OpenIsUnbilled

\* A worker that wins the update of an open task is the only one to bill it.
LEMMA WinnerBills ==
  ASSUME NEW t \in Tasks, NEW p \in Passes, TypeOK, GuardedInv(t), p \notin Clients,
         status[t] \in Open, NEW s \in Terminal, status'[t] = s,
         quota'[t] = quota[t], cost'[t] = cost[t], submitted'[t] = submitted[t],
         funding'[t] = funding[t], token'[t] = token[t],
         hit' = hit, was' = was,
         \A w \in Workers : w # p => job'[w][t] = job[w][t],
         ~job'[p][t].unsaved,
         \/ /\ s = "FAILURE" /\ job'[p][t].pc = "refundFunding"
         \/ /\ s = "FAILURE" /\ job'[p][t].pc = "none" /\ (IsLegacy(t) \/ quota[t] = 0)
         \/ /\ s = "SUCCESS" /\ job'[p][t].pc = "settleFunding" /\ cost[t] > 0
         \/ /\ s = "SUCCESS" /\ job'[p][t].pc = "none" /\ (cost[t] = 0 \/ cost[t] = quota[t])
  PROVE  GuardedInv(t)'
<1>1. p \in Workers  BY DEF Workers
<1>2. was[t] = "none" /\ \A w \in Workers : job[w][t].pc \notin BillingPcs
  BY OpenIsUnbilled
<1>3. funding[t] = quota[t] /\ token[t] = quota[t]  BY DEF GuardedInv, Untouched
<1>4. quota[t] \in Nat /\ cost[t] \in Nat  BY DEF TypeOK
<1>5. ASSUME NEW w \in Workers PROVE JobShape(w, t)' /\ Progress(w, t)'
  <2>1. CASE w = p  BY <2>1, <1>2, <1>3 DEF JobShape, Progress
  <2>2. CASE w # p
    <3>1. JobShape(w, t)  BY DEF GuardedInv
    <3> QED  BY <2>2, <3>1, <1>2 DEF JobShape, Progress
  <2> QED  BY <2>1, <2>2
<1>6. OneBiller(t)'  BY <1>1, <1>2 DEF OneBiller
<1>7. Untouched(t)'  BY DEF Untouched
<1>8. Billed(t)'
  BY <1>1, <1>2, <1>3, <1>4 DEF Billed, ChargeMatches, Settled, IsLegacy, LegacyTaskCutoff
<1>9. GivenUp(t)'  BY <1>2 DEF GivenUp
<1> QED  BY <1>5, <1>6, <1>7, <1>8, <1>9 DEF GuardedInv

\* The worker billing a task goes on to the next billing step.
LEMMA BillerProceeds ==
  ASSUME NEW t \in Tasks, NEW p \in Passes, GuardedInv(t),
         job[p][t].pc \in BillingPcs,
         status'[t] = status[t], quota'[t] = quota[t], cost'[t] = cost[t], was' = was,
         \A w \in Workers : w # p => job'[w][t] = job[w][t],
         ~job'[p][t].unsaved,
         \/ job[p][t].pc = "refundFunding" /\ job'[p][t].pc = "refundToken"
         \/ job[p][t].pc = "settleFunding" /\ job'[p][t].pc = "settleToken",
         Progress(p, t)'
  PROVE  GuardedInv(t)'
<1>1. p \in Workers  BY DEF Workers
<1>2. \A w \in Workers : w # p => job[w][t].pc \notin BillingPcs
  BY <1>1 DEF GuardedInv, OneBiller
<1>3. ASSUME NEW w \in Workers PROVE JobShape(w, t)' /\ Progress(w, t)'
  <2>1. CASE w = p
    <3>1. JobShape(p, t)  BY <1>1 DEF GuardedInv
    <3>2. p \notin Clients  BY <3>1, NoJobType DEF JobShape
    <3> QED  BY <2>1, <3>1, <3>2 DEF JobShape
  <2>2. CASE w # p
    <3>1. JobShape(w, t)  BY DEF GuardedInv
    <3> QED  BY <2>2, <3>1, <1>2 DEF JobShape, Progress
  <2> QED  BY <2>1, <2>2
<1>4. status[t] \in Terminal  BY <1>1, BilledIsFinal
<1>5. OneBiller(t)'  BY <1>2 DEF OneBiller
<1>6. Untouched(t)'  BY <1>4 DEF Untouched
<1>7. Billed(t)' /\ GivenUp(t)'  BY <1>1 DEF Billed, GuardedInv, GivenUp
<1> QED  BY <1>3, <1>5, <1>6, <1>7 DEF GuardedInv

\* The worker billing a task stops: the ledgers are final.
LEMMA BillerStops ==
  ASSUME NEW t \in Tasks, NEW p \in Passes, GuardedInv(t),
         job[p][t].pc \in BillingPcs,
         status'[t] = status[t], quota'[t] = quota[t], cost'[t] = cost[t], was' = was,
         \A w \in Workers : w # p => job'[w][t] = job[w][t],
         job'[p][t] = NoJob,
         funding'[t] >= 0, token'[t] >= 0,
         t \in hit' \/ /\ token'[t] = funding'[t]
                       /\ BilledAs(t) = "SUCCESS" => funding'[t] = Settled(t)
                       /\ BilledAs(t) = "FAILURE" => funding'[t] = 0
  PROVE  GuardedInv(t)'
<1>1. p \in Workers  BY DEF Workers
<1>2. \A w \in Workers : w # p => job[w][t].pc \notin BillingPcs
  BY <1>1 DEF GuardedInv, OneBiller
<1>3. ASSUME NEW w \in Workers PROVE JobShape(w, t)' /\ Progress(w, t)'
  <2>1. CASE w = p  BY <2>1, NoJobType DEF JobShape, Progress
  <2>2. CASE w # p
    <3>1. JobShape(w, t)  BY DEF GuardedInv
    <3> QED  BY <2>2, <3>1, <1>2 DEF JobShape, Progress
  <2> QED  BY <2>1, <2>2
<1>4. status[t] \in Terminal  BY <1>1, BilledIsFinal
<1>5. OneBiller(t)'  BY <1>2, NoJobType DEF OneBiller
<1>6. Untouched(t)'  BY <1>4 DEF Untouched
<1>7. BilledAs(t)' = BilledAs(t) /\ BilledAs(t) \in Terminal
  BY <1>1 DEF GuardedInv, JobShape
<1>8. Billed(t)' /\ GivenUp(t)'
  <2> HIDE DEF BilledAs
  <2>1. Billed(t)'  BY <1>7 DEF Billed, ChargeMatches, Settled
  <2>2. GivenUp(t)'  BY DEF GuardedInv, GivenUp
  <2> QED  BY <2>1, <2>2
<1> QED  BY <1>3, <1>5, <1>6, <1>8 DEF GuardedInv

-----------------------------------------------------------------------------
(* Initial states                                                          *)

\* The initial states satisfy the inductive invariant: nothing is submitted.
LEMMA InitInv == Init => IInv
<1> SUFFICES ASSUME Init PROVE IInv  OBVIOUS
<1>1. TypeOK  BY NoJobType DEF Init, TypeOK
<1>2. ASSUME NEW t \in Tasks PROVE GuardedInv(t)
  <2>1. ASSUME NEW w \in Workers PROVE JobShape(w, t) /\ Progress(w, t)
    BY <2>1, NoJobType DEF Init, JobShape, Progress
  <2>2. OneBiller(t) /\ Untouched(t)  BY NoJobType DEF Init, OneBiller, Untouched
  <2>3. Billed(t) /\ GivenUp(t)  BY DEF Init, Billed, ChargeMatches, GivenUp
  <2> QED  BY <2>1, <2>2, <2>3 DEF GuardedInv
<1> QED  BY <1>1, <1>2 DEF IInv, BillingDiscipline, IdlePasses, Init, Workers

-----------------------------------------------------------------------------
(* One lemma per action                                                    *)

\* A pass is not a client.
LEMMA PassIsWorker == \A p \in Passes : p \in Workers /\ p \notin Clients
BY TaskAssumption DEF Workers

\* A guarded task has no Suno job, and no client holds it.
LEMMA GuardedJobs ==
  ASSUME NEW t \in Tasks, Guarded(t), GuardedInv(t)
  PROVE  /\ \A w \in Workers : ~job[w][t].unsaved
         /\ \A c \in Clients : job[c][t] = NoJob
         /\ Kind[t] # "suno"
BY DEF Guarded, GuardedInv, JobShape, Workers

\* Submission charges a task no worker holds a billing job of.
LEMMA SubmitInv == ASSUME IInv, NEW t \in Tasks, Submit(t) PROVE IInv'
<1>1. TypeOK /\ IdlePasses /\ BillingDiscipline  BY DEF IInv
<1>2. PICK q \in Quotas, at \in SubmitTimes, c \in (IF Kind[t] = "video" THEN Costs ELSE {0}) :
        /\ quota' = [quota EXCEPT ![t] = q]
        /\ submitted' = [submitted EXCEPT ![t] = at]
        /\ cost' = [cost EXCEPT ![t] = c]
        /\ funding' = [funding EXCEPT ![t] = q]
        /\ token' = [token EXCEPT ![t] = q]
  BY DEF Submit
<1>3. q \in Nat /\ at \in Nat /\ c \in Nat  BY TaskAssumption
<1>4. \/ status' = [status EXCEPT ![t] = "NOT_START"] /\ NoFault
      \/ status' = [status EXCEPT ![t] = "lost"] /\ Fault(t)
  BY DEF Submit
<1>5. hit \subseteq hit' /\ hit' \in SUBSET Tasks /\ faults' \in Nat
  BY <1>1, <1>4 DEF TypeOK, NoFault, Fault, faultVars
<1>6. TypeOK'
  BY <1>1, <1>2, <1>3, <1>4, <1>5 DEF TypeOK, Submit, envVars
<1>7. ASSUME NEW u \in Tasks, Guarded(u) PROVE GuardedInv(u)'
  <2>1. GuardedInv(u)  BY <1>1, <1>7 DEF BillingDiscipline
  <2>2. CASE u # t
    <3>1. RowUnchanged(u)
      BY <1>1, <1>2, <1>4, <1>5, <2>2 DEF RowUnchanged, Submit, TypeOK, envVars
    <3> QED  BY <2>1, <3>1, Frame DEF Submit
  <2>3. CASE u = t
    <3>1. status[t] = "new"  BY DEF Submit
    <3>2. was[t] = "none" /\ \A w \in Workers : job[w][t].pc \notin BillingPcs
      BY <2>1, <2>3, <3>1, OpenIsUnbilled
    <3>3. /\ quota'[t] = q /\ funding'[t] = q /\ token'[t] = q
          /\ status'[t] \in {"NOT_START", "lost"} /\ (status'[t] = "lost" => t \in hit')
      BY <1>1, <1>2, <1>4 DEF TypeOK, Fault
    <3>4. job' = job /\ was' = was  BY DEF Submit, envVars
    <3>5. ASSUME NEW w \in Workers PROVE JobShape(w, t)' /\ Progress(w, t)'
      BY <2>1, <2>3, <3>2, <3>4 DEF GuardedInv, JobShape, Progress
    <3>6. OneBiller(t)'  BY <3>2, <3>4 DEF OneBiller
    <3>7. Untouched(t)'  BY <3>3 DEF Untouched
    <3>8. Billed(t)' /\ GivenUp(t)'
      BY <1>3, <3>2, <3>3, <3>4 DEF Billed, ChargeMatches, GivenUp
    <3> QED  BY <2>3, <3>5, <3>6, <3>7, <3>8 DEF GuardedInv
  <2> QED  BY <2>2, <2>3
<1>8. IdlePasses'  BY <1>1 DEF IdlePasses, Submit
<1> QED  BY <1>6, <1>7, <1>8 DEF IInv, BillingDiscipline, Guarded

\* What is common to the actions that only load or drop jobs of a pass.
LEMMA LoadJobs ==
  ASSUME IInv, NEW p \in Passes, NEW jobs \in [Tasks -> JobType],
         job' = [job EXCEPT ![p] = jobs],
         \A t \in Tasks : \/ jobs[t] = job[p][t]
                          \/ job[p][t].pc \notin BillingPcs /\ Harmless(p, jobs[t]),
         phase' \in [Passes -> {"idle", "sweep", "poll"}],
         \A q \in Passes : q # p => phase'[q] = phase[q],
         phase'[p] # "idle",
         UNCHANGED <<rowVars, was, submitVars, envVars, money, fetches>>, NoFault \/ Glitch
  PROVE  IInv'
<1>0. hit' = hit /\ faults' \in Nat  BY DEF NoFault, Glitch, faultVars, IInv, TypeOK
<1>1. TypeOK /\ IdlePasses /\ BillingDiscipline  BY DEF IInv
<1>2. p \in Workers  BY PassIsWorker
<1>3. job' \in [Workers -> [Tasks -> JobType]]  BY <1>1, <1>2 DEF TypeOK
<1>4. TypeOK'
  BY <1>0, <1>1, <1>3 DEF TypeOK, rowVars, submitVars, envVars, money
<1>5. ASSUME NEW u \in Tasks, Guarded(u) PROVE GuardedInv(u)'
  <2>1. GuardedInv(u)  BY <1>1, <1>5 DEF BillingDiscipline
  <2>2. RowUnchanged(u)
    BY <1>0 DEF RowUnchanged, rowVars, submitVars, envVars, money
  <2>3. ASSUME NEW w \in Workers
        PROVE  \/ job'[w][u] = job[w][u]
               \/ job[w][u].pc \notin BillingPcs /\ Harmless(w, job'[w][u])
    <3>1. job \in [Workers -> [Tasks -> JobType]]  BY <1>1 DEF TypeOK
    <3>2. CASE w = p
      <4>1. job'[p][u] = jobs[u]  BY <1>2, <3>1
      <4> QED  BY <3>2, <4>1
    <3>3. CASE w # p  BY <3>1, <3>3
    <3> QED  BY <3>2, <3>3
  <2> QED  BY <2>1, <2>2, <2>3, Frame
<1>6. IdlePasses'
  <2> SUFFICES ASSUME NEW q \in Passes, phase'[q] = "idle", NEW t \in Tasks
               PROVE  job'[q][t] = NoJob
    BY DEF IdlePasses
  <2>1. q # p /\ q \in Workers  BY PassIsWorker
  <2> QED  BY <1>1, <2>1 DEF IdlePasses, TypeOK
<1> QED  BY <1>4, <1>5, <1>6 DEF IInv, BillingDiscipline, Guarded

\* A job that was just loaded.
LEMMA LoadedJob ==
  ASSUME TypeOK, NEW t \in Tasks, status[t] \in Open, NEW l \in {"sweep", "fetch"}
  PROVE  LET j == [NoJob EXCEPT !.pc = l, !.from = status[t]] IN
         j \in JobType /\ \A p \in Passes : Harmless(p, j)
BY PassIsWorker DEF JobType, NoJob, Pcs, Harmless

\* A pass that holds nothing loads rows that are open.
LEMMA LoadInv ==
  ASSUME IInv, NEW p \in Passes, NEW l \in {"sweep", "fetch"}, NEW rows \in SUBSET Tasks,
         \A t \in Tasks : job[p][t] = NoJob, \A t \in rows : status[t] \in Open,
         Load(p, rows, l),
         phase' \in [Passes -> {"idle", "sweep", "poll"}],
         \A q \in Passes : q # p => phase'[q] = phase[q],
         phase'[p] # "idle",
         UNCHANGED <<rowVars, was, submitVars, envVars, money, fetches>>, NoFault \/ Glitch
  PROVE  IInv'
<1>1. TypeOK  BY DEF IInv
<1> DEFINE jobs == [t \in Tasks |->
             IF t \in rows THEN [NoJob EXCEPT !.pc = l, !.from = status[t]] ELSE NoJob]
<1>2. ASSUME NEW t \in Tasks
      PROVE  jobs[t] \in JobType /\ job[p][t].pc \notin BillingPcs /\ Harmless(p, jobs[t])
  <2>1. NoJob \in JobType /\ Harmless(p, NoJob)  BY NoJobType DEF Harmless
  <2>2. t \in rows => jobs[t] \in JobType /\ Harmless(p, jobs[t])
    BY <1>1, LoadedJob
  <2>3. t \notin rows => jobs[t] = NoJob  OBVIOUS
  <2> QED  BY <2>1, <2>2, <2>3, NoJobType
<1>3. jobs \in [Tasks -> JobType]
  <2> HIDE DEF jobs
  <2>1. jobs = [t \in Tasks |-> jobs[t]]  BY DEF jobs
  <2> QED  BY <1>2, <2>1
<1>4. job' = [job EXCEPT ![p] = jobs]  BY DEF Load
<1> HIDE DEF jobs
<1> QED  BY <1>2, <1>3, <1>4, LoadJobs

\* A pass starts and loads the timed-out tasks.
LEMMA StartPassInv == ASSUME IInv, NEW p \in Passes, StartPass(p) PROVE IInv'
<1>1. TypeOK /\ IdlePasses  BY DEF IInv
<1>2. PICK rows \in SUBSET {t \in Tasks : TimedOut(t)} : Load(p, rows, "sweep") /\ (NoFault \/ Glitch)
  BY DEF StartPass, Query
<1>3. \A t \in rows : status[t] \in Open  BY <1>2 DEF TimedOut, Unfinished
<1>4. \A t \in Tasks : job[p][t] = NoJob  BY <1>1 DEF StartPass, IdlePasses
<1>5. /\ phase' \in [Passes -> {"idle", "sweep", "poll"}]
      /\ \A q \in Passes : q # p => phase'[q] = phase[q]
      /\ phase'[p] # "idle"
  BY <1>1 DEF StartPass, TypeOK
<1>6. UNCHANGED <<rowVars, was, submitVars, envVars, money, fetches>>  BY DEF StartPass
<1> QED  BY <1>2, <1>3, <1>4, <1>5, <1>6, LoadInv

\* The sweep is over and the pass loads the unfinished tasks.
LEMMA StartPollInv == ASSUME IInv, NEW p \in Passes, StartPoll(p) PROVE IInv'
<1>1. TypeOK  BY DEF IInv
<1>2. PICK rows \in SUBSET {t \in Tasks : Unfinished(t)} : Load(p, rows, "fetch") /\ (NoFault \/ Glitch)
  BY DEF StartPoll, Query
<1>3. \A t \in rows : status[t] \in Open  BY <1>2 DEF Unfinished
<1>4. \A t \in Tasks : job[p][t] = NoJob  BY DEF StartPoll
<1>5. /\ phase' \in [Passes -> {"idle", "sweep", "poll"}]
      /\ \A q \in Passes : q # p => phase'[q] = phase[q]
      /\ phase'[p] # "idle"
  BY <1>1 DEF StartPoll, TypeOK
<1>6. UNCHANGED <<rowVars, was, submitVars, envVars, money, fetches>>  BY DEF StartPoll
<1> QED  BY <1>2, <1>3, <1>4, <1>5, <1>6, LoadInv

\* A cancelled pass drops the tasks it has not turned to.
LEMMA CancelInv == ASSUME IInv, NEW p \in Passes, Cancel(p) PROVE IInv'
<1>1. TypeOK  BY DEF IInv
<1> DEFINE jobs == [t \in Tasks |-> IF job[p][t].pc = "fetch" THEN NoJob ELSE job[p][t]]
<1>2. p \in Workers  BY PassIsWorker
<1>3. ASSUME NEW t \in Tasks
      PROVE  /\ jobs[t] \in JobType
             /\ \/ jobs[t] = job[p][t]
                \/ job[p][t].pc \notin BillingPcs /\ Harmless(p, jobs[t])
  <2>1. NoJob \in JobType /\ Harmless(p, NoJob)  BY NoJobType DEF Harmless
  <2>2. job[p][t] \in JobType  BY <1>1, <1>2 DEF TypeOK
  <2> QED  BY <2>1, <2>2
<1>4. jobs \in [Tasks -> JobType]  BY <1>3
<1>5. job' = [job EXCEPT ![p] = jobs]  BY DEF Cancel
<1>6. /\ phase' \in [Passes -> {"idle", "sweep", "poll"}]
      /\ \A q \in Passes : q # p => phase'[q] = phase[q]
      /\ phase'[p] # "idle"
  BY <1>1 DEF Cancel, TypeOK
<1>7. UNCHANGED <<rowVars, was, submitVars, envVars, money, fetches>> /\ NoFault
  BY DEF Cancel, NoFault
<1> HIDE DEF jobs
<1> QED  BY <1>3, <1>4, <1>5, <1>6, <1>7, LoadJobs

\* Actions that leave rows, ledgers and jobs alone.
LEMMA QuietInv ==
  ASSUME IInv, TypeOK', job' = job,
         \A q \in Passes : phase'[q] # "idle" \/ \A t \in Tasks : job[q][t] = NoJob,
         UNCHANGED <<rowVars, was, submitVars, money, faultVars>>
  PROVE  IInv'
<1>1. IdlePasses'  BY DEF IdlePasses
<1>2. ASSUME NEW u \in Tasks, Guarded(u) PROVE GuardedInv(u)'
  <2>1. GuardedInv(u)  BY <1>2 DEF IInv, BillingDiscipline
  <2>2. RowUnchanged(u)  BY DEF RowUnchanged, rowVars, submitVars, money, faultVars
  <2> QED  BY <2>1, <2>2, Frame
<1> QED  BY <1>1, <1>2 DEF IInv, BillingDiscipline, Guarded

\* A pass ends.
LEMMA EndPassInv == ASSUME IInv, NEW p \in Passes, EndPass(p) PROVE IInv'
<1>1. TypeOK /\ IdlePasses  BY DEF IInv
<1>2. TypeOK'
  BY <1>1 DEF TypeOK, EndPass, rowVars, submitVars, envVars, money, faultVars
<1>3. \A q \in Passes : phase'[q] # "idle" \/ \A t \in Tasks : job[q][t] = NoJob
  BY <1>1 DEF EndPass, TypeOK, IdlePasses
<1> QED  BY <1>2, <1>3, QuietInv DEF EndPass, envVars

\* The upstream and the clock.
LEMMA EnvironmentInv ==
  ASSUME IInv, NEW t \in Tasks, UpstreamEnds(t) \/ TimePasses(t)
  PROVE  IInv'
<1>1. TypeOK /\ IdlePasses  BY DEF IInv
<1>2. /\ job' = job /\ phase' = phase
      /\ UNCHANGED <<rowVars, was, submitVars, money, faultVars>>
  BY DEF UpstreamEnds, TimePasses
<1>3. TypeOK'
  <2>1. CASE UpstreamEnds(t)
    BY <1>1, <2>1 DEF TypeOK, UpstreamEnds, rowVars, submitVars, money, faultVars
  <2>2. CASE TimePasses(t)
    BY <1>1, <2>2 DEF TypeOK, TimePasses, rowVars, submitVars, money, faultVars
  <2> QED  BY <2>1, <2>2
<1>4. \A q \in Passes : phase'[q] # "idle" \/ \A u \in Tasks : job[q][u] = NoJob
  BY <1>1, <1>2 DEF IdlePasses
<1> QED  BY <1>2, <1>3, <1>4, QuietInv

\* A node dies: the tasks its pass was billing have met a fault, and nobody
\* else bills them.
LEMMA CrashInv == ASSUME IInv, NEW p \in Passes, Crash(p) PROVE IInv'
<1>1. TypeOK /\ IdlePasses /\ BillingDiscipline  BY DEF IInv
<1>2. p \in Workers /\ p \notin Clients  BY PassIsWorker
<1>3. job \in [Workers -> [Tasks -> JobType]]  BY <1>1 DEF TypeOK
<1>4. job' = [job EXCEPT ![p] = [t \in Tasks |-> NoJob]]  BY DEF Crash
<1>5. /\ job' \in [Workers -> [Tasks -> JobType]]
      /\ \A u \in Tasks : job'[p][u] = NoJob
      /\ \A w \in Workers, u \in Tasks : w # p => job'[w][u] = job[w][u]
  BY <1>2, <1>3, <1>4, NoJobType
<1>6. hit' = hit \cup {t \in Tasks : Billing(p, t)}  BY DEF Crash
<1>7. TypeOK'
  <2>1. hit' \in SUBSET Tasks  BY <1>1, <1>6 DEF TypeOK
  <2>2. faults' \in Nat  BY <1>1 DEF TypeOK, Crash
  <2>3. phase' \in [Passes -> {"idle", "sweep", "poll"}]  BY <1>1 DEF TypeOK, Crash
  <2> QED
    BY <1>1, <1>5, <2>1, <2>2, <2>3 DEF TypeOK, Crash, rowVars, submitVars, envVars, money
<1>8. IdlePasses'
  <2> SUFFICES ASSUME NEW q \in Passes, phase'[q] = "idle", NEW t \in Tasks
               PROVE  job'[q][t] = NoJob
    BY DEF IdlePasses
  <2>1. CASE q = p  BY <2>1, <1>5
  <2>2. CASE q # p
    <3>1. phase[q] = "idle"  BY <1>1, <2>2 DEF Crash, TypeOK
    <3> QED  BY <1>1, <1>5, <2>2, <3>1, PassIsWorker DEF IdlePasses
  <2> QED  BY <2>1, <2>2
<1>9. ASSUME NEW u \in Tasks, Guarded(u) PROVE GuardedInv(u)'
  <2>1. GuardedInv(u)  BY <1>1, <1>9 DEF BillingDiscipline
  <2>2. /\ status'[u] = status[u] /\ quota'[u] = quota[u] /\ cost'[u] = cost[u]
        /\ submitted'[u] = submitted[u] /\ funding'[u] = funding[u] /\ token'[u] = token[u]
        /\ was' = was
    BY DEF Crash, rowVars, submitVars, money, envVars
  <2>3. CASE job[p][u].pc \notin BillingPcs
    <3>1. RowUnchanged(u)  BY <1>6, <2>2 DEF RowUnchanged
    <3>2. Harmless(p, NoJob)  BY NoJobType DEF Harmless
    <3> QED  BY <1>5, <2>1, <2>3, <3>1, <3>2, Frame
  <2>4. CASE job[p][u].pc \in BillingPcs
    <3>1. u \in hit'  BY <1>6, <2>4 DEF Billing
    <3>2. Progress(p, u)  BY <1>2, <2>1 DEF GuardedInv
    <3>3. quota[u] \in Nat /\ cost[u] \in Nat  BY <1>1 DEF TypeOK
    <3>4. funding[u] >= 0 /\ token[u] >= 0  BY <2>4, <3>2, <3>3 DEF Progress
    <3> QED  BY <1>5, <2>1, <2>2, <2>4, <3>1, <3>4, BillerStops
  <2> QED  BY <2>3, <2>4
<1> QED  BY <1>7, <1>8, <1>9 DEF IInv, BillingDiscipline, Guarded

-----------------------------------------------------------------------------
(* Actions of one worker on one task                                       *)

\* Such an action need only be shown to keep the invariant of its own task.
LEMMA TaskStep ==
  ASSUME IInv, NEW w \in Workers, NEW t \in Tasks, TypeOK', JobsChange(w, t),
         w \in Passes => job[w][t].pc # "none",
         phase' = phase, hit \subseteq hit',
         \A u \in Tasks : u # t =>
           /\ status'[u] = status[u] /\ was'[u] = was[u]
           /\ funding'[u] = funding[u] /\ token'[u] = token[u],
         UNCHANGED submitVars,
         Guarded(t) => GuardedInv(t)'
  PROVE  IInv'
<1>1. IdlePasses /\ BillingDiscipline  BY DEF IInv
<1>2. IdlePasses'
  <2> SUFFICES ASSUME NEW q \in Passes, phase'[q] = "idle", NEW u \in Tasks
               PROVE  job'[q][u] = NoJob
    BY DEF IdlePasses
  <2>1. job[q][u] = NoJob  BY <1>1 DEF IdlePasses
  <2>2. q # w \/ u # t  BY <2>1, NoJobType
  <2> QED  BY <2>1, <2>2, PassIsWorker DEF JobsChange
<1>3. ASSUME NEW u \in Tasks, Guarded(u), u # t PROVE GuardedInv(u)'
  <2>1. GuardedInv(u)  BY <1>1, <1>3 DEF BillingDiscipline
  <2>2. RowUnchanged(u)  BY <1>3 DEF RowUnchanged, submitVars
  <2>3. \A v \in Workers : job'[v][u] = job[v][u]  BY <1>3 DEF JobsChange
  <2> QED  BY <2>1, <2>2, <2>3, Frame
<1> QED  BY <1>2, <1>3 DEF IInv, BillingDiscipline, Guarded

\* Failing calls keep the types and only add to hit.
LEMMA FaultEffect ==
  ASSUME TypeOK, NEW t \in Tasks, NoFault \/ Fault(t) \/ Glitch
  PROVE  /\ hit \subseteq hit' /\ hit' \in SUBSET Tasks /\ faults' \in Nat
         /\ Fault(t) => t \in hit'
         /\ NoFault => hit' = hit
BY DEF TypeOK, NoFault, Fault, Glitch, faultVars

\* Write keeps the types and changes the row of one task.
LEMMA WriteEffect ==
  ASSUME TypeOK, NEW t \in Tasks, NEW s \in {"new", "IN_PROGRESS"} \cup Terminal, Write(t, s)
  PROVE  /\ status' \in [Tasks -> {"new", "lost"} \cup Open \cup Terminal]
         /\ full' \in [Tasks -> BOOLEAN]
         /\ status'[t] = s /\ \A u \in Tasks : u # t => status'[u] = status[u]
BY DEF TypeOK, Write

\* A lost or failed update, and a fetch, leave the task to the others.
LEMMA HarmlessStep ==
  ASSUME NEW t \in Tasks, NEW p \in Passes, TypeOK, GuardedInv(t), JobsChange(p, t),
         job[p][t].pc \notin BillingPcs, Harmless(p, job'[p][t]),
         UNCHANGED <<rowVars, was, submitVars, envVars, money>>, hit \subseteq hit'
  PROVE  GuardedInv(t)'
<1>1. RowUnchanged(t)  BY DEF RowUnchanged, rowVars, submitVars, envVars, money
<1>2. \A w \in Workers : \/ job'[w][t] = job[w][t]
                         \/ job[w][t].pc \notin BillingPcs /\ Harmless(w, job'[w][t])
  BY DEF JobsChange
<1> QED  BY <1>1, <1>2, Frame

\* Bill starts the billing at l, or ends the job.
LEMMA BillEffect ==
  ASSUME TypeOK, NEW p \in Passes, NEW t \in Tasks, NEW l \in {"none"} \cup BillingPcs,
         Bill(p, t, l)
  PROVE  /\ JobsChange(p, t)
         /\ job'[p][t].pc = l
         /\ ~job[p][t].unsaved => ~job'[p][t].unsaved
<1>1. p \in Workers  BY PassIsWorker
<1>2. CASE l = "none"  BY <1>1, <1>2, DoneEffect, NoJobType DEF Bill, JobsChange
<1>3. CASE l # "none"
  <2>1. Goto(p, t, l)  BY <1>3 DEF Bill
  <2>2. l \in Pcs  BY DEF Pcs
  <2> QED  BY <1>1, <2>1, <2>2, GotoEffect DEF JobsChange
<1> QED  BY <1>2, <1>3

\* Done leaves a harmless job.
LEMMA DoneHarmless ==
  ASSUME TypeOK, NEW p \in Passes, NEW t \in Tasks, Done(p, t)
  PROVE  JobsChange(p, t) /\ job'[p][t] = NoJob /\ Harmless(p, job'[p][t])
BY DoneEffect, NoJobType, PassIsWorker DEF JobsChange, Harmless

\* The sweep fails a timed-out task.
LEMMA SweepTaskInv == ASSUME IInv, NEW p \in Passes, NEW t \in Tasks, SweepTask(p, t) PROVE IInv'
<1>1. TypeOK /\ BillingDiscipline  BY DEF IInv
<1>2. p \in Workers /\ p \notin Clients  BY PassIsWorker
<1>3. /\ job[p][t].pc = "sweep" /\ phase' = phase /\ was' = was
      /\ UNCHANGED submitVars /\ UNCHANGED money /\ UNCHANGED envVars /\ fetches' = fetches
  BY DEF SweepTask, envVars
<1>4. quota[t] \in Nat  BY <1>1 DEF TypeOK
<1> DEFINE l == IF IsLegacy(t) THEN "none" ELSE RefundPc(t)
<1>5. l \in {"none", "refundFunding"} /\ (l = "none" => IsLegacy(t) \/ quota[t] = 0)
  BY DEF RefundPc
<1>6. CASE Wins(t, job[p][t].from) /\ Write(t, "FAILURE") /\ Bill(p, t, l) /\ NoFault
  <2> HIDE DEF l
  <2>1. /\ JobsChange(p, t) /\ job'[p][t].pc = l
        /\ ~job[p][t].unsaved => ~job'[p][t].unsaved
    BY <1>1, <1>5, <1>6, BillEffect
  <2>2. /\ status' \in [Tasks -> {"new", "lost"} \cup Open \cup Terminal]
        /\ full' \in [Tasks -> BOOLEAN]
        /\ status'[t] = "FAILURE" /\ \A u \in Tasks : u # t => status'[u] = status[u]
    BY <1>1, <1>6, WriteEffect
  <2>3. hit' = hit /\ faults' = faults  BY <1>6 DEF NoFault, faultVars
  <2>4. TypeOK'
    BY <1>1, <1>3, <2>1, <2>2, <2>3 DEF TypeOK, JobsChange, submitVars, envVars, money
  <2>5. ASSUME Guarded(t) PROVE GuardedInv(t)'
    <3>1. GuardedInv(t)  BY <1>1, <2>5 DEF BillingDiscipline
    <3>2. status[t] \in Open /\ ~job[p][t].unsaved
      BY <1>2, <1>3, <1>6, <3>1 DEF GuardedInv, JobShape, Wins
    <3> QED
      BY <1>1, <1>2, <1>3, <1>5, <2>1, <2>2, <2>3, <3>1, <3>2, WinnerBills
         DEF JobsChange, submitVars, money
  <2> QED  BY <1>2, <1>3, <2>1, <2>2, <2>3, <2>4, <2>5, TaskStep DEF money
<1>7. CASE Done(p, t) /\ UNCHANGED rowVars /\ (NoFault \/ Glitch)
  <2>1. JobsChange(p, t) /\ Harmless(p, job'[p][t])  BY <1>1, <1>7, DoneHarmless
  <2>2. hit \subseteq hit' /\ hit' \in SUBSET Tasks /\ faults' \in Nat
    BY <1>1, <1>7, FaultEffect
  <2>3. TypeOK'
    BY <1>1, <1>3, <1>7, <2>1, <2>2 DEF TypeOK, JobsChange, rowVars, submitVars, envVars, money
  <2>4. ASSUME Guarded(t) PROVE GuardedInv(t)'
    BY <1>1, <1>3, <1>7, <2>1, <2>2, <2>4, HarmlessStep DEF BillingDiscipline
  <2> QED  BY <1>2, <1>3, <1>7, <2>1, <2>2, <2>3, <2>4, TaskStep DEF money, rowVars
<1> QED  BY <1>6, <1>7 DEF SweepTask

\* A fetch only records the answer; a guarded task is no Suno task.
LEMMA FetchTaskInv == ASSUME IInv, NEW p \in Passes, NEW t \in Tasks, FetchTask(p, t) PROVE IInv'
<1>1. TypeOK /\ BillingDiscipline  BY DEF IInv
<1>2. p \in Workers /\ p \notin Clients  BY PassIsWorker
<1>3. /\ job[p][t].pc = "fetch" /\ phase' = phase /\ was' = was
      /\ UNCHANGED <<rowVars, was, submitVars, envVars, money, faultVars>> /\ fetches' = fetches
  BY DEF FetchTask, envVars
<1>4. JobsChange(p, t) /\ (Guarded(t) => Harmless(p, job'[p][t]))
  <2>1. CASE Done(p, t)  BY <1>1, <2>1, DoneHarmless
  <2>2. ASSUME Kind[t] # "suno", NEW a \in Answers(t),
               SetJob(p, t, [job[p][t] EXCEPT !.pc = "save", !.to = a])
        PROVE  JobsChange(p, t) /\ (Guarded(t) => Harmless(p, job'[p][t]))
    <3> DEFINE j == [job[p][t] EXCEPT !.pc = "save", !.to = a]
    <3>1. job[p][t] \in JobType  BY <1>1, <1>2 DEF TypeOK
    <3>2. a \in {"IN_PROGRESS"} \cup Terminal  BY <1>1 DEF Answers, TypeOK
    <3>3. /\ j \in JobType /\ j.pc = "save" /\ j.from = job[p][t].from /\ j.to = a
          /\ j.unsaved = job[p][t].unsaved
      BY <3>1, <3>2 DEF JobType, Pcs
    <3>4. SetJob(p, t, j)  BY <2>2
    <3> HIDE DEF j
    <3>5. JobsChange(p, t) /\ job'[p][t] = j
      BY <1>1, <1>2, <3>3, <3>4, SetJobEffect DEF JobsChange
    <3>6. ASSUME Guarded(t) PROVE Harmless(p, j)
      <4>1. GuardedInv(t)  BY <1>1, <3>6 DEF BillingDiscipline
      <4>2. job[p][t].from \in Open /\ ~job[p][t].unsaved
        BY <1>2, <1>3, <4>1 DEF GuardedInv, JobShape
      <4> QED  BY <1>2, <3>2, <3>3, <4>2 DEF Harmless
    <3> QED  BY <3>5, <3>6
  <2>3. ASSUME Kind[t] = "suno", NEW a \in Answers(t), NEW failed \in BOOLEAN,
               SunoAnswer(p, t, a, failed)
        PROVE  JobsChange(p, t) /\ (Guarded(t) => Harmless(p, job'[p][t]))
    <3> DEFINE l == IF failed /\ quota[t] # 0 THEN "refundFunding" ELSE "save"
               e == failed \/ a \in Terminal
               j == [job[p][t] EXCEPT !.pc = l, !.to = a, !.ends = e, !.unsaved = TRUE]
    <3>1. job[p][t] \in JobType  BY <1>1, <1>2 DEF TypeOK
    <3>2. a \in {"IN_PROGRESS"} \cup Terminal  BY <1>1 DEF Answers, TypeOK
    <3>3. SetJob(p, t, j)  BY <2>3 DEF SunoAnswer
    <3>4. l \in Pcs  BY DEF Pcs
    <3>5. e \in BOOLEAN  OBVIOUS
    <3> HIDE DEF l, e
    <3>6. j \in JobType  BY <3>1, <3>2, <3>4, <3>5 DEF JobType
    <3> HIDE DEF j
    <3>7. JobsChange(p, t)  BY <1>1, <1>2, <3>3, <3>6, SetJobEffect DEF JobsChange
    <3>8. ~Guarded(t)  BY <2>3 DEF Guarded
    <3> QED  BY <3>7, <3>8
  <2> QED  BY <2>1, <2>2, <2>3 DEF FetchTask
<1>5. hit' = hit  BY <1>3 DEF faultVars
<1>6. TypeOK'
  BY <1>1, <1>3, <1>4 DEF TypeOK, JobsChange, rowVars, submitVars, envVars, money, faultVars
<1>7. ASSUME Guarded(t) PROVE GuardedInv(t)'
  BY <1>1, <1>3, <1>4, <1>5, <1>7, HarmlessStep DEF BillingDiscipline
<1> QED  BY <1>2, <1>3, <1>4, <1>5, <1>6, <1>7, TaskStep DEF money, rowVars

\* An open task that stays open is still untouched.
LEMMA StaysOpen ==
  ASSUME NEW t \in Tasks, NEW p \in Passes, GuardedInv(t), JobsChange(p, t),
         job[p][t].pc \notin BillingPcs, Harmless(p, job'[p][t]),
         status[t] \in Open, status'[t] \in Open,
         UNCHANGED <<was, submitVars, money>>, hit' = hit
  PROVE  GuardedInv(t)'
<1>0. was[t] = "none" /\ was'[t] = "none"  BY OpenIsUnbilled
<1>1. \A w \in Workers : job[w][t].pc \notin BillingPcs /\ job'[w][t].pc \notin BillingPcs
  BY OpenIsUnbilled DEF JobsChange, Harmless
<1>2. /\ quota'[t] = quota[t] /\ funding'[t] = funding[t] /\ token'[t] = token[t]
  BY DEF submitVars, money
<1>3. funding[t] = quota[t] /\ token[t] = quota[t]  BY DEF GuardedInv, Untouched
<1>4. ASSUME NEW w \in Workers PROVE JobShape(w, t)' /\ Progress(w, t)'
  <2>1. JobShape(w, t)  BY DEF GuardedInv
  <2>2. w # p => job'[w][t] = job[w][t]  BY DEF JobsChange
  <2> QED  BY <1>0, <1>1, <2>1, <2>2 DEF JobShape, Progress, Harmless
<1>5. OneBiller(t)' /\ Untouched(t)'  BY <1>1, <1>2, <1>3 DEF OneBiller, Untouched
<1>6. Billed(t)'
  <2>1. funding[t] >= 0 /\ token[t] >= 0  BY <1>1 DEF GuardedInv, Billed
  <2> QED  BY <1>0, <1>2, <1>3, <2>1 DEF Billed, ChargeMatches
<1>7. GivenUp(t)'  BY <1>0 DEF GivenUp
<1> QED  BY <1>4, <1>5, <1>6, <1>7 DEF GuardedInv

\* A pass applies an answer to a video task.
LEMMA UpdateVideoTaskInv ==
  ASSUME IInv, NEW p \in Passes, NEW t \in Tasks, UpdateVideoTask(p, t)
  PROVE  IInv'
<1>1. TypeOK /\ BillingDiscipline  BY DEF IInv
<1>2. p \in Workers /\ p \notin Clients  BY PassIsWorker
<1>3. /\ job[p][t].pc = "save" /\ ~job[p][t].unsaved /\ phase' = phase /\ was' = was
      /\ UNCHANGED submitVars /\ UNCHANGED money /\ UNCHANGED envVars /\ fetches' = fetches
  BY DEF UpdateVideoTask, envVars
<1>4. quota[t] \in Nat /\ cost[t] \in Nat  BY <1>1 DEF TypeOK
<1> DEFINE to == job[p][t].to
           l == IF to = "FAILURE" THEN RefundPc(t)
                ELSE IF to = "SUCCESS" THEN SettlePc(t) ELSE "none"
<1>5. to \in {"new", "IN_PROGRESS"} \cup Terminal
  <2>1. job[p][t] \in JobType  BY <1>1, <1>2 DEF TypeOK
  <2> QED  BY <2>1 DEF JobType
<1>6. /\ l \in {"none"} \cup BillingPcs
      /\ to = "FAILURE" => l = "refundFunding" \/ (l = "none" /\ quota[t] = 0)
      /\ to = "SUCCESS" => \/ l = "settleFunding" /\ cost[t] > 0
                           \/ l = "none" /\ (cost[t] = 0 \/ cost[t] = quota[t])
      /\ to \notin Terminal => l = "none"
  BY <1>4, <1>5 DEF RefundPc, SettlePc
<1>7. CASE Wins(t, job[p][t].from) /\ Write(t, to) /\ Bill(p, t, l) /\ NoFault
  <2>0. to = "IN_PROGRESS" => Done(p, t)  BY <1>7 DEF Bill
  <2> HIDE DEF l
  <2>1. JobsChange(p, t) /\ job'[p][t].pc = l /\ ~job'[p][t].unsaved
    BY <1>1, <1>3, <1>6, <1>7, BillEffect
  <2>2. /\ status' \in [Tasks -> {"new", "lost"} \cup Open \cup Terminal]
        /\ full' \in [Tasks -> BOOLEAN]
        /\ status'[t] = to /\ \A u \in Tasks : u # t => status'[u] = status[u]
    BY <1>1, <1>5, <1>7, WriteEffect
  <2>3. hit' = hit /\ faults' = faults  BY <1>7 DEF NoFault, faultVars
  <2>4. TypeOK'
    BY <1>1, <1>3, <2>1, <2>2, <2>3 DEF TypeOK, JobsChange, submitVars, envVars, money
  <2>5. ASSUME Guarded(t) PROVE GuardedInv(t)'
    <3>1. GuardedInv(t)  BY <1>1, <2>5 DEF BillingDiscipline
    <3>2. status[t] \in Open /\ to # "new"
      BY <1>2, <1>3, <1>7, <3>1 DEF GuardedInv, JobShape, Wins
    <3>3. CASE to \in Terminal
      BY <1>1, <1>2, <1>3, <1>6, <2>1, <2>2, <2>3, <3>1, <3>2, <3>3, WinnerBills
         DEF JobsChange, submitVars, money
    <3>4. CASE to = "IN_PROGRESS"
      <4>1. Harmless(p, job'[p][t])  BY <1>1, <2>0, <3>4, DoneHarmless
      <4> QED  BY <1>3, <2>1, <2>2, <2>3, <3>1, <3>2, <3>4, <4>1, StaysOpen
    <3> QED  BY <1>5, <3>2, <3>3, <3>4
  <2> QED  BY <1>2, <1>3, <2>1, <2>2, <2>3, <2>4, <2>5, TaskStep DEF money
<1>8. CASE Done(p, t) /\ UNCHANGED rowVars /\ (NoFault \/ Glitch)
  <2>1. JobsChange(p, t) /\ Harmless(p, job'[p][t])  BY <1>1, <1>8, DoneHarmless
  <2>2. hit \subseteq hit' /\ hit' \in SUBSET Tasks /\ faults' \in Nat
    BY <1>1, <1>8, FaultEffect
  <2>3. TypeOK'
    BY <1>1, <1>3, <1>8, <2>1, <2>2 DEF TypeOK, JobsChange, rowVars, submitVars, envVars, money
  <2>4. ASSUME Guarded(t) PROVE GuardedInv(t)'
    BY <1>1, <1>3, <1>8, <2>1, <2>2, <2>4, HarmlessStep DEF BillingDiscipline
  <2> QED  BY <1>2, <1>3, <1>8, <2>1, <2>2, <2>3, <2>4, TaskStep DEF money, rowVars
<1> QED  BY <1>7, <1>8 DEF UpdateVideoTask

\* A Suno task is not guarded, so its row may be written in any way.
LEMMA UpdateSunoTaskInv ==
  ASSUME IInv, NEW p \in Passes, NEW t \in Tasks, UpdateSunoTask(p, t)
  PROVE  IInv'
<1>1. TypeOK /\ BillingDiscipline  BY DEF IInv
<1>2. p \in Workers  BY PassIsWorker
<1>3. /\ job[p][t].pc = "save" /\ job[p][t].unsaved /\ phase' = phase /\ was' = was
      /\ UNCHANGED submitVars /\ UNCHANGED money /\ UNCHANGED envVars /\ fetches' = fetches
      /\ Done(p, t)
  BY DEF UpdateSunoTask, envVars
<1>4. ~Guarded(t)  BY <1>1, <1>2, <1>3, GuardedJobs DEF BillingDiscipline
<1>5. job[p][t].to \in {"new", "IN_PROGRESS"} \cup Terminal /\ job[p][t].ends \in BOOLEAN
  <2>1. job[p][t] \in JobType  BY <1>1, <1>2 DEF TypeOK
  <2> QED  BY <2>1 DEF JobType
<1>6. /\ NoFault \/ Fault(t)
      /\ \/ /\ status' = [status EXCEPT ![t] = job[p][t].to]
            /\ full' = [full EXCEPT ![t] = job[p][t].ends]
         \/ UNCHANGED rowVars
  BY DEF UpdateSunoTask
<1>7. /\ status' \in [Tasks -> {"new", "lost"} \cup Open \cup Terminal]
      /\ full' \in [Tasks -> BOOLEAN]
      /\ \A u \in Tasks : u # t => status'[u] = status[u]
  BY <1>1, <1>5, <1>6 DEF TypeOK, rowVars
<1>8. JobsChange(p, t)  BY <1>1, <1>3, DoneHarmless
<1>9. hit \subseteq hit' /\ hit' \in SUBSET Tasks /\ faults' \in Nat
  BY <1>1, <1>6, FaultEffect
<1>10. TypeOK'
  BY <1>1, <1>3, <1>7, <1>8, <1>9 DEF TypeOK, JobsChange, submitVars, envVars, money
<1> QED  BY <1>2, <1>3, <1>4, <1>7, <1>8, <1>9, <1>10, TaskStep DEF money

\* The unconditional update of a task whose channel cannot be looked up: whoever
\* bills the task goes on undisturbed, and the first such update fixes what the
\* task was billed as.
LEMMA BulkFailInv == ASSUME IInv, NEW p \in Passes, NEW t \in Tasks, BulkFail(p, t) PROVE IInv'
<1>1. TypeOK /\ BillingDiscipline  BY DEF IInv
<1>2. p \in Workers /\ p \notin Clients  BY PassIsWorker
<1>3. /\ job[p][t].pc = "fetch" /\ phase' = phase
      /\ UNCHANGED submitVars /\ UNCHANGED money /\ UNCHANGED envVars /\ fetches' = fetches
      /\ Done(p, t)
  BY DEF BulkFail, envVars
<1>4. JobsChange(p, t) /\ job'[p][t] = NoJob /\ Harmless(p, job'[p][t])
  BY <1>1, <1>3, DoneHarmless
<1>5. /\ \/ /\ Write(t, "FAILURE")
            /\ was' = [was EXCEPT ![t] = BilledAs(t)]
         \/ UNCHANGED rowVars /\ was' = was
      /\ NoFault \/ Glitch
  BY DEF BulkFail
<1>51. was' \in [Tasks -> {"none", "new", "lost"} \cup Open \cup Terminal]
       /\ \A u \in Tasks : u # t => was'[u] = was[u]
  BY <1>1, <1>5 DEF TypeOK
<1>6. /\ status' \in [Tasks -> {"new", "lost"} \cup Open \cup Terminal]
      /\ full' \in [Tasks -> BOOLEAN]
      /\ \A u \in Tasks : u # t => status'[u] = status[u]
      /\ Write(t, "FAILURE") => status'[t] = "FAILURE"
  BY <1>1, <1>5, WriteEffect DEF TypeOK, rowVars
<1>7. hit \subseteq hit' /\ hit' \in SUBSET Tasks /\ faults' \in Nat
  BY <1>1, <1>5, FaultEffect
<1>8. TypeOK'
  BY <1>1, <1>3, <1>4, <1>51, <1>6, <1>7 DEF TypeOK, JobsChange, submitVars, envVars, money
<1>9. ASSUME Guarded(t) PROVE GuardedInv(t)'
  <2>1. GuardedInv(t)  BY <1>1, <1>9 DEF BillingDiscipline
  <2>2. CASE UNCHANGED rowVars /\ was' = was
    BY <1>1, <1>3, <1>4, <1>7, <2>1, <2>2, HarmlessStep
  <2>3. CASE Write(t, "FAILURE") /\ was' = [was EXCEPT ![t] = BilledAs(t)]
    <3>0. BilledAs(t)' = BilledAs(t)  BY <1>1, <2>3 DEF TypeOK
    <3>1. /\ status'[t] = "FAILURE" /\ quota'[t] = quota[t] /\ cost'[t] = cost[t]
          /\ funding'[t] = funding[t] /\ token'[t] = token[t] /\ submitted'[t] = submitted[t]
      BY <1>3, <1>6, <2>3 DEF submitVars, money
    <3> HIDE DEF BilledAs
    <3>2. ASSUME NEW w \in Workers PROVE JobShape(w, t)' /\ Progress(w, t)'
      <4>1. CASE w = p  BY <1>2, <1>4, <4>1, NoJobType DEF JobShape, Progress
      <4>2. CASE w # p
        <5>1. JobShape(w, t) /\ Progress(w, t)  BY <2>1 DEF GuardedInv
        <5>2. job'[w][t] = job[w][t]  BY <1>4, <4>2 DEF JobsChange
        <5> QED  BY <1>3, <3>0, <3>1, <5>1, <5>2 DEF JobShape, Progress
      <4> QED  BY <4>1, <4>2
    <3>3. \A w \in Workers : job'[w][t].pc \in BillingPcs => job[w][t].pc \in BillingPcs
      BY <1>4, NoJobType DEF JobsChange
    <3>4. OneBiller(t)'  BY <2>1, <3>3 DEF GuardedInv, OneBiller
    <3>5. Untouched(t)'  BY <3>1 DEF Untouched
    <3>6. Billed(t)'
      <4>1. \A w \in Workers : job[w][t].pc \in BillingPcs => job'[w][t].pc \in BillingPcs
        BY <1>3, <1>4 DEF JobsChange
      <4> QED
        BY <1>3, <1>7, <2>1, <3>0, <3>1, <4>1
           DEF GuardedInv, Billed, ChargeMatches, Settled, IsLegacy, LegacyTaskCutoff
    <3>7. GivenUp(t)'  BY <3>1 DEF GivenUp
    <3> QED  BY <3>2, <3>4, <3>5, <3>6, <3>7 DEF GuardedInv
  <2> QED  BY <1>5, <2>2, <2>3
<1> QED  BY <1>2, <1>3, <1>4, <1>51, <1>6, <1>7, <1>8, <1>9, TaskStep DEF money

\* After the billing of a guarded task the job is over.
LEMMA AfterBillingEffect ==
  ASSUME TypeOK, NEW p \in Passes, NEW t \in Tasks, AfterBilling(p, t)
  PROVE  JobsChange(p, t) /\ (~job[p][t].unsaved => job'[p][t] = NoJob)
<1>1. p \in Workers /\ "save" \in Pcs  BY PassIsWorker DEF Pcs
<1>2. CASE job[p][t].unsaved
  <2>1. Goto(p, t, "save")  BY <1>2 DEF AfterBilling
  <2> QED  BY <1>1, <1>2, <2>1, GotoEffect DEF JobsChange
<1>3. CASE ~job[p][t].unsaved
  BY <1>3, DoneHarmless DEF AfterBilling
<1> QED  BY <1>2, <1>3

\* The refund of the funding source.
LEMMA RefundFundingInv ==
  ASSUME IInv, NEW p \in Passes, NEW t \in Tasks, RefundFunding(p, t)
  PROVE  IInv'
<1>1. TypeOK /\ BillingDiscipline  BY DEF IInv
<1>2. p \in Workers /\ "refundToken" \in Pcs  BY PassIsWorker DEF Pcs
<1>3. /\ job[p][t].pc = "refundFunding" /\ phase' = phase /\ was' = was
      /\ UNCHANGED rowVars /\ UNCHANGED submitVars /\ UNCHANGED envVars
      /\ token' = token /\ fetches' = fetches
  BY DEF RefundFunding, envVars
<1>4. /\ quota[t] \in Nat /\ funding[t] \in Int
      /\ funding \in [Tasks -> Int] /\ token \in [Tasks -> Int]
  BY <1>1 DEF TypeOK
<1>5. Guarded(t) => /\ GuardedInv(t) /\ ~job[p][t].unsaved
                    /\ funding[t] = quota[t] /\ token[t] = quota[t]
  BY <1>1, <1>2, <1>3 DEF BillingDiscipline, GuardedInv, JobShape, Progress
<1>6. CASE /\ funding' = [funding EXCEPT ![t] = @ - quota[t]]
           /\ Goto(p, t, "refundToken") /\ NoFault
  <2>1. /\ JobsChange(p, t) /\ job'[p][t].pc = "refundToken"
        /\ job'[p][t].unsaved = job[p][t].unsaved
    BY <1>1, <1>2, <1>6, GotoEffect DEF JobsChange
  <2>2. /\ funding' \in [Tasks -> Int] /\ funding'[t] = funding[t] - quota[t]
        /\ \A u \in Tasks : u # t => funding'[u] = funding[u]
    BY <1>4, <1>6
  <2>3. hit' = hit /\ faults' = faults  BY <1>6 DEF NoFault, faultVars
  <2>4. TypeOK'
    BY <1>1, <1>3, <2>1, <2>2, <2>3 DEF TypeOK, JobsChange, rowVars, submitVars, envVars
  <2>5. ASSUME Guarded(t) PROVE GuardedInv(t)'
    <3>1. quota'[t] = quota[t] /\ token'[t] = token[t]  BY <1>3 DEF submitVars
    <3>2. funding'[t] = 0  BY <1>4, <1>5, <2>2, <2>5
    <3>3. Progress(p, t)'  BY <1>5, <2>1, <2>5, <3>1, <3>2 DEF Progress
    <3> QED
      BY <1>3, <1>5, <2>1, <2>5, <3>3, BillerProceeds DEF JobsChange, rowVars, submitVars
  <2> QED  BY <1>2, <1>3, <2>1, <2>2, <2>3, <2>4, <2>5, TaskStep DEF rowVars
<1>7. CASE Fault(t) /\ AfterBilling(p, t) /\ UNCHANGED funding
  <2>1. JobsChange(p, t) /\ (~job[p][t].unsaved => job'[p][t] = NoJob)
    BY <1>1, <1>7, AfterBillingEffect
  <2>2. hit \subseteq hit' /\ hit' \in SUBSET Tasks /\ faults' \in Nat /\ t \in hit'
    BY <1>1, <1>7, FaultEffect
  <2>3. TypeOK'
    BY <1>1, <1>3, <1>7, <2>1, <2>2 DEF TypeOK, JobsChange, rowVars, submitVars, envVars
  <2>4. ASSUME Guarded(t) PROVE GuardedInv(t)'
    <3>1. funding'[t] >= 0 /\ token'[t] >= 0  BY <1>3, <1>4, <1>5, <1>7, <2>4
    <3> QED
      BY <1>3, <1>5, <2>1, <2>2, <2>4, <3>1, BillerStops DEF JobsChange, rowVars, submitVars
  <2> QED  BY <1>2, <1>3, <1>7, <2>1, <2>2, <2>3, <2>4, TaskStep DEF rowVars
<1> QED  BY <1>6, <1>7 DEF RefundFunding

\* The refund of the token.
LEMMA RefundTokenInv ==
  ASSUME IInv, NEW p \in Passes, NEW t \in Tasks, RefundToken(p, t)
  PROVE  IInv'
<1>1. TypeOK /\ BillingDiscipline  BY DEF IInv
<1>2. p \in Workers  BY PassIsWorker
<1>3. /\ job[p][t].pc = "refundToken" /\ phase' = phase /\ was' = was
      /\ UNCHANGED rowVars /\ UNCHANGED submitVars /\ UNCHANGED envVars
      /\ funding' = funding /\ fetches' = fetches /\ AfterBilling(p, t)
  BY DEF RefundToken, envVars
<1>4. /\ quota[t] \in Nat /\ token[t] \in Int
      /\ funding \in [Tasks -> Int] /\ token \in [Tasks -> Int]
  BY <1>1 DEF TypeOK
<1>5. Guarded(t) => /\ GuardedInv(t) /\ ~job[p][t].unsaved
                    /\ funding[t] = 0 /\ token[t] = quota[t]
                    /\ BilledAs(t) = "FAILURE"
  BY <1>1, <1>2, <1>3 DEF BillingDiscipline, GuardedInv, JobShape, Progress
<1>6. JobsChange(p, t) /\ (~job[p][t].unsaved => job'[p][t] = NoJob)
  BY <1>1, <1>3, AfterBillingEffect
<1>7. /\ token' \in [Tasks -> Int] /\ \A u \in Tasks : u # t => token'[u] = token[u]
      /\ \/ token'[t] = token[t] - quota[t] /\ NoFault
         \/ token'[t] = token[t] /\ Fault(t)
  BY <1>4 DEF RefundToken
<1>8. /\ hit \subseteq hit' /\ hit' \in SUBSET Tasks /\ faults' \in Nat
      /\ Fault(t) => t \in hit'
      /\ NoFault => hit' = hit
  BY <1>1, <1>7, FaultEffect
<1>9. TypeOK'
  BY <1>1, <1>3, <1>6, <1>7, <1>8 DEF TypeOK, JobsChange, rowVars, submitVars, envVars
<1>10. ASSUME Guarded(t) PROVE GuardedInv(t)'
  <2>1. /\ funding'[t] >= 0 /\ token'[t] >= 0
        /\ t \in hit' \/ (token'[t] = 0 /\ funding'[t] = 0)
    BY <1>3, <1>4, <1>5, <1>7, <1>8, <1>10
  <2> QED
    BY <1>3, <1>5, <1>6, <1>10, <2>1, BillerStops DEF JobsChange, rowVars, submitVars
<1> QED  BY <1>2, <1>3, <1>6, <1>7, <1>8, <1>9, <1>10, TaskStep DEF rowVars

\* The settlement of the funding source.
LEMMA SettleFundingInv ==
  ASSUME IInv, NEW p \in Passes, NEW t \in Tasks, SettleFunding(p, t)
  PROVE  IInv'
<1>1. TypeOK /\ BillingDiscipline  BY DEF IInv
<1>2. p \in Workers /\ "settleToken" \in Pcs  BY PassIsWorker DEF Pcs
<1>3. /\ job[p][t].pc = "settleFunding" /\ phase' = phase /\ was' = was
      /\ UNCHANGED rowVars /\ UNCHANGED submitVars /\ UNCHANGED envVars
      /\ token' = token /\ fetches' = fetches
  BY DEF SettleFunding, envVars
<1>4. /\ quota[t] \in Nat /\ cost[t] \in Nat /\ funding[t] \in Int
      /\ funding \in [Tasks -> Int] /\ token \in [Tasks -> Int]
  BY <1>1 DEF TypeOK
<1>5. Guarded(t) => /\ GuardedInv(t) /\ ~job[p][t].unsaved /\ cost[t] > 0
                    /\ funding[t] = quota[t] /\ token[t] = quota[t]
  BY <1>1, <1>2, <1>3 DEF BillingDiscipline, GuardedInv, JobShape, Progress
<1>6. CASE /\ funding' = [funding EXCEPT ![t] = @ + (cost[t] - quota[t])]
           /\ Goto(p, t, "settleToken") /\ NoFault
  <2>1. /\ JobsChange(p, t) /\ job'[p][t].pc = "settleToken"
        /\ job'[p][t].unsaved = job[p][t].unsaved
    BY <1>1, <1>2, <1>6, GotoEffect DEF JobsChange
  <2>2. /\ funding' \in [Tasks -> Int] /\ funding'[t] = funding[t] + (cost[t] - quota[t])
        /\ \A u \in Tasks : u # t => funding'[u] = funding[u]
    BY <1>4, <1>6
  <2>3. hit' = hit /\ faults' = faults  BY <1>6 DEF NoFault, faultVars
  <2>4. TypeOK'
    BY <1>1, <1>3, <2>1, <2>2, <2>3 DEF TypeOK, JobsChange, rowVars, submitVars, envVars
  <2>5. ASSUME Guarded(t) PROVE GuardedInv(t)'
    <3>1. quota'[t] = quota[t] /\ cost'[t] = cost[t] /\ token'[t] = token[t]
      BY <1>3 DEF submitVars
    <3>2. funding'[t] = cost[t]  BY <1>4, <1>5, <2>2, <2>5
    <3>3. Progress(p, t)'  BY <1>5, <2>1, <2>5, <3>1, <3>2 DEF Progress
    <3> QED
      BY <1>3, <1>5, <2>1, <2>5, <3>3, BillerProceeds DEF JobsChange, rowVars, submitVars
  <2> QED  BY <1>2, <1>3, <2>1, <2>2, <2>3, <2>4, <2>5, TaskStep DEF rowVars
<1>7. CASE Fault(t) /\ Done(p, t) /\ UNCHANGED funding
  <2>1. JobsChange(p, t) /\ job'[p][t] = NoJob  BY <1>1, <1>7, DoneHarmless
  <2>2. hit \subseteq hit' /\ hit' \in SUBSET Tasks /\ faults' \in Nat /\ t \in hit'
    BY <1>1, <1>7, FaultEffect
  <2>3. TypeOK'
    BY <1>1, <1>3, <1>7, <2>1, <2>2 DEF TypeOK, JobsChange, rowVars, submitVars, envVars
  <2>4. ASSUME Guarded(t) PROVE GuardedInv(t)'
    <3>1. funding'[t] >= 0 /\ token'[t] >= 0  BY <1>3, <1>4, <1>5, <1>7, <2>4
    <3> QED
      BY <1>3, <1>5, <2>1, <2>2, <2>4, <3>1, BillerStops DEF JobsChange, rowVars, submitVars
  <2> QED  BY <1>2, <1>3, <1>7, <2>1, <2>2, <2>3, <2>4, TaskStep DEF rowVars
<1> QED  BY <1>6, <1>7 DEF SettleFunding

\* The settlement of the token.
LEMMA SettleTokenInv ==
  ASSUME IInv, NEW p \in Passes, NEW t \in Tasks, SettleToken(p, t)
  PROVE  IInv'
<1>1. TypeOK /\ BillingDiscipline  BY DEF IInv
<1>2. p \in Workers  BY PassIsWorker
<1>3. /\ job[p][t].pc = "settleToken" /\ phase' = phase /\ was' = was
      /\ UNCHANGED rowVars /\ UNCHANGED submitVars /\ UNCHANGED envVars
      /\ funding' = funding /\ fetches' = fetches /\ Done(p, t)
  BY DEF SettleToken, envVars
<1>4. /\ quota[t] \in Nat /\ cost[t] \in Nat /\ token[t] \in Int
      /\ funding \in [Tasks -> Int] /\ token \in [Tasks -> Int]
  BY <1>1 DEF TypeOK
<1>5. Guarded(t) => /\ GuardedInv(t) /\ cost[t] > 0
                    /\ funding[t] = cost[t] /\ token[t] = quota[t]
                    /\ BilledAs(t) = "SUCCESS"
  BY <1>1, <1>2, <1>3 DEF BillingDiscipline, GuardedInv, JobShape, Progress
<1>6. JobsChange(p, t) /\ job'[p][t] = NoJob  BY <1>1, <1>3, DoneHarmless
<1>7. /\ token' \in [Tasks -> Int] /\ \A u \in Tasks : u # t => token'[u] = token[u]
      /\ \/ token'[t] = token[t] + (cost[t] - quota[t]) /\ NoFault
         \/ token'[t] = token[t] /\ Fault(t)
  BY <1>4 DEF SettleToken
<1>8. /\ hit \subseteq hit' /\ hit' \in SUBSET Tasks /\ faults' \in Nat
      /\ Fault(t) => t \in hit'
  BY <1>1, <1>7, FaultEffect
<1>9. TypeOK'
  BY <1>1, <1>3, <1>6, <1>7, <1>8 DEF TypeOK, JobsChange, rowVars, submitVars, envVars
<1>10. ASSUME Guarded(t) PROVE GuardedInv(t)'
  <2>1. /\ funding'[t] >= 0 /\ token'[t] >= 0
        /\ t \in hit' \/ (token'[t] = cost[t] /\ funding'[t] = cost[t])
    BY <1>3, <1>4, <1>5, <1>7, <1>8, <1>10
  <2>2. Settled(t) = cost[t]  BY <1>4, <1>5, <1>10 DEF Settled
  <2> QED
    BY <1>3, <1>5, <1>6, <1>10, <2>1, <2>2, BillerStops DEF JobsChange, rowVars, submitVars
<1> QED  BY <1>2, <1>3, <1>6, <1>7, <1>8, <1>9, <1>10, TaskStep DEF rowVars

\* A user's fetch never concerns a guarded task.
LEMMA RealtimeInv ==
  ASSUME IInv, NEW c \in Clients, NEW t \in Tasks, Realtime(c, t)
  PROVE  IInv'
<1>1. TypeOK /\ BillingDiscipline  BY DEF IInv
<1>2. c \in Workers /\ c \notin Passes  BY TaskAssumption DEF Workers
<1>3. ~Guarded(t)
  <2>1. CASE RealtimeLoad(c, t)  BY <2>1 DEF RealtimeLoad, Guarded
  <2>2. CASE RealtimeFetch(c, t) \/ RealtimeSave(c, t)
    BY <1>1, <2>2, GuardedJobs, NoJobType DEF RealtimeFetch, RealtimeSave, BillingDiscipline
  <2> QED  BY <2>1, <2>2 DEF Realtime
<1>4. /\ phase' = phase /\ was' = was /\ fetches' \in Nat
      /\ UNCHANGED submitVars /\ UNCHANGED envVars /\ UNCHANGED money
      /\ NoFault \/ Glitch
  <2>1. CASE RealtimeLoad(c, t)
    BY <1>1, <2>1 DEF RealtimeLoad, envVars, TypeOK, NoFault
  <2>2. CASE RealtimeFetch(c, t)
    BY <1>1, <2>2 DEF RealtimeFetch, envVars, TypeOK, NoFault
  <2>3. CASE RealtimeSave(c, t)
    BY <1>1, <2>3 DEF RealtimeSave, envVars, TypeOK
  <2> QED  BY <2>1, <2>2, <2>3 DEF Realtime
<1>5. job[c][t] \in JobType  BY <1>1, <1>2 DEF TypeOK
<1>6. JobsChange(c, t)
  <2>1. CASE RealtimeLoad(c, t)
    <3>1. [NoJob EXCEPT !.pc = "fetch", !.from = status[t]] \in JobType
      BY <2>1 DEF RealtimeLoad, NoJob, JobType, Pcs
    <3> QED  BY <1>1, <1>2, <2>1, <3>1, SetJobEffect DEF RealtimeLoad, JobsChange
  <2>2. CASE Done(c, t)  BY <1>1, <1>2, <2>2, DoneEffect DEF JobsChange
  <2>3. ASSUME NEW a \in Answers(t), SetJob(c, t, [job[c][t] EXCEPT !.pc = "save", !.to = a])
        PROVE  JobsChange(c, t)
    <3>1. a \in {"IN_PROGRESS"} \cup Terminal  BY <1>1 DEF Answers, TypeOK
    <3>2. [job[c][t] EXCEPT !.pc = "save", !.to = a] \in JobType
      BY <1>5, <3>1 DEF JobType, Pcs
    <3> QED  BY <1>1, <1>2, <2>3, <3>2, SetJobEffect DEF JobsChange
  <2> QED  BY <2>1, <2>2, <2>3 DEF Realtime, RealtimeFetch, RealtimeSave
<1>7. UNCHANGED rowVars \/ Write(t, job[c][t].to)
  BY DEF Realtime, RealtimeLoad, RealtimeFetch, RealtimeSave
<1>8. job[c][t].to \in {"new", "IN_PROGRESS"} \cup Terminal  BY <1>5 DEF JobType
<1>9. /\ status' \in [Tasks -> {"new", "lost"} \cup Open \cup Terminal]
      /\ full' \in [Tasks -> BOOLEAN]
      /\ \A u \in Tasks : u # t => status'[u] = status[u]
  BY <1>1, <1>7, <1>8, WriteEffect DEF TypeOK, rowVars
<1>10. hit \subseteq hit' /\ hit' \in SUBSET Tasks /\ faults' \in Nat
  BY <1>1, <1>4, FaultEffect
<1>11. TypeOK'
  BY <1>1, <1>4, <1>6, <1>9, <1>10 DEF TypeOK, JobsChange, submitVars, envVars, money
<1> QED  BY <1>2, <1>3, <1>4, <1>6, <1>9, <1>10, <1>11, TaskStep DEF money

-----------------------------------------------------------------------------
(* The theorems                                                            *)

\* Every step keeps the inductive invariant.
LEMMA NextInv == IInv /\ [Next]_vars => IInv'
<1> SUFFICES ASSUME IInv, [Next]_vars PROVE IInv'  OBVIOUS
<1>1. ASSUME NEW p \in Passes, Pass(p) \/ Cancel(p) \/ Crash(p) PROVE IInv'
  BY <1>1, StartPassInv, StartPollInv, EndPassInv, CancelInv, CrashInv DEF Pass
<1>2. ASSUME NEW p \in Passes, NEW t \in Tasks, PassTask(p, t) PROVE IInv'
  BY <1>2, SweepTaskInv, BulkFailInv, FetchTaskInv, UpdateVideoTaskInv, UpdateSunoTaskInv,
     RefundFundingInv, RefundTokenInv, SettleFundingInv, SettleTokenInv DEF PassTask
<1>3. ASSUME NEW c \in Clients, NEW t \in Tasks, Realtime(c, t) PROVE IInv'
  BY <1>3, RealtimeInv
<1>4. ASSUME NEW t \in Tasks, Environment(t) PROVE IInv'
  BY <1>4, SubmitInv, EnvironmentInv DEF Environment
<1>5. CASE UNCHANGED vars
  BY <1>5 DEF vars, rowVars, submitVars, envVars, money, faultVars, IInv, TypeOK, IdlePasses,
     BillingDiscipline, Guarded, GuardedInv, JobShape, Progress, OneBiller, Untouched, Billed,
     GivenUp, ChargeMatches, Settled, IsLegacy
<1> QED  BY <1>1, <1>2, <1>3, <1>4, <1>5 DEF Next

\* The inductive invariant holds in every reachable state: for any number of
\* overlapping passes, at most one worker bills a guarded task.
THEOREM Disciplined == Spec => []IInv
BY InitInv, NextInv, PTL DEF Spec

\* Every variable keeps its type.
THEOREM TaskTypeCorrect == Spec => []TypeOK
<1>1. IInv => TypeOK  BY DEF IInv
<1> QED  BY <1>1, Disciplined, PTL

\* No guarded task is refunded or settled twice, whatever fails.
THEOREM NeverBilledTwice == Spec => []BilledOnce
<1>1. IInv => BilledOnce
  <2> SUFFICES ASSUME IInv, NEW t \in Tasks, Guarded(t) PROVE funding[t] >= 0 /\ token[t] >= 0
    BY DEF BilledOnce
  <2>1. GuardedInv(t) /\ quota[t] \in Nat /\ cost[t] \in Nat
    BY DEF IInv, BillingDiscipline, TypeOK
  <2>2. CASE \A w \in Workers : job[w][t].pc \notin BillingPcs
    BY <2>1, <2>2 DEF GuardedInv, Billed
  <2>3. ASSUME NEW w \in Workers, job[w][t].pc \in BillingPcs
        PROVE  funding[t] >= 0 /\ token[t] >= 0
    BY <2>1, <2>3 DEF GuardedInv, Progress
  <2> QED  BY <2>2, <2>3
<1> QED  BY <1>1, Disciplined, PTL

\* Between billing steps the ledgers tell what the row of a guarded task says, or,
\* when a pass could not look up its channel, what the row said before that.
THEOREM ChargeMatchesRow == Spec => []ChargeMatchesStatus
<1>1. IInv => ChargeMatchesStatus
  <2> SUFFICES ASSUME IInv, NEW t \in Tasks, Guarded(t), AtRest(t)
               PROVE  ChargeMatches(t) /\ GivenUp(t)
    BY DEF ChargeMatchesStatus, GivenUp
  <2>1. GuardedInv(t)  BY DEF IInv, BillingDiscipline
  <2>2. \A w \in Workers : job[w][t].pc \notin BillingPcs  BY DEF AtRest, Billing
  <2> QED  BY <2>1, <2>2 DEF GuardedInv, Billed, AtRest
<1> QED  BY <1>1, Disciplined, PTL

\* A worker that still holds a guarded task loaded it open, so its update of a
\* finished one loses.
LEMMA LateUpdateLoses ==
  ASSUME IInv, NEW p \in Passes, NEW t \in Tasks, Guarded(t), status[t] \in Terminal,
         job[p][t].pc \in {"sweep", "save"}
  PROVE  ~Wins(t, job[p][t].from)
BY PassIsWorker DEF IInv, BillingDiscipline, GuardedInv, JobShape, Wins

\* What a step may do to the final status of t: nothing, or fail it in bulk once.
KeepsFinal(t) ==
  \/ status'[t] = status[t]
  \/ status'[t] = "FAILURE" /\ was[t] = "none" /\ was'[t] = status[t]

\* No step changes the final status of a guarded task but a bulk failure.
LEMMA FinalStep ==
  ASSUME IInv, [Next]_vars, NEW t \in Tasks, Guarded(t), status[t] \in Terminal
  PROVE  KeepsFinal(t)
<1> USE DEF KeepsFinal
<1>1. TypeOK /\ GuardedInv(t)  BY DEF IInv, BillingDiscipline
<1>2. ASSUME NEW p \in Passes, Pass(p) \/ Cancel(p) \/ Crash(p) PROVE status'[t] = status[t]
  BY <1>2 DEF Pass, StartPass, StartPoll, EndPass, Cancel, Crash, rowVars
<1>3. ASSUME NEW p \in Passes, NEW u \in Tasks, PassTask(p, u) PROVE KeepsFinal(t)
  <2>1. ASSUME u # t, NEW s, status' = [status EXCEPT ![u] = s] PROVE status'[t] = status[t]
    BY <1>1, <2>1 DEF TypeOK
  <2>2. CASE SweepTask(p, u)
    BY <2>1, <2>2, LateUpdateLoses DEF SweepTask, Write, rowVars
  <2>3. CASE BulkFail(p, u)
    <3>1. CASE u # t  BY <2>1, <2>3, <3>1 DEF BulkFail, Write, rowVars
    <3>2. CASE u = t
      <4>1. was[t] # "none" => status[t] = "FAILURE"  BY <1>1 DEF GuardedInv, GivenUp
      <4> QED  BY <1>1, <2>3, <3>2, <4>1 DEF BulkFail, Write, rowVars, TypeOK
    <3> QED  BY <3>1, <3>2
  <2>4. CASE UpdateVideoTask(p, u)
    BY <2>1, <2>4, LateUpdateLoses DEF UpdateVideoTask, Write, rowVars
  <2>5. CASE UpdateSunoTask(p, u)
    <3>1. u # t  BY <1>1, <2>5, GuardedJobs, PassIsWorker DEF UpdateSunoTask
    <3> QED  BY <2>1, <2>5, <3>1 DEF UpdateSunoTask, rowVars
  <2>6. CASE \/ FetchTask(p, u) \/ RefundFunding(p, u) \/ RefundToken(p, u)
             \/ SettleFunding(p, u) \/ SettleToken(p, u)
    BY <2>6 DEF FetchTask, RefundFunding, RefundToken, SettleFunding, SettleToken, rowVars
  <2> QED  BY <1>3, <2>2, <2>3, <2>4, <2>5, <2>6 DEF PassTask
<1>4. ASSUME NEW c \in Clients, NEW u \in Tasks, Realtime(c, u) PROVE status'[t] = status[t]
  <2>1. CASE RealtimeLoad(c, u) \/ RealtimeFetch(c, u)
    BY <2>1 DEF RealtimeLoad, RealtimeFetch, rowVars
  <2>2. CASE RealtimeSave(c, u)
    <3>1. u # t  BY <1>1, <2>2, GuardedJobs, NoJobType DEF RealtimeSave
    <3> QED  BY <1>1, <2>2, <3>1 DEF RealtimeSave, Write, rowVars, TypeOK
  <2> QED  BY <1>4, <2>1, <2>2 DEF Realtime
<1>5. ASSUME NEW u \in Tasks, Environment(u) PROVE status'[t] = status[t]
  <2>1. CASE Submit(u)  BY <1>1, <2>1 DEF Submit, TypeOK
  <2>2. CASE UpstreamEnds(u) \/ TimePasses(u)
    BY <2>2 DEF UpstreamEnds, TimePasses, rowVars
  <2> QED  BY <1>5, <2>1, <2>2 DEF Environment
<1>6. CASE UNCHANGED vars  BY <1>6 DEF vars, rowVars
<1> QED  BY <1>2, <1>3, <1>4, <1>5, <1>6 DEF Next

\* A final status is final, however late the answer a worker still holds; a bulk
\* failure may fail the task once more, never reopen it.
THEOREM FinalStays == Spec => FinalIsFinal
<1> DEFINE Stays == \A t \in Tasks : Guarded(t) /\ status[t] \in Terminal =>
                      \/ status'[t] = status[t]
                      \/ status'[t] = "FAILURE" /\ was[t] = "none" /\ was'[t] = status[t]
<1>1. IInv /\ [Next]_vars => [Stays]_vars  BY FinalStep DEF KeepsFinal
<1> QED  BY <1>1, Disciplined, PTL DEF Spec, FinalIsFinal

-----------------------------------------------------------------------------
(* Suno tasks: the refund comes before the row is written, and the row is    *)
(* written without a condition.  Passes do not overlap.                      *)

\* What the one pass that may hold a Suno task knows: the task is open until it writes the
\* row, or the sweep has failed it, and its progress tells what the ledgers are out.
SunoJob(p, t) ==
  LET j == job[p][t] IN
  /\ j.pc \in {"none", "sweep", "fetch", "save", "refundFunding", "refundToken"}
  /\ j.pc \in {"sweep", "fetch"} => ~j.unsaved /\ status[t] \in Open
  /\ j.pc = "save" =>
       /\ j.unsaved /\ j.to # "new" /\ status[t] \in Open
       /\ token[t] = funding[t] /\ funding[t] = IF j.to = "FAILURE" THEN 0 ELSE quota[t]
  /\ j.pc \in {"refundFunding", "refundToken"} =>
       /\ IF j.unsaved THEN j.to = "FAILURE" /\ status[t] \in Open ELSE status[t] = "FAILURE"
       /\ token[t] = quota[t] /\ funding[t] = IF j.pc = "refundToken" THEN 0 ELSE quota[t]

\* A task failed in bulk was open, and no pass holds it any more.
SunoGivenUp(t) ==
  was[t] # "none" =>
    /\ status[t] = "FAILURE" /\ was[t] \in Open
    /\ \A p \in Passes : job[p][t].pc = "none"

\* The invariant of a Suno task whose billing met no fault.
SunoTask(t) ==
  /\ cost[t] = 0
  /\ SunoGivenUp(t)
  /\ \A c \in Clients : job[c][t] = NoJob
  /\ \A p \in Passes : SunoJob(p, t)
  /\ (\A p \in Passes : ~Billing(p, t)) => ChargeMatches(t)
SunoInv == \A t \in Tasks : Kind[t] = "suno" /\ t \notin hit => SunoTask(t)

\* Passes do not overlap, and the upstream gives a fail reason only for failed tasks.
Orderly == (\A p, q \in Passes : p = q) /\ SunoReasons \subseteq {"FAILURE"}

\* What a step of another task leaves alone.
Same(t) ==
  /\ RowUnchanged(t) /\ \A w \in Workers : job'[w][t] = job[w][t]

\* The invariant of a task depends on its own row, ledgers and jobs only.
LEMMA SunoFrame ==
  ASSUME NEW t \in Tasks, SunoTask(t), Same(t)
  PROVE  SunoTask(t)'
<1>1. /\ \A p \in Passes : job'[p][t] = job[p][t]
      /\ \A c \in Clients : job'[c][t] = job[c][t]
  BY DEF Same, Workers
<1>2. ASSUME NEW p \in Passes PROVE SunoJob(p, t)' /\ (Billing(p, t)' <=> Billing(p, t))
  <2>1. SunoJob(p, t)  BY DEF SunoTask
  <2> QED  BY <1>1, <2>1 DEF SunoJob, Billing, Same, RowUnchanged
<1>3. ChargeMatches(t) => ChargeMatches(t)'
  BY DEF ChargeMatches, Settled, IsLegacy, LegacyTaskCutoff, Same, RowUnchanged
<1>4. SunoGivenUp(t)'  BY <1>1 DEF SunoTask, SunoGivenUp, Same, RowUnchanged
<1> QED  BY <1>1, <1>2, <1>3, <1>4 DEF SunoTask, Same, RowUnchanged

\* A step of the only pass on a task need only be shown to keep its own part.
LEMMA SunoMove ==
  ASSUME Orderly, NEW p \in Passes, NEW t \in Tasks, SunoTask(t),
         \A v \in Workers : v # p => job'[v][t] = job[v][t],
         cost'[t] = cost[t], SunoJob(p, t)', ~Billing(p, t)' => ChargeMatches(t)',
         was'[t] # "none" =>
           status'[t] = "FAILURE" /\ was'[t] \in Open /\ job'[p][t].pc = "none"
  PROVE  SunoTask(t)'
<1>1. \A c \in Clients : c \in Workers /\ c # p  BY PassIsWorker DEF Workers
<1>2. \A q \in Passes : q = p  BY DEF Orderly
<1>3. SunoGivenUp(t)'  BY <1>2 DEF SunoGivenUp
<1> QED  BY <1>1, <1>2, <1>3 DEF SunoTask

\* A task that a pass holds was not failed in bulk.
LEMMA SunoHeld ==
  ASSUME NEW p \in Passes, NEW t \in Tasks, SunoTask(t), job[p][t].pc # "none"
  PROVE  was[t] = "none"
BY DEF SunoTask, SunoGivenUp

\* A task in the hands of its pass, not yet billed, is out what its row says.
LEMMA SunoUnbilled ==
  ASSUME Orderly, NEW p \in Passes, NEW t \in Tasks, SunoTask(t), ~Billing(p, t)
  PROVE  ChargeMatches(t)
BY DEF SunoTask, Orderly

\* A pass that lets go of a task before it bills it leaves it as it was.
LEMMA SunoDone ==
  ASSUME TypeOK, Orderly, NEW p \in Passes, NEW t \in Tasks, SunoTask(t), Done(p, t),
         ~Billing(p, t), UNCHANGED <<rowVars, was, submitVars, money>>
  PROVE  SunoTask(t)'
<1>1. JobsChange(p, t) /\ job'[p][t] = NoJob  BY DoneHarmless
<1>2. SunoJob(p, t)' /\ ~Billing(p, t)'  BY <1>1, NoJobType DEF SunoJob, Billing
<1>3. ChargeMatches(t)'
  BY SunoUnbilled DEF ChargeMatches, Settled, IsLegacy, LegacyTaskCutoff, rowVars, submitVars, money
<1>4. was'[t] # "none" => status'[t] = "FAILURE" /\ was'[t] \in Open /\ job'[p][t].pc = "none"
  BY <1>1, NoJobType DEF SunoTask, SunoGivenUp, rowVars
<1> QED  BY <1>1, <1>2, <1>3, <1>4, SunoMove DEF submitVars, JobsChange

\* A channel that cannot be looked up: the task is failed and keeps its price.
LEMMA SunoBulkFail ==
  ASSUME TypeOK, Orderly, NEW p \in Passes, NEW t \in Tasks, SunoTask(t), BulkFail(p, t)
  PROVE  SunoTask(t)'
<1>1. /\ job[p][t].pc = "fetch" /\ ~Billing(p, t) /\ Done(p, t)
      /\ UNCHANGED <<submitVars, money>>
  BY DEF BulkFail, Billing
<1>2. status[t] \in Open /\ was[t] = "none" /\ ChargeMatches(t)
  BY <1>1, SunoHeld, SunoUnbilled DEF SunoTask, SunoJob
<1>3. CASE Write(t, "FAILURE") /\ was' = [was EXCEPT ![t] = BilledAs(t)]
  <2>1. status'[t] = "FAILURE" /\ was'[t] = status[t]
    BY <1>2, <1>3 DEF Write, TypeOK
  <2>2. JobsChange(p, t) /\ job'[p][t] = NoJob  BY <1>1, DoneHarmless
  <2>3. SunoJob(p, t)' /\ job'[p][t].pc = "none"  BY <2>2, NoJobType DEF SunoJob
  <2>4. ChargeMatches(t)'
    BY <1>1, <1>2, <2>1 DEF ChargeMatches, submitVars, money
  <2> QED  BY <1>1, <1>2, <2>1, <2>2, <2>3, <2>4, SunoMove DEF JobsChange, submitVars
<1>4. CASE UNCHANGED <<rowVars, was>>  BY <1>1, <1>4, SunoDone
<1> QED  BY <1>3, <1>4 DEF BulkFail

\* The sweep fails the task and refunds it afterwards.
LEMMA SunoSweep ==
  ASSUME TypeOK, Orderly, NEW p \in Passes, NEW t \in Tasks, SunoTask(t), SweepTask(p, t)
  PROVE  SunoTask(t)'
<1>1. /\ job[p][t].pc = "sweep" /\ ~Billing(p, t)  BY DEF SweepTask, Billing
<1>2. ~job[p][t].unsaved /\ status[t] \in Open /\ was[t] = "none"
  BY <1>1, SunoHeld DEF SunoTask, SunoJob
<1>3. UNCHANGED <<was, submitVars, money>>  BY DEF SweepTask
<1>4. funding[t] = quota[t] /\ token[t] = quota[t] /\ cost[t] = 0
  BY <1>1, <1>2, SunoUnbilled DEF ChargeMatches, SunoTask
<1> DEFINE l == IF IsLegacy(t) THEN "none" ELSE RefundPc(t)
<1>5. l \in {"none", "refundFunding"} /\ (l = "none" => IsLegacy(t) \/ quota[t] = 0)
  BY DEF RefundPc
<1>6. CASE Write(t, "FAILURE") /\ Bill(p, t, l)
  <2> HIDE DEF l
  <2>1. JobsChange(p, t) /\ job'[p][t].pc = l /\ ~job'[p][t].unsaved
    BY <1>2, <1>5, <1>6, BillEffect
  <2>2. status'[t] = "FAILURE"  BY <1>6, WriteEffect
  <2>3. quota'[t] = quota[t] /\ cost'[t] = cost[t] /\ funding'[t] = funding[t] /\ token'[t] = token[t]
        /\ submitted'[t] = submitted[t]
    BY <1>3 DEF submitVars, money
  <2>4. SunoJob(p, t)'  BY <1>4, <1>5, <2>1, <2>2, <2>3 DEF SunoJob
  <2>5. ~Billing(p, t)' => ChargeMatches(t)'
    BY <1>2, <1>3, <1>4, <1>5, <2>1, <2>2, <2>3 DEF Billing, ChargeMatches, IsLegacy, LegacyTaskCutoff
  <2> QED  BY <1>2, <1>3, <2>1, <2>3, <2>4, <2>5, SunoMove DEF JobsChange
<1>7. CASE Done(p, t) /\ UNCHANGED rowVars  BY <1>1, <1>3, <1>7, SunoDone
<1> QED  BY <1>6, <1>7 DEF SweepTask

\* The answer of the upstream: a failed task is refunded first.
LEMMA SunoFetch ==
  ASSUME TypeOK, Orderly, NEW p \in Passes, NEW t \in Tasks, Kind[t] = "suno", SunoTask(t),
         FetchTask(p, t)
  PROVE  SunoTask(t)'
<1>1. /\ job[p][t].pc = "fetch" /\ ~Billing(p, t)  BY DEF FetchTask, Billing
<1>2. ~job[p][t].unsaved /\ status[t] \in Open /\ was[t] = "none"
  BY <1>1, SunoHeld DEF SunoTask, SunoJob
<1>3. UNCHANGED <<rowVars, was, submitVars, money>>  BY DEF FetchTask
<1>4. funding[t] = quota[t] /\ token[t] = quota[t] /\ cost[t] = 0
  BY <1>1, <1>2, SunoUnbilled DEF ChargeMatches, SunoTask
<1>5. CASE Done(p, t)  BY <1>1, <1>3, <1>5, SunoDone
<1>6. ASSUME NEW a \in Answers(t), NEW failed \in BOOLEAN, SunoAnswer(p, t, a, failed)
      PROVE  SunoTask(t)'
  <2> DEFINE l == IF failed /\ quota[t] # 0 THEN "refundFunding" ELSE "save"
             e == failed \/ a \in Terminal
             j == [job[p][t] EXCEPT !.pc = l, !.to = a, !.ends = e, !.unsaved = TRUE]
  <2>1. job[p][t] \in JobType  BY PassIsWorker DEF TypeOK
  <2>2. a \in {"IN_PROGRESS"} \cup Terminal  BY DEF Answers, TypeOK
  <2>3. failed <=> a = "FAILURE"  BY <1>6 DEF SunoAnswer, Orderly
  <2>4. SetJob(p, t, j)  BY <1>6 DEF SunoAnswer
  <2>5. l \in Pcs /\ e \in BOOLEAN  BY DEF Pcs
  <2>6. \/ l = "refundFunding" /\ a = "FAILURE"
        \/ l = "save" /\ (a = "FAILURE" => quota[t] = 0)
    BY <2>3
  <2> HIDE DEF l, e
  <2>7. j \in JobType /\ j.pc = l /\ j.to = a /\ j.unsaved
    BY <2>1, <2>2, <2>5 DEF JobType
  <2> HIDE DEF j
  <2>8. JobsChange(p, t) /\ job'[p][t] = j
    BY <2>4, <2>7, SetJobEffect, PassIsWorker DEF JobsChange
  <2>9. quota'[t] = quota[t] /\ cost'[t] = cost[t] /\ funding'[t] = funding[t] /\ token'[t] = token[t]
        /\ status'[t] = status[t]
    BY <1>3 DEF submitVars, money, rowVars
  <2>10. SunoJob(p, t)'  BY <1>2, <1>4, <2>2, <2>6, <2>7, <2>8, <2>9 DEF SunoJob
  <2>11. Billing(p, t)'  BY <2>6, <2>7, <2>8 DEF Billing
  <2> QED  BY <1>2, <1>3, <2>8, <2>9, <2>10, <2>11, SunoMove DEF JobsChange
<1> QED  BY <1>5, <1>6 DEF FetchTask

\* The row is written last, and says what was billed.
LEMMA SunoSave ==
  ASSUME TypeOK, Orderly, NEW p \in Passes, NEW t \in Tasks, SunoTask(t), UpdateSunoTask(p, t),
         t \notin hit'
  PROVE  SunoTask(t)'
<1>1. job[p][t].pc = "save" /\ Done(p, t) /\ UNCHANGED <<was, submitVars, money>>
  BY DEF UpdateSunoTask
<1>0. was[t] = "none" /\ was'[t] = "none"  BY <1>1, SunoHeld
<1>2. /\ job[p][t].to # "new" /\ token[t] = funding[t]
      /\ funding[t] = IF job[p][t].to = "FAILURE" THEN 0 ELSE quota[t]
  BY <1>1 DEF SunoTask, SunoJob
<1>3. status' = [status EXCEPT ![t] = job[p][t].to]  BY DEF UpdateSunoTask, Fault
<1>4. job[p][t].to \in {"new", "IN_PROGRESS"} \cup Terminal
  <2>1. job[p][t] \in JobType  BY PassIsWorker DEF TypeOK
  <2> QED  BY <2>1 DEF JobType
<1>5. status'[t] = job[p][t].to  BY <1>3 DEF TypeOK
<1>6. JobsChange(p, t) /\ job'[p][t] = NoJob  BY <1>1, DoneHarmless
<1>7. SunoJob(p, t)'  BY <1>6, NoJobType DEF SunoJob
<1>8. cost[t] = 0 /\ quota'[t] = quota[t] /\ cost'[t] = cost[t] /\ funding'[t] = funding[t]
      /\ token'[t] = token[t]
  BY <1>1 DEF submitVars, money, SunoTask
<1>9. ChargeMatches(t)'  BY <1>0, <1>2, <1>4, <1>5, <1>8 DEF ChargeMatches, Settled
<1> QED  BY <1>0, <1>6, <1>7, <1>8, <1>9, SunoMove DEF JobsChange

\* Goto keeps the status that will be written.
LEMMA GotoKeepsTo ==
  ASSUME TypeOK, NEW w \in Workers, NEW t \in Tasks, NEW l \in Pcs, Goto(w, t, l)
  PROVE  job'[w][t].to = job[w][t].to
<1>1. job[w][t] \in JobType  BY DEF TypeOK
<1>2. job'[w][t] = [job[w][t] EXCEPT !.pc = l]  BY DEF Goto, SetJob, TypeOK
<1> QED  BY <1>1, <1>2 DEF JobType

\* The refund of the funding source.
LEMMA SunoRefundFunding ==
  ASSUME TypeOK, Orderly, NEW p \in Passes, NEW t \in Tasks, SunoTask(t), RefundFunding(p, t),
         t \notin hit'
  PROVE  SunoTask(t)'
<1>1. /\ job[p][t].pc = "refundFunding" /\ UNCHANGED <<rowVars, was, submitVars>> /\ token' = token
      /\ funding' = [funding EXCEPT ![t] = @ - quota[t]] /\ Goto(p, t, "refundToken")
  BY DEF RefundFunding, Fault
<1>2. /\ IF job[p][t].unsaved THEN job[p][t].to = "FAILURE" /\ status[t] \in Open
                              ELSE status[t] = "FAILURE"
      /\ funding[t] = quota[t] /\ token[t] = quota[t]
  BY <1>1 DEF SunoTask, SunoJob
<1>3. quota[t] \in Nat /\ funding'[t] = funding[t] - quota[t]  BY <1>1 DEF TypeOK
<1>4. funding'[t] = 0  BY <1>2, <1>3
<1>5. /\ JobsChange(p, t) /\ job'[p][t].pc = "refundToken"
      /\ job'[p][t].unsaved = job[p][t].unsaved /\ job'[p][t].to = job[p][t].to
  <2>1. "refundToken" \in Pcs /\ p \in Workers  BY PassIsWorker DEF Pcs
  <2> QED  BY <1>1, <2>1, GotoEffect, GotoKeepsTo DEF JobsChange
<1>6. status'[t] = status[t] /\ quota'[t] = quota[t] /\ cost'[t] = cost[t] /\ token'[t] = token[t]
  BY <1>1 DEF rowVars, submitVars
<1>7. SunoJob(p, t)'  BY <1>2, <1>4, <1>5, <1>6 DEF SunoJob
<1>8. Billing(p, t)'  BY <1>5 DEF Billing
<1>9. was'[t] = "none"  BY <1>1, SunoHeld
<1> QED  BY <1>5, <1>6, <1>7, <1>8, <1>9, SunoMove DEF JobsChange

\* The refund of the token: the sweep is done with the task, a poll goes on to save it.
LEMMA SunoRefundToken ==
  ASSUME TypeOK, Orderly, NEW p \in Passes, NEW t \in Tasks, SunoTask(t), RefundToken(p, t),
         t \notin hit'
  PROVE  SunoTask(t)'
<1>1. /\ job[p][t].pc = "refundToken" /\ UNCHANGED <<rowVars, was, submitVars>> /\ funding' = funding
      /\ token' = [token EXCEPT ![t] = @ - quota[t]] /\ AfterBilling(p, t)
  BY DEF RefundToken, Fault
<1>2. /\ IF job[p][t].unsaved THEN job[p][t].to = "FAILURE" /\ status[t] \in Open
                              ELSE status[t] = "FAILURE"
      /\ funding[t] = 0 /\ token[t] = quota[t]
  BY <1>1 DEF SunoTask, SunoJob
<1>3. quota[t] \in Nat /\ token'[t] = token[t] - quota[t]  BY <1>1 DEF TypeOK
<1>4. token'[t] = 0 /\ funding'[t] = 0  BY <1>1, <1>2, <1>3
<1>5. /\ status'[t] = status[t] /\ quota'[t] = quota[t] /\ cost'[t] = cost[t]
      /\ was[t] = "none" /\ was'[t] = "none"
  BY <1>1, SunoHeld DEF rowVars, submitVars
<1>6. CASE job[p][t].unsaved
  <2>1. "save" \in Pcs /\ p \in Workers /\ Goto(p, t, "save")
    BY <1>1, <1>6, PassIsWorker DEF Pcs, AfterBilling
  <2>2. /\ JobsChange(p, t) /\ job'[p][t].pc = "save"
        /\ job'[p][t].unsaved = job[p][t].unsaved /\ job'[p][t].to = job[p][t].to
    BY <2>1, GotoEffect, GotoKeepsTo DEF JobsChange
  <2>3. SunoJob(p, t)' /\ Billing(p, t)'  BY <1>2, <1>4, <1>5, <1>6, <2>2 DEF SunoJob, Billing
  <2> QED  BY <1>5, <2>2, <2>3, SunoMove DEF JobsChange
<1>7. CASE ~job[p][t].unsaved
  <2>1. JobsChange(p, t) /\ job'[p][t] = NoJob  BY <1>1, <1>7, DoneHarmless DEF AfterBilling
  <2>2. SunoJob(p, t)'  BY <2>1, NoJobType DEF SunoJob
  <2>3. ChargeMatches(t)'  BY <1>2, <1>4, <1>5, <1>7 DEF ChargeMatches
  <2> QED  BY <1>5, <2>1, <2>2, <2>3, SunoMove DEF JobsChange
<1> QED  BY <1>6, <1>7

\* A fetch, a pass's or a user's, sets one job and nothing else.
LEMMA FetchSetsJob ==
  ASSUME NEW w, NEW u, FetchTask(w, u) \/ RealtimeFetch(w, u)
  PROVE  /\ \E j : SetJob(w, u, j)
         /\ UNCHANGED <<rowVars, was, submitVars, envVars, phase, money, faultVars, fetches>>
         /\ job[w][u].pc = "fetch"
<1>1. Done(w, u) => \E j : SetJob(w, u, j)
  <2> SUFFICES ASSUME Done(w, u) PROVE \E j : SetJob(w, u, j)  OBVIOUS
  <2> WITNESS NoJob
  <2> QED  BY DEF Done
<1>2. ASSUME NEW a, NEW failed, SunoAnswer(w, u, a, failed) PROVE \E j : SetJob(w, u, j)
  <2> WITNESS [job[w][u] EXCEPT
       !.pc = IF failed /\ quota[u] # 0 THEN "refundFunding" ELSE "save",
       !.to = a, !.ends = (failed \/ a \in Terminal), !.unsaved = TRUE]
  <2> QED  BY <1>2, Zenon DEF SunoAnswer
<1>3. ASSUME NEW a, SetJob(w, u, [job[w][u] EXCEPT !.pc = "save", !.to = a])
      PROVE  \E j : SetJob(w, u, j)
  <2> WITNESS [job[w][u] EXCEPT !.pc = "save", !.to = a]
  <2> QED  BY <1>3, Zenon
<1>4. CASE FetchTask(w, u)  BY <1>1, <1>2, <1>3, <1>4, Zenon DEF FetchTask
<1>5. CASE RealtimeFetch(w, u)  BY <1>1, <1>3, <1>5, Zenon DEF RealtimeFetch
<1> QED  BY <1>4, <1>5

\* A step of a pass on another task.
LEMMA PassElsewhere ==
  ASSUME TypeOK, NEW p \in Passes, NEW u \in Tasks, NEW t \in Tasks, u # t, PassTask(p, u)
  PROVE  Same(t)
<1> USE DEF Same, RowUnchanged, NoFault, Fault, Glitch, rowVars, submitVars, envVars, money, faultVars
<1>1. \A j : SetJob(p, u, j) => \A w \in Workers : job'[w][t] = job[w][t]
  BY DEF SetJob, TypeOK
<1>2. \A s : status' = [status EXCEPT ![u] = s] => status'[t] = status[t]  BY DEF TypeOK
<1>3. CASE SweepTask(p, u)  BY <1>1, <1>2, <1>3 DEF SweepTask, Write, Bill, Done, Goto
<1>4. CASE BulkFail(p, u)  BY <1>1, <1>2, <1>4 DEF BulkFail, Write, Done, TypeOK
<1>5. CASE FetchTask(p, u)  BY <1>1, <1>5, FetchSetsJob
<1>6. CASE UpdateVideoTask(p, u)  BY <1>1, <1>2, <1>6 DEF UpdateVideoTask, Write, Bill, Done, Goto
<1>7. CASE UpdateSunoTask(p, u)  BY <1>1, <1>2, <1>7 DEF UpdateSunoTask, Done
<1>8. CASE RefundFunding(p, u)
  BY <1>1, <1>8 DEF RefundFunding, AfterBilling, Done, Goto, TypeOK
<1>9. CASE RefundToken(p, u)
  BY <1>1, <1>9 DEF RefundToken, AfterBilling, Done, Goto, TypeOK
<1>10. CASE SettleFunding(p, u)  BY <1>1, <1>10 DEF SettleFunding, Done, Goto, TypeOK
<1>11. CASE SettleToken(p, u)  BY <1>1, <1>11 DEF SettleToken, Done, TypeOK
<1> QED  BY <1>3, <1>4, <1>5, <1>6, <1>7, <1>8, <1>9, <1>10, <1>11 DEF PassTask

\* A pass that loads tasks, drops those it has not turned to, ends or dies.
LEMMA SunoPass ==
  ASSUME TypeOK, IdlePasses, Orderly, NEW p \in Passes, Pass(p) \/ Cancel(p) \/ Crash(p),
         NEW t \in Tasks, SunoTask(t), t \notin hit'
  PROVE  SunoTask(t)'
<1>1. p \in Workers /\ job \in [Workers -> [Tasks -> JobType]]  BY PassIsWorker DEF TypeOK
<1>2. UNCHANGED <<rowVars, was, submitVars, money>>
  BY DEF Pass, StartPass, StartPoll, EndPass, Cancel, Crash
<1>3. ASSUME ~Billing(p, t), NEW jobs, job' = [job EXCEPT ![p] = jobs],
             \/ jobs[t] = NoJob
             \/ jobs[t].pc \in {"sweep", "fetch"} /\ ~jobs[t].unsaved /\ status[t] \in Open
      PROVE  SunoTask(t)'
  <2>1. /\ status'[t] = status[t] /\ was'[t] = was[t]
        /\ cost'[t] = cost[t] /\ quota'[t] = quota[t]
        /\ submitted'[t] = submitted[t] /\ funding'[t] = funding[t] /\ token'[t] = token[t]
    BY <1>2 DEF rowVars, submitVars, money
  <2>2. job'[p][t] = jobs[t] /\ \A v \in Workers : v # p => job'[v][t] = job[v][t]
    BY <1>1, <1>3
  <2>3. SunoJob(p, t)'
    <3>1. CASE jobs[t] = NoJob  BY <2>2, <3>1, NoJobType DEF SunoJob
    <3>2. CASE jobs[t].pc \in {"sweep", "fetch"} /\ ~jobs[t].unsaved /\ status[t] \in Open
      BY <2>1, <2>2, <3>2 DEF SunoJob
    <3> QED  BY <1>3, <3>1, <3>2
  <2>4. ChargeMatches(t)'
    <3>1. ChargeMatches(t)  BY <1>3, SunoUnbilled
    <3> QED  BY <2>1, <3>1 DEF ChargeMatches, Settled, IsLegacy, LegacyTaskCutoff
  <2>5. was'[t] # "none" => status'[t] = "FAILURE" /\ was'[t] \in Open /\ job'[p][t].pc = "none"
    BY <1>3, <2>1, <2>2, NoJobType DEF SunoTask, SunoGivenUp
  <2> QED  BY <2>1, <2>2, <2>3, <2>4, <2>5, SunoMove
<1>4. ASSUME \A u \in Tasks : job[p][u] = NoJob, NEW rows, NEW l \in {"sweep", "fetch"},
             \A u \in rows : status[u] \in Open, Load(p, rows, l)
      PROVE  SunoTask(t)'
  <2> DEFINE jobs == [u \in Tasks |->
               IF u \in rows THEN [NoJob EXCEPT !.pc = l, !.from = status[u]] ELSE NoJob]
  <2>1. ~Billing(p, t)  BY <1>4, NoJobType DEF Billing
  <2>2. t \notin rows => jobs[t] = NoJob  OBVIOUS
  <2>3. t \in rows => jobs[t].pc = l /\ ~jobs[t].unsaved
    <3>1. t \in rows => jobs[t] = [NoJob EXCEPT !.pc = l, !.from = status[t]]  OBVIOUS
    <3> HIDE DEF jobs
    <3> QED  BY <3>1 DEF NoJob
  <2>4. job' = [job EXCEPT ![p] = jobs]  BY <1>4, Zenon DEF Load
  <2> HIDE DEF jobs
  <2> QED  BY <1>3, <1>4, <2>1, <2>2, <2>3, <2>4
<1>5. CASE StartPass(p)
  <2>1. PICK rows \in SUBSET {u \in Tasks : TimedOut(u)} : Load(p, rows, "sweep")
    BY <1>5 DEF StartPass
  <2>2. \A u \in Tasks : job[p][u] = NoJob  BY <1>5 DEF StartPass, IdlePasses
  <2> QED  BY <1>4, <2>1, <2>2 DEF TimedOut, Unfinished
<1>6. CASE StartPoll(p)
  <2>1. PICK rows \in SUBSET {u \in Tasks : Unfinished(u)} : Load(p, rows, "fetch")
    BY <1>6 DEF StartPoll
  <2> QED  BY <1>4, <1>6, <2>1 DEF StartPoll, Unfinished
<1>7. CASE EndPass(p)
  BY <1>2, <1>7, SunoFrame DEF EndPass, Same, RowUnchanged, rowVars, submitVars, envVars, money, faultVars
<1>8. CASE Cancel(p)
  <2> DEFINE jobs == [u \in Tasks |-> IF job[p][u].pc = "fetch" THEN NoJob ELSE job[p][u]]
  <2>1. job' = [job EXCEPT ![p] = jobs]  BY <1>8 DEF Cancel
  <2>2. CASE job[p][t].pc = "fetch"
    <3>1. ~Billing(p, t) /\ jobs[t] = NoJob  BY <2>2 DEF Billing
    <3> HIDE DEF jobs
    <3> QED  BY <1>3, <2>1, <3>1
  <2>3. CASE job[p][t].pc # "fetch"
    <3>1. \A w \in Workers : job'[w][t] = job[w][t]  BY <1>1, <2>1, <2>3
    <3> QED
      BY <1>8, <3>1, SunoFrame
         DEF Cancel, Same, RowUnchanged, rowVars, submitVars, envVars, money, faultVars
  <2> QED  BY <2>2, <2>3
<1>9. CASE Crash(p)
  <2>1. ~Billing(p, t)  BY <1>9 DEF Crash
  <2> DEFINE jobs == [u \in Tasks |-> NoJob]
  <2>2. job' = [job EXCEPT ![p] = jobs] /\ jobs[t] = NoJob  BY <1>9 DEF Crash
  <2> HIDE DEF jobs
  <2> QED  BY <1>3, <2>1, <2>2
<1> QED  BY <1>5, <1>6, <1>7, <1>8, <1>9 DEF Pass

\* A user's fetch is of another task.
LEMMA ClientElsewhere ==
  ASSUME TypeOK, NEW c \in Clients, NEW u \in Tasks, NEW t \in Tasks, Kind[t] = "suno", SunoTask(t),
         Realtime(c, u)
  PROVE  Same(t)
<1> USE DEF Same, RowUnchanged, NoFault, Glitch, rowVars, submitVars, envVars, money, faultVars
<1>1. u # t
  <2>1. job[c][t].pc = "none"  BY NoJobType DEF SunoTask
  <2>2. RealtimeLoad(c, u) => Kind[u] = "realtime"  BY DEF RealtimeLoad
  <2>3. RealtimeFetch(c, u) \/ RealtimeSave(c, u) => job[c][u].pc # "none"
    BY FetchSetsJob DEF RealtimeSave
  <2> QED  BY <2>1, <2>2, <2>3 DEF Realtime
<1>2. \A j : SetJob(c, u, j) => \A w \in Workers : job'[w][t] = job[w][t]
  BY <1>1 DEF SetJob, TypeOK
<1>3. \A s : status' = [status EXCEPT ![u] = s] => status'[t] = status[t]  BY <1>1 DEF TypeOK
<1>4. CASE RealtimeLoad(c, u)
  <2>1. \E j : SetJob(c, u, j)  BY <1>4 DEF RealtimeLoad
  <2> QED  BY <1>2, <1>4, <2>1 DEF RealtimeLoad
<1>5. CASE RealtimeFetch(c, u)  BY <1>2, <1>5, FetchSetsJob
<1>6. CASE RealtimeSave(c, u)  BY <1>2, <1>3, <1>6 DEF RealtimeSave, Done, Write
<1> QED  BY <1>4, <1>5, <1>6 DEF Realtime

\* The submission of a task: its price is what the ledgers are out.
LEMMA SunoSubmit ==
  ASSUME TypeOK, NEW t \in Tasks, Kind[t] = "suno", SunoTask(t), Submit(t), t \notin hit'
  PROVE  SunoTask(t)'
<1>1. PICK q \in Quotas :
        /\ quota' = [quota EXCEPT ![t] = q] /\ cost' = [cost EXCEPT ![t] = 0]
        /\ funding' = [funding EXCEPT ![t] = q] /\ token' = [token EXCEPT ![t] = q]
  BY DEF Submit
<1>2. quota'[t] = q /\ cost'[t] = 0 /\ funding'[t] = q /\ token'[t] = q  BY <1>1 DEF TypeOK
<1>3. status[t] = "new" /\ status'[t] = "NOT_START" /\ job' = job  BY DEF Submit, Fault, TypeOK
<1>4. ASSUME NEW p \in Passes PROVE SunoJob(p, t)'
  <2>1. SunoJob(p, t)  BY DEF SunoTask
  <2>2. job[p][t].pc = "none"  BY <1>3, <2>1 DEF SunoJob
  <2> QED  BY <1>3, <2>2 DEF SunoJob
<1>5. was'[t] = "none"  BY <1>3 DEF SunoTask, SunoGivenUp, Submit
<1>6. ChargeMatches(t)'  BY <1>2, <1>3, <1>5 DEF ChargeMatches
<1> QED  BY <1>2, <1>3, <1>4, <1>5, <1>6 DEF SunoTask, SunoGivenUp

\* The environment, apart from the submission of the task itself.
LEMMA EnvironmentElsewhere ==
  ASSUME TypeOK, NEW u \in Tasks, NEW t \in Tasks,
         (Submit(u) /\ u # t) \/ UpstreamEnds(u) \/ TimePasses(u)
  PROVE  Same(t)
<1> USE DEF Same, RowUnchanged, rowVars, submitVars, envVars, money, faultVars
<1>1. CASE Submit(u) /\ u # t  BY <1>1 DEF Submit, NoFault, Fault, TypeOK
<1>2. CASE UpstreamEnds(u) \/ TimePasses(u)
  BY <1>2 DEF UpstreamEnds, TimePasses
<1> QED  BY <1>1, <1>2

\* What met a fault stays so.
LEMMA FaultsStay == ASSUME [Next]_vars PROVE hit \subseteq hit'
<1> USE DEF NoFault, Glitch, Fault, faultVars, envVars
<1>1. ASSUME NEW p \in Passes, Pass(p) \/ Cancel(p) \/ Crash(p)
      PROVE  hit \subseteq hit'
  BY <1>1 DEF Pass, StartPass, StartPoll, EndPass, Query, Cancel, Crash
<1>2. ASSUME NEW p \in Passes, NEW t \in Tasks, PassTask(p, t)
      PROVE  hit \subseteq hit'
  <2>1. NoFault \/ Glitch \/ Fault(t)
    BY <1>2, FetchSetsJob DEF PassTask, SweepTask, BulkFail, UpdateVideoTask, UpdateSunoTask,
       RefundFunding, RefundToken, SettleFunding, SettleToken
  <2> QED  BY <2>1
<1>3. ASSUME NEW c \in Clients, NEW t \in Tasks, Realtime(c, t)
      PROVE  hit \subseteq hit'
  <2>1. NoFault \/ Glitch
    BY <1>3, FetchSetsJob DEF Realtime, RealtimeLoad, RealtimeSave
  <2> QED  BY <2>1
<1>4. ASSUME NEW t \in Tasks, Environment(t)
      PROVE  hit \subseteq hit'
  BY <1>4 DEF Environment, Submit, UpstreamEnds, TimePasses
<1>5. CASE UNCHANGED vars  BY <1>5 DEF vars
<1> QED  BY <1>1, <1>2, <1>3, <1>4, <1>5 DEF Next

\* Every step keeps the invariant of the Suno tasks.
LEMMA SunoNext ==
  ASSUME Orderly, IInv, SunoInv, [Next]_vars
  PROVE  SunoInv'
<1>1. TypeOK /\ IdlePasses  BY DEF IInv
<1> SUFFICES ASSUME NEW t \in Tasks, Kind[t] = "suno", t \notin hit'
             PROVE  SunoTask(t)'
  BY DEF SunoInv
<1>2. SunoTask(t) /\ t \notin hit  BY FaultsStay DEF SunoInv
<1>3. ASSUME NEW p \in Passes, Pass(p) \/ Cancel(p) \/ Crash(p) PROVE SunoTask(t)'
  BY <1>1, <1>2, <1>3, SunoPass
<1>4. ASSUME NEW p \in Passes, NEW u \in Tasks, PassTask(p, u) PROVE SunoTask(t)'
  <2>1. CASE u # t  BY <1>1, <1>2, <1>4, <2>1, PassElsewhere, SunoFrame
  <2>2. CASE u = t
    <3>1. SunoJob(p, t)  BY <1>2 DEF SunoTask
    <3>2. CASE SweepTask(p, t)  BY <1>1, <1>2, <3>2, SunoSweep
    <3>3. CASE FetchTask(p, t)  BY <1>1, <1>2, <3>3, SunoFetch
    <3>4. CASE UpdateSunoTask(p, t)  BY <1>1, <1>2, <3>4, SunoSave
    <3>5. CASE RefundFunding(p, t)  BY <1>1, <1>2, <3>5, SunoRefundFunding
    <3>6. CASE RefundToken(p, t)  BY <1>1, <1>2, <3>6, SunoRefundToken
    <3>7. CASE BulkFail(p, t)  BY <1>1, <1>2, <3>7, SunoBulkFail
    <3>8. ~UpdateVideoTask(p, t)  BY <3>1 DEF UpdateVideoTask, SunoJob
    <3>9. ~SettleFunding(p, t) /\ ~SettleToken(p, t)
      BY <3>1 DEF SettleFunding, SettleToken, SunoJob
    <3> QED  BY <1>4, <2>2, <3>2, <3>3, <3>4, <3>5, <3>6, <3>7, <3>8, <3>9 DEF PassTask
  <2> QED  BY <2>1, <2>2
<1>5. ASSUME NEW c \in Clients, NEW u \in Tasks, Realtime(c, u) PROVE SunoTask(t)'
  BY <1>1, <1>2, <1>5, ClientElsewhere, SunoFrame
<1>6. ASSUME NEW u \in Tasks, Environment(u) PROVE SunoTask(t)'
  <2>1. CASE Submit(u) /\ u = t  BY <1>1, <1>2, <2>1, SunoSubmit
  <2>2. CASE (Submit(u) /\ u # t) \/ UpstreamEnds(u) \/ TimePasses(u)
    BY <1>1, <1>2, <2>2, EnvironmentElsewhere, SunoFrame
  <2> QED  BY <1>6, <2>1, <2>2 DEF Environment
<1>7. CASE UNCHANGED vars
  <2>1. Same(t)
    BY <1>7 DEF vars, Same, RowUnchanged, rowVars, submitVars, envVars, money, faultVars
  <2> QED  BY <1>2, <2>1, SunoFrame
<1> QED  BY <1>3, <1>4, <1>5, <1>6, <1>7 DEF Next

\* The invariant of the Suno tasks holds initially.
LEMMA SunoStart == Init => SunoInv
<1> SUFFICES ASSUME Init, NEW t \in Tasks PROVE SunoTask(t)  BY DEF SunoInv
<1>1. \A w \in Workers : job[w][t] = NoJob  BY DEF Init
<1>2. \A p \in Passes : SunoJob(p, t)  BY <1>1, NoJobType, PassIsWorker DEF SunoJob
<1>3. ChargeMatches(t)  BY DEF Init, ChargeMatches
<1> QED  BY <1>1, <1>2, <1>3 DEF SunoTask, SunoGivenUp, Init, Workers

\* Although updateSunoTasks refunds before it writes the row, and writes it without a condition,
\* passes that do not overlap leave the ledgers of every Suno task as its row says, through any
\* number of sweeps, polls, lost leases and crashes, and whatever faults other tasks meet.
THEOREM SunoChargeMatchesRow == Spec => []SunoChargeMatchesStatus
<1>1. CASE Orderly
  <2>1. IInv /\ SunoInv /\ [Next]_vars => SunoInv'  BY <1>1, SunoNext
  <2>2. SunoInv => SunoChargeMatchesStatus
    <3> SUFFICES ASSUME SunoInv, NEW t \in Tasks, Kind[t] = "suno", AtRest(t)
                 PROVE  /\ ChargeMatches(t)
                        /\ was[t] # "none" => status[t] = "FAILURE" /\ was[t] \in Open
      BY DEF SunoChargeMatchesStatus
    <3>1. SunoTask(t)  BY DEF SunoInv, AtRest
    <3> QED  BY <3>1, PassIsWorker DEF SunoTask, SunoGivenUp, AtRest
  <2> QED  BY <2>1, <2>2, SunoStart, Disciplined, PTL DEF Spec
<1>2. CASE ~Orderly
  <2>1. SunoChargeMatchesStatus  BY <1>2 DEF SunoChargeMatchesStatus, Orderly
  <2> QED  BY <2>1, PTL
<1> QED  BY <1>1, <1>2
=============================================================================
