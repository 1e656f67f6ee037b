----------------------------- MODULE TaskBilling -----------------------------
(***************************************************************************)
(* The billing life of asynchronous tasks (video, Suno) after submission:  *)
(* the polling pass (service/task_polling.go) that sweeps timed-out tasks  *)
(* and applies what the upstream answers, the refund or settlement it      *)
(* triggers (service/task_billing.go), the user's own fetch of Gemini and  *)
(* Vertex tasks (relay/relay_task.go), and the rows of the tasks table     *)
(* they all write (model/task.go).                                         *)
(*                                                                         *)
(* One action is one database call or one upstream call of one worker.     *)
(* Passes run under a system task lease, but a pass whose lease expired    *)
(* goes on until it sees its context cancelled, so passes may overlap.     *)
(***************************************************************************)
EXTENDS Integers, FiniteSets

CONSTANTS
  Tasks,         \* asynchronous tasks, each on a channel of its own
  Passes,        \* runners of RunTaskPollingOnce
  Clients,       \* users fetching a task
  Kind,          \* per task: "video", "realtime" (Gemini, Vertex) or "suno"
  Quotas,        \* what a task may be charged at submission
  Costs,         \* what it may turn out to cost; 0 keeps the charge
  SubmitTimes,   \* Unix times of submission
  SunoReasons,   \* answers that the Suno upstream may give a fail reason with
  SweepLimit,    \* timed-out tasks a pass sweeps (100)
  QueryLimit,    \* unfinished tasks a pass polls (TaskQueryLimit)
  MaxFetches,    \* bound on what users fetch
  MaxFaults      \* bound on failing calls and crashes

Workers == Passes \cup Clients

Kinds == {"video", "realtime", "suno"}

ASSUME TaskAssumption ==
  /\ Passes \cap Clients = {}
  /\ Kind \in [Tasks -> Kinds]
  /\ Quotas \subseteq Nat /\ Costs \subseteq Nat /\ SubmitTimes \subseteq Nat
  /\ SunoReasons \subseteq {"IN_PROGRESS", "SUCCESS", "FAILURE"}
  /\ SweepLimit \in Nat \ {0} /\ QueryLimit \in Nat \ {0}
  /\ MaxFetches \in Nat /\ MaxFaults \in Nat

VARIABLES
  status,     \* tasks.status; "new" before submission, "lost" if never inserted
  full,       \* tasks.progress is "100%"
  quota,      \* tasks.quota
  submitted,  \* tasks.submit_time
  late,       \* submitted longer ago than TaskTimeoutMinutes
  upstream,   \* what the upstream makes of the task
  cost,       \* what settleTaskBillingOnComplete will compute for it
  phase,      \* where each pass is
  job,        \* what each worker does with each task
  funding,    \* what wallet or subscription are out for the task (history)
  token,      \* what the API token is out for the task (history)
  was,        \* the status a bulk failure took from the task, or "none" (history)
  fetches,    \* fetches by users so far
  faults,     \* failing calls and crashes so far
  hit         \* tasks whose billing met one (history)

rowVars == <<status, full>>
submitVars == <<quota, submitted, cost>>
envVars == <<late, upstream>>
money == <<funding, token>>
faultVars == <<faults, hit>>
vars == <<rowVars, was, submitVars, envVars, phase, job, money, fetches, faultVars>>

\* IN_PROGRESS stands for SUBMITTED and QUEUED too: nothing tells them apart.
Open == {"NOT_START", "IN_PROGRESS"}
Terminal == {"SUCCESS", "FAILURE"}

\* pc: what the worker does next; from: the status it loaded; to: the status it
\* will write; unsaved (Suno): the row is written after the billing, not before;
\* ends (Suno): with progress "100%".
NoJob == [pc |-> "none", from |-> "new", to |-> "new", ends |-> FALSE, unsaved |-> FALSE]

Init ==
  /\ status = [t \in Tasks |-> "new"] /\ full = [t \in Tasks |-> FALSE]
  /\ quota = [t \in Tasks |-> 0] /\ submitted = [t \in Tasks |-> 0]
  /\ cost = [t \in Tasks |-> 0]
  /\ late = [t \in Tasks |-> FALSE] /\ was = [t \in Tasks |-> "none"]
  /\ upstream = [t \in Tasks |-> "IN_PROGRESS"]
  /\ phase = [p \in Passes |-> "idle"]
  /\ job = [w \in Workers |-> [t \in Tasks |-> NoJob]]
  /\ funding = [t \in Tasks |-> 0] /\ token = [t \in Tasks |-> 0]
  /\ fetches = 0 /\ faults = 0 /\ hit = {}

NoFault == UNCHANGED faultVars

\* A call fails, without effect, before any money moved.
Glitch == faults < MaxFaults /\ faults' = faults + 1 /\ hit' = hit

\* A call that belongs to the billing of task t fails, without effect.
Fault(t) ==
  /\ faults < MaxFaults
  /\ faults' = faults + 1 /\ hit' = hit \cup {t}

SetJob(w, t, j) == job' = [job EXCEPT ![w][t] = j]
Goto(w, t, l) == SetJob(w, t, [job[w][t] EXCEPT !.pc = l])
Done(w, t) == SetJob(w, t, NoJob)

-----------------------------------------------------------------------------
(* Submission: RelayTask, once the upstream accepted the task              *)

\* The session is settled at the submitted price and the row inserted; if the
\* insertion fails that is only logged.
Submit(t) ==
  /\ status[t] = "new"
  /\ \E q \in Quotas, at \in SubmitTimes,
        c \in IF Kind[t] = "video" THEN Costs ELSE {0} :
       /\ quota' = [quota EXCEPT ![t] = q]
       /\ submitted' = [submitted EXCEPT ![t] = at]
       /\ cost' = [cost EXCEPT ![t] = c]
       /\ funding' = [funding EXCEPT ![t] = q]
       /\ token' = [token EXCEPT ![t] = q]
  /\ \/ status' = [status EXCEPT ![t] = "NOT_START"] /\ NoFault
     \/ status' = [status EXCEPT ![t] = "lost"] /\ Fault(t)
  /\ UNCHANGED <<full, was, envVars, phase, job, fetches>>

-----------------------------------------------------------------------------
(* Rows                                                                    *)

\* GetAllUnFinishSyncTasks
Unfinished(t) == status[t] \in Open /\ ~full[t]

\* GetTimedOutUnfinishedTasks
TimedOut(t) == Unfinished(t) /\ late[t]

\* Mutant of Wins: the status is not compared.
WinsAlways(t, from) == status[t] \in Open \cup Terminal /\ from \in Open \cup Terminal

\* UpdateWithStatus(from) matches the row.
Wins(t, from) == status[t] = from

Write(t, s) ==
  /\ status' = [status EXCEPT ![t] = s]
  /\ full' = [full EXCEPT ![t] = s \in Terminal]

-----------------------------------------------------------------------------
(* A pass: RunTaskPollingOnce                                              *)

\* Mutant of Query: one row less than the limit.
QueryOneShort(S, limit, rows) ==
  /\ rows \subseteq S /\ NoFault
  /\ Cardinality(rows) = IF Cardinality(S) < limit THEN Cardinality(S) ELSE limit - 1

\* A query for the rows of S returns at most limit of them, or nothing when it
\* fails: the error is not told from an empty table.
Query(S, limit, rows) ==
  \/ /\ rows \subseteq S /\ NoFault
     /\ Cardinality(rows) = IF Cardinality(S) < limit THEN Cardinality(S) ELSE limit
  \/ rows = {} /\ Glitch

Load(p, rows, l) ==
  job' = [job EXCEPT ![p] = [t \in Tasks |->
            IF t \in rows THEN [NoJob EXCEPT !.pc = l, !.from = status[t]] ELSE NoJob]]

\* Starts the pass, if HasUnfinishedSyncTasks, by loading the timed-out tasks,
\* oldest first.
StartPass(p) ==
  /\ phase[p] = "idle" /\ \E t \in Tasks : Unfinished(t)
  /\ phase' = [phase EXCEPT ![p] = "sweep"]
  /\ LET due == {t \in Tasks : TimedOut(t)} IN
     \E rows \in SUBSET due :
       /\ Query(due, SweepLimit, rows) /\ Load(p, rows, "sweep")
       /\ \A t \in rows, u \in due \ rows : submitted[t] <= submitted[u]
  /\ UNCHANGED <<rowVars, was, submitVars, envVars, money, fetches>>

\* The sweep is over: loads the unfinished tasks, in the order of their ids,
\* which the model leaves open.
StartPoll(p) ==
  /\ phase[p] = "sweep" /\ \A t \in Tasks : job[p][t] = NoJob
  /\ phase' = [phase EXCEPT ![p] = "poll"]
  /\ LET open == {t \in Tasks : Unfinished(t)} IN
     \E rows \in SUBSET open : Query(open, QueryLimit, rows) /\ Load(p, rows, "fetch")
  /\ UNCHANGED <<rowVars, was, submitVars, envVars, money, fetches>>

EndPass(p) ==
  /\ phase[p] = "poll" /\ \A t \in Tasks : job[p][t] = NoJob
  /\ phase' = [phase EXCEPT ![p] = "idle"]
  /\ UNCHANGED <<rowVars, was, submitVars, envVars, job, money, faultVars, fetches>>

\* The pass loses its lease: tasks it has not turned to yet are left alone.
Cancel(p) ==
  /\ phase[p] = "poll" /\ \E t \in Tasks : job[p][t].pc = "fetch"
  /\ job' = [job EXCEPT ![p] = [t \in Tasks |->
               IF job[p][t].pc = "fetch" THEN NoJob ELSE job[p][t]]]
  /\ UNCHANGED <<rowVars, was, submitVars, envVars, phase, money, faultVars, fetches>>

LegacyTaskCutoff == 1740182400

IsLegacy(t) == submitted[t] > 0 /\ submitted[t] < LegacyTaskCutoff

\* What follows a task's move to a final status: where the billing starts.
RefundPc(t) == IF quota[t] # 0 THEN "refundFunding" ELSE "none"
SettlePc(t) == IF cost[t] > 0 /\ cost[t] # quota[t] THEN "settleFunding" ELSE "none"

Bill(w, t, l) == IF l = "none" THEN Done(w, t) ELSE Goto(w, t, l)

\* sweepTimedOutTasks, one task: a conditional update to FAILURE, and a refund
\* if it won.  A task of the old system is not refunded.
SweepTask(p, t) ==
  /\ job[p][t].pc = "sweep"
  /\ \/ /\ Wins(t, job[p][t].from)
        /\ Write(t, "FAILURE")
        /\ Bill(p, t, IF IsLegacy(t) THEN "none" ELSE RefundPc(t)) /\ NoFault
     \/ /\ ~Wins(t, job[p][t].from)
        /\ Done(p, t) /\ NoFault /\ UNCHANGED rowVars
     \/ Glitch /\ Done(p, t) /\ UNCHANGED rowVars
  /\ UNCHANGED <<was, submitVars, envVars, phase, money, fetches>>

\* The status a task was billed for: its own, or the one that the bulk failure
\* took from it, after which no money moves.
BilledAs(t) == IF was[t] = "none" THEN status[t] ELSE was[t]

\* CacheGetChannel fails (the channel was deleted, this node's cache does not
\* know it yet, the cache is off and the query fails) or the task has no upstream
\* id: TaskBulkUpdateByID, without a condition and without a refund.
BulkFail(p, t) ==
  /\ job[p][t].pc = "fetch"
  /\ \/ /\ Write(t, "FAILURE") /\ NoFault
        /\ was' = [was EXCEPT ![t] = BilledAs(t)]
     \/ Glitch /\ UNCHANGED <<rowVars, was>>
  /\ Done(p, t)
  /\ UNCHANGED <<submitVars, envVars, phase, money, fetches>>

\* What a fetch may answer: the truth or, except for Suno, an error that is
\* taken for the failure of the task.
Answers(t) == {upstream[t]} \cup (IF Kind[t] = "suno" THEN {} ELSE {"FAILURE"})

\* updateSunoTasks: a Suno task that failed, or that comes with a fail reason
\* whatever its status, is refunded before its row is written.
SunoAnswer(p, t, a, failed) ==
  /\ a = "FAILURE" => failed
  /\ failed => a \in SunoReasons \cup {"FAILURE"}
  /\ SetJob(p, t, [job[p][t] EXCEPT
       !.pc = IF failed /\ quota[t] # 0 THEN "refundFunding" ELSE "save",
       !.to = a, !.ends = (failed \/ a \in Terminal), !.unsaved = TRUE])

\* FetchTask and ParseTaskResult; without a usable answer (a transport error, a
\* rate limit, an unknown status) the task is left for the next pass.
FetchTask(p, t) ==
  /\ job[p][t].pc = "fetch"
  /\ \/ Done(p, t)
     \/ /\ Kind[t] # "suno"
        /\ \E a \in Answers(t) : SetJob(p, t, [job[p][t] EXCEPT !.pc = "save", !.to = a])
     \/ /\ Kind[t] = "suno"
        /\ \E a \in Answers(t), failed \in BOOLEAN : SunoAnswer(p, t, a, failed)
  /\ UNCHANGED <<rowVars, was, submitVars, envVars, phase, money, faultVars, fetches>>

\* Mutant of UpdateVideoTask: a lost update is billed all the same.
UpdateVideoTaskBillsLoser(p, t) ==
  /\ job[p][t].pc = "save" /\ ~job[p][t].unsaved
  /\ \/ /\ Wins(t, job[p][t].from) /\ Write(t, job[p][t].to)
     \/ /\ ~Wins(t, job[p][t].from) /\ UNCHANGED rowVars
  /\ Bill(p, t, IF job[p][t].to = "FAILURE" THEN RefundPc(t)
                ELSE IF job[p][t].to = "SUCCESS" THEN SettlePc(t) ELSE "none")
  /\ UNCHANGED <<was, submitVars, envVars, phase, money, faultVars, fetches>>

\* updateVideoSingleTask after the fetch: a conditional update, and whoever
\* moves the task to a final status bills it.
UpdateVideoTask(p, t) ==
  /\ job[p][t].pc = "save" /\ ~job[p][t].unsaved
  /\ LET to == job[p][t].to IN
     \/ /\ Wins(t, job[p][t].from)
        /\ Write(t, to)
        /\ Bill(p, t, IF to = "FAILURE" THEN RefundPc(t)
                      ELSE IF to = "SUCCESS" THEN SettlePc(t) ELSE "none")
        /\ NoFault
     \/ /\ ~Wins(t, job[p][t].from)
        /\ Done(p, t) /\ NoFault /\ UNCHANGED rowVars
     \/ Glitch /\ Done(p, t) /\ UNCHANGED rowVars
  /\ UNCHANGED <<was, submitVars, envVars, phase, money, fetches>>

\* updateSunoTasks, the end of one item: the row is saved whatever it is now.
UpdateSunoTask(p, t) ==
  /\ job[p][t].pc = "save" /\ job[p][t].unsaved
  /\ \/ /\ status' = [status EXCEPT ![t] = job[p][t].to]
        /\ full' = [full EXCEPT ![t] = job[p][t].ends] /\ NoFault
     \/ Fault(t) /\ UNCHANGED rowVars
  /\ Done(p, t)
  /\ UNCHANGED <<was, submitVars, envVars, phase, money, fetches>>

-----------------------------------------------------------------------------
(* Billing: RefundTaskQuota and RecalculateTaskQuota                       *)

\* Mutant of AfterBilling: a refunded Suno task is not saved.
AfterBillingUnsaved(p, t) == Done(p, t)

\* The funding source is adjusted first; if that fails the token is left alone.
\* A subscription that cannot take more is such a failure.
AfterBilling(p, t) == IF job[p][t].unsaved THEN Goto(p, t, "save") ELSE Done(p, t)

RefundFunding(p, t) ==
  /\ job[p][t].pc = "refundFunding"
  /\ \/ /\ funding' = [funding EXCEPT ![t] = @ - quota[t]]
        /\ Goto(p, t, "refundToken") /\ NoFault
     \/ Fault(t) /\ AfterBilling(p, t) /\ UNCHANGED funding
  /\ UNCHANGED <<rowVars, was, submitVars, envVars, phase, token, fetches>>

RefundToken(p, t) ==
  /\ job[p][t].pc = "refundToken"
  /\ \/ token' = [token EXCEPT ![t] = @ - quota[t]] /\ NoFault
     \/ Fault(t) /\ UNCHANGED token
  /\ AfterBilling(p, t)
  /\ UNCHANGED <<rowVars, was, submitVars, envVars, phase, funding, fetches>>

\* Mutant of SettleFunding: the whole cost is charged, not the difference.
SettleFundingWhole(p, t) ==
  /\ job[p][t].pc = "settleFunding"
  /\ funding' = [funding EXCEPT ![t] = @ + cost[t]]
  /\ Goto(p, t, "settleToken")
  /\ UNCHANGED <<rowVars, was, submitVars, envVars, phase, token, faultVars, fetches>>

SettleFunding(p, t) ==
  /\ job[p][t].pc = "settleFunding"
  /\ \/ /\ funding' = [funding EXCEPT ![t] = @ + (cost[t] - quota[t])]
        /\ Goto(p, t, "settleToken") /\ NoFault
     \/ Fault(t) /\ Done(p, t) /\ UNCHANGED funding
  /\ UNCHANGED <<rowVars, was, submitVars, envVars, phase, token, fetches>>

SettleToken(p, t) ==
  /\ job[p][t].pc = "settleToken"
  /\ \/ token' = [token EXCEPT ![t] = @ + (cost[t] - quota[t])] /\ NoFault
     \/ Fault(t) /\ UNCHANGED token
  /\ Done(p, t)
  /\ UNCHANGED <<rowVars, was, submitVars, envVars, phase, funding, fetches>>

-----------------------------------------------------------------------------
(* A user fetches a Gemini or Vertex task: tryRealtimeFetch                *)

RealtimeLoad(c, t) ==
  /\ Kind[t] = "realtime" /\ status[t] \in Open \cup Terminal
  /\ job[c][t] = NoJob
  /\ fetches < MaxFetches /\ fetches' = fetches + 1
  /\ SetJob(c, t, [NoJob EXCEPT !.pc = "fetch", !.from = status[t]])
  /\ UNCHANGED <<rowVars, was, submitVars, envVars, phase, money, faultVars>>

RealtimeFetch(c, t) ==
  /\ job[c][t].pc = "fetch"
  /\ \/ Done(c, t)
     \/ \E a \in Answers(t) : SetJob(c, t, [job[c][t] EXCEPT !.pc = "save", !.to = a])
  /\ UNCHANGED <<rowVars, was, submitVars, envVars, phase, money, faultVars, fetches>>

\* The row is updated if its status is still the one that was loaded, final or
\* not; nothing is billed, and an error is ignored.
RealtimeSave(c, t) ==
  /\ job[c][t].pc = "save"
  /\ \/ Wins(t, job[c][t].from) /\ Write(t, job[c][t].to) /\ NoFault
     \/ ~Wins(t, job[c][t].from) /\ NoFault /\ UNCHANGED rowVars
     \/ Glitch /\ UNCHANGED rowVars
  /\ Done(c, t)
  /\ UNCHANGED <<was, submitVars, envVars, phase, money, fetches>>

-----------------------------------------------------------------------------
(* The environment                                                         *)

UpstreamEnds(t) ==
  /\ status[t] # "new" /\ upstream[t] = "IN_PROGRESS"
  /\ \E s \in Terminal : upstream' = [upstream EXCEPT ![t] = s]
  /\ UNCHANGED <<rowVars, was, submitVars, late, phase, job, money, faultVars, fetches>>

TimePasses(t) ==
  /\ status[t] # "new" /\ ~late[t] /\ late' = [late EXCEPT ![t] = TRUE]
  /\ UNCHANGED <<rowVars, was, submitVars, upstream, phase, job, money, faultVars, fetches>>

\* A job between the decision to bill a task and the last write.
BillingPcs == {"refundFunding", "refundToken", "settleFunding", "settleToken"}
Billing(w, t) ==
  job[w][t].pc \in BillingPcs \/ (job[w][t].pc = "save" /\ job[w][t].unsaved)

\* The node running a pass dies.
Crash(p) ==
  /\ phase[p] # "idle" /\ faults < MaxFaults
  /\ faults' = faults + 1
  /\ hit' = hit \cup {t \in Tasks : Billing(p, t)}
  /\ phase' = [phase EXCEPT ![p] = "idle"]
  /\ job' = [job EXCEPT ![p] = [t \in Tasks |-> NoJob]]
  /\ UNCHANGED <<rowVars, was, submitVars, envVars, money, fetches>>

PassTask(p, t) ==
  \/ SweepTask(p, t) \/ BulkFail(p, t) \/ FetchTask(p, t)
  \/ UpdateVideoTask(p, t) \/ UpdateSunoTask(p, t)
  \/ RefundFunding(p, t) \/ RefundToken(p, t) \/ SettleFunding(p, t) \/ SettleToken(p, t)

Pass(p) == StartPass(p) \/ StartPoll(p) \/ EndPass(p)

Realtime(c, t) == RealtimeLoad(c, t) \/ RealtimeFetch(c, t) \/ RealtimeSave(c, t)

Environment(t) == Submit(t) \/ UpstreamEnds(t) \/ TimePasses(t)

Next ==
  \/ \E p \in Passes : Pass(p) \/ Cancel(p) \/ Crash(p)
  \/ \E p \in Passes, t \in Tasks : PassTask(p, t)
  \/ \E c \in Clients, t \in Tasks : Realtime(c, t)
  \/ \E t \in Tasks : Environment(t)

Spec == Init /\ [][Next]_vars

\* The scheduler starts a pass again and again, a pass goes on until it ends,
\* and time passes.  Nothing is assumed of the upstream or of users.
FairSpec ==
  /\ Spec
  /\ \A p \in Passes : WF_vars(Pass(p))
  /\ \A p \in Passes, t \in Tasks : WF_vars(PassTask(p, t))
  /\ \A t \in Tasks : WF_vars(TimePasses(t))

-----------------------------------------------------------------------------
(* Properties                                                              *)

Pcs == {"none", "sweep", "fetch", "save"} \cup BillingPcs
JobType == [pc : Pcs, from : {"new"} \cup Open \cup Terminal,
            to : {"new", "IN_PROGRESS"} \cup Terminal, ends : BOOLEAN, unsaved : BOOLEAN]

\* The type of every variable.
TypeOK ==
  /\ status \in [Tasks -> {"new", "lost"} \cup Open \cup Terminal]
  /\ full \in [Tasks -> BOOLEAN]
  /\ quota \in [Tasks -> Nat] /\ submitted \in [Tasks -> Nat] /\ cost \in [Tasks -> Nat]
  /\ late \in [Tasks -> BOOLEAN] /\ was \in [Tasks -> {"none", "new", "lost"} \cup Open \cup Terminal]
  /\ upstream \in [Tasks -> {"IN_PROGRESS"} \cup Terminal]
  /\ phase \in [Passes -> {"idle", "sweep", "poll"}]
  /\ job \in [Workers -> [Tasks -> JobType]]
  /\ funding \in [Tasks -> Int] /\ token \in [Tasks -> Int]
  /\ fetches \in Nat /\ faults \in Nat /\ hit \in SUBSET Tasks

\* Tasks whose status only conditional updates and bulk failures change: no Suno
\* task, and no Gemini or Vertex task that users can fetch.
Guarded(t) == Kind[t] = "video" \/ (Kind[t] = "realtime" /\ Clients = {})

\* However passes overlap, crash, lose their lease or race with the sweep, the
\* refund and the settlement of a task are applied at most once between them:
\* neither ledger ever gives back more than the task was charged.
BilledOnce == \A t \in Tasks : Guarded(t) => funding[t] >= 0 /\ token[t] >= 0

AtRest(t) == t \notin hit /\ \A w \in Workers : ~Billing(w, t)

Settled(t) == IF cost[t] = 0 THEN quota[t] ELSE cost[t]

ChargeMatches(t) ==
  /\ token[t] = funding[t]
  /\ BilledAs(t) \in Open => funding[t] = quota[t]
  /\ BilledAs(t) = "SUCCESS" => funding[t] = Settled(t)
  /\ BilledAs(t) = "FAILURE" => funding[t] = 0 \/ (IsLegacy(t) /\ funding[t] = quota[t])

\* Between billing steps the ledgers tell what the row says: an open task is out
\* its submitted price, a successful one its settled cost, a failed one nothing
\* (unless it is a task of the old system).  A task whose channel lookup failed
\* is FAILURE for good but billed as what it was: an open one is never refunded,
\* one that another pass finished meanwhile keeps its settlement or its refund.
ChargeMatchesStatus ==
  \A t \in Tasks : Guarded(t) /\ AtRest(t) =>
    /\ ChargeMatches(t)
    /\ was[t] # "none" => status[t] = "FAILURE"

\* The same for Suno tasks, whose rows are written without a condition and after
\* the refund; it needs passes that do not overlap, and an upstream that gives a
\* fail reason only for failed tasks.
SunoChargeMatchesStatus ==
  (\A p, q \in Passes : p = q) /\ SunoReasons \subseteq {"FAILURE"} =>
    \A t \in Tasks : Kind[t] = "suno" /\ AtRest(t) =>
      /\ ChargeMatches(t)
      /\ was[t] # "none" => status[t] = "FAILURE" /\ was[t] \in Open

\* A final status is final: nothing reopens a finished task, however late the
\* answer a worker still holds.  Only the unconditional bulk failure of a pass
\* that could not look up the channel changes one, to FAILURE, once.
FinalIsFinal ==
  [][\A t \in Tasks : Guarded(t) /\ status[t] \in Terminal =>
       \/ status'[t] = status[t]
       \/ status'[t] = "FAILURE" /\ was[t] = "none" /\ was'[t] = status[t]]_vars

\* Every task that has a row is eventually finished, even if the upstream never
\* ends it and the fetches of users reopen it for a while.
EventuallyFinished ==
  \A t \in Tasks : status[t] \in Open ~> status[t] \in Terminal

\* RefundTaskQuota's promise, for every kind of task: a failed task has its
\* pre-consumed quota returned (tasks failed in bulk, which never are, apart).
FailureIsRefunded ==
  \A t \in Tasks :
    AtRest(t) /\ ~IsLegacy(t) /\ status[t] = "FAILURE" /\ was[t] = "none" => funding[t] = 0

-----------------------------------------------------------------------------
(* The inductive invariant for guarded tasks: an open task is untouched, the *)
(* workers that still hold one hold an open status of it, and at most one    *)
(* worker is billing it, whose pc tells what the ledgers are out.            *)

\* What the ledgers are out while w bills t.
Progress(w, t) ==
  /\ job[w][t].pc \in {"refundFunding", "settleFunding"} =>
       funding[t] = quota[t] /\ token[t] = quota[t]
  /\ job[w][t].pc = "refundToken" => funding[t] = 0 /\ token[t] = quota[t]
  /\ job[w][t].pc = "settleToken" => funding[t] = cost[t] /\ token[t] = quota[t]
  /\ job[w][t].pc \in {"settleFunding", "settleToken"} => cost[t] > 0

JobShape(w, t) ==
  /\ ~job[w][t].unsaved
  /\ job[w][t].pc \in {"sweep", "fetch", "save"} => job[w][t].from \in Open
  /\ job[w][t].pc = "save" => job[w][t].to # "new"
  /\ job[w][t].pc \in {"refundFunding", "refundToken"} => BilledAs(t) = "FAILURE"
  /\ job[w][t].pc \in {"settleFunding", "settleToken"} => BilledAs(t) = "SUCCESS"
  /\ w \in Clients => job[w][t] = NoJob

OneBiller(t) ==
  \A v, w \in Workers :
    job[v][t].pc \in BillingPcs /\ job[w][t].pc \in BillingPcs => v = w

Untouched(t) ==
  /\ status[t] = "new" => funding[t] = 0 /\ token[t] = 0 /\ quota[t] = 0
  /\ status[t] \in Open => funding[t] = quota[t] /\ token[t] = quota[t]

Billed(t) ==
  (\A w \in Workers : job[w][t].pc \notin BillingPcs) =>
    /\ funding[t] >= 0 /\ token[t] >= 0
    /\ t \notin hit => ChargeMatches(t)

\* A bulk failure is never overwritten.
GivenUp(t) == was[t] # "none" => status[t] = "FAILURE"

GuardedInv(t) ==
  /\ \A w \in Workers : JobShape(w, t) /\ Progress(w, t)
  /\ OneBiller(t) /\ Untouched(t) /\ Billed(t) /\ GivenUp(t)

\* At most one worker ever bills a task, the ledgers are out what its progress
\* says, and every other worker that still holds the task loaded it open.
BillingDiscipline == \A t \in Tasks : Guarded(t) => GuardedInv(t)

\* A pass that is not running holds no task.
IdlePasses == \A p \in Passes : phase[p] = "idle" => \A t \in Tasks : job[p][t] = NoJob

IInv == TypeOK /\ IdlePasses /\ BillingDiscipline
=============================================================================
