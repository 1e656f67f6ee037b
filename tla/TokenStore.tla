----------------------------- MODULE TokenStore -----------------------------
(***************************************************************************)
(* A token and its user, in the database and as hashes in Redis            *)
(* (model/token.go, model/token_cache.go, model/user_cache.go,             *)
(* common/redis.go, middleware/auth.go): the lookups of TokenAuth, the     *)
(* charges, the changes users and administrators make, and the goroutines  *)
(* that bring the hashes up to date afterwards.  Every call of the         *)
(* database or of Redis is a step of its own, any number of instances of   *)
(* the program may take it, and every call of Redis may fail.              *)
(***************************************************************************)
EXTENDS Integers

CONSTANTS
  Requests,  \* clients that send one request with the token after the other
  Jobs,      \* what changes the token or the user
  Slots,     \* bound on the goroutines under way
  Missing,   \* no hash
  Quota,     \* the quota of the token and of the user at first
  TTL,       \* RedisKeyCacheSeconds, in ticks
  MaxOps,    \* bound on the changes
  Ops        \* the changes that are made

ASSUME TokenAssumption == Quota \in Nat /\ TTL \in Nat \ {0}

Rows == {"token", "user"}

VARIABLES
  db,    \* the rows: status and quota
  hash,  \* the hashes: status, quota, the ticks left, whether it has every field
  task,  \* the goroutines gopool.Go started
  req,   \* the requests
  job,   \* the changes under way
  ops,
  stale, \* the hash of the user was written late, or was not told of a change (history)
  quiet  \* ticks since anybody had to do with the user who is not enabled (history)

tokenVars == <<db, hash, task, req, job, ops, stale, quiet>>
past == <<stale, quiet>>

Free == [kind |-> "none", row |-> Missing, snap |-> Missing, delta |-> 0, ttl |-> 0]
Waiting == [pc |-> "cache", row |-> "token", full |-> FALSE]
Idle == [pc |-> "idle", op |-> "none", row |-> Missing, snap |-> Missing, ttl |-> 0]

-----------------------------------------------------------------------------
(* Redis                                                                   *)

Snapshot(x) == [status |-> db[x].status, quota |-> db[x].quota, full |-> TRUE]

\* Mutant of HSetObj: the hash never expires.
HSetObjForever(snap) == [status |-> snap.status, quota |-> snap.quota, full |-> snap.full, ttl |-> -1]

\* RedisHSetObj: every field, and a new expiry.
HSetObj(snap) == [status |-> snap.status, quota |-> snap.quota, full |-> snap.full, ttl |-> TTL]

\* A hash that is gone when a field is written comes back with that field alone; the
\* others are read as their zero values.
Blank == [status |-> "unset", quota |-> 0, full |-> FALSE, ttl |-> 0]
Base(x) == IF hash[x] = Missing THEN Blank ELSE hash[x]
TTLOf(x) == IF hash[x] = Missing THEN 0 ELSE hash[x].ttl

\* The hashes may be there already.
TokenInit ==
  /\ db = [x \in Rows |-> [status |-> "on", quota |-> Quota]]
  /\ \E warm \in SUBSET Rows : hash = [x \in Rows |-> IF x \in warm THEN HSetObj(Snapshot(x)) ELSE Missing]
  /\ task = [i \in Slots |-> Free]
  /\ req = [r \in Requests |-> Waiting] /\ job = [j \in Jobs |-> Idle] /\ ops = 0
  /\ stale = FALSE /\ quiet = 0

\* Somebody may still write the hash of the user.
Busy == (\E i \in Slots : task[i].row = "user") \/ (\E j \in Jobs : job[j] # Idle)

Tick ==
  /\ (\E x \in Rows : TTLOf(x) > 0) \/ (db["user"].status # "on" /\ quiet < TTL)
  /\ hash' = [x \in Rows |-> IF TTLOf(x) = 1 THEN Missing
                             ELSE IF TTLOf(x) > 1 THEN [hash[x] EXCEPT !.ttl = @ - 1] ELSE hash[x]]
  /\ quiet' = IF Busy \/ db["user"].status = "on" THEN 0 ELSE IF quiet < TTL THEN quiet + 1 ELSE TTL
  /\ UNCHANGED <<db, task, req, job, ops, stale>>

-----------------------------------------------------------------------------
(* Goroutines                                                              *)

Starts(t) ==
  \E i \in Slots : /\ task[i] = Free /\ \A k \in Slots : k < i => task[k] # Free
                   /\ task' = [task EXCEPT ![i] = t]

Set(x, snap) == [Free EXCEPT !.kind = "set", !.row = x, !.snap = snap]
Del(x) == [Free EXCEPT !.kind = "del", !.row = x]
Incr(x, delta) == [Free EXCEPT !.kind = "incr", !.row = x, !.delta = delta]

Late(x, snap) == stale' = (stale \/ (x = "user" /\ snap.status # db[x].status))

\* cacheSetToken and populateUserCache
TaskSet(i) ==
  /\ task[i].kind = "set"
  /\ hash' = [hash EXCEPT ![task[i].row] = HSetObj(task[i].snap)]
  /\ Late(task[i].row, task[i].snap)
  /\ task' = [task EXCEPT ![i] = Free] /\ UNCHANGED <<db, req, job, ops, quiet>>

\* cacheDeleteToken
TaskDel(i) ==
  /\ task[i].kind = "del" /\ hash' = [hash EXCEPT ![task[i].row] = Missing]
  /\ task' = [task EXCEPT ![i] = Free] /\ UNCHANGED <<db, req, job, ops, past>>

\* RedisHIncrBy: the time to live is read first, and given again with the increment.
TaskTTL(i) ==
  /\ task[i].kind = "incr"
  /\ task' = [task EXCEPT ![i] = IF TTLOf(task[i].row) <= 0 THEN Free
                                 ELSE [@ EXCEPT !.kind = "apply", !.ttl = TTLOf(task[i].row)]]
  /\ UNCHANGED <<db, hash, req, job, ops, past>>

TaskIncr(i) ==
  LET x == task[i].row
  IN /\ task[i].kind = "apply"
     /\ hash' = [hash EXCEPT ![x] = [Base(x) EXCEPT !.quota = @ + task[i].delta, !.ttl = task[i].ttl]]
     /\ task' = [task EXCEPT ![i] = Free] /\ UNCHANGED <<db, req, job, ops, past>>

\* A call that fails is only logged.
TaskFails(i) ==
  /\ task[i].kind # "none" /\ task' = [task EXCEPT ![i] = Free]
  /\ UNCHANGED <<db, hash, req, job, ops, past>>

TaskStep(i) == TaskSet(i) \/ TaskDel(i) \/ TaskTTL(i) \/ TaskIncr(i) \/ TaskFails(i)

-----------------------------------------------------------------------------
(* TokenAuth                                                               *)

\* Mutant of Valid: what is not disabled is taken for enabled.
ValidUnlessOff(x, snap) == snap.status # "off" /\ (x = "token" => snap.quota > 0)

\* ValidateUserToken, and the status of the user
Valid(x, snap) == snap.status = "on" /\ (x = "token" => snap.quota > 0)

\* After the token the user.
Decide(r, x, snap) ==
  req' = [req EXCEPT ![r] =
            IF ~Valid(x, snap) THEN Waiting
            ELSE IF x = "token" THEN [pc |-> "cache", row |-> "user", full |-> snap.full]
            ELSE [@ EXCEPT !.pc = "accepted"]]

\* GetTokenByKey and GetUserCache: Redis first ...
FromCache(r) ==
  LET x == req[r].row
  IN /\ req[r].pc = "cache" /\ hash[x] # Missing /\ Decide(r, x, hash[x])
     /\ UNCHANGED <<db, hash, task, job, ops, past>>

\* ... which has no hash, or does not answer ...
CacheMiss(r) ==
  /\ req[r].pc = "cache" /\ req' = [req EXCEPT ![r].pc = "db"]
  /\ UNCHANGED <<db, hash, task, job, ops, past>>

\* ... then the database, and the hash is set later.
FromDB(r) ==
  LET x == req[r].row
  IN /\ req[r].pc = "db"
     /\ IF db[x].status = "gone" THEN req' = [req EXCEPT ![r] = Waiting] /\ UNCHANGED task
        ELSE Starts(Set(x, Snapshot(x))) /\ Decide(r, x, Snapshot(x))
     /\ UNCHANGED <<db, hash, job, ops, past>>

Serve(r) ==
  /\ req[r].pc = "accepted" /\ req' = [req EXCEPT ![r] = Waiting]
  /\ UNCHANGED <<db, hash, task, job, ops, past>>

ClientStep(r) == FromCache(r) \/ CacheMiss(r) \/ FromDB(r) \/ Serve(r)

-----------------------------------------------------------------------------
(* Charges and changes                                                     *)

Begin(j, op, pc) ==
  /\ job[j] = Idle /\ \A k \in Jobs : k < j => job[k] # Idle
  /\ op \in Ops /\ ops < MaxOps /\ ops' = ops + 1
  /\ job' = [job EXCEPT ![j].op = op, ![j].pc = pc]
  /\ UNCHANGED <<db, hash, task, req, past>>
Goto(j, pc) == job' = [job EXCEPT ![j].pc = pc]
EndJob(j) == job' = [job EXCEPT ![j] = Idle]

Start(j) ==
  \/ \E op \in {"token_on", "token_off", "token_edit", "token_delete"} : Begin(j, op, "tokenread")
  \/ \E op \in {"disable", "enable", "settings"} : Begin(j, op, "userread")
  \/ Begin(j, "user_delete", "userdelete")
  \/ Begin(j, "hard_delete", "harddelete")
  \/ Begin(j, "override", "override")
  \/ \E op \in {"charge", "refund"}, x \in Rows : Begin(j, op, x)

\* DecreaseTokenQuota or DecreaseUserQuota, or an increase: the hash by a goroutine, then
\* the row; a deleted row is not found.
Delta(op) == IF op = "charge" THEN -1 ELSE 1

DeltaStart(j) ==
  /\ job[j].pc \in Rows /\ Starts(Incr(job[j].pc, Delta(job[j].op)))
  /\ job' = [job EXCEPT ![j].row = job[j].pc, ![j].pc = "delta"] /\ UNCHANGED <<db, hash, req, ops, past>>

DeltaWrite(j) ==
  LET x == job[j].row
  IN /\ job[j].pc = "delta"
     /\ db' = IF db[x].status = "gone" THEN db
              ELSE [db EXCEPT ![x].quota = @ + Delta(job[j].op)]
     /\ EndJob(j) /\ UNCHANGED <<hash, task, req, ops, past>>

\* What op makes of the status and the quota that were read.
Wanted(op, snap) ==
  CASE op \in {"token_on", "enable"} -> [snap EXCEPT !.status = "on"]
    [] op \in {"token_off", "disable"} -> [snap EXCEPT !.status = "off"]
    [] op = "token_edit" -> [snap EXCEPT !.quota = Quota]
    [] OTHER -> snap

\* UpdateToken and DeleteToken read the row they are to change.
TokenRead(j) ==
  /\ job[j].pc = "tokenread"
  /\ IF db["token"].status = "gone" THEN EndJob(j)
     ELSE job' = [job EXCEPT ![j].snap = Wanted(job[j].op, Snapshot("token")),
                             ![j].pc = IF job[j].op = "token_delete" THEN "tokendelete" ELSE "tokenwrite"]
  /\ UNCHANGED <<db, hash, task, req, ops, past>>

\* Token.Update writes the status and the quota it was given, also when only the status
\* is to change, and the hash is set also when no row was found.
TokenWrite(j) ==
  /\ job[j].pc = "tokenwrite"
  /\ db' = IF db["token"].status = "gone" THEN db
           ELSE [db EXCEPT !["token"].status = job[j].snap.status, !["token"].quota = job[j].snap.quota]
  /\ Starts(Set("token", job[j].snap)) /\ EndJob(j) /\ UNCHANGED <<hash, req, ops, past>>

\* Token.Delete
TokenDelete(j) ==
  /\ job[j].pc = "tokendelete" /\ db' = [db EXCEPT !["token"].status = "gone"]
  /\ Starts(Del("token")) /\ EndJob(j) /\ UNCHANGED <<hash, req, ops, past>>

StatusOf(x) == [Snapshot(x) EXCEPT !.quota = 0]

\* ManageUser, and the changes users make themselves
UserRead(j) ==
  /\ job[j].pc = "userread"
  /\ job' = [job EXCEPT ![j].snap = Wanted(job[j].op, StatusOf("user")), ![j].pc = "userwrite"]
  /\ UNCHANGED <<db, hash, task, req, ops, past>>

\* User.Update leaves the quota alone, and fails when the row is gone.
UserWrite(j) ==
  /\ job[j].pc = "userwrite"
  /\ IF db["user"].status = "gone" THEN EndJob(j) /\ UNCHANGED <<db, quiet>>
     ELSE /\ db' = [db EXCEPT !["user"].status = job[j].snap.status] /\ quiet' = 0
          /\ Goto(j, "userback")
  /\ UNCHANGED <<hash, task, req, ops, stale>>

\* The row is read back, for the hash ...
UserBack(j) ==
  /\ job[j].pc = "userback"
  /\ IF db["user"].status = "gone" THEN EndJob(j)
     ELSE job' = [job EXCEPT ![j].snap = StatusOf("user"), ![j].pc = "fieldttl"]
  /\ UNCHANGED <<db, hash, task, req, ops, past>>

\* ... whose fields but the quota updateUserCache sets, when it has a time to live.
AfterFields(j) ==
  job' = [job EXCEPT ![j] = IF @.op = "disable" THEN [Idle EXCEPT !.op = "disable", !.pc = "dropuser"] ELSE Idle]

FieldTTL(j) ==
  /\ job[j].pc = "fieldttl"
  /\ IF TTLOf("user") <= 0 THEN AfterFields(j)
     ELSE job' = [job EXCEPT ![j].pc = "field", ![j].ttl = TTLOf("user")]
  /\ UNCHANGED <<db, hash, task, req, ops, past>>

FieldSet(j) ==
  /\ job[j].pc = "field"
  /\ hash' = [hash EXCEPT !["user"] = [Base("user") EXCEPT !.status = job[j].snap.status,
                                                            !.ttl = job[j].ttl]]
  /\ Late("user", job[j].snap) /\ (AfterFields(j) \/ EndJob(j)) /\ UNCHANGED <<db, task, req, ops, quiet>>

\* User.Delete, of ManageUser and of the user: the row is kept, and no longer found.
UserDelete(j) ==
  /\ job[j].pc = "userdelete" /\ db' = [db EXCEPT !["user"].status = "gone"] /\ quiet' = 0
  /\ Goto(j, "dropuser") /\ UNCHANGED <<hash, task, req, ops, stale>>

\* HardDeleteUserById: the row is deleted, and Redis is not told.
HardDelete(j) ==
  /\ job[j].pc = "harddelete" /\ db' = [db EXCEPT !["user"].status = "gone"] /\ quiet' = 0
  /\ stale' = TRUE /\ EndJob(j) /\ UNCHANGED <<hash, task, req, ops>>

\* Mutant of DropUser: the hash of the user is left.
DropUserNot(j) ==
  job[j].pc = "dropuser" /\ Goto(j, "droptoken") /\ UNCHANGED <<db, hash, task, req, ops, past>>

\* InvalidateUserCache, and InvalidateUserTokensCache unless a user deletes himself
DropUser(j) ==
  /\ job[j].pc = "dropuser" /\ hash' = [hash EXCEPT !["user"] = Missing]
  /\ Goto(j, "droptoken") \/ (job[j].op = "user_delete" /\ EndJob(j))
  /\ UNCHANGED <<db, task, req, ops, past>>

DropToken(j) ==
  /\ job[j].pc = "droptoken" /\ hash' = [hash EXCEPT !["token"] = Missing]
  /\ EndJob(j) /\ UNCHANGED <<db, task, req, ops, past>>

\* A call of Redis fails: updateUserCache and User.Delete return the error and nothing is
\* dropped; the failing invalidations of ManageUser are only logged.
CallFails(j) ==
  /\ job[j].pc \in {"fieldttl", "field", "dropuser", "droptoken"}
  /\ stale' = (stale \/ job[j].pc # "droptoken")
  /\ IF job[j].pc = "dropuser" /\ job[j].op = "disable" THEN Goto(j, "droptoken") ELSE EndJob(j)
  /\ UNCHANGED <<db, hash, task, req, ops, quiet>>

\* The quota of a user is overwritten; the hash is not told.
Override(j) ==
  /\ job[j].pc = "override"
  /\ db' = IF db["user"].status = "gone" THEN db ELSE [db EXCEPT !["user"].quota = Quota]
  /\ EndJob(j) /\ UNCHANGED <<hash, task, req, ops, past>>

JobStep(j) ==
  \/ DeltaStart(j) \/ DeltaWrite(j) \/ TokenRead(j) \/ TokenWrite(j) \/ TokenDelete(j)
  \/ UserRead(j) \/ UserWrite(j) \/ UserBack(j) \/ FieldTTL(j) \/ FieldSet(j)
  \/ UserDelete(j) \/ HardDelete(j) \/ DropUser(j) \/ DropToken(j) \/ CallFails(j) \/ Override(j)

-----------------------------------------------------------------------------
TokenNext ==
  \/ \E r \in Requests : ClientStep(r)
  \/ \E j \in Jobs : Start(j) \/ JobStep(j)
  \/ \E i \in Slots : TaskStep(i)
  \/ Tick

TokenSpec == TokenInit /\ [][TokenNext]_tokenVars

\* Goroutines run on, and time passes.
TokenFairSpec ==
  /\ TokenSpec /\ WF_tokenVars(Tick)
  /\ \A i \in Slots : WF_tokenVars(TaskStep(i))
  /\ \A j \in Jobs : WF_tokenVars(JobStep(j))

-----------------------------------------------------------------------------
(* Properties                                                              *)

\* However lookups, charges, updates and deletions of the token and the user race with
\* the goroutines they start, no hash outlives what it says: in the end a hash that
\* disagrees with its row has expired.
HashesSettle ==
  \A x \in Rows : <>[](hash[x] # Missing => hash[x].status = db[x].status /\ hash[x].quota = db[x].quota)

\* Once a user is disabled or deleted, no request gets past the status of the user: at once
\* when the change has dropped the hash and nobody who had read the user before writes it
\* late; and in every case, when a hard delete leaves the hash, a call of Redis fails or a
\* late write brings it back, as soon as the time to live has passed after the last change
\* or goroutine that had to do with the user.
Passes(r) == req[r].pc # "accepted" /\ req'[r].pc = "accepted"
Between(j) == job[j].pc \in {"userback", "fieldttl", "field", "dropuser"}
Blocked == db["user"].status # "on" /\ (quiet = TTL \/ (~stale /\ \A j \in Jobs : ~Between(j)))
DisabledBlocks ==
  [][Blocked => \A r \in Requests : ~Passes(r)]_tokenVars

\* A request is never accepted with a hash that an increment brought back alone.
PartialRefused ==
  \A r \in Requests : req[r].pc = "accepted" => req[r].full
=============================================================================
