---------------------------- MODULE ChannelPool ----------------------------
(***************************************************************************)
(* The channels of one node (model/channel.go, model/ability.go,           *)
(* model/channel_cache.go, controller/channel.go, controller/              *)
(* channel-test.go): their rows and abilities in the database, the memory  *)
(* cache requests are served from, its periodic reload, and the operations *)
(* that disable, enable, edit and delete channels and the keys of          *)
(* multi-key channels, each read and write of the database a step of its   *)
(* own.  A channel is in one group, which an edit may change; every        *)
(* channel has the tag; models, priorities and weights do not change.      *)
(***************************************************************************)
EXTENDS Naturals, FiniteSets

CONSTANTS
  Channels,
  MultiKey,   \* the channels with several keys
  New,        \* channels that do not exist at first
  NKeys,      \* how many keys a multi-key channel has
  Groups,
  Home,       \* the group of the channels at first
  Jobs,       \* goroutines and administrators' requests that change channels
  None,
  MaxOps,     \* bound on the operations
  MaxFaults   \* bound on failing calls and deaths of the process

VARIABLES
  rows,   \* the table channels: status, the status of each key, group
  abil,   \* the table abilities: of each channel "on" (enabled), "off" or "none", and group
  idm,    \* channelsIDM
  index,  \* the channels in group2model2channels
  lock,   \* who holds channelStatusLock
  job,    \* the operation of each job
  sync,   \* SyncChannelCache: the rows it has read, whether it has read the abilities
  test,   \* the channel test: the rows it has read, of the channels left to test
  ops, faults,
  raced   \* operations of one channel overlapped (history)

ASSUME PoolAssumption ==
  /\ "all" \notin Channels /\ None \notin Channels \cup {"all"}
  /\ MultiKey \subseteq Channels /\ New \subseteq Channels
  /\ NKeys \in Nat \ {0} /\ None \notin 1 .. NKeys /\ None \notin Jobs
  /\ Home \in Groups /\ None \notin Groups
  /\ MaxOps \in Nat /\ MaxFaults \in Nat

poolVars == <<rows, abil, idm, index, lock, job, sync, test, ops, faults, raced>>
cacheVars == <<idm, index>>

Keys == 1 .. NKeys
AllOn == [k \in Keys |-> "on"]
Unborn == [status |-> "gone", keys |-> AllOn, group |-> None]
Gone == [status |-> "gone", keys |-> [k \in Keys |-> "deleted"], group |-> None]
Fresh(g) == [status |-> "enabled", keys |-> AllOn, group |-> g]
Idle == [pc |-> "idle", auto |-> FALSE, c |-> None, key |-> None, to |-> "none",
         row |-> Gone, ok |-> FALSE, loaded |-> None]
Asleep == [loaded |-> None, ready |-> FALSE]

\* The status list of a channel is kept by index, and the keys by themselves: the
\* statuses of old applied to the keys that now has.
IndexOf(keys, k) == Cardinality({i \in 1 .. k : keys[i] # "deleted"})
Reindexed(old, now) ==
  [k \in Keys |->
     IF now[k] = "deleted" THEN "deleted"
     ELSE LET same == {i \in Keys : old[i] # "deleted" /\ IndexOf(old, i) = IndexOf(now, k)}
          IN IF same = {} THEN "on" ELSE old[CHOOSE i \in same : TRUE]]

ServedFrom(r) == {c \in Channels : r[c].status = "enabled"}
Ability(status) == IF status = "enabled" THEN "on" ELSE "off"
Abilities(row) == [status |-> Ability(row.status), group |-> row.group]
NoAbility == [status |-> "none", group |-> None]
NoAbilities == [c \in Channels |-> NoAbility]
NoRows == [c \in Channels |-> Gone]

PoolInit ==
  /\ rows = [c \in Channels |-> IF c \in New THEN Unborn ELSE Fresh(Home)]
  /\ abil = [c \in Channels |-> IF c \in New THEN NoAbility ELSE Abilities(Fresh(Home))]
  /\ idm = rows /\ index = ServedFrom(rows)
  /\ lock = None /\ job = [j \in Jobs |-> Idle] /\ sync = Asleep
  /\ test = NoRows
  /\ ops = 0 /\ faults = 0 /\ raced = FALSE

-----------------------------------------------------------------------------
(* The operations under way                                                *)

Touches(j, c) == job[j].pc # "idle" /\ job[j].c \in {c, "all"}

\* j has read or written the database and has more to write.
InDb(j) ==
  job[j].pc \in {"save", "ability", "update", "reread", "recreate", "tag", "delete", "find", "refill"}
Overlaps(j) ==
  \E i \in Jobs \ {j} : InDb(i) /\ (job[i].c = "all" \/ job[j].c = "all" \/ job[i].c = job[j].c)
Writes(j) == raced' = (raced \/ Overlaps(j))

Begin(j, op, auto, c, key, to) ==
  /\ job[j].pc = "idle"
  /\ job' = [job EXCEPT ![j] = [Idle EXCEPT !.pc = op, !.auto = auto, !.c = c,
                                            !.key = key, !.to = to]]
  /\ UNCHANGED <<rows, abil, cacheVars, lock, sync, faults, raced>>

\* An operation of an administrator, a request or the channel test.
Counted == ops < MaxOps /\ ops' = ops + 1
Start(j, op, auto, c, key, to) == Counted /\ Begin(j, op, auto, c, key, to)

\* A call fails.
Fault == faults < MaxFaults /\ faults' = faults + 1

Goto(j, pc) == job' = [job EXCEPT ![j].pc = pc]
Reload(j) == job' = [job EXCEPT ![j] = [Idle EXCEPT !.pc = "load", !.c = job[j].c]]

-----------------------------------------------------------------------------
(* InitChannelCache                                                        *)

\* Mutant of Replace: disabled channels are indexed too.
ReplaceAll(loaded) == idm' = loaded /\ index' = {c \in Channels : loaded[c].status # "gone"}

Replace(loaded) == idm' = loaded /\ index' = ServedFrom(loaded)

\* The index has an entry for each group of an ability; an enabled channel of a group
\* without one is put into a nil map.
Panics(r, a) == \E c \in ServedFrom(r) : \A d \in Channels : a[d].group # r[c].group

\* The error of a query is not looked at: one that fails has found nothing.
Finds(table, nothing, found) ==
  (found = table /\ UNCHANGED faults) \/ (found = nothing /\ Fault)

\* The rows are read, then the abilities, and the lock is taken last.
Load(j) ==
  /\ job[j].pc = "load"
  /\ \E found \in {rows, NoRows} :
       /\ Finds(rows, NoRows, found)
       /\ job' = [job EXCEPT ![j].pc = "groups", ![j].loaded = found]
  /\ UNCHANGED <<rows, abil, cacheVars, lock, sync, test, ops, raced>>

\* The panic of a request is recovered: it ends.
LoadAbilities(j) ==
  /\ job[j].pc = "groups"
  /\ \E found \in {abil, NoAbilities} :
       /\ Finds(abil, NoAbilities, found)
       /\ job' = [job EXCEPT ![j] = IF Panics(@.loaded, found) THEN Idle ELSE [@ EXCEPT !.pc = "swap"]]
  /\ UNCHANGED <<rows, abil, cacheVars, lock, sync, test, ops, raced>>

Swap(j) ==
  /\ job[j].pc = "swap" /\ Replace(job[j].loaded)
  /\ job' = [job EXCEPT ![j] = Idle]
  /\ UNCHANGED <<rows, abil, lock, sync, test, ops, faults, raced>>

\* SyncChannelCache: the same, again and again.
SyncLoad ==
  /\ sync = Asleep
  /\ \E found \in {rows, NoRows} :
       Finds(rows, NoRows, found) /\ sync' = [loaded |-> found, ready |-> FALSE]
  /\ UNCHANGED <<rows, abil, cacheVars, lock, job, test, ops, raced>>

SyncAbilities ==
  /\ sync.loaded # None /\ ~sync.ready
  /\ \E found \in {abil, NoAbilities} :
       Finds(abil, NoAbilities, found) /\ ~Panics(sync.loaded, found)
  /\ sync' = [sync EXCEPT !.ready = TRUE]
  /\ UNCHANGED <<rows, abil, cacheVars, lock, job, test, ops, raced>>

SyncSwap ==
  /\ sync.ready /\ Replace(sync.loaded) /\ sync' = Asleep
  /\ UNCHANGED <<rows, abil, lock, job, test, ops, faults, raced>>

\* FixAbility inserts the abilities of the rows r; those of a channel stay when deleting
\* them fails, and are gone when inserting them fails.
Refill(a, r, kept, lost) ==
  [c \in Channels |-> IF r[c].status = "gone" \/ c \in kept THEN a[c]
                      ELSE IF c \in lost THEN NoAbility ELSE Abilities(r[c])]

\* Mutant of Boot: the panic is recovered, the abilities are not rebuilt.
BootNoFix(n) == UNCHANGED abil /\ faults' = faults + n /\ faults' <= MaxFaults

\* initRuntimeState: when the first load panics FixAbility rebuilds the abilities.  A
\* start that cannot load them even then dies, and is made again.
Boot(n) ==
  \E lost \in SUBSET Channels :
    /\ abil' = IF Panics(rows, abil) THEN Refill(NoAbilities, rows, {}, lost) ELSE abil
    /\ ~Panics(rows, abil') /\ (lost # {} => Panics(rows, abil))
    /\ faults' = faults + n + (IF lost = {} THEN 0 ELSE 1) /\ faults' <= MaxFaults

\* The process dies, of n failures, and is started again.
Restart(n) ==
  /\ Boot(n) /\ Replace(rows)
  /\ lock' = None /\ job' = [j \in Jobs |-> Idle] /\ sync' = Asleep
  /\ test' = NoRows
  /\ raced' = (raced \/ \E j \in Jobs : InDb(j))
  /\ UNCHANGED <<rows, ops>>

Crash == Restart(1)

\* Nobody recovers the panic of the loop's goroutine.
SyncPanics ==
  /\ sync.loaded # None /\ ~sync.ready
  /\ (Panics(sync.loaded, abil) /\ Restart(0)) \/ (Panics(sync.loaded, NoAbilities) /\ Restart(1))

-----------------------------------------------------------------------------
(* UpdateChannelStatus                                                     *)

HasKey(row) == \E k \in Keys : row.keys[k] = "on"

\* Mutant of HandlerMultiKeyUpdate: the last key leaves the channel enabled.
HandlerMultiKeyUpdateKeepsStatus(row, key, to) ==
  IF key = None THEN [row EXCEPT !.status = to]
  ELSE [row EXCEPT !.keys[key] = IF to = "enabled" THEN "on" ELSE to,
                   !.status = IF to = "enabled" THEN to ELSE @]

\* handlerMultiKeyUpdate: without a key the channel changes, with one the key; the
\* channel follows when no key is left or one is enabled.
HandlerMultiKeyUpdate(row, key, to) ==
  LET r == [row EXCEPT !.keys[key] = IF to = "enabled" THEN "on" ELSE to]
  IN CASE key = None -> [row EXCEPT !.status = to]
       [] key # None /\ row.keys[key] = "deleted" -> row
       [] OTHER -> [r EXCEPT !.status = IF ~HasKey(r) THEN "auto"
                                        ELSE IF to = "enabled" THEN to ELSE @]

Changed(c, row, key, to) ==
  IF c \in MultiKey THEN HandlerMultiKeyUpdate(row, key, to) ELSE [row EXCEPT !.status = to]

\* The end of the operation; a request of an administrator reloads the cache.
Return(j, ok) ==
  IF ok /\ ~job[j].auto THEN Reload(j) ELSE job' = [job EXCEPT ![j] = Idle]

\* First the cache, under the lock that is held to the end; a single-key channel
\* that has the status already is left alone.
StatusInCache(j) ==
  LET c == job[j].c
      new == Changed(c, idm[c], job[j].key, job[j].to)
  IN /\ job[j].pc = "status" /\ lock = None
     /\ IF idm[c].status = "gone" \/ (c \notin MultiKey /\ idm[c].status = job[j].to)
        THEN Return(j, FALSE) /\ UNCHANGED <<cacheVars, lock>>
        ELSE /\ idm' = [idm EXCEPT ![c] = new]
             /\ index' = IF new.status # idm[c].status /\ new.status # "enabled"
                         THEN index \ {c} ELSE index
             /\ lock' = j /\ Goto(j, "read")
     /\ UNCHANGED <<rows, abil, sync, test, ops, faults, raced>>

StatusRead(j) ==
  LET c == job[j].c
      new == Changed(c, rows[c], job[j].key, job[j].to)
  IN /\ job[j].pc = "read"
     /\ IF rows[c].status \in {"gone", job[j].to}
        THEN Return(j, FALSE) /\ lock' = None
        ELSE /\ job' = [job EXCEPT ![j].pc = "save", ![j].row = new,
                                   ![j].ok = new.status # rows[c].status]
             /\ UNCHANGED lock
     /\ UNCHANGED <<rows, abil, cacheVars, sync, test, ops, faults, raced>>

\* SaveWithoutKey writes all but the keys; a row that is gone is not inserted again.
SaveWithoutKey(row, now) == [row EXCEPT !.keys = Reindexed(@, now.keys)]

\* The abilities follow a new status even when the save fails.
AfterSave(j, saved) ==
  IF job[j].ok
  THEN /\ job' = [job EXCEPT ![j].pc = "ability", ![j].ok = saved, ![j].key = None, ![j].row = Gone]
       /\ UNCHANGED lock
  ELSE Return(j, saved) /\ lock' = None

StatusSave(j) ==
  LET c == job[j].c
  IN /\ job[j].pc = "save"
     /\ \/ /\ rows[c].status # "gone"
           /\ rows' = [rows EXCEPT ![c] = SaveWithoutKey(job[j].row, rows[c])]
           /\ Writes(j) /\ AfterSave(j, TRUE) /\ UNCHANGED faults
        \/ /\ rows[c].status = "gone" /\ AfterSave(j, FALSE) /\ UNCHANGED <<rows, raced, faults>>
        \/ Fault /\ AfterSave(j, FALSE) /\ UNCHANGED <<rows, raced>>
     /\ UNCHANGED <<abil, cacheVars, sync, test, ops>>

\* Mutant of SetAbility: a new status never reaches the abilities.
SetAbilityNever(c, status) == abil

\* UpdateAbilityStatus
SetAbility(c, status) ==
  IF abil[c] = NoAbility THEN abil ELSE [abil EXCEPT ![c].status = Ability(status)]

\* A failing call is logged.
StatusAbility(j) ==
  /\ job[j].pc = "ability"
  /\ \/ abil' = SetAbility(job[j].c, job[j].to) /\ Writes(j) /\ UNCHANGED faults
     \/ Fault /\ UNCHANGED <<abil, raced>>
  /\ Return(j, job[j].ok) /\ lock' = None
  /\ UNCHANGED <<rows, cacheVars, sync, test, ops>>

-----------------------------------------------------------------------------
(* Administrators                                                          *)

KeyActions ==
  {"disable_key", "enable_key", "enable_all_keys", "disable_all_keys", "delete_key",
   "delete_disabled_keys"}

\* Half of them name a key.
OfKey(action, k) == action \in {"disable_key", "enable_key", "delete_key"} \/ k = 1

\* The actions of ManageMultiKeys.
ManageMultiKeys(action, keys, k) ==
  CASE action = "disable_key" -> [keys EXCEPT ![k] = "manual"]
    [] action = "enable_key" -> [keys EXCEPT ![k] = "on"]
    [] action = "enable_all_keys" -> [i \in Keys |-> IF keys[i] = "deleted" THEN keys[i] ELSE "on"]
    [] action = "disable_all_keys" -> [i \in Keys |-> IF keys[i] = "on" THEN "manual" ELSE keys[i]]
    [] action = "delete_key" -> [keys EXCEPT ![k] = "deleted"]
    [] OTHER -> [i \in Keys |-> IF keys[i] = "auto" THEN "deleted" ELSE keys[i]]

\* What it refuses: an index out of range, the last key, nothing to do.
Refused(action, keys, k) ==
  \/ action \in {"disable_key", "enable_key", "delete_key"} /\ keys[k] = "deleted"
  \/ action = "delete_key" /\ \A i \in Keys \ {k} : keys[i] = "deleted"
  \/ action = "disable_all_keys" /\ \A i \in Keys : keys[i] # "on"
  \/ action = "delete_disabled_keys" /\ \A i \in Keys : keys[i] # "auto"

\* The row is read; "edit" is UpdateChannel, which keeps the keys and their statuses.
\* When no key is left the empty key is not written, but the empty status list is.
EditRead(j) ==
  LET c == job[j].c
      left == ManageMultiKeys(job[j].to, rows[c].keys, job[j].key)
      none == \A k \in Keys : left[k] = "deleted"
  IN /\ job[j].pc = "edit"
     /\ IF rows[c].status = "gone" THEN Return(j, FALSE)
        ELSE IF job[j].to = "edit" THEN job' = [job EXCEPT ![j].pc = "update", ![j].row = rows[c]]
        ELSE IF Refused(job[j].to, rows[c].keys, job[j].key) THEN Return(j, FALSE)
        ELSE job' = [job EXCEPT ![j].pc = "update", ![j].ok = ~none, ![j].key = None, ![j].to = "none",
                                ![j].row = [rows[c] EXCEPT !.keys = IF none THEN AllOn ELSE left]]
     /\ UNCHANGED <<rows, abil, cacheVars, lock, sync, test, ops, faults, raced>>

\* Channel.Update: an edit writes the group that was posted, ManageMultiKeys the row it has
\* read, the keys too.
EditUpdate(j) ==
  LET c == job[j].c
      edit == job[j].to = "edit"
      keys == IF job[j].ok THEN job[j].row.keys ELSE Reindexed(job[j].row.keys, rows[c].keys)
  IN /\ job[j].pc = "update"
     /\ \E g \in IF edit THEN Groups ELSE {job[j].row.group} :
          /\ rows' = IF rows[c].status = "gone" THEN rows
                     ELSE [rows EXCEPT ![c] = [status |-> IF edit THEN @.status ELSE job[j].row.status,
                                               keys |-> keys, group |-> g]]
          /\ job' = [job EXCEPT ![j].pc = "reread", ![j].row = [job[j].row EXCEPT !.group = g]]
     /\ Writes(j)
     /\ UNCHANGED <<abil, cacheVars, lock, sync, test, ops, faults>>

\* What a row that is not found leaves for the abilities: an edit has posted no status.
Posted(w) == IF w.to = "edit" THEN [w.row EXCEPT !.status = "gone"] ELSE w.row

\* The row is read again; an error is not looked at ...
EditReread(j) ==
  LET c == job[j].c
  IN /\ job[j].pc = "reread"
     /\ \E row \in {rows[c], Posted(job[j])} :
          /\ \/ row = rows[c] /\ rows[c].status # "gone" /\ UNCHANGED faults
             \/ row = Posted(job[j]) /\ IF rows[c].status = "gone" THEN UNCHANGED faults ELSE Fault
          /\ job' = [job EXCEPT ![j].pc = "recreate", ![j].row = row]
     /\ UNCHANGED <<rows, abil, cacheVars, lock, sync, test, ops, raced>>

\* ... and UpdateAbilities deletes and inserts the abilities in a transaction.
EditRecreate(j) ==
  /\ job[j].pc = "recreate" /\ abil' = [abil EXCEPT ![job[j].c] = Abilities(job[j].row)]
  /\ Writes(j) /\ Reload(j)
  /\ UNCHANGED <<rows, cacheVars, lock, sync, test, ops, faults>>

\* EnableChannelByTag and DisableChannelByTag.
TagRows(j) ==
  /\ job[j].pc = "tagrows"
  /\ rows' = [c \in Channels |-> IF rows[c].status = "gone" THEN rows[c]
                                 ELSE [rows[c] EXCEPT !.status = job[j].to]]
  /\ Writes(j) /\ Goto(j, "tag")
  /\ UNCHANGED <<abil, cacheVars, lock, sync, test, ops, faults>>

TagAbilities(j) ==
  /\ job[j].pc = "tag"
  /\ abil' = [c \in Channels |-> IF abil[c] = NoAbility THEN NoAbility
                                 ELSE [abil[c] EXCEPT !.status = Ability(job[j].to)]]
  /\ Writes(j) /\ Reload(j)
  /\ UNCHANGED <<rows, cacheVars, lock, sync, test, ops, faults>>

\* Channel.Delete
DeleteRow(j) ==
  /\ job[j].pc = "deleterow" /\ rows' = [rows EXCEPT ![job[j].c] = Gone]
  /\ Writes(j) /\ Goto(j, "delete")
  /\ UNCHANGED <<abil, cacheVars, lock, sync, test, ops, faults>>

DeleteAbilities(j) ==
  /\ job[j].pc = "delete" /\ abil' = [abil EXCEPT ![job[j].c] = NoAbility]
  /\ Writes(j) /\ Reload(j)
  /\ UNCHANGED <<rows, cacheVars, lock, sync, test, ops, faults>>

\* BatchDeleteChannels: both in one transaction.
DeleteChannelBatch(j) ==
  LET c == job[j].c
  IN /\ job[j].pc = "deletebatch"
     /\ rows' = [rows EXCEPT ![c] = Gone] /\ abil' = [abil EXCEPT ![c] = NoAbility]
     /\ Writes(j) /\ Reload(j)
     /\ UNCHANGED <<cacheVars, lock, sync, test, ops, faults>>

\* DeleteDisabledChannel leaves the abilities behind.
DeleteDisabledChannel(j) ==
  /\ job[j].pc = "deletedisabled"
  /\ rows' = [c \in Channels |-> IF rows[c].status \in {"manual", "auto"} THEN Gone ELSE rows[c]]
  /\ Writes(j) /\ Reload(j)
  /\ UNCHANGED <<abil, cacheVars, lock, sync, test, ops, faults>>

\* AddChannel: one transaction, and no reload.
AddChannel(j) ==
  LET c == job[j].c
  IN /\ job[j].pc = "add" /\ rows[c] = Unborn
     /\ \E g \in Groups :
          rows' = [rows EXCEPT ![c] = Fresh(g)] /\ abil' = [abil EXCEPT ![c] = Abilities(Fresh(g))]
     /\ Writes(j) /\ job' = [job EXCEPT ![j] = Idle]
     /\ UNCHANGED <<cacheVars, lock, sync, test, ops, faults>>

\* FixAbility, one at a time (fixLock): the table is emptied, ...
FixTruncate(j) ==
  /\ job[j].pc = "fix"
  /\ IF \E i \in Jobs : job[i].pc \in {"find", "refill"}
     THEN Return(j, FALSE) /\ UNCHANGED <<abil, raced>>
     ELSE abil' = NoAbilities /\ Writes(j) /\ Goto(j, "find")
  /\ UNCHANGED <<rows, cacheVars, lock, sync, test, ops, faults>>

\* ... the rows are read, ...
FixFind(j) ==
  /\ job[j].pc = "find"
  /\ job' = [job EXCEPT ![j] = IF \A c \in Channels : rows[c].status = "gone" THEN Idle
                                ELSE [@ EXCEPT !.pc = "refill", !.loaded = rows]]
  /\ UNCHANGED <<rows, abil, cacheVars, lock, sync, test, ops, faults, raced>>

\* ... the abilities inserted: failures are counted, and the cache is loaded all the same.
FixRefill(j) ==
  /\ job[j].pc = "refill"
  /\ \E kept, lost \in SUBSET Channels :
       /\ abil' = Refill(abil, job[j].loaded, kept, lost)
       /\ IF kept \cup lost = {} THEN UNCHANGED faults ELSE Fault
  /\ Writes(j) /\ Reload(j)
  /\ UNCHANGED <<rows, cacheVars, lock, sync, test, ops>>

\* A call fails, and the handler returns its error: what it has written stays, and the
\* cache is not loaded.
CallFails(j) ==
  /\ job[j].pc \in {"read", "edit", "update", "recreate", "tagrows", "tag", "deleterow", "delete",
                    "deletebatch", "deletedisabled", "add", "fix", "find"}
  /\ Fault /\ job' = [job EXCEPT ![j] = Idle] /\ lock' = IF lock = j THEN None ELSE lock
  /\ UNCHANGED <<rows, abil, cacheVars, sync, test, ops, raced>>

\* What administrators ask for; they see the channels that exist.
Admin(j) ==
  /\ UNCHANGED test
  /\ \/ \E c \in Channels :
          \/ /\ rows[c].status # "gone"
             /\ \/ \E to \in {"enabled", "manual"} : Start(j, "status", FALSE, c, None, to)
                \/ Start(j, "deleterow", FALSE, c, None, "none")
                \/ Start(j, "deletebatch", FALSE, c, None, "none")
                \/ Start(j, "edit", FALSE, c, None, "edit")
                \/ /\ c \in MultiKey
                   /\ \E a \in KeyActions, k \in Keys : OfKey(a, k) /\ Start(j, "edit", FALSE, c, k, a)
          \/ rows[c] = Unborn /\ (\A i \in Jobs : ~Touches(i, c)) /\ Start(j, "add", FALSE, c, None, "none")
     \/ \E to \in {"enabled", "manual"} : Start(j, "tagrows", FALSE, "all", None, to)
     \/ Start(j, "deletedisabled", FALSE, "all", None, "none")
     \/ Start(j, "fix", FALSE, "all", None, "none")

-----------------------------------------------------------------------------
(* Automatic changes                                                       *)

\* The key a channel is used with, None when it has none left.
UsableKeys(c, row) ==
  IF c \in MultiKey /\ HasKey(row) THEN {k \in Keys : row.keys[k] = "on"} ELSE {None}

\* processChannelError: a goroutine disables what a request failed with.
DisableChannel(j, c, key) == Start(j, "status", TRUE, c, key, "auto") /\ UNCHANGED test

RequestFails(j) ==
  \E c \in index : \E k \in UsableKeys(c, idm[c]) : DisableChannel(j, c, k)

SelectChannelsForAutomaticTest(r) ==
  [c \in Channels |-> IF r[c].status \in {"enabled", "auto"} THEN r[c] ELSE Gone]

\* runChannelTestTask reads all channels; the ones to test are taken from that list.
TestStart ==
  /\ test = NoRows /\ test' = SelectChannelsForAutomaticTest(rows) /\ test' # NoRows
  /\ Counted /\ UNCHANGED <<rows, abil, cacheVars, lock, job, sync, faults, raced>>

\* performChannelTests: the rows are the ones read at the start.
TestChannel(j, c) ==
  LET row == test[c]
  IN /\ row.status # "gone" /\ test' = [test EXCEPT ![c] = Gone] /\ UNCHANGED ops
     /\ \/ UNCHANGED <<rows, abil, cacheVars, lock, job, sync, faults, raced>>
        \/ row.status = "enabled" /\ \E k \in UsableKeys(c, row) : Begin(j, "status", TRUE, c, k, "auto")
        \/ /\ row.status = "auto" /\ (c \in MultiKey => HasKey(row))
           /\ \E k \in UsableKeys(c, row) : Begin(j, "status", TRUE, c, k, "enabled")

-----------------------------------------------------------------------------
JobStep(j) ==
  \/ Load(j) \/ LoadAbilities(j) \/ Swap(j)
  \/ StatusInCache(j) \/ StatusRead(j) \/ StatusSave(j) \/ StatusAbility(j)
  \/ EditRead(j) \/ EditUpdate(j) \/ EditReread(j) \/ EditRecreate(j) \/ TagRows(j) \/ TagAbilities(j)
  \/ DeleteRow(j) \/ DeleteAbilities(j) \/ DeleteChannelBatch(j) \/ DeleteDisabledChannel(j) \/ AddChannel(j)
  \/ FixTruncate(j) \/ FixFind(j) \/ FixRefill(j)

PoolNext ==
  \/ \E j \in Jobs :
       JobStep(j) \/ CallFails(j) \/ Admin(j) \/ RequestFails(j) \/ \E c \in Channels : TestChannel(j, c)
  \/ TestStart \/ SyncLoad \/ SyncAbilities \/ SyncSwap \/ SyncPanics \/ Crash

PoolSpec == PoolInit /\ [][PoolNext]_poolVars

\* Goroutines run on, and the loop of SyncChannelCache never ends.
PoolFairSpec ==
  PoolSpec /\ WF_poolVars(SyncLoad \/ SyncAbilities \/ SyncSwap \/ SyncPanics)
  /\ \A j \in Jobs : WF_poolVars(JobStep(j))

-----------------------------------------------------------------------------
(* Properties                                                              *)

AtRest == \A j \in Jobs : ~InDb(j)

\* When operations of a channel do not overlap and no call fails, the abilities of a
\* channel say what its row says, its group too.  (Those that DeleteDisabledChannel leaves
\* behind may be enabled again by EnableChannelByTag.)
AbilitiesAgree ==
  (AtRest /\ ~raced /\ faults = 0) =>
    \A c \in Channels : rows[c].status # "gone" => abil[c] = Abilities(rows[c])

\* In the end the database can be loaded.  Overlapping edits, a status saved over an edit,
\* a failing FixAbility and a death between two writes do leave enabled channels in a group
\* that no ability names; then the next reload of the loop panics, the process dies, and
\* its start repairs what it cannot load, once and for all.
Reloadable == <>[]~Panics(rows, abil)

\* The node serves what the database says in the end: however reloads, failing calls,
\* restarts and status changes interleave, the index and the cached rows settle.
CacheConverges == <>[](idm = rows /\ index = ServedFrom(rows))

\* A failing request that disables the last key of a channel takes the channel out of
\* service, in the cache at once and, unless the keys were edited meanwhile, in the
\* database when the row is saved, although other keys were disabled or the cache
\* reloaded since the request took its key.
LastKeyDisables ==
  [][\A c \in MultiKey :
       /\ (HasKey(idm[c]) /\ ~HasKey(idm'[c]) /\ lock = None /\ lock' # None) => c \notin index'
       /\ (/\ HasKey(rows[c]) /\ ~HasKey(rows'[c]) /\ lock # None /\ ~raced'
           /\ job[lock].pc = "save" /\ job'[lock].pc # "save")
            => rows'[c].status # "enabled"]_poolVars
=============================================================================
