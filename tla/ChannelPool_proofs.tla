------------------------ MODULE ChannelPool_proofs -------------------------
(***************************************************************************)
(* Proofs about the rows, the abilities and the memory cache of the        *)
(* channels: for any number of channels, keys, jobs and operations.        *)
(***************************************************************************)
EXTENDS ChannelPool, FiniteSetTheorems, TLAPS

Status == {"enabled", "manual", "auto", "gone"}
KeyStatus == {"on", "auto", "manual", "deleted"}
GroupOrNone == Groups \cup {None}
RowType == [status : Status, keys : [Keys -> KeyStatus], group : GroupOrNone]
Table == [Channels -> RowType]
AbilityType == [status : {"none", "on", "off"}, group : GroupOrNone]
Abils == [Channels -> AbilityType]

\* The steps of operations on one channel, on all channels, and of the reload.
StatusPcs == {"status", "read", "save", "ability"}
OnePcs ==
  StatusPcs \cup {"edit", "update", "reread", "recreate", "deleterow", "delete", "deletebatch", "add"}
AllPcs == {"tagrows", "tag", "deletedisabled", "fix", "find", "refill"}
ReloadPcs == {"load", "groups", "swap"}

JobType ==
  [pc : OnePcs \cup AllPcs \cup ReloadPcs \cup {"idle"}, auto : BOOLEAN,
   c : Channels \cup {"all", None}, key : Keys \cup {None},
   to : Status \cup KeyActions \cup {"edit", "none"}, row : RowType, ok : BOOLEAN,
   loaded : Table \cup {None}]

\* What the step of a job says about its parameters.
Shaped(w) ==
  /\ w.pc \in OnePcs => w.c \in Channels
  /\ w.pc \in AllPcs => w.c = "all"
  /\ w.pc \in ReloadPcs => w.c # None
  /\ w.pc \in StatusPcs \cup {"tagrows", "tag"} => w.to \in {"enabled", "manual", "auto"}
  /\ (w.pc \in StatusPcs /\ w.key # None) => w.to # "manual"
  /\ (w.pc = "edit" /\ w.to # "edit") => w.to \in KeyActions /\ w.key \in Keys
  /\ w.pc \in {"groups", "swap", "refill"} => w.loaded \in Table
  /\ w.pc \in {"save", "update"} => w.row.status # "gone"

\* The type of the state.
TypeOK ==
  /\ rows \in Table /\ idm \in Table /\ abil \in Abils
  /\ index \subseteq Channels /\ lock \in Jobs \cup {None}
  /\ job \in [Jobs -> JobType] /\ \A j \in Jobs : Shaped(job[j])
  /\ sync \in [loaded : Table \cup {None}, ready : BOOLEAN]
  /\ sync.ready => sync.loaded \in Table
  /\ test \in Table /\ ops \in Nat /\ faults \in Nat /\ raced \in BOOLEAN

\* Only enabled channels are indexed.
IndexServed == index \subseteq ServedFrom(idm)

\* A row whose abilities are about to be deleted is deleted, and stays so.
DeletedIsGone == \A j \in Jobs : job[j].pc = "delete" => rows[job[j].c] = Gone

\* What a job has read is what is stored, unless another one wrote it meanwhile.
ReadIsStored(w) ==
  /\ w.pc = "save" =>
       /\ rows[w.c].status # "gone" /\ w.row = Changed(w.c, rows[w.c], w.key, w.to)
       /\ w.ok = (w.row.status # rows[w.c].status)
  /\ w.pc = "update" => rows[w.c].status # "gone" /\ w.row.status = rows[w.c].status
ReadsHold == ~raced => \A j \in Jobs : ReadIsStored(job[j])

\* What a job that has written the rows will write to the abilities agrees with them.
Mid(w) == w.pc \in {"ability", "reread", "recreate", "tag", "delete", "find", "refill"}
Follows(a, row) == a.status # "none" /\ a.group = row.group
WillAgree(w) ==
  /\ w.pc = "ability" =>
       /\ rows[w.c].status # "gone" /\ Ability(rows[w.c].status) = Ability(w.to)
       /\ Follows(abil[w.c], rows[w.c])
  /\ w.pc = "reread" => rows[w.c].status # "gone"
  /\ w.pc = "recreate" => w.row = rows[w.c]
  /\ w.pc = "tag" =>
       \A c \in Channels :
         rows[c].status # "gone" => rows[c].status = w.to /\ Follows(abil[c], rows[c])
  /\ w.pc = "refill" => w.loaded = rows
Agree(c) == rows[c].status # "gone" => abil[c] = Abilities(rows[c])
Clean == ~raced /\ faults = 0
AgreeOrMid ==
  Clean =>
    /\ \A j \in Jobs : WillAgree(job[j])
    /\ \A c \in Channels :
         (\A j \in Jobs : Mid(job[j]) => job[j].c \notin {c, "all"}) => Agree(c)

IInv ==
  TypeOK /\ IndexServed /\ DeletedIsGone /\ ReadsHold /\ AgreeOrMid

-----------------------------------------------------------------------------
(* The operators                                                           *)

\* Rebuilding the list of keys yields a list of keys.
LEMMA ReindexedType ==
  ASSUME NEW old \in [Keys -> KeyStatus], NEW now \in [Keys -> KeyStatus]
  PROVE Reindexed(old, now) \in [Keys -> KeyStatus]
<1>1. SUFFICES ASSUME NEW k \in Keys, now[k] # "deleted",
                      NEW same, same \subseteq Keys, same # {}
               PROVE old[CHOOSE i \in same : TRUE] \in KeyStatus
  BY DEF Reindexed, KeyStatus
<1> QED BY <1>1

\* The keys of one list that are not deleted have different indexes.
LEMMA IndexInjective ==
  ASSUME NEW keys \in [Keys -> KeyStatus], NEW i \in Keys, NEW k \in Keys,
         i < k, keys[k] # "deleted"
  PROVE IndexOf(keys, i) # IndexOf(keys, k)
<1> DEFINE S(n) == {m \in 1 .. n : keys[m] # "deleted"}
<1>1. i \in Nat /\ k \in Nat BY PoolAssumption DEF Keys
<1>2. IsFiniteSet(S(k))
  <2>1. IsFiniteSet(1 .. k) BY <1>1, FS_Interval
  <2>2. S(k) \subseteq 1 .. k OBVIOUS
  <2> QED BY <2>1, <2>2, FS_Subset
<1>3. S(i) \subseteq S(k) /\ S(i) # S(k) BY <1>1 DEF Keys
<1>4. Cardinality(S(i)) < Cardinality(S(k)) /\ Cardinality(S(k)) \in Nat
      /\ Cardinality(S(i)) \in Nat
  <2> HIDE DEF S
  <2>1. IsFiniteSet(S(i)) BY <1>2, <1>3, FS_Subset
  <2> QED BY <1>2, <1>3, <2>1, FS_Subset, FS_CardinalityType
<1> QED BY <1>4 DEF IndexOf

\* A status list that is as long as the keys is applied to the same keys.
LEMMA ReindexedSame ==
  ASSUME NEW old \in [Keys -> KeyStatus], NEW now \in [Keys -> KeyStatus],
         \A k \in Keys : old[k] = "deleted" <=> now[k] = "deleted"
  PROVE Reindexed(old, now) = old
<1> SUFFICES ASSUME NEW k \in Keys PROVE Reindexed(old, now)[k] = old[k]
  BY DEF Reindexed
<1>1. CASE now[k] = "deleted" BY <1>1 DEF Reindexed
<1>2. CASE now[k] # "deleted"
  <2> DEFINE same == {i \in Keys : old[i] # "deleted" /\ IndexOf(old, i) = IndexOf(now, k)}
  <2>1. {m \in 1 .. k : old[m] # "deleted"} = {m \in 1 .. k : now[m] # "deleted"}
    BY PoolAssumption DEF Keys
  <2>2. IndexOf(old, k) = IndexOf(now, k) BY <2>1 DEF IndexOf
  <2>3. k \in same BY <1>2, <2>2
  <2>4. ASSUME NEW i \in same PROVE i = k
    <3>1. i \in Int /\ k \in Int BY DEF Keys
    <3>2. ~(i < k) /\ ~(k < i) BY <1>2, <2>2, IndexInjective
    <3> QED BY <3>1, <3>2
  <2>5. (CHOOSE i \in same : TRUE) = k BY <2>3, <2>4
  <2>6. Reindexed(old, now)[k] = IF same = {} THEN "on" ELSE old[CHOOSE i \in same : TRUE]
    BY <1>2 DEF Reindexed
  <2> HIDE DEF same
  <2> QED BY <2>3, <2>5, <2>6
<1> QED BY <1>1, <1>2

\* The constant rows are rows.
LEMMA RowsTyped ==
  /\ \A g \in Groups : Fresh(g) \in RowType
  /\ Gone \in RowType /\ Unborn \in RowType /\ Gone # Unborn /\ NoRows \in Table
  /\ AllOn \in [Keys -> KeyStatus]
<1>1. 1 \in Keys BY PoolAssumption DEF Keys
<1>2. AllOn[1] = "on" /\ Unborn.keys = AllOn BY <1>1 DEF AllOn, Unborn
<1>3. Gone.keys[1] = "deleted" BY <1>1 DEF Gone
<1>4. \A g \in Groups : Fresh(g) \in RowType
  BY DEF Fresh, AllOn, RowType, Status, KeyStatus, GroupOrNone
<1>5. Gone \in RowType /\ Unborn \in RowType
  BY DEF Gone, Unborn, AllOn, RowType, Status, KeyStatus, GroupOrNone
<1> QED BY <1>2, <1>3, <1>4, <1>5 DEF AllOn, KeyStatus, NoRows, Table

\* The abilities of a row have their type.
LEMMA AbilitiesTyped ==
  /\ NoAbility \in AbilityType /\ NoAbilities \in Abils
  /\ \A row \in RowType : Abilities(row) \in AbilityType
BY DEF NoAbility, NoAbilities, AbilityType, Abils, Abilities, Ability, RowType, GroupOrNone

\* A job without operation is well-formed.
LEMMA IdleTyped == Idle \in JobType /\ Shaped(Idle)
BY RowsTyped DEF Idle, JobType, Shaped, OnePcs, AllPcs, ReloadPcs, StatusPcs, Status

\* An administrator's action on a key yields keys.
LEMMA ManageTyped ==
  ASSUME NEW keys \in [Keys -> KeyStatus], NEW k \in Keys, NEW a \in KeyActions
  PROVE ManageMultiKeys(a, keys, k) \in [Keys -> KeyStatus]
BY DEF ManageMultiKeys, KeyActions, KeyStatus

\* What HandlerMultiKeyUpdate makes of a row: a row, deleted only if it was before, with
\* the status asked for if it changes, and disabled when its last key goes.
LEMMA ChangedTyped ==
  ASSUME NEW c \in Channels, NEW row \in RowType, NEW key \in Keys \cup {None},
         NEW to \in {"enabled", "manual", "auto"}
  PROVE LET new == Changed(c, row, key, to)
        IN /\ new \in RowType
           /\ new.group = row.group
           /\ row.status # "gone" => new.status # "gone"
           /\ (key # None => to # "manual") => new.status \in {row.status, to}
           /\ (HasKey(row) /\ ~HasKey(new)) => new.status = "auto"
<1> USE PoolAssumption DEF RowType, Status, KeyStatus
<1>1. CASE c \notin MultiKey \/ key = None
  <2>1. Changed(c, row, key, to) = [row EXCEPT !.status = to]
    BY <1>1 DEF Changed, HandlerMultiKeyUpdate
  <2> QED BY <2>1 DEF HasKey
<1>2. CASE c \in MultiKey /\ key \in Keys /\ row.keys[key] = "deleted"
  <2>1. Changed(c, row, key, to) = row
    BY <1>2 DEF Changed, HandlerMultiKeyUpdate, Keys
  <2> QED BY <2>1
<1>3. CASE c \in MultiKey /\ key \in Keys /\ row.keys[key] # "deleted"
  <2> DEFINE r == [row EXCEPT !.keys[key] = IF to = "enabled" THEN "on" ELSE to]
  <2>1. Changed(c, row, key, to) = [r EXCEPT !.status = IF ~HasKey(r) THEN "auto"
                                        ELSE IF to = "enabled" THEN to ELSE @]
    BY <1>3 DEF Changed, HandlerMultiKeyUpdate, Keys
  <2>2. r \in RowType /\ r.status = row.status /\ r.group = row.group
        /\ r.keys = [row.keys EXCEPT ![key] = IF to = "enabled" THEN "on" ELSE to]
    BY <1>3
  <2>4. to = "enabled" => HasKey(r) BY <1>3, <2>2 DEF HasKey
  <2>5. /\ Changed(c, row, key, to).keys = r.keys
        /\ Changed(c, row, key, to).status \in {r.status, "auto", to}
        /\ Changed(c, row, key, to) \in RowType /\ Changed(c, row, key, to).group = r.group
        /\ ~HasKey(r) => Changed(c, row, key, to).status = "auto"
        /\ HasKey(r) => Changed(c, row, key, to).status \in {r.status, to}
    <3> HIDE DEF r
    <3> QED BY <2>1, <2>2
  <2> HIDE DEF r
  <2>6. HasKey(Changed(c, row, key, to)) <=> HasKey(r) BY <2>5 DEF HasKey
  <2>7. Changed(c, row, key, to).status # "gone" \/ row.status = "gone" BY <2>2, <2>5
  <2>8. (to # "manual") => Changed(c, row, key, to).status \in {row.status, to}
    BY <2>2, <2>4, <2>5
  <2>9. key # None BY <1>3 DEF Keys
  <2> QED BY <2>2, <2>5, <2>6, <2>7, <2>8, <2>9
<1> QED BY <1>1, <1>2, <1>3

\* A row that exists goes on existing.
LEMMA ChangedStays ==
  ASSUME NEW c \in Channels, NEW row \in RowType, NEW key \in Keys \cup {None},
         NEW to \in {"enabled", "manual", "auto"}, row.status # "gone"
  PROVE Changed(c, row, key, to) \in RowType /\ Changed(c, row, key, to).status # "gone"
BY ChangedTyped

\* A status that changes is the one asked for.
LEMMA ChangedTo ==
  ASSUME NEW c \in Channels, NEW row \in RowType, NEW key \in Keys \cup {None},
         NEW to \in {"enabled", "manual", "auto"}, key # None => to # "manual",
         Changed(c, row, key, to).status # row.status
  PROVE Changed(c, row, key, to).status = to
<1>1. Changed(c, row, key, to).status \in {row.status, to} BY ChangedTyped, Zenon
<1> QED BY <1>1

\* A channel whose last key goes is disabled.
LEMMA ChangedLast ==
  ASSUME NEW c \in Channels, NEW row \in RowType, NEW key \in Keys \cup {None},
         NEW to \in {"enabled", "manual", "auto"},
         HasKey(row), ~HasKey(Changed(c, row, key, to))
  PROVE Changed(c, row, key, to).status = "auto"
BY ChangedTyped

\* A change of status deletes and revives no key.
LEMMA ChangedDeleted ==
  ASSUME NEW c \in Channels, NEW row \in RowType, NEW key \in Keys \cup {None},
         NEW to \in {"enabled", "manual", "auto"}
  PROVE \A k \in Keys : Changed(c, row, key, to).keys[k] = "deleted" <=> row.keys[k] = "deleted"
<1> USE PoolAssumption DEF RowType, KeyStatus
<1>1. CASE c \notin MultiKey \/ key = None
  <2>1. Changed(c, row, key, to) = [row EXCEPT !.status = to]
    BY <1>1 DEF Changed, HandlerMultiKeyUpdate
  <2> QED BY <2>1
<1>2. CASE c \in MultiKey /\ key \in Keys /\ row.keys[key] = "deleted"
  <2>1. Changed(c, row, key, to) = row
    BY <1>2 DEF Changed, HandlerMultiKeyUpdate, Keys
  <2> QED BY <2>1
<1>3. CASE c \in MultiKey /\ key \in Keys /\ row.keys[key] # "deleted"
  <2>1. Changed(c, row, key,
                to).keys = [row.keys EXCEPT ![key] = IF to = "enabled" THEN "on" ELSE to]
    BY <1>3 DEF Changed, HandlerMultiKeyUpdate, Keys
  <2> QED BY <1>3, <2>1
<1> QED BY <1>1, <1>2, <1>3

-----------------------------------------------------------------------------
(* What a step of one job changes                                          *)

\* The other jobs keep their operations; the step keeps to the channels of its own; it
\* writes only when no other job is between reading and writing one of them, or says so.
Frame(j) ==
  /\ \A i \in Jobs \ {j} : job'[i] = job[i]
  /\ job[j].pc = "idle" \/ job'[j].pc = "idle" \/ job'[j].c = job[j].c
  /\ \A c \in Channels :
       job[j].c \notin {c, "all"} => rows'[c] = rows[c] /\ abil'[c] = abil[c]
  /\ (rows' = rows /\ abil' = abil) \/ ~Overlaps(j) \/ raced'
  /\ raced => raced'
  /\ faults' = 0 => faults = 0

Reloading(c) == [Idle EXCEPT !.pc = "load", !.c = c]

\* A job that is about to reload is well-formed.
LEMMA ReloadingTyped ==
  ASSUME NEW c \in Channels \cup {"all"}
  PROVE /\ Reloading(c) \in JobType /\ Shaped(Reloading(c))
        /\ Reloading(c).pc = "load" /\ Reloading(c).c = c /\ ~Reloading(c).auto
BY IdleTyped, PoolAssumption DEF Reloading, Idle, JobType, Shaped, OnePcs, AllPcs, ReloadPcs,
   StatusPcs

\* A job that ends, or goes on to reload the cache.
Ends(j) ==
  /\ \A i \in Jobs \ {j} : job'[i] = job[i]
  /\ job' = [job EXCEPT ![j] = job'[j]]
  /\ job'[j] \in {Idle, Reloading(job[j].c)}

\* Reload ends the operation.
LEMMA ReloadEnds ==
  ASSUME TypeOK, NEW j \in Jobs, Reload(j)
  PROVE Ends(j) /\ job'[j] = Reloading(job[j].c)
BY DEF TypeOK, Reload, Ends, Reloading

\* Return ends the operation, with a reload or without.
LEMMA ReturnEnds ==
  ASSUME TypeOK, NEW j \in Jobs, NEW ok, Return(j, ok)
  PROVE Ends(j)
<1>1. CASE Reload(j) BY <1>1, ReloadEnds
<1>2. CASE job' = [job EXCEPT ![j] = Idle] BY <1>2 DEF TypeOK, Ends
<1> QED BY <1>1, <1>2 DEF Return

\* A job that ends is idle or about to reload, for the channel it had.
LEMMA EndsWhere ==
  ASSUME TypeOK, NEW j \in Jobs, Ends(j), job[j].c \in Channels \cup {"all"}
  PROVE /\ job' \in [Jobs -> JobType] /\ \A i \in Jobs : Shaped(job'[i])
        /\ job'[j].pc \in {"idle", "load"}
        /\ job'[j].pc = "idle" \/ job'[j].c = job[j].c
        /\ ~job'[j].auto
<1>1. job'[j] \in JobType /\ Shaped(job'[j]) /\ job'[j].pc \in {"idle", "load"}
      /\ (job'[j].pc = "idle" \/ job'[j].c = job[j].c) /\ ~job'[j].auto
  <2>1. CASE job'[j] = Idle BY <2>1, IdleTyped DEF Idle
  <2>2. CASE job'[j] = Reloading(job[j].c) BY <2>2, ReloadingTyped
  <2> QED BY <2>1, <2>2 DEF Ends
<1> QED BY <1>1 DEF Ends, TypeOK

\* After the save the job keeps to its channel.
LEMMA AfterSaveDoes ==
  ASSUME TypeOK, NEW j \in Jobs, NEW saved \in BOOLEAN, AfterSave(j, saved), job[j].c \in Channels
  PROVE /\ \A i \in Jobs \ {j} : job'[i] = job[i]
        /\ job'[j].pc = "idle" \/ job'[j].c = job[j].c
<1>1. CASE job[j].ok
  BY <1>1 DEF AfterSave, TypeOK, JobType
<1>2. CASE ~job[j].ok
  <2>1. Ends(j) BY <1>2, ReturnEnds DEF AfterSave
  <2> QED BY <2>1, EndsWhere DEF Ends
<1> QED BY <1>1, <1>2

\* A call that fails is counted.
LEMMA Counts ==
  ASSUME TypeOK, UNCHANGED faults \/ Fault
  PROVE faults' \in Nat /\ (faults' = 0 => faults = 0)
BY DEF TypeOK, Fault

\* Reading, and writing the memory cache, keep the frame: the database stays as it is.
LEMMA LoadFrame ==
  ASSUME TypeOK, NEW j \in Jobs, Load(j)
  PROVE Frame(j)
<1>1. \E found : job' = [job EXCEPT ![j].pc = "groups", ![j].loaded = found] BY DEF Load
<1>2. UNCHANGED <<rows, abil, raced>> BY DEF Load
<1>3. UNCHANGED faults \/ Fault BY DEF Load, Finds
<1> QED BY <1>1, <1>2, <1>3, Counts DEF Frame, TypeOK, JobType

\* LoadAbilities keeps the frame.
LEMMA LoadAbilitiesFrame ==
  ASSUME TypeOK, NEW j \in Jobs, LoadAbilities(j)
  PROVE Frame(j)
<1>1. \/ job' = [job EXCEPT ![j] = Idle]
      \/ job' = [job EXCEPT ![j] = [job[j] EXCEPT !.pc = "swap"]]
  BY DEF LoadAbilities, TypeOK
<1>2. UNCHANGED <<rows, abil, raced>> BY DEF LoadAbilities
<1>3. UNCHANGED faults \/ Fault BY DEF LoadAbilities, Finds
<1> QED BY <1>1, <1>2, <1>3, Counts DEF Frame, TypeOK, JobType, Idle

\* Swap keeps the frame.
LEMMA SwapFrame ==
  ASSUME TypeOK, NEW j \in Jobs, Swap(j)
  PROVE Frame(j)
BY IdleTyped DEF Swap, Replace, Frame, TypeOK, Shaped, OnePcs, AllPcs, StatusPcs, cacheVars,
  Idle, Table

\* StatusInCache keeps the frame.
LEMMA StatusInCacheFrame ==
  ASSUME TypeOK, NEW j \in Jobs, StatusInCache(j)
  PROVE Frame(j)
<1>1. \A i \in Jobs \ {j} : job'[i] = job[i]
  BY DEF StatusInCache, Return, Reload, Goto, TypeOK
<1>2. job'[j].pc = "idle" \/ job'[j].c = job[j].c
  BY DEF StatusInCache, Return, Reload, Goto, TypeOK, Idle, JobType
<1>3. /\ \A c \in Channels :
           job[j].c \notin {c, "all"} => rows'[c] = rows[c] /\ abil'[c] = abil[c]
      /\ (rows' = rows /\ abil' = abil) \/ ~Overlaps(j) \/ raced'
      /\ raced => raced'
      /\ faults' = 0 => faults = 0
  BY DEF StatusInCache, TypeOK, Shaped, OnePcs, AllPcs, StatusPcs, cacheVars, Table
<1> QED BY <1>1, <1>2, <1>3 DEF Frame

\* StatusRead keeps the frame.
LEMMA StatusReadFrame ==
  ASSUME TypeOK, NEW j \in Jobs, StatusRead(j)
  PROVE Frame(j)
<1>1. \A i \in Jobs \ {j} : job'[i] = job[i]
  BY DEF StatusRead, Return, Reload, TypeOK
<1>2. job'[j].pc = "idle" \/ job'[j].c = job[j].c
  BY DEF StatusRead, Return, Reload, TypeOK, Idle, JobType
<1>3. /\ \A c \in Channels :
           job[j].c \notin {c, "all"} => rows'[c] = rows[c] /\ abil'[c] = abil[c]
      /\ (rows' = rows /\ abil' = abil) \/ ~Overlaps(j) \/ raced'
      /\ raced => raced'
      /\ faults' = 0 => faults = 0
  BY DEF StatusRead, TypeOK, Shaped, OnePcs, AllPcs, StatusPcs, cacheVars, Table
<1> QED BY <1>1, <1>2, <1>3 DEF Frame

\* The steps that write rows or abilities keep the frame: they name overlaps in raced.
LEMMA StatusSaveFrame ==
  ASSUME TypeOK, NEW j \in Jobs, StatusSave(j)
  PROVE Frame(j)
<1>0. job[j].c \in Channels BY DEF StatusSave, TypeOK, Shaped, OnePcs, StatusPcs
<1>1. /\ \A i \in Jobs \ {j} : job'[i] = job[i]
      /\ job'[j].pc = "idle" \/ job'[j].c = job[j].c
  BY <1>0, AfterSaveDoes DEF StatusSave
<1>2. raced => raced' BY DEF StatusSave, Writes
<1>3. UNCHANGED faults \/ Fault BY DEF StatusSave
<1>4. faults' = 0 => faults = 0 BY <1>3, Counts
<1>5. abil' = abil /\ (rows' = rows \/ raced' = (raced \/ Overlaps(j)))
  BY DEF StatusSave, Writes
<1>6. \A c \in Channels : job[j].c \notin {c, "all"} => rows'[c] = rows[c]
  BY DEF StatusSave, TypeOK, Table
<1> QED BY <1>1, <1>2, <1>4, <1>5, <1>6 DEF Frame

\* StatusAbility keeps the frame.
LEMMA StatusAbilityFrame ==
  ASSUME TypeOK, NEW j \in Jobs, StatusAbility(j)
  PROVE Frame(j)
<1>0. job[j].c \in Channels BY DEF StatusAbility, TypeOK, Shaped, OnePcs, StatusPcs
<1>1. Ends(j) BY ReturnEnds DEF StatusAbility
<1>2. /\ \A i \in Jobs \ {j} : job'[i] = job[i]
      /\ job'[j].pc = "idle" \/ job'[j].c = job[j].c
  BY <1>0, <1>1, EndsWhere DEF Ends
<1>3. UNCHANGED faults \/ Fault BY DEF StatusAbility
<1>4. faults' = 0 => faults = 0 BY <1>3, Counts
<1>5. /\ rows' = rows
      /\ \/ UNCHANGED <<abil, raced>>
         \/ abil' = SetAbility(job[j].c, job[j].to) /\ raced' = (raced \/ Overlaps(j))
  BY DEF StatusAbility, Writes
<1>6. \A c \in Channels : job[j].c \notin {c, "all"} => abil'[c] = abil[c]
  BY <1>5 DEF SetAbility, TypeOK, Abils
<1>7. (raced => raced') /\ (abil' = abil \/ ~Overlaps(j) \/ raced')
  <2>1. CASE UNCHANGED <<abil, raced>> BY <2>1
  <2>2. CASE raced' = (raced \/ Overlaps(j)) BY <2>2
  <2> QED BY <1>5, <2>1, <2>2
<1> QED BY <1>2, <1>4, <1>5, <1>6, <1>7 DEF Frame

\* EditRead keeps the frame.
LEMMA EditReadFrame ==
  ASSUME TypeOK, NEW j \in Jobs, EditRead(j)
  PROVE Frame(j)
<1>0. job[j].c \in Channels BY DEF EditRead, TypeOK, Shaped, OnePcs
<1>1. /\ \A i \in Jobs \ {j} : job'[i] = job[i]
      /\ job'[j].pc = "idle" \/ job'[j].c = job[j].c
  <2>1. CASE Return(j, FALSE) BY <1>0, <2>1, ReturnEnds, EndsWhere DEF Ends
  <2>2. CASE job' = [job EXCEPT ![j].pc = "update", ![j].row = rows[job[j].c]]
    BY <2>2 DEF TypeOK, JobType
  <2> DEFINE c == job[j].c
             left == ManageMultiKeys(job[j].to, rows[c].keys, job[j].key)
             none == \A k \in Keys : left[k] = "deleted"
  <2>3. CASE job' = [job EXCEPT ![j].pc = "update", ![j].ok = ~none, ![j].key = None, ![j].to = "none",
                                ![j].row = [rows[c] EXCEPT !.keys = IF none THEN AllOn ELSE left]]
    <3>1. \E x, y : job' = [job EXCEPT ![j].pc = "update", ![j].ok = x, ![j].key = None,
                                        ![j].to = "none", ![j].row = y]
      BY <2>3, Zenon
    <3> QED BY <3>1 DEF TypeOK, JobType
  <2> QED BY <2>1, <2>2, <2>3 DEF EditRead
<1>3. /\ \A c \in Channels :
           job[j].c \notin {c, "all"} => rows'[c] = rows[c] /\ abil'[c] = abil[c]
      /\ (rows' = rows /\ abil' = abil) \/ ~Overlaps(j) \/ raced'
      /\ raced => raced'
      /\ faults' = 0 => faults = 0
  BY DEF EditRead, TypeOK, Shaped, OnePcs, AllPcs, StatusPcs, cacheVars, Table
<1> QED BY <1>1, <1>3 DEF Frame

\* EditUpdate keeps the frame.
LEMMA EditUpdateFrame ==
  ASSUME TypeOK, NEW j \in Jobs, EditUpdate(j)
  PROVE Frame(j)
<1>1. \E r : job' = [job EXCEPT ![j].pc = "reread", ![j].row = r]
  BY DEF EditUpdate
<1>2. (\A i \in Jobs \ {j} : job'[i] = job[i]) /\ job'[j].c = job[j].c
  BY <1>1 DEF TypeOK, JobType
<1>3. abil' = abil /\ faults' = faults /\ raced' = (raced \/ Overlaps(j)) BY DEF EditUpdate, Writes
<1>4. rows' = rows \/ \E x : rows' = [rows EXCEPT ![job[j].c] = x]
  BY DEF EditUpdate
<1>5. \A c \in Channels : job[j].c \notin {c, "all"} => rows'[c] = rows[c]
  BY <1>4 DEF TypeOK, Table
<1> QED BY <1>2, <1>3, <1>5 DEF Frame

\* EditReread keeps the frame.
LEMMA EditRereadFrame ==
  ASSUME TypeOK, NEW j \in Jobs, EditReread(j)
  PROVE Frame(j)
<1>1. \E row : job' = [job EXCEPT ![j].pc = "recreate", ![j].row = row] BY DEF EditReread
<1>2. (\A i \in Jobs \ {j} : job'[i] = job[i]) /\ job'[j].c = job[j].c
  BY <1>1 DEF TypeOK, JobType
<1>3. UNCHANGED <<rows, abil, raced>> BY DEF EditReread
<1>4. UNCHANGED faults \/ Fault BY DEF EditReread
<1> QED BY <1>2, <1>3, <1>4, Counts DEF Frame

\* EditRecreate keeps the frame.
LEMMA EditRecreateFrame ==
  ASSUME TypeOK, NEW j \in Jobs, EditRecreate(j)
  PROVE Frame(j)
<1>0. job[j].c \in Channels BY DEF EditRecreate, TypeOK, Shaped, OnePcs
<1>1. Ends(j) BY ReloadEnds DEF EditRecreate
<1>2. /\ \A i \in Jobs \ {j} : job'[i] = job[i]
      /\ job'[j].pc = "idle" \/ job'[j].c = job[j].c
  BY <1>0, <1>1, EndsWhere DEF Ends
<1>3. rows' = rows /\ faults' = faults /\ raced' = (raced \/ Overlaps(j)) BY DEF EditRecreate, Writes
<1>4. \A c \in Channels : job[j].c \notin {c, "all"} => abil'[c] = abil[c]
  BY DEF EditRecreate, TypeOK, Abils
<1> QED BY <1>2, <1>3, <1>4 DEF Frame

\* TagRows keeps the frame.
LEMMA TagRowsFrame ==
  ASSUME TypeOK, NEW j \in Jobs, TagRows(j)
  PROVE Frame(j)
<1>1. \A i \in Jobs \ {j} : job'[i] = job[i]
  BY DEF TagRows, Goto, TypeOK
<1>2. job'[j].pc = "idle" \/ job'[j].c = job[j].c
  BY DEF TagRows, Goto, TypeOK, Idle, JobType
<1>3. /\ \A c \in Channels :
           job[j].c \notin {c, "all"} => rows'[c] = rows[c] /\ abil'[c] = abil[c]
      /\ (rows' = rows /\ abil' = abil) \/ ~Overlaps(j) \/ raced'
      /\ raced => raced'
      /\ faults' = 0 => faults = 0
  BY DEF TagRows, Writes, TypeOK, Shaped, OnePcs, AllPcs, StatusPcs, cacheVars, Table
<1> QED BY <1>1, <1>2, <1>3 DEF Frame

\* TagAbilities keeps the frame.
LEMMA TagAbilitiesFrame ==
  ASSUME TypeOK, NEW j \in Jobs, TagAbilities(j)
  PROVE Frame(j)
<1>0. job[j].c = "all" BY DEF TagAbilities, TypeOK, Shaped, AllPcs
<1>1. Ends(j) BY ReloadEnds DEF TagAbilities
<1>2. /\ \A i \in Jobs \ {j} : job'[i] = job[i]
      /\ job'[j].pc = "idle" \/ job'[j].c = job[j].c
  BY <1>0, <1>1, EndsWhere DEF Ends
<1>3. faults' = faults /\ raced' = (raced \/ Overlaps(j)) BY DEF TagAbilities, Writes
<1> QED BY <1>0, <1>2, <1>3 DEF Frame

\* DeleteRow keeps the frame.
LEMMA DeleteRowFrame ==
  ASSUME TypeOK, NEW j \in Jobs, DeleteRow(j)
  PROVE Frame(j)
<1>1. \A i \in Jobs \ {j} : job'[i] = job[i]
  BY DEF DeleteRow, Goto, TypeOK
<1>2. job'[j].pc = "idle" \/ job'[j].c = job[j].c
  BY DEF DeleteRow, Goto, TypeOK, Idle, JobType
<1>3. /\ \A c \in Channels :
           job[j].c \notin {c, "all"} => rows'[c] = rows[c] /\ abil'[c] = abil[c]
      /\ (rows' = rows /\ abil' = abil) \/ ~Overlaps(j) \/ raced'
      /\ raced => raced'
      /\ faults' = 0 => faults = 0
  BY DEF DeleteRow, Writes, TypeOK, Shaped, OnePcs, AllPcs, StatusPcs, cacheVars, Table
<1> QED BY <1>1, <1>2, <1>3 DEF Frame

\* DeleteAbilities keeps the frame.
LEMMA DeleteAbilitiesFrame ==
  ASSUME TypeOK, NEW j \in Jobs, DeleteAbilities(j)
  PROVE Frame(j)
BY IdleTyped DEF DeleteAbilities, Writes, Reload, Frame, TypeOK, Shaped, OnePcs, AllPcs, StatusPcs,
   cacheVars, Abils,
  Idle, Table

\* DeleteChannelBatch keeps the frame.
LEMMA DeleteChannelBatchFrame ==
  ASSUME TypeOK, NEW j \in Jobs, DeleteChannelBatch(j)
  PROVE Frame(j)
BY IdleTyped DEF DeleteChannelBatch, Writes, Reload, Frame, TypeOK, Shaped, OnePcs, AllPcs,
   StatusPcs, cacheVars, Abils,
  Idle, Table

\* DeleteDisabledChannel keeps the frame.
LEMMA DeleteDisabledChannelFrame ==
  ASSUME TypeOK, NEW j \in Jobs, DeleteDisabledChannel(j)
  PROVE Frame(j)
BY IdleTyped DEF DeleteDisabledChannel, Writes, Reload, Frame, TypeOK, Shaped, OnePcs, AllPcs,
   StatusPcs, cacheVars,
  Idle, Table

\* AddChannel keeps the frame.
LEMMA AddChannelFrame ==
  ASSUME TypeOK, NEW j \in Jobs, AddChannel(j)
  PROVE Frame(j)
<1>1. (\A i \in Jobs \ {j} : job'[i] = job[i]) /\ job'[j].pc = "idle"
  BY DEF AddChannel, TypeOK, Idle
<1>2. faults' = faults /\ raced' = (raced \/ Overlaps(j)) BY DEF AddChannel, Writes
<1>3. \E x, y : rows' = [rows EXCEPT ![job[j].c] = x] /\ abil' = [abil EXCEPT ![job[j].c] = y]
  BY DEF AddChannel
<1>4. \A c \in Channels : job[j].c \notin {c, "all"} => rows'[c] = rows[c] /\ abil'[c] = abil[c]
  BY <1>3 DEF TypeOK, Table, Abils
<1> QED BY <1>1, <1>2, <1>4 DEF Frame

\* FixTruncate keeps the frame.
LEMMA FixTruncateFrame ==
  ASSUME TypeOK, NEW j \in Jobs, FixTruncate(j)
  PROVE Frame(j)
<1>0. job[j].c = "all" BY DEF FixTruncate, TypeOK, Shaped, AllPcs
<1>1. /\ \A i \in Jobs \ {j} : job'[i] = job[i]
      /\ job'[j].pc = "idle" \/ job'[j].c = job[j].c
  <2>1. CASE Return(j, FALSE) BY <1>0, <2>1, ReturnEnds, EndsWhere DEF Ends
  <2>2. CASE Goto(j, "find") BY <2>2 DEF Goto, TypeOK, JobType
  <2> QED BY <2>1, <2>2 DEF FixTruncate
<1>2. /\ rows' = rows /\ faults' = faults
      /\ UNCHANGED <<abil, raced>> \/ raced' = (raced \/ Overlaps(j))
  BY DEF FixTruncate, Writes
<1>3. (raced => raced') /\ (abil' = abil \/ ~Overlaps(j) \/ raced') BY DEF FixTruncate, Writes
<1> QED BY <1>0, <1>1, <1>2, <1>3 DEF Frame

\* FixFind keeps the frame.
LEMMA FixFindFrame ==
  ASSUME TypeOK, NEW j \in Jobs, FixFind(j)
  PROVE Frame(j)
<1>1. \/ job' = [job EXCEPT ![j] = Idle]
      \/ job' = [job EXCEPT ![j] = [job[j] EXCEPT !.pc = "refill", !.loaded = rows]]
  BY DEF FixFind, TypeOK
<1>2. UNCHANGED <<rows, abil, raced, faults>> BY DEF FixFind
<1>3. (\A i \in Jobs \ {j} : job'[i] = job[i]) /\ (job'[j].pc = "idle" \/ job'[j].c = job[j].c)
  <2>1. CASE job' = [job EXCEPT ![j] = Idle] BY <2>1 DEF TypeOK, Idle
  <2>2. CASE job' = [job EXCEPT ![j] = [job[j] EXCEPT !.pc = "refill", !.loaded = rows]]
    BY <2>2 DEF TypeOK, JobType
  <2> QED BY <1>1, <2>1, <2>2
<1> QED BY <1>2, <1>3 DEF Frame

\* FixRefill keeps the frame.
LEMMA FixRefillFrame ==
  ASSUME TypeOK, NEW j \in Jobs, FixRefill(j)
  PROVE Frame(j)
<1>0. job[j].c = "all" BY DEF FixRefill, TypeOK, Shaped, AllPcs
<1>1. Ends(j) BY ReloadEnds DEF FixRefill
<1>2. /\ \A i \in Jobs \ {j} : job'[i] = job[i]
      /\ job'[j].pc = "idle" \/ job'[j].c = job[j].c
  BY <1>0, <1>1, EndsWhere DEF Ends
<1>3. raced' = (raced \/ Overlaps(j)) BY DEF FixRefill, Writes
<1>4. UNCHANGED faults \/ Fault BY DEF FixRefill
<1> QED BY <1>0, <1>2, <1>3, <1>4, Counts DEF Frame

\* A failing call keeps the frame.
LEMMA CallFailsFrame ==
  ASSUME TypeOK, NEW j \in Jobs, CallFails(j)
  PROVE Frame(j)
<1>1. (\A i \in Jobs \ {j} : job'[i] = job[i]) /\ job'[j].pc = "idle"
  BY DEF CallFails, TypeOK, Idle
<1>2. UNCHANGED <<rows, abil, raced>> /\ Fault BY DEF CallFails
<1> QED BY <1>1, <1>2, Counts DEF Frame

-----------------------------------------------------------------------------
(* Types                                                                   *)

\* A well-formed job may be stored.
LEMMA JobsTyped ==
  ASSUME TypeOK, NEW j \in Jobs, NEW w \in JobType, Shaped(w), job' = [job EXCEPT ![j] = w]
  PROVE job' \in [Jobs -> JobType] /\ \A i \in Jobs : Shaped(job'[i])
BY DEF TypeOK

\* A step of a job that leaves the rest of the state alone but for tables of its type.
LEMMA TypeStep ==
  ASSUME TypeOK, job' \in [Jobs -> JobType], \A i \in Jobs : Shaped(job'[i]),
         rows' \in Table, abil' \in Abils,
         lock' \in Jobs \cup {None}, raced' \in BOOLEAN,
         ops' \in Nat, faults' \in Nat,
         UNCHANGED <<idm, index, sync, test>>
  PROVE TypeOK'
BY DEF TypeOK

\* The steps of the reload and of UpdateChannelStatus preserve the types.
LEMMA LoadType ==
  ASSUME TypeOK, NEW j \in Jobs, Load(j)
  PROVE TypeOK'
<1>0. PICK found \in {rows, NoRows} : job' = [job EXCEPT ![j].pc = "groups", ![j].loaded = found]
  BY DEF Load
<1> DEFINE w == [job[j] EXCEPT !.pc = "groups", !.loaded = found]
<1>1. job[j] \in JobType /\ found \in Table /\ job[j].c # None
  BY RowsTyped DEF TypeOK, Load, Shaped, ReloadPcs
<1>2. w \in JobType /\ Shaped(w)
  BY <1>1 DEF JobType, Shaped, ReloadPcs, OnePcs, AllPcs, StatusPcs
<1>3. job' = [job EXCEPT ![j] = w] BY <1>0 DEF TypeOK
<1>4. UNCHANGED faults \/ Fault BY DEF Load, Finds
<1>5. UNCHANGED <<rows, abil, idm, index, lock, sync, test, ops, raced>> BY DEF Load, cacheVars
<1> HIDE DEF w
<1> QED BY <1>2, <1>3, <1>4, <1>5, Counts, JobsTyped, TypeStep DEF TypeOK

\* LoadAbilities preserves the types.
LEMMA LoadAbilitiesType ==
  ASSUME TypeOK, NEW j \in Jobs, LoadAbilities(j)
  PROVE TypeOK'
<1> DEFINE w == [job[j] EXCEPT !.pc = "swap"]
<1>1. job[j] \in JobType /\ job[j].loaded \in Table /\ job[j].c # None
  BY DEF TypeOK, LoadAbilities, Shaped, ReloadPcs
<1>2. w \in JobType /\ Shaped(w)
  BY <1>1 DEF JobType, Shaped, ReloadPcs, OnePcs, AllPcs, StatusPcs
<1>3. job' = [job EXCEPT ![j] = w] \/ job' = [job EXCEPT ![j] = Idle]
  BY DEF LoadAbilities, TypeOK
<1>4. UNCHANGED faults \/ Fault BY DEF LoadAbilities, Finds
<1>5. UNCHANGED <<rows, abil, idm, index, lock, sync, test, ops, raced>> BY DEF LoadAbilities, cacheVars
<1> HIDE DEF w
<1> QED BY <1>2, <1>3, <1>4, <1>5, IdleTyped, Counts, JobsTyped, TypeStep DEF TypeOK

\* Swap preserves the types.
LEMMA SwapType ==
  ASSUME TypeOK, NEW j \in Jobs, Swap(j)
  PROVE TypeOK'
<1>1. job' \in [Jobs -> JobType] /\ \A i \in Jobs : Shaped(job'[i])
  BY IdleTyped, JobsTyped DEF Swap
<1>2. idm' \in Table /\ index' \subseteq Channels
  BY DEF Swap, Replace, ServedFrom, TypeOK, Shaped
<1> QED BY <1>1, <1>2 DEF Swap, TypeOK

\* StatusInCache preserves the types.
LEMMA StatusInCacheType ==
  ASSUME TypeOK, NEW j \in Jobs, StatusInCache(j)
  PROVE TypeOK'
<1> DEFINE c == job[j].c
           new == Changed(c, idm[c], job[j].key, job[j].to)
           w == [job[j] EXCEPT !.pc = "read"]
<1>1. /\ job[j] \in JobType /\ c \in Channels /\ job[j].to \in {"enabled", "manual", "auto"}
      /\ job[j].key \in Keys \cup {None} /\ idm[c] \in RowType
      /\ Shaped(job[j]) /\ job[j].pc = "status"
  BY DEF TypeOK, StatusInCache, Shaped, OnePcs, StatusPcs, JobType, Table
<1>2. w \in JobType /\ Shaped(w)
  BY <1>1 DEF JobType, Shaped, ReloadPcs, OnePcs, AllPcs, StatusPcs
<1>3. new \in RowType BY <1>1, ChangedTyped
<1>4. CASE Return(j, FALSE) /\ UNCHANGED <<cacheVars, lock>>
  <2>1. job' \in [Jobs -> JobType] /\ \A i \in Jobs : Shaped(job'[i])
    BY <1>1, <1>4, ReturnEnds, EndsWhere
  <2> QED BY <1>4, <2>1, TypeStep DEF StatusInCache, TypeOK, cacheVars
<1>5. CASE /\ idm' = [idm EXCEPT ![c] = new] /\ index' \subseteq index
           /\ lock' = j /\ Goto(j, "read")
  <2>1. job' = [job EXCEPT ![j] = w] BY <1>5 DEF Goto, TypeOK
  <2>2. job' \in [Jobs -> JobType] /\ \A i \in Jobs : Shaped(job'[i])
    <3> HIDE DEF w
    <3> QED BY <2>1, <1>2, JobsTyped
  <2>3. idm' \in Table
    <3> HIDE DEF new
    <3> QED BY <1>3, <1>5 DEF TypeOK, Table
  <2> QED BY <1>5, <2>2, <2>3 DEF StatusInCache, TypeOK
<1> QED BY <1>4, <1>5 DEF StatusInCache

\* StatusRead preserves the types.
LEMMA StatusReadType ==
  ASSUME TypeOK, NEW j \in Jobs, StatusRead(j)
  PROVE TypeOK'
<1> DEFINE c == job[j].c
           new == Changed(c, rows[c], job[j].key, job[j].to)
           ok == new.status # rows[c].status
           w == [job[j] EXCEPT !.pc = "save", !.row = new, !.ok = ok]
<1>1. /\ job[j] \in JobType /\ c \in Channels /\ job[j].to \in {"enabled", "manual", "auto"}
      /\ job[j].key \in Keys \cup {None} /\ rows[c] \in RowType
      /\ Shaped(job[j]) /\ job[j].pc = "read"
  BY DEF TypeOK, StatusRead, Shaped, OnePcs, StatusPcs, JobType, Table
<1>4. CASE Return(j, FALSE) /\ lock' = None
  <2>1. job' \in [Jobs -> JobType] /\ \A i \in Jobs : Shaped(job'[i])
    BY <1>1, <1>4, ReturnEnds, EndsWhere
  <2> QED BY <1>4, <2>1, TypeStep DEF StatusRead, TypeOK, cacheVars
<1>5. CASE /\ rows[c].status # "gone"
           /\ job' = [job EXCEPT ![j].pc = "save", ![j].row = new, ![j].ok = ok]
           /\ UNCHANGED lock
  <2>0. /\ c \in Channels /\ rows[c] \in RowType /\ job[j].key \in Keys \cup {None}
        /\ job[j].to \in {"enabled", "manual", "auto"} /\ rows[c].status # "gone"
    BY <1>1, <1>5
  <2>1. new \in RowType /\ new.status # "gone" BY <2>0, ChangedStays
  <2>2. ok \in BOOLEAN OBVIOUS
  <2> HIDE DEF new, ok
  <2>3. w \in JobType /\ Shaped(w)
    BY <1>1, <2>1, <2>2 DEF JobType, Shaped, ReloadPcs, OnePcs, AllPcs, StatusPcs
  <2>4. job' = [job EXCEPT ![j] = w] BY <1>5 DEF TypeOK
  <2> HIDE DEF w
  <2> QED BY <1>5, <2>3, <2>4, JobsTyped, TypeStep DEF StatusRead, TypeOK, cacheVars
<1> QED BY <1>4, <1>5 DEF StatusRead

\* The job after the save: it ends, or its status goes to the abilities.
LEMMA AfterSaveTyped ==
  ASSUME TypeOK, NEW j \in Jobs, NEW saved \in BOOLEAN, AfterSave(j, saved), job[j].pc = "save"
  PROVE /\ job' \in [Jobs -> JobType] /\ \A i \in Jobs : Shaped(job'[i])
        /\ lock' \in Jobs \cup {None}
        /\ ~job[j].ok => Ends(j)
        /\ job[j].ok => job'[j] = [job[j] EXCEPT !.pc = "ability", !.ok = saved, !.key = None,
                                                 !.row = Gone]
<1> DEFINE w == [job[j] EXCEPT !.pc = "ability", !.ok = saved, !.key = None, !.row = Gone]
<1>1. job[j] \in JobType /\ Shaped(job[j]) /\ job[j].c \in Channels
  BY DEF TypeOK, Shaped, OnePcs, StatusPcs
<1>2. CASE job[j].ok
  <2>1. w \in JobType /\ Shaped(w)
    BY <1>1, RowsTyped DEF JobType, Shaped, ReloadPcs, OnePcs, AllPcs, StatusPcs
  <2>2. job' = [job EXCEPT ![j] = w] BY <1>2 DEF AfterSave, TypeOK
  <2>3. job'[j] = w BY <2>2 DEF TypeOK
  <2>4. lock' = lock BY <1>2 DEF AfterSave
  <2> HIDE DEF w
  <2>5. job' \in [Jobs -> JobType] /\ \A i \in Jobs : Shaped(job'[i])
    BY <2>1, <2>2, JobsTyped
  <2> QED BY <1>2, <2>3, <2>4, <2>5 DEF w, TypeOK
<1>3. CASE ~job[j].ok
  <2>1. Ends(j) /\ lock' = None BY <1>3, ReturnEnds DEF AfterSave
  <2> QED BY <1>1, <1>3, <2>1, EndsWhere
<1> QED BY <1>2, <1>3

\* StatusSave preserves the types.
LEMMA StatusSaveType ==
  ASSUME TypeOK, NEW j \in Jobs, StatusSave(j)
  PROVE TypeOK'
<1> DEFINE c == job[j].c
<1>1. job[j].row \in RowType /\ c \in Channels /\ rows[c] \in RowType
  BY DEF StatusSave, TypeOK, JobType, Shaped, OnePcs, StatusPcs, Table
<1>2. SaveWithoutKey(job[j].row, rows[c]) \in RowType
  BY <1>1, ReindexedType DEF SaveWithoutKey, RowType
<1>3. /\ job' \in [Jobs -> JobType] /\ \A i \in Jobs : Shaped(job'[i])
      /\ lock' \in Jobs \cup {None}
  BY AfterSaveTyped DEF StatusSave
<1>4. UNCHANGED faults \/ Fault BY DEF StatusSave
<1>5. raced' \in BOOLEAN BY DEF StatusSave, Writes, TypeOK
<1>6. rows' = rows \/ rows' = [rows EXCEPT ![c] = SaveWithoutKey(job[j].row, rows[c])]
  BY DEF StatusSave
<1>7. rows' \in Table BY <1>2, <1>6 DEF TypeOK, Table
<1>8. faults' \in Nat BY <1>4, Counts
<1>9. UNCHANGED <<abil, idm, index, sync, test, ops>> BY DEF StatusSave, cacheVars
<1> QED BY <1>3, <1>5, <1>7, <1>8, <1>9, TypeStep DEF TypeOK

\* StatusAbility preserves the types.
LEMMA StatusAbilityType ==
  ASSUME TypeOK, NEW j \in Jobs, StatusAbility(j)
  PROVE TypeOK'
<1>1. job[j].c \in Channels BY DEF StatusAbility, TypeOK, Shaped, OnePcs, StatusPcs
<1>2. job' \in [Jobs -> JobType] /\ \A i \in Jobs : Shaped(job'[i])
  BY <1>1, ReturnEnds, EndsWhere DEF StatusAbility
<1>3. abil' \in Abils
  <2>1. [abil[job[j].c] EXCEPT !.status = Ability(job[j].to)] \in AbilityType
    BY <1>1 DEF TypeOK, Abils, AbilityType, Ability
  <2>2. \/ abil' = abil
        \/ abil' = [abil EXCEPT ![job[j].c] = [abil[job[j].c] EXCEPT !.status = Ability(job[j].to)]]
    BY <1>1 DEF StatusAbility, SetAbility, TypeOK, Abils
  <2> QED BY <2>1, <2>2 DEF TypeOK, Abils
<1>4. raced' \in BOOLEAN BY DEF StatusAbility, Writes, TypeOK
<1>5. UNCHANGED faults \/ Fault BY DEF StatusAbility
<1>6. UNCHANGED <<rows, idm, index, sync, test, ops>> /\ lock' = None BY DEF StatusAbility, cacheVars
<1> QED BY <1>2, <1>3, <1>4, <1>5, <1>6, Counts, TypeStep DEF TypeOK

\* So do those of edits, tags, deletions, insertions and of FixAbility.
LEMMA EditReadType ==
  ASSUME TypeOK, NEW j \in Jobs, EditRead(j)
  PROVE /\ TypeOK'
        /\ rows[job[j].c].status = "gone" => Ends(j)
        /\ Ends(j) \/ (job'[j].pc = "update" /\ job'[j].row.status = rows[job[j].c].status)
<1> DEFINE c == job[j].c
           left == ManageMultiKeys(job[j].to, rows[c].keys, job[j].key)
           none == \A k \in Keys : left[k] = "deleted"
           row == [rows[c] EXCEPT !.keys = IF none THEN AllOn ELSE left]
           w1 == [job[j] EXCEPT !.pc = "update", !.row = rows[c]]
<1>1. /\ job[j] \in JobType /\ c \in Channels /\ rows[c] \in RowType
      /\ Shaped(job[j]) /\ job[j].pc = "edit"
  BY DEF TypeOK, EditRead, Shaped, OnePcs, Table
<1>2. CASE Return(j, FALSE)
  <2>0. Ends(j) BY <1>2, ReturnEnds
  <2>1. job' \in [Jobs -> JobType] /\ \A i \in Jobs : Shaped(job'[i])
    BY <1>1, <2>0, EndsWhere
  <2> QED BY <2>0, <2>1, TypeStep DEF EditRead, TypeOK, cacheVars
<1>3. CASE rows[c].status # "gone" /\ job' = [job EXCEPT ![j].pc = "update", ![j].row = rows[c]]
  <2>1. w1 \in JobType /\ Shaped(w1) /\ w1.pc = "update" /\ w1.row = rows[c]
    BY <1>1, <1>3 DEF JobType, Shaped, ReloadPcs, OnePcs, AllPcs, StatusPcs
  <2>2. job' = [job EXCEPT ![j] = w1] BY <1>3 DEF TypeOK
  <2> HIDE DEF w1
  <2>3. job'[j] = w1 BY <2>2 DEF TypeOK
  <2>4. TypeOK' BY <2>1, <2>2, JobsTyped, TypeStep DEF EditRead, TypeOK, cacheVars
  <2> QED BY <1>3, <2>1, <2>3, <2>4
<1>4. CASE /\ rows[c].status # "gone" /\ job[j].to # "edit"
           /\ job' = [job EXCEPT ![j].pc = "update", ![j].ok = ~none, ![j].key = None, ![j].to = "none",
                                 ![j].row = row]
  <2>1. job[j].to \in KeyActions /\ job[j].key \in Keys BY <1>1, <1>4 DEF Shaped
  <2>2. left \in [Keys -> KeyStatus] BY <1>1, <2>1, ManageTyped DEF RowType
  <2>3. row \in RowType /\ row.status = rows[c].status
    <3> HIDE DEF left
    <3>1. (IF none THEN AllOn ELSE left) \in [Keys -> KeyStatus] BY <2>2, RowsTyped
    <3> QED BY <1>1, <3>1 DEF RowType
  <2>4. PICK ok \in BOOLEAN : job' = [job EXCEPT ![j].pc = "update", ![j].ok = ok, ![j].key = None,
                                                 ![j].to = "none", ![j].row = row]
    BY <1>4, Zenon
  <2>5. PICK r : r = row OBVIOUS
  <2> HIDE DEF row, none, left
  <2> DEFINE w == [job[j] EXCEPT !.pc = "update", !.ok = ok, !.key = None, !.to = "none", !.row = r]
  <2>6. job' = [job EXCEPT ![j] = w] BY <2>4, <2>5 DEF TypeOK
  <2>7. w \in JobType /\ Shaped(w) /\ w.pc = "update" /\ w.row = r
    BY <1>1, <1>4, <2>3, <2>5 DEF JobType, Shaped, ReloadPcs, OnePcs, AllPcs, StatusPcs
  <2>8. job' = [job EXCEPT ![j] = w] BY <2>6
  <2> HIDE DEF w
  <2>9. job'[j] = w BY <2>8 DEF TypeOK
  <2>10. TypeOK' BY <2>7, <2>8, JobsTyped, TypeStep DEF EditRead, TypeOK, cacheVars
  <2> QED BY <1>4, <2>3, <2>5, <2>7, <2>9, <2>10
<1> QED BY <1>2, <1>3, <1>4 DEF EditRead

\* A job may go on to its next step.
LEMMA GotoTyped ==
  ASSUME TypeOK, NEW j \in Jobs, NEW pc \in {"tag", "delete", "find"}, Goto(j, pc),
         Shaped([job[j] EXCEPT !.pc = pc])
  PROVE /\ job' \in [Jobs -> JobType] /\ \A i \in Jobs : Shaped(job'[i])
        /\ job'[j] = [job[j] EXCEPT !.pc = pc]
<1> DEFINE w == [job[j] EXCEPT !.pc = pc]
<1>1. w \in JobType BY DEF TypeOK, JobType, OnePcs, AllPcs
<1>2. job' = [job EXCEPT ![j] = w] BY DEF Goto, TypeOK
<1>3. job'[j] = w BY <1>2 DEF TypeOK
<1> HIDE DEF w
<1> QED BY <1>1, <1>2, <1>3, JobsTyped DEF w

\* EditUpdate preserves the types.
LEMMA EditUpdateType ==
  ASSUME TypeOK, NEW j \in Jobs, EditUpdate(j)
  PROVE TypeOK' /\ job'[j].pc = "reread"
<1> DEFINE c == job[j].c
           keys == IF job[j].ok THEN job[j].row.keys ELSE Reindexed(job[j].row.keys, rows[c].keys)
           status == IF job[j].to = "edit" THEN rows[c].status ELSE job[j].row.status
<1>1. /\ job[j] \in JobType /\ c \in Channels /\ rows[c] \in RowType /\ job[j].row \in RowType
      /\ Shaped(job[j]) /\ job[j].pc = "update"
  BY DEF TypeOK, EditUpdate, Shaped, OnePcs, Table, JobType
<1>2. PICK g \in GroupOrNone :
        /\ \/ rows' = rows
           \/ rows' = [rows EXCEPT ![c] = [status |-> status, keys |-> keys, group |-> g]]
        /\ job' = [job EXCEPT ![j].pc = "reread", ![j].row = [job[j].row EXCEPT !.group = g]]
  BY <1>1 DEF EditUpdate, GroupOrNone, RowType
<1>3. keys \in [Keys -> KeyStatus] BY <1>1, ReindexedType DEF RowType
<1>4. status \in Status BY <1>1 DEF RowType
<1>5. [status |-> status, keys |-> keys, group |-> g] \in RowType
  <2> HIDE DEF keys, status
  <2> QED BY <1>3, <1>4 DEF RowType
<1>6. rows' \in Table
  <2> HIDE DEF keys, status
  <2> QED BY <1>2, <1>5 DEF TypeOK, Table
<1> DEFINE r == [job[j].row EXCEPT !.group = g]
           w == [job[j] EXCEPT !.pc = "reread", !.row = r]
<1>7. r \in RowType BY <1>1 DEF RowType
<1>8. job' = [job EXCEPT ![j].pc = "reread", ![j].row = r] BY <1>2
<1> HIDE DEF r
<1>9. w \in JobType /\ Shaped(w) /\ w.pc = "reread"
  BY <1>1, <1>7 DEF JobType, Shaped, ReloadPcs, OnePcs, AllPcs, StatusPcs
<1>10. job' = [job EXCEPT ![j] = w] BY <1>8 DEF TypeOK
<1> HIDE DEF w, keys, status
<1>11. job'[j] = w BY <1>10 DEF TypeOK
<1>12. raced' \in BOOLEAN BY DEF EditUpdate, Writes, TypeOK
<1>13. UNCHANGED <<abil, idm, index, lock, sync, test, ops, faults>> BY DEF EditUpdate, cacheVars
<1> QED BY <1>6, <1>9, <1>10, <1>11, <1>12, <1>13, JobsTyped, TypeStep DEF TypeOK

\* EditReread preserves the types.
LEMMA EditRereadType ==
  ASSUME TypeOK, NEW j \in Jobs, EditReread(j)
  PROVE /\ TypeOK' /\ job'[j].pc = "recreate"
        /\ job'[j].row = rows[job[j].c] \/ rows[job[j].c].status = "gone" \/ Fault
<1>1. /\ job[j] \in JobType /\ job[j].c \in Channels /\ rows[job[j].c] \in RowType
      /\ job[j].row \in RowType /\ Shaped(job[j]) /\ job[j].pc = "reread"
  BY DEF TypeOK, EditReread, Shaped, OnePcs, Table, JobType
<1>2. PICK row \in {rows[job[j].c], Posted(job[j])} :
        /\ job' = [job EXCEPT ![j].pc = "recreate", ![j].row = row]
        /\ row = rows[job[j].c] \/ rows[job[j].c].status = "gone" \/ Fault
  BY DEF EditReread
<1>3. row \in RowType BY <1>1 DEF Posted, RowType, Status
<1> DEFINE w == [job[j] EXCEPT !.pc = "recreate", !.row = row]
<1>4. w \in JobType /\ Shaped(w) /\ w.pc = "recreate" /\ w.row = row
  BY <1>1, <1>3 DEF JobType, Shaped, ReloadPcs, OnePcs, AllPcs, StatusPcs
<1>5. job' = [job EXCEPT ![j] = w] BY <1>2 DEF TypeOK
<1> HIDE DEF w
<1>6. job'[j] = w BY <1>5 DEF TypeOK
<1>7. UNCHANGED faults \/ Fault BY DEF EditReread
<1>8. UNCHANGED <<rows, abil, idm, index, lock, sync, test, ops, raced>> BY DEF EditReread, cacheVars
<1>9. TypeOK' BY <1>4, <1>5, <1>7, <1>8, Counts, JobsTyped, TypeStep DEF TypeOK
<1> QED BY <1>2, <1>4, <1>6, <1>9

\* TagRows preserves the types.
LEMMA TagRowsType ==
  ASSUME TypeOK, NEW j \in Jobs, TagRows(j)
  PROVE TypeOK' /\ job'[j] = [job[j] EXCEPT !.pc = "tag"]
<1>1. /\ job[j] \in JobType /\ Shaped(job[j]) /\ job[j].pc = "tagrows"
      /\ job[j].to \in {"enabled", "manual", "auto"} /\ job[j].c = "all"
  BY DEF TypeOK, TagRows, Shaped, AllPcs
<1>2. Shaped([job[j] EXCEPT !.pc = "tag"])
  BY <1>1 DEF JobType, Shaped, ReloadPcs, OnePcs, AllPcs, StatusPcs
<1>3. rows' \in Table
  <2>1. ASSUME NEW c \in Channels
        PROVE rows[c] \in RowType /\ [rows[c] EXCEPT !.status = job[j].to] \in RowType
    BY <1>1 DEF TypeOK, Table, RowType, Status
  <2> QED BY <2>1 DEF TagRows, Table
<1>4. raced' \in BOOLEAN BY DEF TagRows, Writes, TypeOK
<1>5. Goto(j, "tag") BY DEF TagRows
<1>6. UNCHANGED <<abil, idm, index, lock, sync, test, ops, faults>> BY DEF TagRows, cacheVars
<1> QED BY <1>2, <1>3, <1>4, <1>5, <1>6, GotoTyped, TypeStep DEF TypeOK

\* DeleteRow preserves the types.
LEMMA DeleteRowType ==
  ASSUME TypeOK, NEW j \in Jobs, DeleteRow(j)
  PROVE TypeOK' /\ job'[j] = [job[j] EXCEPT !.pc = "delete"]
<1>1. /\ job[j] \in JobType /\ Shaped(job[j]) /\ job[j].pc = "deleterow"
      /\ job[j].c \in Channels
  BY DEF TypeOK, DeleteRow, Shaped, OnePcs
<1>2. Shaped([job[j] EXCEPT !.pc = "delete"])
  BY <1>1 DEF JobType, Shaped, ReloadPcs, OnePcs, AllPcs, StatusPcs
<1>3. rows' \in Table BY <1>1, RowsTyped DEF DeleteRow, TypeOK, Table
<1>4. raced' \in BOOLEAN BY DEF DeleteRow, Writes, TypeOK
<1>5. Goto(j, "delete") BY DEF DeleteRow
<1>6. UNCHANGED <<abil, idm, index, lock, sync, test, ops, faults>> BY DEF DeleteRow,
   cacheVars
<1> QED BY <1>2, <1>3, <1>4, <1>5, <1>6, GotoTyped, TypeStep DEF TypeOK

\* EditRecreate preserves the types.
LEMMA EditRecreateType ==
  ASSUME TypeOK, NEW j \in Jobs, EditRecreate(j)
  PROVE TypeOK' /\ Ends(j)
<1>1. job[j].c \in Channels BY DEF TypeOK, EditRecreate, Shaped, OnePcs
<1>2. Ends(j) BY ReloadEnds DEF EditRecreate
<1>3. job' \in [Jobs -> JobType] /\ \A i \in Jobs : Shaped(job'[i])
  BY <1>1, <1>2, EndsWhere
<1>4. rows' \in Table BY DEF EditRecreate, TypeOK, Table
<1>5. abil' \in Abils
  <2>1. Abilities(job[j].row) \in AbilityType BY AbilitiesTyped DEF TypeOK, JobType
  <2> QED BY <1>1, <2>1 DEF EditRecreate, TypeOK, Abils
<1>6. raced' \in BOOLEAN BY DEF EditRecreate, Writes, TypeOK
<1> QED BY <1>2, <1>3, <1>4, <1>5, <1>6, TypeStep DEF EditRecreate, TypeOK, cacheVars

\* TagAbilities preserves the types.
LEMMA TagAbilitiesType ==
  ASSUME TypeOK, NEW j \in Jobs, TagAbilities(j)
  PROVE TypeOK' /\ Ends(j)
<1>1. job[j].c = "all" BY DEF TypeOK, TagAbilities, Shaped, AllPcs
<1>2. Ends(j) BY ReloadEnds DEF TagAbilities
<1>3. job' \in [Jobs -> JobType] /\ \A i \in Jobs : Shaped(job'[i])
  BY <1>1, <1>2, EndsWhere
<1>4. rows' \in Table BY DEF TagAbilities, TypeOK, Table
<1>5. abil' \in Abils
  BY AbilitiesTyped DEF TagAbilities, TypeOK, Abils, AbilityType, Ability
<1>6. raced' \in BOOLEAN BY DEF TagAbilities, Writes, TypeOK
<1> QED BY <1>2, <1>3, <1>4, <1>5, <1>6, TypeStep DEF TagAbilities, TypeOK, cacheVars

\* DeleteAbilities preserves the types.
LEMMA DeleteAbilitiesType ==
  ASSUME TypeOK, NEW j \in Jobs, DeleteAbilities(j)
  PROVE TypeOK' /\ Ends(j)
<1>1. job[j].c \in Channels BY DEF TypeOK, DeleteAbilities, Shaped, OnePcs
<1>2. Ends(j) BY ReloadEnds DEF DeleteAbilities
<1>3. job' \in [Jobs -> JobType] /\ \A i \in Jobs : Shaped(job'[i])
  BY <1>1, <1>2, EndsWhere
<1>4. rows' \in Table BY DEF DeleteAbilities, TypeOK, Table
<1>5. abil' \in Abils BY <1>1, AbilitiesTyped DEF DeleteAbilities, TypeOK, Abils
<1>6. raced' \in BOOLEAN BY DEF DeleteAbilities, Writes, TypeOK
<1> QED BY <1>2, <1>3, <1>4, <1>5, <1>6, TypeStep DEF DeleteAbilities, TypeOK, cacheVars

\* DeleteChannelBatch preserves the types.
LEMMA DeleteChannelBatchType ==
  ASSUME TypeOK, NEW j \in Jobs, DeleteChannelBatch(j)
  PROVE TypeOK' /\ Ends(j)
<1>1. job[j].c \in Channels BY DEF TypeOK, DeleteChannelBatch, Shaped, OnePcs
<1>2. Ends(j) BY ReloadEnds DEF DeleteChannelBatch
<1>3. job' \in [Jobs -> JobType] /\ \A i \in Jobs : Shaped(job'[i])
  BY <1>1, <1>2, EndsWhere
<1>4. rows' \in Table BY <1>1, RowsTyped DEF DeleteChannelBatch, TypeOK, Table
<1>5. abil' \in Abils BY <1>1, AbilitiesTyped DEF DeleteChannelBatch, TypeOK, Abils
<1>6. raced' \in BOOLEAN BY DEF DeleteChannelBatch, Writes, TypeOK
<1> QED BY <1>2, <1>3, <1>4, <1>5, <1>6, TypeStep DEF DeleteChannelBatch, TypeOK, cacheVars

\* DeleteDisabledChannel preserves the types.
LEMMA DeleteDisabledChannelType ==
  ASSUME TypeOK, NEW j \in Jobs, DeleteDisabledChannel(j)
  PROVE TypeOK' /\ Ends(j)
<1>1. job[j].c = "all" BY DEF TypeOK, DeleteDisabledChannel, Shaped, AllPcs
<1>2. Ends(j) BY ReloadEnds DEF DeleteDisabledChannel
<1>3. job' \in [Jobs -> JobType] /\ \A i \in Jobs : Shaped(job'[i])
  BY <1>1, <1>2, EndsWhere
<1>4. rows' \in Table BY <1>1, RowsTyped DEF DeleteDisabledChannel, TypeOK, Table
<1>5. abil' \in Abils BY <1>1 DEF DeleteDisabledChannel, TypeOK
<1>6. raced' \in BOOLEAN BY DEF DeleteDisabledChannel, Writes, TypeOK
<1> QED BY <1>2, <1>3, <1>4, <1>5, <1>6, TypeStep DEF DeleteDisabledChannel, TypeOK, cacheVars

\* What FixAbility inserts has its type.
LEMMA RefillTyped ==
  ASSUME NEW a \in Abils, NEW r \in Table, NEW kept, NEW lost
  PROVE Refill(a, r, kept, lost) \in Abils
BY AbilitiesTyped DEF Refill, Abils, Table

\* FixRefill preserves the types.
LEMMA FixRefillType ==
  ASSUME TypeOK, NEW j \in Jobs, FixRefill(j)
  PROVE TypeOK' /\ Ends(j)
<1>1. job[j].c = "all" /\ job[j].loaded \in Table /\ abil \in Abils
  BY DEF TypeOK, FixRefill, Shaped, AllPcs
<1>2. Ends(j) BY ReloadEnds DEF FixRefill
<1>3. job' \in [Jobs -> JobType] /\ \A i \in Jobs : Shaped(job'[i])
  BY <1>1, <1>2, EndsWhere
<1>4. abil' \in Abils BY <1>1, RefillTyped DEF FixRefill
<1>5. raced' \in BOOLEAN BY DEF FixRefill, Writes, TypeOK
<1>6. UNCHANGED faults \/ Fault BY DEF FixRefill
<1>7. UNCHANGED <<rows, idm, index, lock, sync, test, ops>> BY DEF FixRefill, cacheVars
<1> QED BY <1>2, <1>3, <1>4, <1>5, <1>6, <1>7, Counts, TypeStep DEF TypeOK

\* AddChannel preserves the types.
LEMMA AddChannelType ==
  ASSUME TypeOK, NEW j \in Jobs, AddChannel(j)
  PROVE TypeOK' /\ Ends(j)
<1>1. job[j].c \in Channels BY DEF TypeOK, AddChannel, Shaped, OnePcs
<1>2. Ends(j) BY DEF AddChannel, Ends, TypeOK
<1>3. job' \in [Jobs -> JobType] /\ \A i \in Jobs : Shaped(job'[i])
  BY <1>1, <1>2, EndsWhere
<1>4. PICK g \in Groups : /\ rows' = [rows EXCEPT ![job[j].c] = Fresh(g)]
                          /\ abil' = [abil EXCEPT ![job[j].c] = Abilities(Fresh(g))]
  BY DEF AddChannel
<1>5. Fresh(g) \in RowType /\ Abilities(Fresh(g)) \in AbilityType BY RowsTyped, AbilitiesTyped
<1>6. rows' \in Table /\ abil' \in Abils BY <1>1, <1>4, <1>5 DEF TypeOK, Table, Abils
<1>7. raced' \in BOOLEAN BY DEF AddChannel, Writes, TypeOK
<1>8. UNCHANGED <<idm, index, lock, sync, test, ops, faults>> BY DEF AddChannel, cacheVars
<1> QED BY <1>2, <1>3, <1>6, <1>7, <1>8, TypeStep DEF TypeOK

\* FixTruncate preserves the types.
LEMMA FixTruncateType ==
  ASSUME TypeOK, NEW j \in Jobs, FixTruncate(j)
  PROVE /\ TypeOK'
        /\ (Ends(j) /\ abil' = abil) \/ job'[j] = [job[j] EXCEPT !.pc = "find"]
<1>1. /\ job[j] \in JobType /\ Shaped(job[j]) /\ job[j].pc = "fix" /\ job[j].c = "all"
  BY DEF TypeOK, FixTruncate, Shaped, AllPcs
<1>2. UNCHANGED <<rows, idm, index, lock, sync, test, ops, faults>> BY DEF FixTruncate, cacheVars
<1>3. CASE Return(j, FALSE) /\ UNCHANGED <<abil, raced>>
  <2>1. Ends(j) BY <1>3, ReturnEnds
  <2>2. job' \in [Jobs -> JobType] /\ \A i \in Jobs : Shaped(job'[i])
    BY <1>1, <2>1, EndsWhere
  <2> QED BY <1>2, <1>3, <2>1, <2>2, TypeStep DEF TypeOK
<1>4. CASE abil' = NoAbilities /\ Writes(j) /\ Goto(j, "find")
  <2>1. Shaped([job[j] EXCEPT !.pc = "find"])
    BY <1>1 DEF JobType, Shaped, ReloadPcs, OnePcs, AllPcs, StatusPcs
  <2>2. raced' \in BOOLEAN BY <1>4 DEF Writes, TypeOK
  <2> QED BY <1>2, <1>4, <2>1, <2>2, AbilitiesTyped, GotoTyped, TypeStep DEF TypeOK
<1> QED BY <1>3, <1>4 DEF FixTruncate

\* FixFind preserves the types.
LEMMA FixFindType ==
  ASSUME TypeOK, NEW j \in Jobs, FixFind(j)
  PROVE /\ TypeOK'
        /\ \/ job'[j] = Idle /\ \A c \in Channels : rows[c].status = "gone"
           \/ job'[j] = [job[j] EXCEPT !.pc = "refill", !.loaded = rows]
<1> DEFINE w == [job[j] EXCEPT !.pc = "refill", !.loaded = rows]
<1>1. /\ job[j] \in JobType /\ Shaped(job[j]) /\ job[j].pc = "find" /\ job[j].c = "all"
      /\ rows \in Table
  BY DEF TypeOK, FixFind, Shaped, AllPcs
<1>2. w \in JobType /\ Shaped(w)
  BY <1>1 DEF JobType, Shaped, ReloadPcs, OnePcs, AllPcs, StatusPcs
<1>3. \/ job' = [job EXCEPT ![j] = Idle] /\ \A c \in Channels : rows[c].status = "gone"
      \/ job' = [job EXCEPT ![j] = w]
  BY DEF FixFind, TypeOK
<1>4. UNCHANGED <<rows, abil, idm, index, lock, sync, test, ops, faults, raced>>
  BY DEF FixFind, cacheVars
<1> HIDE DEF w
<1>5. \/ job'[j] = Idle /\ \A c \in Channels : rows[c].status = "gone"
      \/ job'[j] = w
  BY <1>3 DEF TypeOK
<1>6. job' \in [Jobs -> JobType] /\ \A i \in Jobs : Shaped(job'[i])
  BY <1>2, <1>3, IdleTyped, JobsTyped
<1>7. TypeOK' BY <1>4, <1>6, TypeStep DEF TypeOK
<1> QED BY <1>5, <1>7 DEF w

\* A failing call preserves the types.
LEMMA CallFailsType ==
  ASSUME TypeOK, NEW j \in Jobs, CallFails(j)
  PROVE TypeOK'
<1>1. job' \in [Jobs -> JobType] /\ \A i \in Jobs : Shaped(job'[i])
  BY IdleTyped, JobsTyped DEF CallFails
<1>2. lock' \in Jobs \cup {None} BY DEF CallFails, TypeOK
<1>3. UNCHANGED <<rows, abil, idm, index, sync, test, ops, raced>> /\ Fault BY DEF CallFails, cacheVars
<1> QED BY <1>1, <1>2, <1>3, Counts, TypeStep DEF TypeOK

-----------------------------------------------------------------------------
(* What a step leaves alone                                                *)

\* What the other jobs have read is still stored, or raced says it is not.
LEMMA OthersRead ==
  ASSUME TypeOK, ReadsHold, NEW j \in Jobs, Frame(j), ~raced', NEW i \in Jobs \ {j}
  PROVE ReadIsStored(job[i])'
<1>1. job'[i] = job[i] /\ ~raced BY DEF Frame
<1>2. ReadIsStored(job[i]) BY <1>1 DEF ReadsHold
<1>3. CASE job[i].pc \in {"save", "update"}
  <2>1. job[i].c \in Channels /\ InDb(i)
    BY <1>3 DEF TypeOK, Shaped, OnePcs, StatusPcs, InDb
  <2>2. rows' = rows \/ job[j].c \notin {job[i].c, "all"}
    BY <2>1 DEF Frame, Overlaps
  <2>3. rows'[job[i].c] = rows[job[i].c] BY <2>1, <2>2 DEF Frame
  <2> QED BY <1>1, <1>2, <2>3 DEF ReadIsStored, Changed, HandlerMultiKeyUpdate, HasKey, Keys
<1>4. CASE job[i].pc \notin {"save", "update"} BY <1>1, <1>4 DEF ReadIsStored
<1> QED BY <1>3, <1>4

\* The other jobs will still write what agrees.
LEMMA OthersWill ==
  ASSUME TypeOK, AgreeOrMid, NEW j \in Jobs, Frame(j), Clean', NEW i \in Jobs \ {j}
  PROVE WillAgree(job[i])'
<1>1. job'[i] = job[i] /\ Clean BY DEF Frame, Clean
<1>2. WillAgree(job[i]) BY <1>1 DEF AgreeOrMid
<1>3. CASE Mid(job[i])
  <2>1. /\ job[i].c \in Channels \cup {"all"} /\ InDb(i)
        /\ job[i].pc \in {"tag", "find", "refill"} => job[i].c = "all"
        /\ job[i].pc \notin {"tag", "find", "refill"} => job[i].c \in Channels
    BY <1>3 DEF TypeOK, Shaped, OnePcs, AllPcs, StatusPcs, InDb, Mid
  <2>2. \/ rows' = rows /\ abil' = abil
        \/ job[i].c # "all" /\ job[j].c \notin {job[i].c, "all"}
    BY <2>1 DEF Frame, Overlaps, Clean
  <2>3. CASE rows' = rows /\ abil' = abil BY <1>1, <1>2, <2>3 DEF WillAgree, Ability, Follows
  <2>4. CASE job[i].c # "all" /\ job[j].c \notin {job[i].c, "all"}
    <3>1. rows'[job[i].c] = rows[job[i].c] /\ abil'[job[i].c] = abil[job[i].c]
      BY <2>1, <2>4 DEF Frame
    <3> QED BY <1>1, <1>2, <2>1, <2>4, <3>1 DEF WillAgree, Ability, Follows
  <2> QED BY <2>2, <2>3, <2>4
<1>4. CASE ~Mid(job[i]) BY <1>1, <1>4 DEF WillAgree, Mid
<1> QED BY <1>3, <1>4

\* The channels a step writes to are its own; of the others nothing changes.
LEMMA OthersAgree ==
  ASSUME TypeOK, AgreeOrMid, NEW j \in Jobs, Frame(j), Clean', NEW c \in Channels,
         \/ job[j].c \notin {c, "all"}
         \/ rows' = rows /\ abil' = abil /\ ~Mid(job[j]),
         \A i \in Jobs : Mid(job'[i]) => job'[i].c \notin {c, "all"}
  PROVE Agree(c)'
<1>1. Clean BY DEF Frame, Clean
<1>2. \A i \in Jobs : Mid(job[i]) => job[i].c \notin {c, "all"} BY DEF Frame
<1>3. Agree(c) BY <1>1, <1>2 DEF AgreeOrMid
<1>4. rows'[c] = rows[c] /\ abil'[c] = abil[c] BY DEF Frame
<1> QED BY <1>3, <1>4 DEF Agree, Abilities, Ability

\* The steps that revive no deleted row.
Plain(j) ==
  /\ \A c \in Channels : rows[c] = Gone => rows'[c] = Gone
  /\ job'[j].pc = "delete" => rows'[job'[j].c] = Gone

\* They keep the invariant of deletion.
LEMMA PlainKeeps ==
  ASSUME TypeOK, NEW j \in Jobs, Frame(j), Plain(j), DeletedIsGone
  PROVE DeletedIsGone'
<1> SUFFICES ASSUME NEW i \in Jobs, job'[i].pc = "delete" PROVE rows'[job'[i].c] = Gone
  BY DEF DeletedIsGone, Gone, Keys
<1>1. CASE i = j BY <1>1 DEF Plain
<1>2. CASE i # j
  <2>1. job'[i] = job[i] BY <1>2 DEF Frame
  <2>2. job[i].c \in Channels BY <2>1 DEF TypeOK, Shaped, OnePcs
  <2> QED BY <2>1, <2>2 DEF Plain, DeletedIsGone
<1> QED BY <1>1, <1>2

\* The invariant, from the part of it that the step's own job and channels have.
LEMMA Compose ==
  ASSUME IInv, NEW j \in Jobs, Frame(j),
         TypeOK', IndexServed', DeletedIsGone',
         ~raced' => ReadIsStored(job[j])',
         Clean' => WillAgree(job[j])',
         ASSUME Clean', NEW c \in Channels, job[j].c \in {c, "all"},
                \A i \in Jobs : Mid(job'[i]) => job'[i].c \notin {c, "all"}
         PROVE \/ rows' = rows /\ abil' = abil /\ ~Mid(job[j])
               \/ Agree(c)'
  PROVE IInv'
<1>1. ReadsHold' BY OthersRead DEF ReadsHold, IInv
<1>2. AgreeOrMid'
  <2> SUFFICES ASSUME Clean'
               PROVE /\ \A i \in Jobs : WillAgree(job[i])'
                     /\ \A c \in Channels :
                          (\A i \in Jobs : Mid(job'[i]) => job'[i].c \notin {c, "all"}) => Agree(c)'
    BY DEF AgreeOrMid, Mid
  <2>1. \A i \in Jobs : WillAgree(job[i])' BY OthersWill DEF IInv
  <2>2. ASSUME NEW c \in Channels, \A i \in Jobs : Mid(job'[i]) => job'[i].c \notin {c, "all"}
        PROVE Agree(c)'
    BY <2>2, OthersAgree DEF IInv
  <2> QED BY <2>1, <2>2
<1> QED BY <1>1, <1>2 DEF IInv

-----------------------------------------------------------------------------
(* One lemma for each step of a job                                        *)

\* The steps that write neither table and leave the cache alone.
LEMMA ReadOnly ==
  ASSUME IInv, NEW j \in Jobs, Frame(j), TypeOK', UNCHANGED <<rows, abil>>, IndexServed',
         ~Mid(job[j]), ~Mid(job'[j]), ~raced' => ReadIsStored(job[j])'
  PROVE IInv'
<1>1. Plain(j) BY DEF Plain, Mid
<1>2. DeletedIsGone' BY <1>1, PlainKeeps DEF IInv
<1>3. WillAgree(job[j])' BY DEF WillAgree, Mid
<1> QED BY <1>2, <1>3, Compose

\* The cache is left alone.
LEMMA SameCache ==
  ASSUME IndexServed, UNCHANGED cacheVars
  PROVE IndexServed'
BY DEF IndexServed, cacheVars, ServedFrom

\* A reload indexes enabled channels only.
LEMMA ReplaceServes ==
  ASSUME NEW loaded, Replace(loaded)
  PROVE IndexServed'
BY DEF Replace, IndexServed, ServedFrom

\* InitChannelCache after an operation: channels, abilities, the swap.
LEMMA LoadInv ==
  ASSUME IInv, NEW j \in Jobs, Load(j)
  PROVE IInv'
<1>1. Frame(j) /\ TypeOK' BY LoadFrame, LoadType DEF IInv
<1>2. job[j].pc = "load" /\ job'[j].pc = "groups" BY DEF Load, IInv, TypeOK, JobType
<1>3. IndexServed' BY SameCache DEF Load, IInv
<1>4. ~Mid(job[j]) /\ ~Mid(job'[j]) /\ ReadIsStored(job[j])' BY <1>2 DEF Mid, ReadIsStored
<1>5. UNCHANGED <<rows, abil>> BY DEF Load
<1> QED BY <1>1, <1>3, <1>4, <1>5, ReadOnly

\* LoadAbilities preserves the invariant.
LEMMA LoadAbilitiesInv ==
  ASSUME IInv, NEW j \in Jobs, LoadAbilities(j)
  PROVE IInv'
<1>1. Frame(j) /\ TypeOK' BY LoadAbilitiesFrame, LoadAbilitiesType DEF IInv
<1>2. job[j].pc = "groups" /\ job'[j].pc \in {"idle", "swap"}
  BY DEF LoadAbilities, IInv, TypeOK, JobType, Idle
<1>3. IndexServed' BY SameCache DEF LoadAbilities, IInv
<1>4. ~Mid(job[j]) /\ ~Mid(job'[j]) /\ ReadIsStored(job[j])' BY <1>2 DEF Mid, ReadIsStored
<1>5. UNCHANGED <<rows, abil>> BY DEF LoadAbilities
<1> QED BY <1>1, <1>3, <1>4, <1>5, ReadOnly

\* Swap preserves the invariant.
LEMMA SwapInv ==
  ASSUME IInv, NEW j \in Jobs, Swap(j)
  PROVE IInv'
<1>1. Frame(j) /\ TypeOK' BY SwapFrame, SwapType DEF IInv
<1>2. job[j].pc = "swap" /\ job'[j].pc = "idle" BY DEF Swap, IInv, TypeOK, Idle
<1>3. IndexServed' BY ReplaceServes DEF Swap
<1>4. ~Mid(job[j]) /\ ~Mid(job'[j]) /\ ReadIsStored(job[j])' BY <1>2 DEF Mid, ReadIsStored
<1>5. UNCHANGED <<rows, abil>> BY DEF Swap
<1> QED BY <1>1, <1>3, <1>4, <1>5, ReadOnly

\* The cached row and the index change together.
LEMMA StatusInCacheServes ==
  ASSUME TypeOK, IndexServed, NEW j \in Jobs, StatusInCache(j)
  PROVE IndexServed'
<1>1. PICK c \in Channels : c = job[j].c
  BY DEF StatusInCache, TypeOK, Shaped, OnePcs, StatusPcs
<1>2. PICK new : new = Changed(c, idm[c], job[j].key, job[j].to) OBVIOUS
<1>3. CASE UNCHANGED cacheVars BY <1>3, SameCache
<1>4. CASE /\ idm' = [idm EXCEPT ![c] = new]
           /\ index' = IF new.status # idm[c].status /\ new.status # "enabled"
                       THEN index \ {c} ELSE index
  BY <1>4 DEF IndexServed, ServedFrom, TypeOK, Table
<1> QED BY <1>1, <1>2, <1>3, <1>4 DEF StatusInCache

\* UpdateChannelStatus: the cached row, the stored row, the save, the abilities.
LEMMA StatusInCacheInv ==
  ASSUME IInv, NEW j \in Jobs, StatusInCache(j)
  PROVE IInv'
<1>1. Frame(j) /\ TypeOK' BY StatusInCacheFrame, StatusInCacheType DEF IInv
<1>2. job[j].pc = "status" /\ job[j].c \in Channels /\ TypeOK
  BY DEF StatusInCache, IInv, TypeOK, Shaped, OnePcs, StatusPcs
<1>3. job'[j].pc \in {"idle", "load", "read"}
  <2>1. CASE Return(j, FALSE) BY <1>2, <2>1, ReturnEnds, EndsWhere
  <2>2. CASE Goto(j, "read") BY <1>2, <2>2 DEF Goto, TypeOK, JobType
  <2> QED BY <2>1, <2>2 DEF StatusInCache
<1>4. IndexServed' BY StatusInCacheServes DEF IInv
<1>5. ~Mid(job[j]) /\ ~Mid(job'[j]) /\ ReadIsStored(job[j])' BY <1>2, <1>3 DEF Mid, ReadIsStored
<1>6. UNCHANGED <<rows, abil>> BY DEF StatusInCache
<1> QED BY <1>1, <1>4, <1>5, <1>6, ReadOnly

\* StatusRead preserves the invariant.
LEMMA StatusReadInv ==
  ASSUME IInv, NEW j \in Jobs, StatusRead(j)
  PROVE IInv'
<1>1. Frame(j) /\ TypeOK' BY StatusReadFrame, StatusReadType DEF IInv
<1>2. job[j].pc = "read" /\ job[j].c \in Channels /\ TypeOK /\ job[j] \in JobType
  BY DEF StatusRead, IInv, TypeOK, Shaped, OnePcs, StatusPcs
<1>3. UNCHANGED <<rows, abil>> BY DEF StatusRead
<1>4. job'[j].pc \in {"idle", "load", "save"} /\ ReadIsStored(job[j])'
  <2>1. CASE Return(j, FALSE)
    <3>1. job'[j].pc \in {"idle", "load"} BY <1>2, <2>1, ReturnEnds, EndsWhere
    <3> QED BY <3>1 DEF ReadIsStored
  <2>2. CASE ~Return(j, FALSE)
    <3>1. PICK w : w = job[j] OBVIOUS
    <3>2. PICK new : new = Changed(w.c, rows[w.c], w.key, w.to) OBVIOUS
    <3>3. /\ rows[w.c].status # "gone"
          /\ job' = [job EXCEPT ![j].pc = "save", ![j].row = new,
                                ![j].ok = new.status # rows[w.c].status]
      BY <2>2, <3>1, <3>2 DEF StatusRead
    <3>4. job'[j] = [w EXCEPT !.pc = "save", !.row = new, !.ok = new.status # rows[w.c].status]
      BY <3>1, <3>3 DEF IInv, TypeOK
    <3>5. /\ job'[j].pc = "save" /\ job'[j].c = w.c /\ job'[j].key = w.key /\ job'[j].to = w.to
          /\ job'[j].row = new /\ job'[j].ok = (new.status # rows[w.c].status)
      BY <1>2, <3>1, <3>4 DEF JobType
    <3>6. job'[j].row = Changed(job'[j].c, rows'[job'[j].c], job'[j].key, job'[j].to)
      BY <1>3, <3>2, <3>5
    <3>7. rows'[job'[j].c].status # "gone"
          /\ job'[j].ok = (job'[j].row.status # rows'[job'[j].c].status)
      BY <1>3, <3>3, <3>5
    <3> QED BY <3>5, <3>6, <3>7 DEF ReadIsStored, Changed, HandlerMultiKeyUpdate, HasKey, Keys
  <2> QED BY <2>1, <2>2
<1>5. IndexServed' BY SameCache DEF StatusRead, IInv
<1>6. ~Mid(job[j]) /\ ~Mid(job'[j]) BY <1>2, <1>4 DEF Mid
<1> QED BY <1>1, <1>3, <1>4, <1>5, <1>6, ReadOnly

\* An edit or an action on a key works on the stored row.
LEMMA EditReadInv ==
  ASSUME IInv, NEW j \in Jobs, EditRead(j)
  PROVE IInv'
<1>1. Frame(j) /\ TypeOK' BY EditReadFrame, EditReadType DEF IInv
<1>2. job[j].pc = "edit" /\ job[j].c \in Channels /\ TypeOK
  BY DEF EditRead, IInv, TypeOK, Shaped, OnePcs
<1>3. UNCHANGED <<rows, abil>> BY DEF EditRead
<1>4. job'[j].pc \in {"idle", "load", "update"} /\ ReadIsStored(job[j])'
  <2>1. CASE Ends(j)
    <3>1. job'[j].pc \in {"idle", "load"} BY <1>2, <2>1, EndsWhere
    <3> QED BY <3>1 DEF ReadIsStored
  <2>2. CASE ~Ends(j)
    <3>1. /\ job'[j].pc = "update" /\ job'[j].row.status = rows[job[j].c].status
          /\ rows[job[j].c].status # "gone"
      BY <1>2, <2>2, EditReadType
    <3>2. job'[j].c = job[j].c BY <1>1, <1>2, <3>1 DEF Frame
    <3> QED BY <1>3, <3>1, <3>2 DEF ReadIsStored
  <2> QED BY <2>1, <2>2
<1>5. IndexServed' BY SameCache DEF EditRead, IInv
<1>6. ~Mid(job[j]) /\ ~Mid(job'[j]) BY <1>2, <1>4 DEF Mid
<1> QED BY <1>1, <1>3, <1>4, <1>5, <1>6, ReadOnly

\* A job that writes with no race has its channels for itself: they agree.
LEMMA Alone ==
  ASSUME IInv, NEW j \in Jobs, Writes(j), Clean', Clean, ~Mid(job[j]),
         NEW c \in Channels, job[j].c \in {c, "all"}
  PROVE Agree(c)
<1>1. ~Overlaps(j) BY DEF Writes, Clean
<1>2. ASSUME NEW i \in Jobs, Mid(job[i]) PROVE job[i].c \notin {c, "all"}
  <2>1. i # j /\ InDb(i) BY <1>2 DEF Mid, InDb
  <2> QED BY <1>1, <2>1 DEF Overlaps
<1> QED BY <1>2 DEF IInv, AgreeOrMid

\* The save of UpdateChannelStatus: the abilities are next, or the save failed.
LEMMA StatusSaveInv ==
  ASSUME IInv, NEW j \in Jobs, StatusSave(j)
  PROVE IInv'
<1>1. Frame(j) /\ TypeOK' BY StatusSaveFrame, StatusSaveType DEF IInv
<1>2. PICK w : w = job[j] OBVIOUS
<1>3. PICK c \in Channels : c = w.c
  BY <1>2 DEF StatusSave, IInv, TypeOK, Shaped, OnePcs, StatusPcs
<1>4. /\ job[j].pc = "save" /\ w \in JobType /\ w.row.status # "gone" /\ TypeOK
      /\ rows \in Table /\ rows[c] \in RowType /\ w.row \in RowType
      /\ w.key \in Keys \cup {None} /\ w.to \in {"enabled", "manual", "auto"}
      /\ w.key # None => w.to # "manual"
  BY <1>2, <1>3 DEF StatusSave, IInv, TypeOK, Shaped, StatusPcs, JobType, Table
<1>5. abil' = abil BY DEF StatusSave
<1>6. \/ /\ rows[c].status # "gone" /\ rows' = [rows EXCEPT ![c] = SaveWithoutKey(w.row, rows[c])]
         /\ Writes(j) /\ AfterSave(j, TRUE)
      \/ /\ rows[c].status = "gone" /\ rows' = rows /\ AfterSave(j, FALSE)
      \/ /\ faults' = faults + 1 /\ rows' = rows /\ AfterSave(j, FALSE)
  BY <1>2, <1>3 DEF StatusSave, Fault
<1>7. /\ ~w.ok => Ends(j)
      /\ w.ok => \E saved \in BOOLEAN : job'[j] = [w EXCEPT !.pc = "ability", !.ok = saved,
                                                           !.key = None, !.row = Gone]
  BY <1>2, <1>4, <1>6, AfterSaveTyped
<1>8. /\ ~w.ok => job'[j].pc \in {"idle", "load"}
      /\ w.ok => job'[j].pc = "ability" /\ job'[j].c = c /\ job'[j].to = w.to
  BY <1>2, <1>3, <1>4, <1>7, EndsWhere DEF JobType
<1>9. /\ SaveWithoutKey(w.row, rows[c]).status = w.row.status
      /\ SaveWithoutKey(w.row, rows[c]).group = w.row.group
  BY <1>4 DEF SaveWithoutKey, RowType
<1>10. \/ rows' = rows
       \/ /\ rows[c].status # "gone" /\ rows'[c].status = w.row.status
          /\ \A d \in Channels \ {c} : rows'[d] = rows[d]
  BY <1>4, <1>6, <1>9 DEF Table
<1>11. Plain(j)
  <2>1. \A d \in Channels : rows[d] = Gone => rows'[d] = Gone BY <1>10 DEF Gone
  <2> QED BY <1>8, <2>1 DEF Plain
<1>12. DeletedIsGone' BY <1>1, <1>11, PlainKeeps DEF IInv
<1>13. ASSUME Clean'
       PROVE /\ Agree(c) /\ rows[c].status # "gone" /\ rows'[c].status = w.row.status
             /\ rows'[c].group = rows[c].group
             /\ w.row = Changed(c, rows[c], w.key, w.to) /\ w.ok = (w.row.status # rows[c].status)
  <2>1. Clean BY <1>1, <1>13 DEF Clean, Frame
  <2>2. /\ rows[c].status # "gone" /\ w.row = Changed(c, rows[c], w.key, w.to)
        /\ w.ok = (w.row.status # rows[c].status)
    BY <1>2, <1>3, <1>4, <2>1 DEF IInv, ReadsHold, ReadIsStored, Clean
  <2>3. faults' # faults + 1 BY <1>13 DEF Clean, IInv, TypeOK
  <2>4. Writes(j) /\ rows' = [rows EXCEPT ![c] = SaveWithoutKey(w.row, rows[c])]
    BY <1>6, <2>2, <2>3
  <2>5. ~Mid(job[j]) BY <1>4 DEF Mid
  <2>6. Agree(c) BY <1>2, <1>3, <1>13, <2>1, <2>4, <2>5, Alone
  <2>7. rows'[c].status = w.row.status /\ rows'[c].group = w.row.group
    BY <1>4, <1>9, <2>4 DEF Table
  <2>8. w.row.group = rows[c].group BY <1>4, <2>2, ChangedTyped
  <2> QED BY <2>2, <2>6, <2>7, <2>8
<1>14. Clean' => WillAgree(job[j])'
  <2> SUFFICES ASSUME Clean', w.ok PROVE WillAgree(job[j])'
    BY <1>8 DEF WillAgree
  <2>0. w.row.status # rows[c].status BY <1>13, Zenon
  <2>1. w.row.status = w.to
    BY <1>4, <1>13, <2>0, ChangedTo
  <2>2. Follows(abil[c], rows[c]) BY <1>13 DEF Agree, Abilities, Ability, Follows
  <2>3. rows'[c].status # "gone" /\ Ability(rows'[c].status) = Ability(w.to)
        /\ Follows(abil'[c], rows'[c])
    BY <1>4, <1>5, <1>13, <2>1, <2>2 DEF Follows
  <2> QED BY <1>8, <2>3 DEF WillAgree, Ability, Follows
<1>15. ~raced' => ReadIsStored(job[j])' BY <1>8 DEF ReadIsStored
<1>16. ASSUME Clean', NEW d \in Channels, job[j].c \in {d, "all"},
              \A i \in Jobs : Mid(job'[i]) => job'[i].c \notin {d, "all"}
       PROVE Agree(d)'
  <2>1. d = c BY <1>2, <1>3, <1>16, PoolAssumption
  <2>2. ~w.ok BY <1>8, <1>16, <2>1 DEF Mid
  <2>3. w.row.status = rows[c].status BY <1>13, <1>16, <2>2, Zenon
  <2> QED BY <1>5, <1>13, <1>16, <2>1, <2>3 DEF Agree, Abilities, Ability
<1>17. IndexServed' BY SameCache DEF StatusSave, IInv
<1> QED BY <1>1, <1>12, <1>14, <1>15, <1>16, <1>17, Compose

\* UpdateAbilityStatus brings the abilities in step with the saved row.
LEMMA StatusAbilityInv ==
  ASSUME IInv, NEW j \in Jobs, StatusAbility(j)
  PROVE IInv'
<1>1. Frame(j) /\ TypeOK' BY StatusAbilityFrame, StatusAbilityType DEF IInv
<1>2. PICK c \in Channels : c = job[j].c
  BY DEF StatusAbility, IInv, TypeOK, Shaped, OnePcs, StatusPcs
<1>3. Ends(j) BY ReturnEnds DEF StatusAbility, IInv
<1>4. job'[j].pc \in {"idle", "load"} BY <1>2, <1>3, EndsWhere DEF IInv
<1>5. job[j].pc = "ability" /\ rows' = rows BY DEF StatusAbility
<1>6. abil' = SetAbility(c, job[j].to) \/ Fault BY <1>2 DEF StatusAbility
<1>7. abil \in Abils /\ faults \in Nat BY DEF IInv, TypeOK
<1>8. Plain(j) BY <1>4, <1>5 DEF Plain
<1>9. DeletedIsGone' BY <1>1, <1>8, PlainKeeps DEF IInv
<1>10. ReadIsStored(job[j])' /\ WillAgree(job[j])' BY <1>4 DEF ReadIsStored, WillAgree
<1>11. ASSUME Clean', NEW d \in Channels, job[j].c \in {d, "all"}
       PROVE Agree(d)'
  <2>1. d = c BY <1>2, <1>11, PoolAssumption
  <2>2. Clean BY <1>1, <1>11 DEF Clean, Frame
  <2>3. Ability(rows[c].status) = Ability(job[j].to) /\ Follows(abil[c], rows[c])
    BY <1>2, <1>5, <2>2 DEF IInv, AgreeOrMid, WillAgree
  <2>4. ~Fault BY <1>7, <1>11 DEF Clean, Fault
  <2>5. abil[c] # NoAbility BY <2>3 DEF Follows, NoAbility
  <2>6. abil'[c] = [abil[c] EXCEPT !.status = Ability(job[j].to)]
    BY <1>6, <1>7, <2>4, <2>5 DEF SetAbility, Abils
  <2>7. abil'[c] = Abilities(rows[c])
    BY <1>7, <2>3, <2>6 DEF Abils, AbilityType, Follows, Abilities
  <2> QED BY <1>5, <2>1, <2>7 DEF Agree, Abilities, Ability
<1>12. IndexServed' BY SameCache DEF StatusAbility, IInv
<1> QED BY <1>1, <1>9, <1>10, <1>11, <1>12, Compose

\* Update writes the row and leaves its status.
LEMMA EditUpdateInv ==
  ASSUME IInv, NEW j \in Jobs, EditUpdate(j)
  PROVE IInv'
<1>1. Frame(j) /\ TypeOK' BY EditUpdateFrame, EditUpdateType DEF IInv
<1>2. PICK c \in Channels : c = job[j].c
  BY DEF EditUpdate, IInv, TypeOK, Shaped, OnePcs
<1>3. /\ job[j].pc = "update" /\ job[j] \in JobType /\ job[j].row.status # "gone"
      /\ rows \in Table
  BY DEF EditUpdate, IInv, TypeOK, Shaped
<1>4. job'[j].pc = "reread" /\ job'[j].c = c
  BY <1>1, <1>2, <1>3, EditUpdateType DEF IInv, Frame
<1>5. abil' = abil BY DEF EditUpdate
<1>6. \/ rows' = rows
      \/ /\ rows[c].status # "gone" /\ rows'[c].status # "gone"
         /\ \A d \in Channels \ {c} : rows'[d] = rows[d]
  BY <1>2, <1>3 DEF EditUpdate, Table
<1>7. Plain(j)
  <2>1. \A d \in Channels : rows[d] = Gone => rows'[d] = Gone BY <1>6 DEF Gone
  <2> QED BY <1>4, <2>1 DEF Plain
<1>8. DeletedIsGone' BY <1>1, <1>7, PlainKeeps DEF IInv
<1>9. Clean' => WillAgree(job[j])'
  <2> SUFFICES ASSUME Clean' PROVE WillAgree(job[j])' OBVIOUS
  <2>1. Clean BY <1>1 DEF Clean, Frame
  <2>2. rows[c].status # "gone" BY <1>2, <1>3, <2>1 DEF IInv, ReadsHold, ReadIsStored, Clean
  <2>3. rows'[c].status # "gone" BY <1>6, <2>2
  <2> QED BY <1>4, <2>3 DEF WillAgree
<1>10. ReadIsStored(job[j])' BY <1>4 DEF ReadIsStored
<1>11. ASSUME NEW d \in Channels, job[j].c \in {d, "all"},
              \A i \in Jobs : Mid(job'[i]) => job'[i].c \notin {d, "all"}
       PROVE FALSE
  BY <1>2, <1>4, <1>11, PoolAssumption DEF Mid
<1>12. IndexServed' BY SameCache DEF EditUpdate, IInv
<1> QED BY <1>1, <1>8, <1>9, <1>10, <1>11, <1>12, Compose

\* The row is read again.
LEMMA EditRereadInv ==
  ASSUME IInv, NEW j \in Jobs, EditReread(j)
  PROVE IInv'
<1>1. Frame(j) /\ TypeOK' BY EditRereadFrame, EditRereadType DEF IInv
<1>2. PICK c \in Channels : c = job[j].c
  BY DEF EditReread, IInv, TypeOK, Shaped, OnePcs
<1>3. job[j].pc = "reread" /\ UNCHANGED <<rows, abil>> BY DEF EditReread
<1>4. job'[j].pc = "recreate" /\ job'[j].c = c
  BY <1>1, <1>2, <1>3, EditRereadType DEF IInv, Frame
<1>5. DeletedIsGone' BY <1>1, <1>3, <1>4, PlainKeeps DEF IInv, Plain
<1>6. ReadIsStored(job[j])' BY <1>4 DEF ReadIsStored
<1>7. Clean' => WillAgree(job[j])'
  <2> SUFFICES ASSUME Clean' PROVE WillAgree(job[j])' OBVIOUS
  <2>1. Clean BY <1>1 DEF Clean, Frame
  <2>2. rows[c].status # "gone" BY <1>2, <1>3, <2>1 DEF IInv, AgreeOrMid, WillAgree
  <2>3. ~Fault BY DEF Clean, Fault, IInv, TypeOK
  <2>4. job'[j].row = rows[c] BY <1>2, <2>2, <2>3, EditRereadType DEF IInv
  <2> QED BY <1>3, <1>4, <2>4 DEF WillAgree
<1>8. ASSUME NEW d \in Channels, job[j].c \in {d, "all"},
             \A i \in Jobs : Mid(job'[i]) => job'[i].c \notin {d, "all"}
      PROVE FALSE
  BY <1>2, <1>4, <1>8, PoolAssumption DEF Mid
<1>9. IndexServed' BY SameCache DEF EditReread, IInv
<1> QED BY <1>1, <1>5, <1>6, <1>7, <1>8, <1>9, Compose

\* UpdateAbilities inserts the abilities of the row anew.
LEMMA EditRecreateInv ==
  ASSUME IInv, NEW j \in Jobs, EditRecreate(j)
  PROVE IInv'
<1>1. Frame(j) /\ TypeOK' BY EditRecreateFrame, EditRecreateType DEF IInv
<1>2. PICK c \in Channels : c = job[j].c
  BY DEF EditRecreate, IInv, TypeOK, Shaped, OnePcs
<1>3. Ends(j) BY EditRecreateType DEF IInv
<1>4. job'[j].pc \in {"idle", "load"} BY <1>2, <1>3, EndsWhere DEF IInv
<1>5. job[j].pc = "recreate" /\ rows' = rows BY DEF EditRecreate
<1>6. abil'[c] = Abilities(job[j].row) BY <1>2 DEF EditRecreate, IInv, TypeOK, Abils
<1>7. DeletedIsGone' BY <1>1, <1>4, <1>5, PlainKeeps DEF IInv, Plain
<1>8. ReadIsStored(job[j])' /\ WillAgree(job[j])' BY <1>4 DEF ReadIsStored, WillAgree
<1>9. ASSUME Clean', NEW d \in Channels, job[j].c \in {d, "all"}
      PROVE Agree(d)'
  <2>1. Clean BY <1>1, <1>9 DEF Clean, Frame
  <2>2. job[j].row = rows[c] BY <1>2, <1>5, <2>1 DEF IInv, AgreeOrMid, WillAgree
  <2>3. d = c BY <1>2, <1>9, PoolAssumption
  <2> QED BY <1>5, <1>6, <2>2, <2>3 DEF Agree, Abilities, Ability
<1>10. IndexServed' BY SameCache DEF EditRecreate, IInv
<1> QED BY <1>1, <1>7, <1>8, <1>9, <1>10, Compose

\* Enabling or disabling a tag writes the rows ...
LEMMA TagRowsInv ==
  ASSUME IInv, NEW j \in Jobs, TagRows(j)
  PROVE IInv'
<1>1. Frame(j) /\ TypeOK' BY TagRowsFrame, TagRowsType DEF IInv
<1>2. PICK to \in {"enabled", "manual", "auto"} : to = job[j].to
  BY DEF TagRows, IInv, TypeOK, Shaped
<1>3. job[j].pc = "tagrows" /\ job[j].c = "all" /\ job[j] \in JobType /\ rows \in Table
  BY DEF TagRows, IInv, TypeOK, Shaped, AllPcs
<1>4. job'[j].pc = "tag" /\ job'[j].c = "all" /\ job'[j].to = to
  BY <1>2, <1>3, TagRowsType DEF IInv, JobType
<1>5. abil' = abil BY DEF TagRows
<1>6. ASSUME NEW c \in Channels
      PROVE \/ rows[c].status = "gone" /\ rows'[c] = rows[c]
            \/ rows[c].status # "gone" /\ rows'[c].status = to /\ rows'[c].group = rows[c].group
  BY <1>2, <1>3 DEF TagRows, Table, RowType
<1>7. Plain(j)
  <2>1. \A d \in Channels : rows[d] = Gone => rows'[d] = Gone BY <1>6 DEF Gone
  <2> QED BY <1>4, <2>1 DEF Plain
<1>8. DeletedIsGone' BY <1>1, <1>7, PlainKeeps DEF IInv
<1>9. Clean' => WillAgree(job[j])'
  <2> SUFFICES ASSUME Clean' PROVE WillAgree(job[j])' OBVIOUS
  <2>1. Clean BY <1>1 DEF Clean, Frame
  <2>2. Writes(j) /\ ~Mid(job[j]) BY <1>3 DEF TagRows, Mid
  <2>3. \A c \in Channels : Agree(c) BY <1>3, <2>1, <2>2, Alone
  <2>4. ASSUME NEW c \in Channels, rows'[c].status # "gone"
        PROVE rows'[c].status = to /\ Follows(abil'[c], rows'[c])
    <3>1. rows[c].status # "gone" /\ rows'[c].status = to /\ rows'[c].group = rows[c].group
      BY <1>6, <2>4
    <3>2. abil[c] = Abilities(rows[c]) BY <2>3, <3>1 DEF Agree
    <3> QED BY <1>5, <3>1, <3>2 DEF Abilities, Ability, Follows
  <2> QED BY <1>4, <2>4 DEF WillAgree, Follows
<1>10. ReadIsStored(job[j])' BY <1>4 DEF ReadIsStored
<1>11. ASSUME NEW d \in Channels,
              \A i \in Jobs : Mid(job'[i]) => job'[i].c \notin {d, "all"}
       PROVE FALSE
  BY <1>4, <1>11 DEF Mid
<1>12. IndexServed' BY SameCache DEF TagRows, IInv
<1> QED BY <1>1, <1>8, <1>9, <1>10, <1>11, <1>12, Compose

\* ... and then the abilities.
LEMMA TagAbilitiesInv ==
  ASSUME IInv, NEW j \in Jobs, TagAbilities(j)
  PROVE IInv'
<1>1. Frame(j) /\ TypeOK' BY TagAbilitiesFrame, TagAbilitiesType DEF IInv
<1>2. job[j].pc = "tag" /\ job[j].c = "all" /\ rows' = rows
  BY DEF TagAbilities, IInv, TypeOK, Shaped, AllPcs
<1>3. Ends(j) BY TagAbilitiesType DEF IInv
<1>4. job'[j].pc \in {"idle", "load"} BY <1>2, <1>3, EndsWhere DEF IInv
<1>5. \A c \in Channels : abil[c] # NoAbility =>
        abil'[c] = [abil[c] EXCEPT !.status = Ability(job[j].to)]
  BY DEF TagAbilities
<1>6. abil \in Abils BY DEF IInv, TypeOK
<1>7. DeletedIsGone' BY <1>1, <1>2, <1>4, PlainKeeps DEF IInv, Plain
<1>8. ReadIsStored(job[j])' /\ WillAgree(job[j])' BY <1>4 DEF ReadIsStored, WillAgree
<1>9. ASSUME Clean', NEW d \in Channels PROVE Agree(d)'
  <2> SUFFICES ASSUME rows[d].status # "gone" PROVE abil'[d] = Abilities(rows[d])
    BY <1>2 DEF Agree, Abilities, Ability
  <2>1. Clean BY <1>1, <1>9 DEF Clean, Frame
  <2>2. rows[d].status = job[j].to /\ Follows(abil[d], rows[d])
    BY <1>2, <2>1 DEF IInv, AgreeOrMid, WillAgree
  <2>3. abil'[d] = [abil[d] EXCEPT !.status = Ability(job[j].to)]
    BY <1>5, <2>2 DEF Follows, NoAbility
  <2> QED BY <1>6, <2>2, <2>3 DEF Abils, AbilityType, Follows, Abilities
<1>10. IndexServed' BY SameCache DEF TagAbilities, IInv
<1> QED BY <1>1, <1>7, <1>8, <1>9, <1>10, Compose

\* Delete takes the row away ...
LEMMA DeleteRowInv ==
  ASSUME IInv, NEW j \in Jobs, DeleteRow(j)
  PROVE IInv'
<1>1. Frame(j) /\ TypeOK' BY DeleteRowFrame, DeleteRowType DEF IInv
<1>2. PICK c \in Channels : c = job[j].c
  BY DEF DeleteRow, IInv, TypeOK, Shaped, OnePcs
<1>3. job[j].pc = "deleterow" /\ job[j] \in JobType /\ rows \in Table
  BY DEF DeleteRow, IInv, TypeOK
<1>4. job'[j].pc = "delete" /\ job'[j].c = c
  BY <1>2, <1>3, DeleteRowType DEF IInv, JobType
<1>5. abil' = abil BY DEF DeleteRow
<1>6. rows'[c] = Gone /\ \A d \in Channels \ {c} : rows'[d] = rows[d]
  BY <1>2, <1>3 DEF DeleteRow, Table
<1>7. Plain(j) BY <1>4, <1>6 DEF Plain
<1>8. DeletedIsGone' BY <1>1, <1>7, PlainKeeps DEF IInv
<1>9. ReadIsStored(job[j])' /\ WillAgree(job[j])' BY <1>4 DEF ReadIsStored, WillAgree
<1>10. ASSUME NEW d \in Channels, job[j].c \in {d, "all"},
              \A i \in Jobs : Mid(job'[i]) => job'[i].c \notin {d, "all"}
       PROVE FALSE
  BY <1>2, <1>4, <1>10, PoolAssumption DEF Mid
<1>11. IndexServed' BY SameCache DEF DeleteRow, IInv
<1> QED BY <1>1, <1>8, <1>9, <1>10, <1>11, Compose

\* ... and then its abilities.
LEMMA DeleteAbilitiesInv ==
  ASSUME IInv, NEW j \in Jobs, DeleteAbilities(j)
  PROVE IInv'
<1>1. Frame(j) /\ TypeOK' BY DeleteAbilitiesFrame, DeleteAbilitiesType DEF IInv
<1>2. PICK c \in Channels : c = job[j].c
  BY DEF DeleteAbilities, IInv, TypeOK, Shaped, OnePcs
<1>3. job[j].pc = "delete" /\ rows' = rows BY DEF DeleteAbilities
<1>4. rows[c] = Gone BY <1>2, <1>3 DEF IInv, DeletedIsGone
<1>5. Ends(j) BY DeleteAbilitiesType DEF IInv
<1>6. job'[j].pc \in {"idle", "load"} BY <1>2, <1>5, EndsWhere DEF IInv
<1>8. Plain(j) BY <1>3, <1>6 DEF Plain
<1>9. DeletedIsGone' BY <1>1, <1>8, PlainKeeps DEF IInv
<1>10. ReadIsStored(job[j])' /\ WillAgree(job[j])' BY <1>6 DEF ReadIsStored, WillAgree
<1>11. ASSUME NEW d \in Channels, job[j].c \in {d, "all"} PROVE Agree(d)'
  BY <1>2, <1>3, <1>4, <1>11, PoolAssumption DEF Agree, Gone
<1>12. IndexServed' BY SameCache DEF DeleteAbilities, IInv
<1> QED BY <1>1, <1>9, <1>10, <1>11, <1>12, Compose

\* BatchDeleteChannels takes both away in one transaction.
LEMMA DeleteChannelBatchInv ==
  ASSUME IInv, NEW j \in Jobs, DeleteChannelBatch(j)
  PROVE IInv'
<1>1. Frame(j) /\ TypeOK' BY DeleteChannelBatchFrame, DeleteChannelBatchType DEF IInv
<1>2. PICK c \in Channels : c = job[j].c
  BY DEF DeleteChannelBatch, IInv, TypeOK, Shaped, OnePcs
<1>3. job[j].pc = "deletebatch" BY DEF DeleteChannelBatch
<1>4. Ends(j) BY DeleteChannelBatchType DEF IInv
<1>5. job'[j].pc \in {"idle", "load"} BY <1>2, <1>4, EndsWhere DEF IInv
<1>6. rows'[c] = Gone /\ \A d \in Channels \ {c} : rows'[d] = rows[d]
  BY <1>2 DEF DeleteChannelBatch, IInv, TypeOK, Table
<1>7. Plain(j) BY <1>5, <1>6 DEF Plain
<1>8. DeletedIsGone' BY <1>1, <1>7, PlainKeeps DEF IInv
<1>9. ReadIsStored(job[j])' /\ WillAgree(job[j])' BY <1>5 DEF ReadIsStored, WillAgree
<1>10. ASSUME NEW d \in Channels, job[j].c \in {d, "all"} PROVE Agree(d)'
  BY <1>2, <1>6, <1>10, PoolAssumption DEF Agree, Gone
<1>11. IndexServed' BY SameCache DEF DeleteChannelBatch, IInv
<1> QED BY <1>1, <1>8, <1>9, <1>10, <1>11, Compose

\* DeleteDisabledChannel takes rows away and leaves their abilities.
LEMMA DeleteDisabledChannelInv ==
  ASSUME IInv, NEW j \in Jobs, DeleteDisabledChannel(j)
  PROVE IInv'
<1>1. Frame(j) /\ TypeOK' BY DeleteDisabledChannelFrame, DeleteDisabledChannelType DEF IInv
<1>2. job[j].pc = "deletedisabled" /\ job[j].c = "all" /\ abil' = abil
  BY DEF DeleteDisabledChannel, IInv, TypeOK, Shaped, AllPcs
<1>3. Ends(j) BY DeleteDisabledChannelType DEF IInv
<1>4. job'[j].pc \in {"idle", "load"} BY <1>2, <1>3, EndsWhere DEF IInv
<1>5. \A d \in Channels : rows'[d] \in {Gone, rows[d]} BY DEF DeleteDisabledChannel
<1>6. Plain(j) BY <1>4, <1>5 DEF Plain
<1>7. DeletedIsGone' BY <1>1, <1>6, PlainKeeps DEF IInv
<1>8. ReadIsStored(job[j])' /\ WillAgree(job[j])' BY <1>4 DEF ReadIsStored, WillAgree
<1>9. ASSUME Clean', NEW d \in Channels PROVE Agree(d)'
  <2>1. Clean BY <1>1, <1>9 DEF Clean, Frame
  <2>2. Writes(j) /\ ~Mid(job[j]) BY <1>2 DEF DeleteDisabledChannel, Mid
  <2>3. Agree(d) BY <1>2, <1>9, <2>1, <2>2, Alone
  <2> QED BY <1>2, <1>5, <2>3 DEF Agree, Abilities, Ability, Gone
<1>10. IndexServed' BY SameCache DEF DeleteDisabledChannel, IInv
<1> QED BY <1>1, <1>7, <1>8, <1>9, <1>10, Compose

\* An insertion adds a row with its abilities.
LEMMA AddChannelInv ==
  ASSUME IInv, NEW j \in Jobs, AddChannel(j)
  PROVE IInv'
<1>1. Frame(j) /\ TypeOK' BY AddChannelFrame, AddChannelType DEF IInv
<1>2. PICK c \in Channels : c = job[j].c
  BY DEF AddChannel, IInv, TypeOK, Shaped, OnePcs
<1>3. job[j].pc = "add" /\ rows[c] = Unborn BY <1>2 DEF AddChannel
<1>4. Ends(j) BY AddChannelType DEF IInv
<1>5. job'[j].pc \in {"idle", "load"} BY <1>2, <1>4, EndsWhere DEF IInv
<1>6. PICK g \in Groups : /\ rows' = [rows EXCEPT ![c] = Fresh(g)]
                          /\ abil' = [abil EXCEPT ![c] = Abilities(Fresh(g))]
  BY <1>2 DEF AddChannel
<1>7. /\ rows'[c] = Fresh(g) /\ abil'[c] = Abilities(Fresh(g))
      /\ \A d \in Channels \ {c} : rows'[d] = rows[d]
  BY <1>6 DEF IInv, TypeOK, Table, Abils
<1>8. DeletedIsGone'
  <2>1. \A d \in Channels : rows[d] = Gone => rows'[d] = Gone BY <1>3, <1>7, RowsTyped
  <2> QED BY <1>1, <1>5, <2>1, PlainKeeps DEF IInv, Plain
<1>9. ReadIsStored(job[j])' /\ WillAgree(job[j])' BY <1>5 DEF ReadIsStored, WillAgree
<1>10. ASSUME NEW d \in Channels, job[j].c \in {d, "all"} PROVE Agree(d)'
  <2>1. d = c BY <1>2, <1>10, PoolAssumption
  <2> QED BY <1>7, <2>1 DEF Agree, Abilities, Ability
<1>11. IndexServed' BY SameCache DEF AddChannel, IInv
<1> QED BY <1>1, <1>8, <1>9, <1>10, <1>11, Compose

\* FixAbility empties the table of abilities, ...
LEMMA FixTruncateInv ==
  ASSUME IInv, NEW j \in Jobs, FixTruncate(j)
  PROVE IInv'
<1>1. Frame(j) /\ TypeOK' BY FixTruncateFrame, FixTruncateType DEF IInv
<1>2. job[j].pc = "fix" /\ job[j].c = "all" /\ rows' = rows /\ job[j] \in JobType
  BY DEF FixTruncate, IInv, TypeOK, Shaped, AllPcs
<1>3. IndexServed' BY SameCache DEF FixTruncate, IInv
<1>4. CASE Ends(j) /\ abil' = abil
  <2>1. job'[j].pc \in {"idle", "load"} BY <1>2, <1>4, EndsWhere DEF IInv
  <2>2. ~Mid(job[j]) /\ ~Mid(job'[j]) /\ ReadIsStored(job[j])'
    BY <1>2, <2>1 DEF Mid, ReadIsStored
  <2> QED BY <1>1, <1>2, <1>3, <1>4, <2>2, ReadOnly
<1>5. CASE job'[j] = [job[j] EXCEPT !.pc = "find"]
  <2>1. job'[j].pc = "find" /\ job'[j].c = "all" BY <1>2, <1>5 DEF JobType
  <2>2. DeletedIsGone' BY <1>1, <1>2, <2>1, PlainKeeps DEF IInv, Plain
  <2>3. ReadIsStored(job[j])' /\ WillAgree(job[j])' BY <2>1 DEF ReadIsStored, WillAgree
  <2>4. ASSUME NEW d \in Channels,
               \A i \in Jobs : Mid(job'[i]) => job'[i].c \notin {d, "all"}
        PROVE FALSE
    BY <2>1, <2>4 DEF Mid
  <2> QED BY <1>1, <1>3, <2>2, <2>3, <2>4, Compose
<1> QED BY <1>4, <1>5, FixTruncateType DEF IInv

\* ... reads the rows, ...
LEMMA FixFindInv ==
  ASSUME IInv, NEW j \in Jobs, FixFind(j)
  PROVE IInv'
<1>1. Frame(j) /\ TypeOK' BY FixFindFrame, FixFindType DEF IInv
<1>2. job[j].pc = "find" /\ job[j].c = "all" /\ rows' = rows /\ job[j] \in JobType
  BY DEF FixFind, IInv, TypeOK, Shaped, AllPcs
<1>3. IndexServed' BY SameCache DEF FixFind, IInv
<1>4. CASE job'[j] = Idle /\ \A c \in Channels : rows[c].status = "gone"
  <2>1. job'[j].pc = "idle" BY <1>4 DEF Idle
  <2>2. DeletedIsGone' BY <1>1, <1>2, <2>1, PlainKeeps DEF IInv, Plain
  <2>3. ReadIsStored(job[j])' /\ WillAgree(job[j])' BY <2>1 DEF ReadIsStored, WillAgree
  <2>4. \A d \in Channels : Agree(d)' BY <1>2, <1>4 DEF Agree
  <2> QED BY <1>1, <1>3, <2>2, <2>3, <2>4, Compose
<1>5. CASE job'[j] = [job[j] EXCEPT !.pc = "refill", !.loaded = rows]
  <2>1. job'[j].pc = "refill" /\ job'[j].loaded = rows /\ job'[j].c = "all"
    BY <1>2, <1>5 DEF JobType
  <2>2. DeletedIsGone' BY <1>1, <1>2, <2>1, PlainKeeps DEF IInv, Plain
  <2>3. ReadIsStored(job[j])' /\ WillAgree(job[j])' BY <1>2, <2>1 DEF ReadIsStored, WillAgree
  <2>4. ASSUME NEW d \in Channels,
               \A i \in Jobs : Mid(job'[i]) => job'[i].c \notin {d, "all"}
        PROVE FALSE
    BY <2>1, <2>4 DEF Mid
  <2> QED BY <1>1, <1>3, <2>2, <2>3, <2>4, Compose
<1> QED BY <1>4, <1>5, FixFindType DEF IInv

\* ... and inserts the abilities of those it has read.
LEMMA FixRefillInv ==
  ASSUME IInv, NEW j \in Jobs, FixRefill(j)
  PROVE IInv'
<1>1. Frame(j) /\ TypeOK' BY FixRefillFrame, FixRefillType DEF IInv
<1>2. job[j].pc = "refill" /\ job[j].c = "all" /\ rows' = rows
  BY DEF FixRefill, IInv, TypeOK, Shaped, AllPcs
<1>3. Ends(j) BY FixRefillType DEF IInv
<1>4. job'[j].pc \in {"idle", "load"} BY <1>2, <1>3, EndsWhere DEF IInv
<1>5. DeletedIsGone' BY <1>1, <1>2, <1>4, PlainKeeps DEF IInv, Plain
<1>6. ReadIsStored(job[j])' /\ WillAgree(job[j])' BY <1>4 DEF ReadIsStored, WillAgree
<1>7. ASSUME Clean', NEW d \in Channels PROVE Agree(d)'
  <2>1. Clean BY <1>1, <1>7 DEF Clean, Frame
  <2>2. job[j].loaded = rows BY <1>2, <2>1 DEF IInv, AgreeOrMid, WillAgree
  <2>3. ~Fault BY <1>7 DEF Clean, Fault, IInv, TypeOK
  <2>4. abil' = Refill(abil, rows, {}, {}) BY <2>2, <2>3 DEF FixRefill
  <2>5. rows[d].status # "gone" => abil'[d] = Abilities(rows[d]) BY <2>4 DEF Refill
  <2> QED BY <1>2, <2>5 DEF Agree, Abilities, Ability
<1>8. IndexServed' BY SameCache DEF FixRefill, IInv
<1> QED BY <1>1, <1>5, <1>6, <1>7, <1>8, Compose

\* A failing call ends an operation: what it has written stays, and is no longer clean.
LEMMA CallFailsInv ==
  ASSUME IInv, NEW j \in Jobs, CallFails(j)
  PROVE IInv'
<1>1. Frame(j) /\ TypeOK' BY CallFailsFrame, CallFailsType DEF IInv
<1>2. job'[j].pc = "idle" BY DEF CallFails, IInv, TypeOK, Idle
<1>3. rows' = rows /\ Fault BY DEF CallFails
<1>4. ~Clean' BY <1>3 DEF Clean, Fault, IInv, TypeOK
<1>5. DeletedIsGone' BY <1>1, <1>2, <1>3, PlainKeeps DEF IInv, Plain
<1>6. ReadIsStored(job[j])' BY <1>2 DEF ReadIsStored
<1>7. IndexServed' BY SameCache DEF CallFails, IInv
<1> QED BY <1>1, <1>4, <1>5, <1>6, <1>7, Compose

-----------------------------------------------------------------------------
(* The operations' beginnings, the channel test, the loop and a restart    *)

Begun(op, auto, c, key, to) ==
  [Idle EXCEPT !.pc = op, !.auto = auto, !.c = c, !.key = key, !.to = to]

\* The operations that can be asked for.
Asked(op, c, key, to) ==
  \/ /\ op = "status" /\ c \in Channels /\ key \in Keys \cup {None}
     /\ to \in {"enabled", "manual", "auto"} /\ (key # None => to # "manual")
  \/ op \in {"deleterow", "deletebatch", "add"} /\ c \in Channels /\ key = None /\ to = "none"
  \/ op = "edit" /\ c \in Channels /\ key = None /\ to = "edit"
  \/ op = "edit" /\ c \in Channels /\ key \in Keys /\ to \in KeyActions
  \/ op = "tagrows" /\ c = "all" /\ key = None /\ to \in {"enabled", "manual"}
  \/ op \in {"deletedisabled", "fix"} /\ c = "all" /\ key = None /\ to = "none"

\* An operation that begins is well-formed and has written nothing.
LEMMA BegunTyped ==
  ASSUME NEW op, NEW auto \in BOOLEAN, NEW c, NEW key, NEW to, Asked(op, c, key, to)
  PROVE /\ Begun(op, auto, c, key, to) \in JobType /\ Shaped(Begun(op, auto, c, key, to))
        /\ op \notin {"save", "update", "ability", "reread", "recreate", "tag", "delete", "find", "refill"}
<1>1. /\ op \in OnePcs \cup AllPcs /\ c \in Channels \cup {"all"} /\ key \in Keys \cup {None}
      /\ to \in Status \cup KeyActions \cup {"edit", "none"}
      /\ op \notin {"save", "update", "ability", "reread", "recreate", "tag", "delete", "find", "refill"}
  BY DEF Asked, OnePcs, AllPcs, StatusPcs, Status
<1>2. /\ Begun(op, auto, c, key, to) \in JobType /\ Begun(op, auto, c, key, to).pc = op
      /\ Begun(op, auto, c, key, to).c = c /\ Begun(op, auto, c, key, to).key = key
      /\ Begun(op, auto, c, key, to).to = to
  BY <1>1, IdleTyped DEF Begun, JobType, Idle
<1>3. PICK w : w = Begun(op, auto, c, key, to) OBVIOUS
<1>4. w.pc = op /\ w.c = c /\ w.key = key /\ w.to = to BY <1>2, <1>3
<1>5. /\ op \in OnePcs => c \in Channels
      /\ op \in AllPcs => c = "all"
      /\ op \notin ReloadPcs /\ op \notin {"groups", "swap", "refill", "save", "update"}
      /\ op \in StatusPcs \cup {"tagrows", "tag"} => to \in {"enabled", "manual", "auto"}
      /\ (op \in StatusPcs /\ key # None) => to # "manual"
      /\ (op = "edit" /\ to # "edit") => to \in KeyActions /\ key \in Keys
  BY DEF Asked, OnePcs, AllPcs, StatusPcs, ReloadPcs
<1>6. Shaped(w) BY <1>4, <1>5 DEF Shaped
<1> QED BY <1>1, <1>2, <1>3, <1>6

\* An operation that begins preserves the invariant.
LEMMA BeginInv ==
  ASSUME IInv, NEW j \in Jobs, NEW op, NEW auto \in BOOLEAN, NEW c, NEW key, NEW to,
         Begin(j, op, auto, c, key, to), Asked(op, c, key, to), test' \in Table, ops' \in Nat
  PROVE IInv'
<1>1. PICK w : w = Begun(op, auto, c, key, to) OBVIOUS
<1>2. /\ w \in JobType /\ Shaped(w) /\ w.pc = op
      /\ op \notin {"save", "update", "ability", "reread", "recreate", "tag", "delete", "find", "refill"}
  <2>1. w.pc = op BY <1>1 DEF Begun, Idle
  <2> QED BY <1>1, <2>1, BegunTyped
<1>3. job' = [job EXCEPT ![j] = w] /\ job[j].pc = "idle" BY <1>1 DEF Begin, Begun
<1>4. job'[j] = w /\ \A i \in Jobs \ {j} : job'[i] = job[i] BY <1>3 DEF IInv, TypeOK
<1>5. job' \in [Jobs -> JobType] /\ \A i \in Jobs : Shaped(job'[i])
  BY <1>2, <1>3, JobsTyped DEF IInv
<1>6. UNCHANGED <<rows, abil, idm, index, lock, sync, faults, raced>>
  BY DEF Begin, cacheVars
<1>8. TypeOK'
  <2>1. TypeOK BY DEF IInv
  <2> QED BY <1>5, <1>6, <2>1 DEF TypeOK
<1>9. Frame(j) BY <1>3, <1>4, <1>6 DEF Frame
<1>10. ~Mid(job[j]) /\ ~Mid(job'[j]) /\ ReadIsStored(job[j])'
  BY <1>2, <1>3, <1>4 DEF Mid, ReadIsStored
<1>11. IndexServed' BY <1>6, SameCache DEF IInv, cacheVars
<1> QED BY <1>6, <1>8, <1>9, <1>10, <1>11, ReadOnly

\* So does every operation an administrator begins,
LEMMA AdminInv ==
  ASSUME IInv, NEW j \in Jobs, Admin(j)
  PROVE IInv'
<1>1. test' \in Table BY DEF Admin, IInv, TypeOK
<1>2. ASSUME NEW op, NEW c, NEW key, NEW to, Asked(op, c, key, to),
             Start(j, op, FALSE, c, key, to)
      PROVE IInv'
  <2>1. Begin(j, op, FALSE, c, key, to) /\ ops' = ops + 1 BY <1>2 DEF Start, Counted
  <2>2. ops' \in Nat BY <2>1 DEF IInv, TypeOK
  <2> QED BY <1>1, <1>2, <2>1, <2>2, BeginInv
<1>3. ASSUME NEW c \in Channels, NEW to \in {"enabled", "manual"},
             Start(j, "status", FALSE, c, None, to)
      PROVE IInv'
  <2>1. Asked("status", c, None, to) BY DEF Asked
  <2> QED BY <1>2, <1>3, <2>1
<1>4. ASSUME NEW c \in Channels, NEW op \in {"deleterow", "deletebatch", "add"},
             Start(j, op, FALSE, c, None, "none")
      PROVE IInv'
  <2>1. Asked(op, c, None, "none") BY DEF Asked
  <2> QED BY <1>2, <1>4, <2>1
<1>5. ASSUME NEW c \in Channels, Start(j, "edit", FALSE, c, None, "edit") PROVE IInv'
  <2>1. Asked("edit", c, None, "edit") BY DEF Asked
  <2> QED BY <1>2, <1>5, <2>1
<1>6. ASSUME NEW c \in Channels, NEW a \in KeyActions, NEW k \in Keys,
             Start(j, "edit", FALSE, c, k, a)
      PROVE IInv'
  <2>1. Asked("edit", c, k, a) BY DEF Asked
  <2> QED BY <1>2, <1>6, <2>1
<1>7. ASSUME NEW to \in {"enabled", "manual"}, Start(j, "tagrows", FALSE, "all", None, to)
      PROVE IInv'
  <2>1. Asked("tagrows", "all", None, to) BY DEF Asked
  <2> QED BY <1>2, <1>7, <2>1
<1>8. ASSUME NEW op \in {"deletedisabled", "fix"}, Start(j, op, FALSE, "all", None, "none")
      PROVE IInv'
  <2>1. Asked(op, "all", None, "none") BY DEF Asked
  <2> QED BY <1>2, <1>8, <2>1
<1>9. CASE \E c \in Channels :
             \/ /\ rows[c].status # "gone"
                /\ \/ \E to \in {"enabled", "manual"} : Start(j, "status", FALSE, c, None, to)
                   \/ Start(j, "deleterow", FALSE, c, None, "none")
                   \/ Start(j, "deletebatch", FALSE, c, None, "none")
                   \/ Start(j, "edit", FALSE, c, None, "edit")
                   \/ \E a \in KeyActions, k \in Keys : Start(j, "edit", FALSE, c, k, a)
             \/ Start(j, "add", FALSE, c, None, "none")
  <2>1. PICK c \in Channels :
             \/ \E to \in {"enabled", "manual"} : Start(j, "status", FALSE, c, None, to)
             \/ Start(j, "deleterow", FALSE, c, None, "none")
             \/ Start(j, "deletebatch", FALSE, c, None, "none")
             \/ Start(j, "edit", FALSE, c, None, "edit")
             \/ \E a \in KeyActions, k \in Keys : Start(j, "edit", FALSE, c, k, a)
             \/ Start(j, "add", FALSE, c, None, "none")
    BY <1>9, Zenon
  <2>2. ASSUME \E op \in {"deleterow", "deletebatch", "add"} : Start(j, op, FALSE, c, None, "none")
        PROVE IInv'
    BY <2>2, <1>4
  <2> QED BY <2>1, <2>2, <1>3, <1>5, <1>6, Zenon
<1>10. CASE \/ \E to \in {"enabled", "manual"} : Start(j, "tagrows", FALSE, "all", None, to)
            \/ Start(j, "deletedisabled", FALSE, "all", None, "none")
            \/ Start(j, "fix", FALSE, "all", None, "none")
  BY <1>7, <1>8, <1>10
<1> QED BY <1>9, <1>10, Zenon DEF Admin

\* a request that fails,
LEMMA RequestFailsInv ==
  ASSUME IInv, NEW j \in Jobs, RequestFails(j)
  PROVE IInv'
<1>1. PICK c \in Channels, k \in Keys \cup {None} : DisableChannel(j, c, k)
  BY DEF RequestFails, UsableKeys, IInv, TypeOK
<1>2. test' \in Table /\ ops' \in Nat BY <1>1 DEF DisableChannel, Start, Counted, IInv, TypeOK
<1>3. Begin(j, "status", TRUE, c, k, "auto") BY <1>1 DEF DisableChannel, Start
<1>4. Asked("status", c, k, "auto") BY DEF Asked
<1> QED BY <1>2, <1>3, <1>4, BeginInv

\* The jobs, the tables and the cache as they were.
LEMMA IdleInv ==
  ASSUME IInv, TypeOK', IndexServed', UNCHANGED <<rows, abil, job, raced>>, faults' = 0 => faults = 0
  PROVE IInv'
<1>1. DeletedIsGone' BY DEF IInv, DeletedIsGone, Gone, Keys
<1>2. ReadsHold'
  <2> SUFFICES ASSUME ~raced, NEW j \in Jobs PROVE ReadIsStored(job[j])' BY DEF ReadsHold
  <2>1. ReadIsStored(job[j]) BY DEF IInv, ReadsHold
  <2> QED BY <2>1 DEF ReadIsStored, Changed, HandlerMultiKeyUpdate, HasKey, Keys
<1>3. AgreeOrMid'
  BY DEF IInv, AgreeOrMid, WillAgree, Follows, Mid, Agree, Abilities, Ability, Clean
<1> QED BY <1>1, <1>2, <1>3 DEF IInv

\* and a channel the test changes.
LEMMA TestChannelInv ==
  ASSUME IInv, NEW j \in Jobs, NEW c \in Channels, TestChannel(j, c)
  PROVE IInv'
<1>1. test' \in Table /\ ops' = ops /\ ops \in Nat
  BY RowsTyped DEF TestChannel, IInv, TypeOK, Table
<1>2. CASE UNCHANGED <<rows, abil, cacheVars, lock, job, sync, faults, raced>>
  <2>1. UNCHANGED <<rows, abil, idm, index, lock, job, sync, faults, raced>>
    BY <1>2 DEF cacheVars
  <2>2. TypeOK' BY <1>1, <2>1 DEF IInv, TypeOK
  <2>3. IndexServed' BY <1>2, SameCache DEF IInv
  <2> QED BY <2>1, <2>2, <2>3, IdleInv
<1>3. ASSUME NEW k \in Keys \cup {None}, NEW to \in {"auto", "enabled"},
             Begin(j, "status", TRUE, c, k, to)
      PROVE IInv'
  <2>1. Asked("status", c, k, to) BY DEF Asked
  <2> QED BY <1>1, <1>3, <2>1, BeginInv
<1>4. \A row : UsableKeys(c, row) \subseteq Keys \cup {None} BY DEF UsableKeys
<1> QED BY <1>2, <1>3, <1>4 DEF TestChannel

\* The channel test reads the rows.
LEMMA TestStartInv ==
  ASSUME IInv, TestStart
  PROVE IInv'
<1>1. UNCHANGED <<rows, abil, idm, index, lock, job, sync, faults, raced>>
  BY DEF TestStart, cacheVars
<1>2. test' \in Table /\ ops' \in Nat
  BY RowsTyped DEF TestStart, Counted, IInv, TypeOK, SelectChannelsForAutomaticTest, Table
<1>3. TypeOK' BY <1>1, <1>2 DEF IInv, TypeOK
<1>4. IndexServed' BY <1>1, SameCache DEF IInv, cacheVars
<1> QED BY <1>1, <1>3, <1>4, IdleInv

\* The periodic reload writes the cache only.
LEMMA SyncInv ==
  ASSUME IInv, SyncLoad \/ SyncAbilities \/ SyncSwap
  PROVE IInv'
<1>1. UNCHANGED <<rows, abil, lock, job, test, ops, raced>>
  BY DEF SyncLoad, SyncAbilities, SyncSwap
<1>0. faults' \in Nat /\ (faults' = 0 => faults = 0)
  <2>1. UNCHANGED faults \/ Fault BY DEF SyncLoad, SyncAbilities, SyncSwap, Finds
  <2> QED BY <2>1, Counts DEF IInv
<1>2. /\ sync' \in [loaded : Table \cup {None}, ready : BOOLEAN]
      /\ sync'.ready => sync'.loaded \in Table
  <2>1. /\ sync \in [loaded : Table \cup {None}, ready : BOOLEAN] /\ rows \in Table
    BY DEF IInv, TypeOK
  <2>2. CASE SyncLoad
    <3>1. PICK found \in {rows, NoRows} : sync' = [loaded |-> found, ready |-> FALSE]
      BY <2>2 DEF SyncLoad
    <3> QED BY <2>1, <3>1, RowsTyped
  <2>3. CASE SyncAbilities BY <2>1, <2>3 DEF SyncAbilities
  <2>4. CASE SyncSwap BY <2>4 DEF SyncSwap, Asleep
  <2> QED BY <2>2, <2>3, <2>4
<1>3. CASE SyncLoad \/ SyncAbilities
  <2>1. UNCHANGED cacheVars BY <1>3 DEF SyncLoad, SyncAbilities
  <2>2. IndexServed' BY <2>1, SameCache DEF IInv
  <2>3. TypeOK' BY <1>0, <1>1, <1>2, <2>1 DEF IInv, TypeOK, cacheVars
  <2> QED BY <1>0, <1>1, <2>2, <2>3, IdleInv
<1>4. CASE SyncSwap
  <2>1. Replace(sync.loaded) /\ sync.loaded \in Table BY <1>4 DEF SyncSwap, IInv, TypeOK
  <2>2. IndexServed' BY <2>1, ReplaceServes
  <2>3. TypeOK' BY <1>0, <1>1, <1>2, <2>1 DEF IInv, TypeOK, Replace, ServedFrom
  <2> QED BY <1>0, <1>1, <2>2, <2>3, IdleInv
<1> QED BY <1>3, <1>4

\* A process that starts again repairs the abilities if they cannot be loaded.
LEMMA RestartInv ==
  ASSUME IInv, NEW n \in {0, 1}, Restart(n)
  PROVE IInv'
<1>1. rows' = rows /\ job' = [j \in Jobs |-> Idle] /\ ops' = ops /\ lock' = None
  BY DEF Restart
<1>2. \A j \in Jobs : job'[j] = Idle BY <1>1
<1>3. IndexServed' BY ReplaceServes DEF Restart
<1>4. PICK lost \in SUBSET Channels :
        /\ abil' = IF Panics(rows, abil) THEN Refill(NoAbilities, rows, {}, lost) ELSE abil
        /\ lost # {} => Panics(rows, abil)
        /\ faults' = faults + n + (IF lost = {} THEN 0 ELSE 1)
  BY DEF Restart, Boot
<1>5. rows \in Table /\ abil \in Abils /\ ops \in Nat /\ faults \in Nat BY DEF IInv, TypeOK
<1>6. faults' \in Nat /\ (faults' = 0 => faults = 0 /\ lost = {}) BY <1>4, <1>5
<1>7. TypeOK'
  <2>1. idm' \in Table /\ index' \subseteq Channels
    BY <1>5 DEF Restart, Replace, ServedFrom
  <2>2. abil' \in Abils BY <1>4, <1>5, AbilitiesTyped, RefillTyped
  <2>3. job' \in [Jobs -> JobType] /\ \A j \in Jobs : Shaped(job'[j]) BY <1>1, IdleTyped
  <2>4. raced' \in BOOLEAN BY DEF Restart, IInv, TypeOK
  <2>5. sync' = Asleep /\ test' = NoRows BY DEF Restart
  <2> QED BY <1>1, <1>5, <1>6, <2>1, <2>2, <2>3, <2>4, <2>5, RowsTyped DEF TypeOK, Asleep
<1>8. DeletedIsGone' /\ ReadsHold'
  BY <1>2 DEF DeletedIsGone, ReadsHold, ReadIsStored, Idle
<1>9. AgreeOrMid'
  <2> SUFFICES ASSUME Clean', NEW c \in Channels PROVE Agree(c)'
    BY <1>2 DEF AgreeOrMid, WillAgree, Idle
  <2>1. Clean /\ lost = {} /\ \A j \in Jobs : ~InDb(j) BY <1>6 DEF Restart, Clean
  <2>2. Agree(c) BY <2>1 DEF IInv, AgreeOrMid, Mid, InDb
  <2>3. CASE Panics(rows, abil)
    <3>1. abil' = Refill(NoAbilities, rows, {}, {}) BY <1>4, <2>1, <2>3
    <3>2. rows[c].status # "gone" => abil'[c] = Abilities(rows[c]) BY <3>1 DEF Refill
    <3> QED BY <1>1, <3>2 DEF Agree, Abilities, Ability
  <2>4. CASE ~Panics(rows, abil)
    <3>1. abil' = abil BY <1>4, <2>4
    <3> QED BY <1>1, <2>2, <3>1 DEF Agree, Abilities, Ability
  <2> QED BY <2>3, <2>4
<1> QED BY <1>3, <1>7, <1>8, <1>9 DEF IInv

-----------------------------------------------------------------------------
(* The invariant                                                           *)

\* The invariant holds initially.
LEMMA InitInv == PoolInit => IInv
<1> SUFFICES ASSUME PoolInit PROVE IInv OBVIOUS
<1>1. /\ rows = [c \in Channels |-> IF c \in New THEN Unborn ELSE Fresh(Home)]
      /\ abil = [c \in Channels |-> IF c \in New THEN NoAbility ELSE Abilities(Fresh(Home))]
      /\ idm = rows /\ index = ServedFrom(rows)
      /\ job = [j \in Jobs |-> Idle] /\ \A j \in Jobs : job[j] = Idle
  BY DEF PoolInit
<1>2. rows \in Table /\ abil \in Abils
  <2>1. Fresh(Home) \in RowType /\ Abilities(Fresh(Home)) \in AbilityType
    BY RowsTyped, AbilitiesTyped, PoolAssumption
  <2> QED BY <1>1, <2>1, RowsTyped, AbilitiesTyped DEF Table, Abils
<1>3. job \in [Jobs -> JobType] /\ \A j \in Jobs : Shaped(job[j]) BY <1>1, IdleTyped
<1>4. TypeOK
  BY <1>1, <1>2, <1>3, RowsTyped DEF PoolInit, TypeOK, Asleep, ServedFrom
<1>5. IndexServed BY <1>1 DEF IndexServed
<1>6. DeletedIsGone /\ ReadsHold
  BY <1>1 DEF DeletedIsGone, ReadsHold, ReadIsStored, Idle
<1>7. \A c \in Channels : Agree(c) BY <1>1 DEF Agree, Unborn
<1>8. AgreeOrMid BY <1>1, <1>7 DEF AgreeOrMid, WillAgree, Idle
<1> QED BY <1>4, <1>5, <1>6, <1>8 DEF IInv

\* Every step of a job preserves the invariant.
LEMMA JobStepInv ==
  ASSUME IInv, NEW j \in Jobs, JobStep(j)
  PROVE IInv'
BY LoadInv, LoadAbilitiesInv, SwapInv, StatusInCacheInv, StatusReadInv, StatusSaveInv,
   StatusAbilityInv, EditReadInv, EditUpdateInv, EditRereadInv, EditRecreateInv, TagRowsInv, TagAbilitiesInv,
   DeleteRowInv, DeleteAbilitiesInv, DeleteChannelBatchInv, DeleteDisabledChannelInv,
   AddChannelInv, FixTruncateInv, FixFindInv, FixRefillInv
   DEF JobStep

\* So do the death of the process and a reload that panics.
LEMMA RestartsInv ==
  ASSUME IInv, Crash \/ SyncPanics
  PROVE IInv'
<1>1. Restart(0) \/ Restart(1) BY DEF Crash, SyncPanics
<1> QED BY <1>1, RestartInv

\* Every step of the channels preserves the invariant.
LEMMA NextInv ==
  ASSUME IInv, [PoolNext]_poolVars
  PROVE IInv'
<1>1. CASE UNCHANGED poolVars
  <2>1. UNCHANGED <<rows, abil, idm, index, lock, job, sync, test, ops, faults, raced>>
    BY <1>1 DEF poolVars
  <2>2. TypeOK' BY <2>1 DEF IInv, TypeOK
  <2>3. IndexServed' BY <2>1, SameCache DEF IInv, cacheVars
  <2> QED BY <2>1, <2>2, <2>3, IdleInv
<1>2. ASSUME NEW j \in Jobs,
             \/ JobStep(j) \/ CallFails(j) \/ Admin(j) \/ RequestFails(j)
             \/ \E c \in Channels : TestChannel(j, c)
      PROVE IInv'
  BY <1>2, JobStepInv, CallFailsInv, AdminInv, RequestFailsInv, TestChannelInv
<1>3. CASE TestStart BY <1>3, TestStartInv
<1>4. CASE SyncLoad \/ SyncAbilities \/ SyncSwap BY <1>4, SyncInv
<1>5. CASE SyncPanics \/ Crash BY <1>5, RestartsInv
<1> QED BY <1>1, <1>2, <1>3, <1>4, <1>5 DEF PoolNext

\* The invariant holds of the channels for any numbers of channels, keys, jobs,
\* operations and faults (all handlers of model/channel.go, ability.go and
\* channel_cache.go).
THEOREM PoolInvariant == PoolSpec => []IInv
BY InitInv, NextInv, PTL DEF PoolSpec

\* Rows and abilities agree whenever no operation is under way, unless operations of a
\* channel overlapped or a call failed: UpdateChannelStatus, Update, the tag operations,
\* the deletions and FixAbility each leave the two tables in step, the group of a channel
\* included.
THEOREM RowsAndAbilities == PoolSpec => []AbilitiesAgree
<1>1. IInv => AbilitiesAgree
  <2> SUFFICES ASSUME IInv, AtRest, Clean, NEW c \in Channels PROVE Agree(c)
    BY DEF AbilitiesAgree, Agree, Clean
  <2>1. \A j \in Jobs : ~Mid(job[j]) BY DEF AtRest, InDb, Mid
  <2> QED BY <2>1 DEF IInv, AgreeOrMid
<1> QED BY <1>1, PoolInvariant, PTL

\* Every enabled channel is in a group that some ability names, so that InitChannelCache
\* does not panic, whenever no operation is under way, none of one channel overlapped and no
\* call failed.  (After an overlap or a failure it can: what the run shows of Reloadable is
\* that the next start repairs it.)
THEOREM LoadableUnlessRaced ==
  PoolSpec => []((AtRest /\ ~raced /\ faults = 0) => ~Panics(rows, abil))
<1>1. AbilitiesAgree => ((AtRest /\ ~raced /\ faults = 0) => ~Panics(rows, abil))
  <2> SUFFICES ASSUME AbilitiesAgree, AtRest, ~raced, faults = 0, Panics(rows, abil) PROVE FALSE
    OBVIOUS
  <2>1. PICK c \in Channels : /\ rows[c].status = "enabled"
                              /\ \A d \in Channels : abil[d].group # rows[c].group
    BY DEF Panics, ServedFrom
  <2>2. abil[c] = Abilities(rows[c]) BY <2>1 DEF AbilitiesAgree
  <2> QED BY <2>1, <2>2 DEF Abilities
<1> QED BY <1>1, RowsAndAbilities, PTL

-----------------------------------------------------------------------------
(* The last key of a channel                                               *)

\* A job that is at "save" stays there unless it saves.
LEMMA OnlySaveLeaves ==
  ASSUME TypeOK, NEW j \in Jobs, NEW i \in Jobs, JobStep(j), job[i].pc = "save",
         job'[i].pc # "save"
  PROVE StatusSave(i)
<1>2. i = j
  <2>1. \A k \in Jobs \ {j} : job'[k] = job[k]
    BY LoadFrame, LoadAbilitiesFrame, SwapFrame, StatusInCacheFrame, StatusReadFrame,
       StatusSaveFrame, StatusAbilityFrame, EditReadFrame, EditUpdateFrame, EditRereadFrame,
       EditRecreateFrame, TagRowsFrame, TagAbilitiesFrame, DeleteRowFrame, DeleteAbilitiesFrame,
       DeleteChannelBatchFrame, DeleteDisabledChannelFrame, AddChannelFrame, FixTruncateFrame,
       FixFindFrame, FixRefillFrame
       DEF JobStep, Frame
  <2> QED BY <2>1
<1> QED
  BY <1>2 DEF JobStep, Load, LoadAbilities, Swap, StatusInCache, StatusRead, StatusAbility,
     EditRead, EditUpdate, EditReread, EditRecreate, TagRows, TagAbilities, DeleteRow, DeleteAbilities,
     DeleteChannelBatch, DeleteDisabledChannel, AddChannel, FixTruncate, FixFind, FixRefill

\* In the cache: the row loses its last key, and the channel leaves the index.
LEMMA LastInCache ==
  ASSUME IInv, NEW j \in Jobs, StatusInCache(j), lock' # None, NEW c \in MultiKey,
         HasKey(idm[c]), ~HasKey(idm'[c])
  PROVE c \notin index'
<1>1. PICK w : w = job[j] OBVIOUS
<1>2. /\ w \in JobType /\ w.c \in Channels /\ w.key \in Keys \cup {None}
      /\ w.to \in {"enabled", "manual", "auto"} /\ idm \in Table /\ lock = None /\ c \in Channels
  BY <1>1, PoolAssumption DEF IInv, TypeOK, StatusInCache, Shaped, OnePcs, StatusPcs, JobType
<1>3. PICK new : new = Changed(w.c, idm[w.c], w.key, w.to) OBVIOUS
<1>4. idm[w.c] \in RowType BY <1>2 DEF Table
<1>5. /\ idm' = [idm EXCEPT ![w.c] = new]
      /\ index' = IF new.status # idm[w.c].status /\ new.status # "enabled"
                  THEN index \ {w.c} ELSE index
  BY <1>1, <1>2, <1>3 DEF StatusInCache
<1>6. w.c = c /\ idm'[c] = new BY <1>2, <1>5 DEF Table
<1>7. new.status = "auto" BY <1>2, <1>3, <1>4, <1>6, ChangedLast
<1>8. c \in index => idm[c].status = "enabled" BY DEF IInv, IndexServed, ServedFrom
<1> QED BY <1>5, <1>6, <1>7, <1>8

\* In the database: what is saved is the row that was read, with the key disabled.
LEMMA LastInDatabase ==
  ASSUME IInv, NEW j \in Jobs, StatusSave(j), ~raced', NEW c \in MultiKey,
         HasKey(rows[c]), ~HasKey(rows'[c])
  PROVE rows'[c].status = "auto"
<1>1. PICK w : w = job[j] OBVIOUS
<1>2. /\ w \in JobType /\ w.c \in Channels /\ w.key \in Keys \cup {None} /\ w.pc = "save"
      /\ w.to \in {"enabled", "manual", "auto"} /\ rows \in Table /\ c \in Channels
  BY <1>1, PoolAssumption DEF IInv, TypeOK, StatusSave, Shaped, OnePcs, StatusPcs, JobType
<1>3. ~raced
  <2>1. TypeOK BY DEF IInv
  <2> QED BY <2>1, StatusSaveFrame DEF Frame
<1>4. w.row = Changed(w.c, rows[w.c], w.key, w.to)
  BY <1>1, <1>2, <1>3 DEF IInv, ReadsHold, ReadIsStored
<1>5. rows[w.c] \in RowType /\ w.row \in RowType BY <1>2 DEF Table, JobType
<1>6. rows' = [rows EXCEPT ![w.c] = SaveWithoutKey(w.row, rows[w.c])] \/ rows' = rows
  BY <1>1 DEF StatusSave
<1>7. w.c = c /\ rows'[c] = SaveWithoutKey(w.row, rows[c]) BY <1>2, <1>6 DEF Table
<1>8. /\ rows[c].keys \in [Keys -> KeyStatus] /\ w.row.keys \in [Keys -> KeyStatus]
      /\ \A k \in Keys : w.row.keys[k] = "deleted" <=> rows[c].keys[k] = "deleted"
  <2>1. rows[c].keys \in [Keys -> KeyStatus] /\ w.row.keys \in [Keys -> KeyStatus]
    BY <1>5, <1>7 DEF RowType
  <2>2. \A k \in Keys : w.row.keys[k] = "deleted" <=> rows[c].keys[k] = "deleted"
    BY <1>2, <1>4, <1>5, <1>7, ChangedDeleted
  <2> QED BY <2>1, <2>2
<1>9. Reindexed(w.row.keys, rows[c].keys) = w.row.keys BY <1>8, ReindexedSame
<1>10. rows'[c].keys = w.row.keys /\ rows'[c].status = w.row.status
  BY <1>5, <1>7, <1>9 DEF SaveWithoutKey, RowType
<1>11. ~HasKey(w.row) BY <1>10 DEF HasKey
<1> QED BY <1>2, <1>4, <1>5, <1>7, <1>10, <1>11, ChangedLast

\* The lock of UpdateChannelStatus is taken, and saves are made, by job steps alone.
LEMMA LocksAndSaves ==
  ASSUME IInv, PoolNext
  PROVE /\ (lock = None /\ lock' # None) => \E j \in Jobs : StatusInCache(j)
        /\ (rows' # rows /\ lock # None /\ job[lock].pc = "save" /\ job'[lock].pc # "save")
             => \E j \in Jobs : StatusSave(j)
<1>0. TypeOK BY DEF IInv
<1>1. ASSUME NEW j \in Jobs, JobStep(j)
      PROVE (lock = None /\ lock' # None) => StatusInCache(j)
  BY <1>1 DEF JobStep, Load, LoadAbilities, Swap, StatusRead, StatusSave, AfterSave,
     StatusAbility, EditRead, EditUpdate, EditReread, EditRecreate, TagRows, TagAbilities, DeleteRow,
     DeleteAbilities, DeleteChannelBatch, DeleteDisabledChannel, AddChannel, FixTruncate, FixFind,
     FixRefill
<1>2. ASSUME NEW j \in Jobs, JobStep(j), lock # None, job[lock].pc = "save", job'[lock].pc # "save"
      PROVE StatusSave(lock) /\ lock \in Jobs
  <2>1. lock \in Jobs BY <1>0, <1>2 DEF TypeOK
  <2> QED BY <1>0, <1>2, <2>1, OnlySaveLeaves
<1>3. ASSUME NEW j \in Jobs,
             CallFails(j) \/ Admin(j) \/ RequestFails(j) \/ \E c \in Channels : TestChannel(j, c)
      PROVE lock' \in {lock, None} /\ rows' = rows
  BY <1>3 DEF CallFails, Admin, RequestFails, DisableChannel, TestChannel, Start, Begin
<1>4. CASE TestStart \/ SyncLoad \/ SyncAbilities \/ SyncSwap
  BY <1>4 DEF TestStart, SyncLoad, SyncAbilities, SyncSwap
<1>5. CASE SyncPanics \/ Crash BY <1>5 DEF SyncPanics, Crash, Restart
<1> QED BY <1>1, <1>2, <1>3, <1>4, <1>5 DEF PoolNext

\* A failing request that disables the last key of a channel takes the channel out of
\* service, in the cache and in the database: handlerMultiKeyUpdate, the index of
\* CacheUpdateChannelStatus and the status list of SaveWithoutKey, for any number of keys.
THEOREM LastKeyTakesChannelOut == PoolSpec => LastKeyDisables
<1>1. IInv /\ [PoolNext]_poolVars =>
        [\A c \in MultiKey :
           /\ (HasKey(idm[c]) /\ ~HasKey(idm'[c]) /\ lock = None /\ lock' # None) => c \notin index'
           /\ (/\ HasKey(rows[c]) /\ ~HasKey(rows'[c]) /\ lock # None /\ ~raced'
               /\ job[lock].pc = "save" /\ job'[lock].pc # "save")
                => rows'[c].status # "enabled"]_poolVars
  <2> SUFFICES ASSUME IInv, PoolNext, NEW c \in MultiKey
               PROVE /\ (HasKey(idm[c]) /\ ~HasKey(idm'[c]) /\ lock = None /\ lock' # None)
                          => c \notin index'
                     /\ (/\ HasKey(rows[c]) /\ ~HasKey(rows'[c]) /\ lock # None /\ ~raced'
                         /\ job[lock].pc = "save" /\ job'[lock].pc # "save")
                          => rows'[c].status # "enabled"
    BY Zenon
  <2>1. ASSUME HasKey(idm[c]), ~HasKey(idm'[c]), lock = None, lock' # None
        PROVE c \notin index'
    BY <2>1, LocksAndSaves, LastInCache
  <2>2. ASSUME HasKey(rows[c]), ~HasKey(rows'[c]), lock # None, ~raced',
               job[lock].pc = "save", job'[lock].pc # "save"
        PROVE rows'[c].status # "enabled"
    <3>1. rows' # rows BY <2>2
    <3>2. PICK j \in Jobs : StatusSave(j) BY <2>2, <3>1, LocksAndSaves
    <3> QED BY <2>2, <3>2, LastInDatabase
  <2> QED BY <2>1, <2>2
<1> QED BY <1>1, PoolInvariant, PTL DEF PoolSpec, LastKeyDisables
=============================================================================
