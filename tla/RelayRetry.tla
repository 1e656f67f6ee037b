----------------------------- MODULE RelayRetry -----------------------------
(***************************************************************************)
(* The channels one request is sent to: Distribute with the channel        *)
(* affinity (middleware/distributor.go, service/channel_affinity.go), the  *)
(* choice of a channel (service/channel_select.go,                         *)
(* model/channel_cache.go), and the retry loops of Relay and RelayTask     *)
(* (controller/relay.go), while channels are disabled and enabled.         *)
(***************************************************************************)
EXTENDS Naturals, Sequences, FiniteSets

CONSTANTS
  Channels,
  GroupsOf,    \* the groups of each channel
  MultiKey,    \* the channels that have several keys, and may have none that is enabled
  Priority,
  Weight,
  AutoGroups,  \* the groups "auto" stands for, in order
  MaxRetries,  \* bound on RetryTimes
  MaxChanges,  \* bound on the changes of channels
  None

ASSUME RetryAssumption ==
  /\ AutoGroups \in Seq(STRING) /\ MaxRetries \in Nat /\ MaxChanges \in Nat
  /\ None \notin Channels \cup STRING \cup Nat \cup BOOLEAN
  /\ GroupsOf \in [Channels -> SUBSET {AutoGroups[i] : i \in DOMAIN AutoGroups}]
  /\ Priority \in [Channels -> Nat] /\ Weight \in [Channels -> Nat] /\ MultiKey \subseteq Channels

VARIABLES
  up,       \* the channels in the index
  aff,      \* the channel the affinity cache holds for the key of the request
  conf,     \* the settings, and what the request asks for
  ctx,      \* the keys of the context: auto group index, auto group, skip retry
  param,    \* RetryParam: Retry and resetNextTry
  pc,
  chan,     \* the channel the request is sent to, the group it was chosen in, and the first of both
  billed,   \* the group whose ratio is charged
  tried,    \* the groups of the attempts (history)
  result,   \* how the last attempt ended
  changes

retryVars == <<up, aff, conf, ctx, param, pc, chan, billed, tried, result, changes>>

Confs ==
  [retries : 0 .. MaxRetries, group : {"auto", AutoGroups[1]}, cross : BOOLEAN, task : BOOLEAN,
   pinned : {"no", "specific", "remix"}, rule : BOOLEAN, skip : BOOLEAN, keep : BOOLEAN,
   switch : BOOLEAN, tiered : BOOLEAN]

RetryInit ==
  /\ up \in SUBSET Channels /\ up # {}
  /\ conf \in {f \in Confs : /\ f.pinned = "remix" => f.task
                             /\ f.rule \/ ~(f.skip \/ f.keep \/ f.switch)
                             /\ ~(f.tiered /\ f.task)}
  /\ aff \in IF conf.rule THEN Channels \cup {None} ELSE {None}
  /\ ctx = [index |-> 1, group |-> None, skip |-> None]
  /\ param = [retry |-> 0, reset |-> FALSE]
  /\ pc = "distribute"
  /\ chan = [id |-> None, group |-> None, first |-> None, origin |-> None]
  /\ billed = None /\ tried = {} /\ result = "none" /\ changes = 0

-----------------------------------------------------------------------------
(* GetRandomSatisfiedChannel                                               *)

Satisfying(g) == {c \in up : g \in GroupsOf[c]}
Levels(g) == {Priority[c] : c \in Satisfying(g)}

\* The priority for a retry: the next one down, and the last one ever after.
Level(g, retry) ==
  LET n == Cardinality(Levels(g))
      k == IF retry >= n THEN n - 1 ELSE retry
  IN CHOOSE p \in Levels(g) : Cardinality({q \in Levels(g) : q > p}) = k

\* A channel without weight is only taken when none has any.
GetRandomSatisfiedChannel(g, retry) ==
  IF Satisfying(g) = {} THEN {}
  ELSE LET target == {c \in Satisfying(g) : Priority[c] = Level(g, retry)}
           heavy == {c \in target : Weight[c] > 0}
       IN IF heavy = {} THEN target ELSE heavy

-----------------------------------------------------------------------------
(* CacheGetRandomSatisfiedChannel                                          *)

\* The first group from the context's index on that has a channel.
Found(start) ==
  LET good == {i \in start .. Len(AutoGroups) : Satisfying(AutoGroups[i]) # {}}
  IN IF good = {} THEN None ELSE CHOOSE i \in good : \A k \in good : i <= k

\* Mutant of Exhausted: the last retry does not count.
ExhaustedNever(retry) == FALSE

\* The group has had its retries: the next retry is the next group's.
Exhausted(retry) == conf.cross /\ retry >= conf.retries

\* Mutant of NextIndex: the index of an exhausted group is kept.
NextIndexStays(i, retry) == i

NextIndex(i, retry) == IF Exhausted(retry) THEN i + 1 ELSE i

\* Mutant of InGroup: the auto group of the context is only set once.
InGroupOnce(i, retry) ==
  [ctx EXCEPT !.group = IF @ = None THEN AutoGroups[i] ELSE @, !.index = NextIndex(i, retry)]

\* The context after a channel of the i-th group was found.
InGroup(i, retry) == [ctx EXCEPT !.group = AutoGroups[i], !.index = NextIndex(i, retry)]

\* What a selection may yield: the channel, its group, and the context and the RetryParam
\* it leaves behind.
Selected(c, g, context, p) == [id |-> c, group |-> g, ctx |-> context, param |-> p]

\* A group without a channel resets the retry.
SelectAuto(p) ==
  LET start == ctx.index
      i == Found(start)
      retry == IF i = start THEN p.retry ELSE 0
  IN IF i # None
     THEN {Selected(c, AutoGroups[i], InGroup(i, retry),
                    IF Exhausted(retry) THEN [retry |-> 0, reset |-> TRUE] ELSE [p EXCEPT !.retry = retry]) :
             c \in GetRandomSatisfiedChannel(AutoGroups[i], retry)}
     ELSE IF start <= Len(AutoGroups)
     THEN {Selected(None, None, [ctx EXCEPT !.index = Len(AutoGroups) + 1], [p EXCEPT !.retry = 0])}
     ELSE {Selected(None, None, ctx, p)}

SelectOne(p) ==
  IF Satisfying(conf.group) = {} THEN {Selected(None, None, ctx, p)}
  ELSE {Selected(c, conf.group, ctx, p) : c \in GetRandomSatisfiedChannel(conf.group, p.retry)}

CacheGetRandomSatisfiedChannel(p) == IF conf.group = "auto" THEN SelectAuto(p) ELSE SelectOne(p)

\* HandleGroupRatio
GroupRatioOf(context) == IF context.group # None THEN context.group ELSE conf.group

\* A retry prices the request anew, but for a tiered expression: its snapshot keeps the
\* ratio ModelPriceHelper put into it.
Repriced(context) == IF conf.tiered THEN billed ELSE GroupRatioOf(context)

-----------------------------------------------------------------------------
(* Distribute                                                              *)

\* The error of a channel without an enabled key is ignored here: the request goes on.
SendTo(c, g, context) ==
  /\ chan' = [id |-> c, group |-> g, first |-> c, origin |-> g] /\ ctx' = context
  /\ billed' = GroupRatioOf(context) /\ pc' = "attempt"

End(why) == pc' = "done" /\ result' = why

\* The channel the token names
DistributeSpecific ==
  /\ pc = "distribute" /\ conf.pinned = "specific"
  /\ \E c \in Channels :
       IF c \in up THEN SendTo(c, conf.group, ctx) /\ UNCHANGED result
       ELSE End("refused") /\ UNCHANGED <<chan, ctx, billed>>
  /\ UNCHANGED <<up, aff, conf, param, tried, changes>>

\* A remix selects no channel.  ResolveOriginTask refuses one whose task or channel is
\* gone, and then compares the channel with that of a ChannelMeta nobody has set: it
\* panics, and the recovery of the server answers.
ResolveOriginTask ==
  /\ pc = "distribute" /\ conf.pinned = "remix"
  /\ \E origin \in Channels \cup {None} : End(IF origin \in up THEN "panicked" ELSE "refused")
  /\ UNCHANGED <<up, aff, conf, ctx, param, chan, billed, tried, changes>>

\* The groups the preferred channel may be used in, in order.
Usable ==
  LET groups == IF conf.group = "auto" THEN AutoGroups ELSE <<conf.group>>
      good == {i \in DOMAIN groups : aff \in Satisfying(groups[i])}
  IN IF aff = None \/ good = {} THEN None ELSE groups[CHOOSE i \in good : \A k \in good : i <= k]

DistributePreferred ==
  /\ pc = "distribute" /\ conf.pinned = "no" /\ Usable # None
  /\ SendTo(aff, Usable, [ctx EXCEPT !.skip = conf.skip,
                                     !.group = IF conf.group = "auto" THEN Usable ELSE @])
  /\ UNCHANGED <<up, aff, conf, param, tried, result, changes>>

\* A preferred channel that cannot be used is forgotten, unless it is to be kept; the
\* RetryParam is Distribute's own, the context is not.
DistributeSelected ==
  LET forgets == aff # None /\ ~conf.keep
  IN /\ pc = "distribute" /\ conf.pinned = "no" /\ Usable = None
     /\ aff' = IF forgets THEN None ELSE aff
     /\ \E s \in CacheGetRandomSatisfiedChannel([retry |-> 0, reset |-> FALSE]) :
          IF s.id = None THEN End("unavailable") /\ ctx' = s.ctx /\ UNCHANGED <<chan, billed>>
          ELSE /\ SendTo(s.id, s.group, IF forgets THEN [s.ctx EXCEPT !.skip = FALSE] ELSE s.ctx)
               /\ UNCHANGED result
     /\ UNCHANGED <<up, conf, param, tried, changes>>

-----------------------------------------------------------------------------
(* The loops of Relay and RelayTask                                        *)

\* ShouldSkipRetryAfterChannelAffinityFailure
AffinitySkips ==
  conf.pinned = "no" /\ (IF ctx.skip = None THEN conf.rule /\ conf.skip ELSE ctx.skip)

\* An error is the channel's own, one that another channel may not have, or final.
ShouldRetryTaskRelay(error) ==
  error # "final" /\ conf.retries > param.retry /\ conf.pinned # "specific"

\* shouldRetry: an error of the channel is retried without asking how often.
ShouldRetry(error) ==
  ~AffinitySkips /\ ((error = "channel" /\ ~conf.task) \/ ShouldRetryTaskRelay(error))

Attempted == tried' = tried \cup {chan.group}

\* RecordChannelAffinity, with the channel of Distribute unless it is to switch.
Success ==
  /\ pc = "attempt" /\ Attempted /\ End("ok")
  /\ aff' = IF conf.rule /\ conf.pinned = "no" THEN (IF conf.switch THEN chan.id ELSE chan.first) ELSE aff
  /\ UNCHANGED <<up, conf, ctx, param, chan, billed, changes>>

\* IncreaseRetry is skipped when the retry was reset for the next group.
Failure(error) ==
  LET next == IF param.reset THEN [param EXCEPT !.reset = FALSE] ELSE [param EXCEPT !.retry = @ + 1]
      again == ShouldRetry(error) /\ next.retry <= conf.retries
  IN /\ pc = "attempt" /\ Attempted /\ result' = error
     /\ param' = next /\ pc' = IF again THEN "select" ELSE "done"
     /\ UNCHANGED <<up, aff, conf, ctx, chan, billed, changes>>

\* getChannel: a channel without an enabled key ends the loop.
Select ==
  /\ pc = "select"
  /\ \E s \in CacheGetRandomSatisfiedChannel(param) :
       /\ ctx' = s.ctx /\ param' = s.param /\ billed' = Repriced(s.ctx)
       /\ \/ s.id = None /\ End("unavailable") /\ UNCHANGED chan
          \/ s.id \in MultiKey /\ End("keyless") /\ UNCHANGED chan
          \/ /\ s.id # None /\ chan' = [chan EXCEPT !.id = s.id, !.group = s.group]
             /\ pc' = "attempt" /\ UNCHANGED result
  /\ UNCHANGED <<up, aff, conf, tried, changes>>

\* Channels are disabled and enabled meanwhile.
Change ==
  /\ changes < MaxChanges /\ changes' = changes + 1 /\ pc # "done"
  /\ \E c \in Channels : up' = IF c \in up THEN up \ {c} ELSE up \cup {c}
  /\ UNCHANGED <<aff, conf, ctx, param, pc, chan, billed, tried, result>>

Errors == {"channel", "retryable", "final"}

RequestStep ==
  \/ DistributeSpecific \/ ResolveOriginTask \/ DistributePreferred \/ DistributeSelected
  \/ Success \/ (\E e \in Errors : Failure(e)) \/ Select

RetryNext == RequestStep \/ Change

\* The handler runs to its end.
RetrySpec == RetryInit /\ [][RetryNext]_retryVars /\ WF_retryVars(RequestStep)

-----------------------------------------------------------------------------
(* Properties                                                              *)

\* The ratio a request is charged with is the one of the group whose channel serves it,
\* whichever groups it was in before; a model with a tiered expression is charged with the
\* one of the group it was sent to first, wherever the retries take it.
BilledIsServing ==
  (pc = "attempt" /\ conf.pinned = "no") => billed = IF conf.tiered THEN chan.origin ELSE chan.group

\* However channels come and go, a request that is retried in group after group comes to
\* its end.
RequestEnds == <>(pc = "done")

\* A token that may retry across groups has tried every group that has a channel before
\* the client is told of a failure that another channel may not have, or that there is no
\* channel; only a retry that meets a channel without an enabled key may end earlier.
EveryGroupTried ==
  (/\ pc = "done" /\ result \in {"retryable", "unavailable"} /\ changes = 0 /\ conf.group = "auto"
   /\ conf.cross /\ conf.retries > 0 /\ conf.pinned = "no" /\ ~AffinitySkips)
    => \A i \in DOMAIN AutoGroups : Satisfying(AutoGroups[i]) # {} => AutoGroups[i] \in tried

-----------------------------------------------------------------------------
(* The inductive invariant                                                 *)

Groups == {AutoGroups[i] : i \in DOMAIN AutoGroups}

TypeOK ==
  /\ up \subseteq Channels /\ conf \in Confs
  /\ ctx \in [index : 1 .. Len(AutoGroups) + 1, group : Groups \cup {None}, skip : BOOLEAN \cup {None}]
  /\ param \in [retry : Nat, reset : BOOLEAN]
  /\ pc \in {"distribute", "attempt", "select", "done"}
  /\ chan \in [id : Channels \cup {None}, group : Groups \cup {conf.group, None},
              first : Channels \cup {None}, origin : Groups \cup {conf.group, None}]
  /\ changes \in Nat

\* The context names a group only for a request whose group is "auto".
OwnGroup == conf.group # "auto" => ctx.group = None

\* The requests that go through all groups, while the channels stay as they are.
Crossing ==
  /\ changes = 0 /\ conf.group = "auto" /\ conf.cross /\ conf.retries > 0 /\ conf.pinned = "no"

\* The groups before the index have had their attempt, the last one may be having it.
Behind == 1 .. ctx.index - 1
BehindIsTried ==
  \A i \in Behind : Satisfying(AutoGroups[i]) # {} =>
    AutoGroups[i] \in tried \cup (IF pc = "attempt" THEN {chan.group} ELSE {})

\* An attempt that fails may always be followed by another one: it is the last one of its
\* group and the next group's retries are reset, or the group has retries left.
RetriesLeft ==
  /\ pc = "distribute" => ctx.index = 1 /\ param.retry = 0 /\ ~param.reset
  /\ pc = "attempt" => IF param.reset THEN param.retry = 0 ELSE param.retry < conf.retries
  /\ pc = "select" => ~param.reset

CrossInv == Crossing => RetriesLeft /\ (pc \in {"attempt", "select"} => BehindIsTried)

\* Between two attempts too, a tiered expression keeps the ratio it started with.
RatioIsFrozen ==
  (conf.tiered /\ conf.pinned = "no" /\ pc \in {"attempt", "select"}) => billed = chan.origin

IInv == TypeOK /\ OwnGroup /\ RatioIsFrozen /\ BilledIsServing /\ CrossInv /\ EveryGroupTried
=============================================================================
