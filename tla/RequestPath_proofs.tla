------------------------- MODULE RequestPath_proofs -------------------------
(***************************************************************************)
(* Proofs about what a request meets on its way to a channel.              *)
(*                                                                         *)
(* RelayRetry, for any channels, groups, priorities and weights, any       *)
(* number of retries and any changes of the channels: the group that is    *)
(* charged is the group that serves, or with a tiered expression the group *)
(* that served first, and a request that may cross groups gives up only    *)
(* after every group with a channel was tried, or at a channel without an  *)
(* enabled key.                                                            *)
(*                                                                         *)
(* TokenStore, for any number of requests, changes and goroutines and any  *)
(* time to live: a hash that an increment brought back alone is refused,   *)
(* and a user who was disabled or deleted stays out, at once or when the   *)
(* hash that somebody left behind has expired.                             *)
(***************************************************************************)
EXTENDS RelayRetry, TokenStore, TLAPS, WellFoundedInduction

USE DEF retryVars, tokenVars

ContextType == [index : 1 .. Len(AutoGroups) + 1, group : Groups \cup {None}, skip : BOOLEAN \cup {None}]
ParamType == [retry : Nat, reset : BOOLEAN]
ChanType == [id : Channels \cup {None}, group : Groups \cup {conf.group, None},
             first : Channels \cup {None}, origin : Groups \cup {conf.group, None}]

-----------------------------------------------------------------------------
(* What a selection finds                                                  *)

\* A set of natural numbers has a least element.
LEMMA Least ==
  ASSUME NEW S \in SUBSET Nat, S # {}
  PROVE  \E i \in S : \A k \in S : i <= k
<1>1. PICK i \in S : \A k \in S : ~(<<k, i>> \in OpToRel(<, Nat))
  BY NatLessThanWellFounded, WFMin
<1>2. \A k \in S : ~(k < i)  BY <1>1 DEF OpToRel
<1>3. QED  BY <1>2

\* The groups are the elements of the list.
LEMMA GroupTypes ==
  /\ Len(AutoGroups) \in Nat /\ DOMAIN AutoGroups = 1 .. Len(AutoGroups)
  /\ \A i \in 1 .. Len(AutoGroups) : AutoGroups[i] \in Groups
  /\ None \notin Groups
BY RetryAssumption DEF Groups

\* Found skips exactly the groups without a channel.
LEMMA FoundFirst ==
  ASSUME NEW start \in 1 .. Len(AutoGroups) + 1
  PROVE  /\ Found(start) = None => \A i \in start .. Len(AutoGroups) : Satisfying(AutoGroups[i]) = {}
         /\ Found(start) # None =>
              /\ Found(start) \in start .. Len(AutoGroups)
              /\ \A i \in start .. Found(start) - 1 : Satisfying(AutoGroups[i]) = {}
<1> DEFINE good == {i \in start .. Len(AutoGroups) : Satisfying(AutoGroups[i]) # {}}
           least == CHOOSE i \in good : \A k \in good : i <= k
<1>0. Len(AutoGroups) \in Nat /\ None \notin Nat  BY RetryAssumption
<1>1. Found(start) = IF good = {} THEN None ELSE least  BY DEF Found
<1>2. CASE good = {}  BY <1>1, <1>2
<1>3. CASE good # {}
  <2>1. good \in SUBSET Nat  BY <1>0
  <2> HIDE DEF good
  <2>2. least \in good /\ \A k \in good : least <= k  BY <1>3, <2>1, Least
  <2> HIDE DEF least
  <2>3. least \in start .. Len(AutoGroups)  BY <2>2 DEF good
  <2>4. least # None  BY <1>0, <2>1, <2>2
  <2>5. \A i \in start .. least - 1 : Satisfying(AutoGroups[i]) = {}
    <3> SUFFICES ASSUME NEW i \in start .. least - 1  PROVE Satisfying(AutoGroups[i]) = {}
      OBVIOUS
    <3>1. i \in start .. Len(AutoGroups) /\ ~(least <= i)  BY <1>0, <2>3
    <3>2. i \notin good  BY <2>2, <3>1
    <3>3. QED  BY <3>1, <3>2 DEF good
  <2>6. QED  BY <1>1, <1>3, <2>3, <2>4, <2>5
<1>4. QED  BY <1>2, <1>3

\* A channel that is chosen in a group is a channel.
LEMMA ChosenIsChannel ==
  ASSUME TypeOK, NEW g, NEW retry, NEW c \in GetRandomSatisfiedChannel(g, retry)
  PROVE  c \in Channels /\ c # None
BY RetryAssumption DEF TypeOK, GetRandomSatisfiedChannel, Satisfying

\* What a selection leaves behind: its group is the next one with a channel, and the index
\* moves past a group only with a reset for the next one.
LEMMA SelectedAuto ==
  ASSUME TypeOK, conf.group = "auto", NEW p \in ParamType, NEW s \in SelectAuto(p)
  PROVE  /\ s.ctx \in ContextType /\ s.param \in ParamType
         /\ s.id = None => \A i \in ctx.index .. Len(AutoGroups) : Satisfying(AutoGroups[i]) = {}
         /\ s.id # None =>
              /\ s.id \in Channels /\ s.ctx.group = s.group
              /\ \E i \in ctx.index .. Len(AutoGroups) :
                   /\ s.group = AutoGroups[i] /\ s.ctx.index <= i + 1
                   /\ \A k \in ctx.index .. i - 1 : Satisfying(AutoGroups[k]) = {}
              /\ (~p.reset /\ conf.cross) =>
                   IF s.param.reset THEN s.param.retry = 0 ELSE s.param.retry < conf.retries
<1> DEFINE start == ctx.index
           i == Found(start)
           retry == IF i = start THEN p.retry ELSE 0
           q == IF Exhausted(retry) THEN [retry |-> 0, reset |-> TRUE] ELSE [p EXCEPT !.retry = retry]
<1>0. Len(AutoGroups) \in Nat /\ start \in 1 .. Len(AutoGroups) + 1 /\ ctx \in ContextType
  BY GroupTypes DEF TypeOK, ContextType
<1>1. p.retry \in Nat /\ p.reset \in BOOLEAN /\ conf.retries \in Nat /\ retry \in Nat
  BY DEF ParamType, TypeOK, Confs
<1>2. CASE i # None
  <2>1. i \in start .. Len(AutoGroups) /\ \A k \in start .. i - 1 : Satisfying(AutoGroups[k]) = {}
    BY <1>0, <1>2, FoundFirst
  <2>2. PICK c \in GetRandomSatisfiedChannel(AutoGroups[i], retry) :
          s = Selected(c, AutoGroups[i], InGroup(i, retry), q)
    BY <1>2 DEF SelectAuto
  <2>3. c \in Channels /\ c # None  BY ChosenIsChannel
  <2> HIDE DEF i, retry, start
  <2>4. s.id = c /\ s.group = AutoGroups[i] /\ s.ctx = InGroup(i, retry) /\ s.param = q
    BY <2>2 DEF Selected
  <2>5. i \in 1 .. Len(AutoGroups)  BY <1>0, <2>1
  <2>6. AutoGroups[i] \in Groups  BY <2>5, GroupTypes
  <2>7. NextIndex(i, retry) \in {i, i + 1}  BY DEF NextIndex
  <2>8. NextIndex(i, retry) \in 1 .. Len(AutoGroups) + 1 /\ NextIndex(i, retry) <= i + 1  BY <1>0, <2>5, <2>7
  <2>9. /\ s.ctx \in ContextType /\ s.ctx.group = AutoGroups[i] /\ s.ctx.index = NextIndex(i, retry)
    BY <1>0, <2>4, <2>6, <2>8 DEF InGroup, ContextType
  <2>10. q \in ParamType
    <3>1. TRUE \in BOOLEAN /\ 0 \in Nat  OBVIOUS
    <3>2. [retry |-> 0, reset |-> TRUE] \in ParamType  BY <3>1, Zenon DEF ParamType
    <3>3. [p EXCEPT !.retry = retry] \in ParamType  BY <1>1 DEF ParamType
    <3>4. QED  BY <3>2, <3>3
  <2>11. (~p.reset /\ conf.cross) => IF q.reset THEN q.retry = 0 ELSE q.retry < conf.retries
    <3>1. CASE Exhausted(retry)  BY <3>1
    <3>2. CASE ~Exhausted(retry)
      <4>1. q.retry = retry /\ q.reset = p.reset  BY <3>2 DEF ParamType
      <4>2. conf.cross => retry < conf.retries  BY <1>1, <3>2 DEF Exhausted
      <4>3. QED  BY <4>1, <4>2
    <3>3. QED  BY <3>1, <3>2
  <2> HIDE DEF q
  <2> USE DEF start
  <2>12. QED  BY <2>1, <2>3, <2>4, <2>8, <2>9, <2>10, <2>11
<1>3. CASE i = None
  <2>1. \A k \in start .. Len(AutoGroups) : Satisfying(AutoGroups[k]) = {}  BY <1>0, <1>3, FoundFirst
  <2>2. \/ s = Selected(None, None, [ctx EXCEPT !.index = Len(AutoGroups) + 1], [p EXCEPT !.retry = 0])
        \/ s = Selected(None, None, ctx, p)
    BY <1>3 DEF SelectAuto
  <2>3. s.id = None  BY <2>2 DEF Selected
  <2>4. [ctx EXCEPT !.index = Len(AutoGroups) + 1] \in ContextType  BY <1>0 DEF ContextType
  <2>5. [p EXCEPT !.retry = 0] \in ParamType  BY DEF ParamType
  <2>6. s.ctx \in ContextType /\ s.param \in ParamType  BY <1>0, <2>2, <2>4, <2>5 DEF Selected
  <2>7. QED  BY <2>1, <2>3, <2>6
<1>4. QED  BY <1>2, <1>3

\* A request with a group of its own leaves the context and the RetryParam alone.
LEMMA SelectedOne ==
  ASSUME TypeOK, NEW p \in ParamType, NEW s \in SelectOne(p)
  PROVE  /\ s.ctx = ctx /\ s.param = p
         /\ s.id # None => s.id \in Channels /\ s.group = conf.group
<1>1. CASE Satisfying(conf.group) = {}  BY <1>1 DEF SelectOne, Selected
<1>2. CASE Satisfying(conf.group) # {}
  <2>1. PICK c \in GetRandomSatisfiedChannel(conf.group, p.retry) : s = Selected(c, conf.group, ctx, p)
    BY <1>2 DEF SelectOne
  <2>2. c \in Channels  BY ChosenIsChannel
  <2>3. QED  BY <2>1, <2>2 DEF Selected
<1>3. QED  BY <1>1, <1>2

\* Whatever the group of the request, what is selected is well typed and charged where it is
\* served.
LEMMA SelectedAny ==
  ASSUME TypeOK, OwnGroup, NEW p \in ParamType, NEW s \in CacheGetRandomSatisfiedChannel(p)
  PROVE  /\ s.ctx \in ContextType /\ s.param \in ParamType
         /\ conf.group # "auto" => s.ctx.group = None
         /\ s.id # None => /\ s.id \in Channels /\ s.group \in Groups \cup {conf.group}
                           /\ GroupRatioOf(s.ctx) = s.group
<1>1. CASE conf.group = "auto"
  <2>1. s \in SelectAuto(p)  BY <1>1 DEF CacheGetRandomSatisfiedChannel
  <2>2. s.id # None => s.group \in Groups /\ s.group # None
    BY <1>1, <2>1, SelectedAuto, GroupTypes DEF TypeOK
  <2>3. QED  BY <1>1, <2>1, <2>2, SelectedAuto DEF GroupRatioOf
<1>2. CASE conf.group # "auto"
  <2>1. s \in SelectOne(p)  BY <1>2 DEF CacheGetRandomSatisfiedChannel
  <2>2. QED  BY <1>2, <2>1, SelectedOne DEF GroupRatioOf, OwnGroup, TypeOK, ContextType
<1>3. QED  BY <1>1, <1>2

\* A preferred channel is used in a group of its own, which is the one of a request that has one.
LEMMA UsableGroup ==
  ASSUME TypeOK, Usable # None
  PROVE  /\ aff \in Channels
         /\ conf.group = "auto" => Usable \in Groups
         /\ conf.group # "auto" => Usable = conf.group
<1> DEFINE groups == IF conf.group = "auto" THEN AutoGroups ELSE <<conf.group>>
           good == {i \in DOMAIN groups : aff \in Satisfying(groups[i])}
           least == CHOOSE i \in good : \A k \in good : i <= k
<1>1. aff # None /\ good # {} /\ Usable = groups[least]  BY DEF Usable
<1>2. aff \in Channels  BY <1>1 DEF Satisfying, TypeOK
<1>3. DOMAIN groups \in SUBSET Nat  BY GroupTypes
<1>4. good \in SUBSET Nat  BY <1>3
<1> HIDE DEF good
<1>5. least \in good  BY <1>1, <1>4, Least
<1> HIDE DEF least
<1>6. least \in DOMAIN groups  BY <1>5 DEF good
<1>7. QED  BY <1>1, <1>2, <1>6, GroupTypes

-----------------------------------------------------------------------------
(* Each action preserves the invariant                                     *)

\* Every group with a channel was tried when none is left from the index on.
LEMMA NoneAhead ==
  ASSUME TypeOK, NEW attempted,
         \A i \in Behind : Satisfying(AutoGroups[i]) # {} => AutoGroups[i] \in attempted,
         \A i \in ctx.index .. Len(AutoGroups) : Satisfying(AutoGroups[i]) = {}
  PROVE  \A i \in DOMAIN AutoGroups : Satisfying(AutoGroups[i]) # {} => AutoGroups[i] \in attempted
<1> SUFFICES ASSUME NEW i \in DOMAIN AutoGroups, Satisfying(AutoGroups[i]) # {}
             PROVE  AutoGroups[i] \in attempted
  OBVIOUS
<1>1. ctx.index \in Nat  BY GroupTypes DEF TypeOK
<1>2. i \in 1 .. Len(AutoGroups)  BY GroupTypes
<1>3. i \in Behind \/ i \in ctx.index .. Len(AutoGroups)  BY <1>1, <1>2, GroupTypes DEF Behind
<1>4. QED  BY <1>3

\* A request that names its channel is not one of those that cross groups.
LEMMA DistributeSpecificInv ==
  ASSUME IInv, DistributeSpecific
  PROVE  IInv'
<1> USE DEF IInv, DistributeSpecific
<1>1. PICK c \in Channels :
        IF c \in up THEN SendTo(c, conf.group, ctx) /\ UNCHANGED result
        ELSE End("refused") /\ UNCHANGED <<chan, ctx, billed>>
  OBVIOUS
<1>2. chan' \in ChanType  BY <1>1 DEF SendTo, TypeOK, ChanType
<1>3. TypeOK'  BY <1>1, <1>2 DEF SendTo, End, TypeOK, ChanType
<1>4. OwnGroup'  BY <1>1 DEF SendTo, OwnGroup
<1>5. RatioIsFrozen' /\ BilledIsServing' /\ CrossInv' /\ EveryGroupTried'
  BY DEF RatioIsFrozen, BilledIsServing, CrossInv, Crossing, EveryGroupTried
<1>6. QED  BY <1>3, <1>4, <1>5

\* Neither is a remix.
LEMMA ResolveOriginTaskInv ==
  ASSUME IInv, ResolveOriginTask
  PROVE  IInv'
<1> USE DEF IInv, ResolveOriginTask, End
<1>1. TypeOK' /\ OwnGroup'  BY DEF TypeOK, OwnGroup
<1>2. RatioIsFrozen' /\ BilledIsServing' /\ CrossInv' /\ EveryGroupTried'
  BY DEF RatioIsFrozen, BilledIsServing, CrossInv, Crossing, EveryGroupTried
<1>3. QED  BY <1>1, <1>2

\* The affinity leaves the index at the first group and the retries untouched.
LEMMA DistributePreferredInv ==
  ASSUME IInv, DistributePreferred
  PROVE  IInv'
<1> USE DEF IInv, DistributePreferred, SendTo
<1> DEFINE context == [ctx EXCEPT !.skip = conf.skip, !.group = IF conf.group = "auto" THEN Usable ELSE @]
<1>1. /\ aff \in Channels
      /\ conf.group = "auto" => Usable \in Groups
      /\ conf.group # "auto" => Usable = conf.group
  BY UsableGroup
<1>2. conf.skip \in BOOLEAN  BY DEF TypeOK, Confs
<1>3. context \in ContextType /\ context.index = ctx.index
      /\ context.group = IF conf.group = "auto" THEN Usable ELSE ctx.group
  BY <1>1, <1>2 DEF TypeOK, ContextType
<1>4. GroupRatioOf(context) = Usable  BY <1>1, <1>3 DEF GroupRatioOf, OwnGroup
<1>5. ctx' = context  OBVIOUS
<1> HIDE DEF context
<1>6. TypeOK'  BY <1>1, <1>3, <1>5 DEF TypeOK, ContextType
<1>7. OwnGroup'  BY <1>3, <1>5 DEF OwnGroup
<1>8. RatioIsFrozen' /\ BilledIsServing'  BY <1>4, <1>5 DEF RatioIsFrozen, BilledIsServing
<1>9. CrossInv'
  BY <1>3, <1>5 DEF CrossInv, Crossing, RetriesLeft, BehindIsTried, Behind
<1>10. EveryGroupTried'  BY DEF EveryGroupTried
<1>11. QED  BY <1>6, <1>7, <1>8, <1>9, <1>10

\* Distribute selects with a RetryParam of its own, and with the context of the request.
LEMMA DistributeSelectedInv ==
  ASSUME IInv, DistributeSelected
  PROVE  IInv'
<1> USE DEF IInv
<1> DEFINE p == [retry |-> 0, reset |-> FALSE]
           forgets == aff # None /\ ~conf.keep
<1>1. p \in ParamType /\ ~p.reset
  <2>1. FALSE \in BOOLEAN /\ 0 \in Nat  OBVIOUS
  <2>2. QED  BY <2>1, Zenon DEF ParamType
<1>2. PICK s \in CacheGetRandomSatisfiedChannel(p) :
        IF s.id = None THEN End("unavailable") /\ ctx' = s.ctx /\ UNCHANGED <<chan, billed>>
        ELSE /\ SendTo(s.id, s.group, IF forgets THEN [s.ctx EXCEPT !.skip = FALSE] ELSE s.ctx)
             /\ UNCHANGED result
  BY DEF DistributeSelected
<1>3. pc = "distribute" /\ conf.pinned = "no" /\ UNCHANGED <<up, conf, param, tried, changes>>
  BY DEF DistributeSelected
<1> HIDE DEF p, forgets
<1>4. /\ s.ctx \in ContextType /\ s.param \in ParamType
      /\ conf.group # "auto" => s.ctx.group = None
      /\ s.id # None => /\ s.id \in Channels /\ s.group \in Groups \cup {conf.group}
                        /\ GroupRatioOf(s.ctx) = s.group
  BY <1>1, SelectedAny
<1>5. CASE s.id = None
  <2>1. pc' = "done" /\ ctx' = s.ctx /\ UNCHANGED <<chan, billed>>  BY <1>2, <1>5 DEF End
  <2>2. TypeOK' /\ OwnGroup'  BY <1>3, <1>4, <2>1 DEF TypeOK, ContextType, OwnGroup
  <2>3. RatioIsFrozen' /\ BilledIsServing' /\ CrossInv'
    BY <2>1 DEF RatioIsFrozen, BilledIsServing, CrossInv, RetriesLeft
  <2>4. EveryGroupTried'
    <3> SUFFICES ASSUME Crossing  PROVE (\A i \in DOMAIN AutoGroups : Satisfying(AutoGroups[i]) # {} => AutoGroups[i] \in tried)'
      BY <1>3 DEF EveryGroupTried, Crossing
    <3>1. s \in SelectAuto(p)  BY DEF Crossing, CacheGetRandomSatisfiedChannel
    <3>2. \A i \in ctx.index .. Len(AutoGroups) : Satisfying(AutoGroups[i]) = {}
      BY <1>1, <1>5, <3>1, SelectedAuto DEF Crossing
    <3>3. ctx.index = 1  BY <1>3 DEF CrossInv, RetriesLeft
    <3>4. \A i \in DOMAIN AutoGroups : Satisfying(AutoGroups[i]) = {}  BY <3>2, <3>3, GroupTypes
    <3>5. QED  BY <1>3, <3>4 DEF Satisfying
  <2>5. QED  BY <2>2, <2>3, <2>4
<1>6. CASE s.id # None
  <2> DEFINE context == IF forgets THEN [s.ctx EXCEPT !.skip = FALSE] ELSE s.ctx
  <2>1. /\ context \in ContextType /\ context.index = s.ctx.index /\ context.group = s.ctx.group
    <3>1. FALSE \in BOOLEAN \cup {None}  BY Zenon
    <3> DEFINE v == FALSE
    <3> HIDE DEF v
    <3>2. v \in BOOLEAN \cup {None}  BY <3>1, Zenon DEF v
    <3>3. [s.ctx EXCEPT !.skip = v] \in ContextType /\ [s.ctx EXCEPT !.skip = v].index = s.ctx.index
          /\ [s.ctx EXCEPT !.skip = v].group = s.ctx.group
      BY <1>4, <3>2 DEF ContextType
    <3>4. QED  BY <1>4, <3>3 DEF v
  <2>2. SendTo(s.id, s.group, context)  BY <1>2, <1>6
  <2> HIDE DEF context
  <2>3. /\ pc' = "attempt" /\ ctx' = context /\ billed' = GroupRatioOf(context)
        /\ chan' = [id |-> s.id, group |-> s.group, first |-> s.id, origin |-> s.group]
    BY <2>2 DEF SendTo
  <2>4. TypeOK'  BY <1>3, <1>4, <1>6, <2>1, <2>3 DEF TypeOK, ContextType
  <2>5. OwnGroup'  BY <1>3, <1>4, <2>1, <2>3 DEF OwnGroup
  <2>6. RatioIsFrozen' /\ BilledIsServing'
    BY <1>4, <1>6, <2>1, <2>3 DEF RatioIsFrozen, BilledIsServing, GroupRatioOf
  <2>7. CrossInv'
    <3> SUFFICES ASSUME Crossing  PROVE RetriesLeft' /\ BehindIsTried'
      BY <1>3 DEF CrossInv, Crossing
    <3>1. RetriesLeft'  BY <1>3, <2>3 DEF CrossInv, RetriesLeft, Crossing
    <3>2. s \in SelectAuto(p)  BY DEF Crossing, CacheGetRandomSatisfiedChannel
    <3>3. PICK i \in ctx.index .. Len(AutoGroups) :
                   /\ s.group = AutoGroups[i] /\ s.ctx.index <= i + 1
                   /\ \A k \in ctx.index .. i - 1 : Satisfying(AutoGroups[k]) = {}
      BY <1>1, <1>6, <3>2, SelectedAuto DEF Crossing
    <3>4. ctx.index = 1  BY <1>3 DEF CrossInv, RetriesLeft
    <3>5. s.ctx.index \in Nat  BY <1>4, GroupTypes DEF ContextType
    <3>6. ASSUME NEW k \in 1 .. s.ctx.index - 1  PROVE k \in ctx.index .. i - 1 \/ k = i
      BY <3>3, <3>4, <3>5, GroupTypes
    <3>7. ASSUME NEW k \in Behind', Satisfying(AutoGroups[k])' # {}  PROVE AutoGroups[k] \in {chan'.group}
      BY <1>3, <2>1, <2>3, <3>3, <3>6, <3>7 DEF Behind, Satisfying
    <3>8. QED  BY <3>1, <3>7, <2>3 DEF BehindIsTried
  <2>8. EveryGroupTried'  BY <2>3 DEF EveryGroupTried
  <2>9. QED  BY <2>4, <2>5, <2>6, <2>7, <2>8
<1>7. QED  BY <1>5, <1>6

\* A success ends the request.
LEMMA SuccessInv ==
  ASSUME IInv, Success
  PROVE  IInv'
<1> USE DEF IInv, Success, End
<1>1. TypeOK' /\ OwnGroup'  BY DEF TypeOK, OwnGroup
<1>2. RatioIsFrozen' /\ BilledIsServing' /\ CrossInv' /\ EveryGroupTried'
  BY DEF RatioIsFrozen, BilledIsServing, CrossInv, RetriesLeft, EveryGroupTried
<1>3. QED  BY <1>1, <1>2

\* A failure that another channel may not have is always followed by another selection, if
\* the request crosses groups and the affinity does not forbid it.
LEMMA FailureInv ==
  ASSUME IInv, NEW error \in Errors, Failure(error)
  PROVE  IInv'
<1> DEFINE next == IF param.reset THEN [param EXCEPT !.reset = FALSE] ELSE [param EXCEPT !.retry = @ + 1]
           again == ShouldRetry(error) /\ next.retry <= conf.retries
<1>1. /\ pc = "attempt" /\ tried' = tried \cup {chan.group} /\ result' = error
      /\ param' = next /\ pc' = IF again THEN "select" ELSE "done"
      /\ UNCHANGED <<up, aff, conf, ctx, chan, billed, changes>>
  BY DEF Failure, Attempted
<1>2. param \in ParamType /\ conf.retries \in Nat /\ param.retry \in Nat
  BY DEF IInv, TypeOK, ParamType, Confs
<1>3. /\ next \in ParamType
      /\ param.reset => next.retry = param.retry /\ ~next.reset
      /\ ~param.reset => next.retry = param.retry + 1 /\ ~next.reset
  <2> DEFINE v == FALSE
  <2>1. v \in BOOLEAN /\ ~v  BY Zenon
  <2> HIDE DEF v
  <2>2. [param EXCEPT !.reset = v] \in ParamType /\ [param EXCEPT !.reset = v].reset = v
        /\ [param EXCEPT !.reset = v].retry = param.retry
    BY <1>2, <2>1 DEF ParamType
  <2>3. [param EXCEPT !.retry = @ + 1] \in ParamType
        /\ [param EXCEPT !.retry = @ + 1].retry = param.retry + 1
        /\ [param EXCEPT !.retry = @ + 1].reset = param.reset
    BY <1>2 DEF ParamType
  <2>4. next = IF param.reset THEN [param EXCEPT !.reset = v] ELSE [param EXCEPT !.retry = @ + 1]
    BY DEF v
  <2> HIDE DEF next
  <2>5. QED  BY <2>1, <2>2, <2>3, <2>4
<1> HIDE DEF next
<1>4. TypeOK'  BY <1>1, <1>3 DEF IInv, TypeOK, ParamType
<1>5. OwnGroup'  BY <1>1 DEF IInv, OwnGroup
<1>6. RatioIsFrozen' /\ BilledIsServing'  BY <1>1 DEF IInv, RatioIsFrozen, BilledIsServing
<1>7. CrossInv'
  <2> SUFFICES ASSUME Crossing  PROVE RetriesLeft' /\ BehindIsTried'
    BY <1>1 DEF CrossInv, Crossing
  <2>1. BehindIsTried  BY <1>1 DEF IInv, CrossInv
  <2>2. BehindIsTried'  BY <1>1, <2>1 DEF BehindIsTried, Behind, Satisfying
  <2>3. RetriesLeft'  BY <1>1, <1>3 DEF RetriesLeft
  <2>4. QED  BY <2>2, <2>3
<1>8. EveryGroupTried'
  <2> SUFFICES ASSUME Crossing, ~AffinitySkips, error = "retryable", pc' = "done"  PROVE FALSE
    BY <1>1 DEF EveryGroupTried, Crossing, AffinitySkips, Errors
  <2>1. IF param.reset THEN param.retry = 0 ELSE param.retry < conf.retries
    BY <1>1 DEF IInv, CrossInv, RetriesLeft
  <2>2. conf.retries > param.retry /\ conf.pinned # "specific"
    BY <1>2, <2>1 DEF Crossing
  <2>3. ShouldRetry(error)  BY <2>2 DEF ShouldRetry, ShouldRetryTaskRelay
  <2>4. next.retry <= conf.retries  BY <1>2, <1>3, <2>1, <2>2
  <2>5. QED  BY <1>1, <2>3, <2>4
<1>9. QED  BY <1>4, <1>5, <1>6, <1>7, <1>8 DEF IInv

\* A selection goes on with the next group that has a channel, or finds that none is left.
LEMMA SelectInv ==
  ASSUME IInv, Select
  PROVE  IInv'
<1>1. PICK s \in CacheGetRandomSatisfiedChannel(param) :
        /\ ctx' = s.ctx /\ param' = s.param /\ billed' = Repriced(s.ctx)
        /\ \/ s.id = None /\ End("unavailable") /\ UNCHANGED chan
           \/ s.id \in MultiKey /\ End("keyless") /\ UNCHANGED chan
           \/ /\ s.id # None /\ chan' = [chan EXCEPT !.id = s.id, !.group = s.group]
              /\ pc' = "attempt" /\ UNCHANGED result
  BY DEF Select
<1>2. pc = "select" /\ UNCHANGED <<up, aff, conf, tried, changes>>  BY DEF Select
<1>3. param \in ParamType  BY DEF IInv, TypeOK, ParamType
<1>4. /\ s.ctx \in ContextType /\ s.param \in ParamType
      /\ conf.group # "auto" => s.ctx.group = None
      /\ s.id # None => /\ s.id \in Channels /\ s.group \in Groups \cup {conf.group}
                        /\ GroupRatioOf(s.ctx) = s.group
  BY <1>3, SelectedAny DEF IInv
<1>5. OwnGroup'  BY <1>1, <1>2, <1>4 DEF OwnGroup
<1>6. CASE s.id = None
  <2>1. pc' = "done" /\ UNCHANGED chan  BY <1>1, <1>6, RetryAssumption DEF End
  <2>2. TypeOK'  BY <1>1, <1>2, <1>4, <2>1 DEF IInv, TypeOK, ContextType, ParamType
  <2>3. RatioIsFrozen' /\ BilledIsServing' /\ CrossInv'
    BY <2>1 DEF RatioIsFrozen, BilledIsServing, CrossInv, RetriesLeft
  <2>4. EveryGroupTried'
    <3> SUFFICES ASSUME Crossing  PROVE (\A i \in DOMAIN AutoGroups : Satisfying(AutoGroups[i]) # {} => AutoGroups[i] \in tried)'
      BY <1>2 DEF EveryGroupTried, Crossing
    <3>1. s \in SelectAuto(param)  BY DEF Crossing, CacheGetRandomSatisfiedChannel
    <3>2. \A i \in ctx.index .. Len(AutoGroups) : Satisfying(AutoGroups[i]) = {}
      BY <1>3, <1>6, <3>1, SelectedAuto DEF Crossing, IInv
    <3>3. \A i \in Behind : Satisfying(AutoGroups[i]) # {} => AutoGroups[i] \in tried
      BY <1>2 DEF IInv, CrossInv, BehindIsTried
    <3>4. \A i \in DOMAIN AutoGroups : Satisfying(AutoGroups[i]) # {} => AutoGroups[i] \in tried
      BY <3>2, <3>3, NoneAhead DEF IInv
    <3>5. QED  BY <1>2, <3>4 DEF Satisfying
  <2>5. QED  BY <1>5, <2>2, <2>3, <2>4 DEF IInv
<1>7. CASE s.id \in MultiKey /\ End("keyless") /\ UNCHANGED chan
  <2>1. pc' = "done" /\ result' = "keyless"  BY <1>7 DEF End
  <2>2. TypeOK'  BY <1>1, <1>2, <1>4, <1>7, <2>1 DEF IInv, TypeOK, ContextType, ParamType
  <2>3. RatioIsFrozen' /\ BilledIsServing' /\ CrossInv' /\ EveryGroupTried'
    BY <2>1 DEF RatioIsFrozen, BilledIsServing, CrossInv, RetriesLeft, EveryGroupTried
  <2>4. QED  BY <1>5, <2>2, <2>3 DEF IInv
<1>8. CASE s.id # None /\ chan' = [chan EXCEPT !.id = s.id, !.group = s.group] /\ pc' = "attempt"
  <2>1. pc' = "attempt"  BY <1>8
  <2>2. TypeOK' /\ chan'.group = s.group /\ chan'.origin = chan.origin
    <3>1. chan' \in ChanType /\ chan'.group = s.group /\ chan'.origin = chan.origin
      BY <1>4, <1>8 DEF IInv, TypeOK, ChanType
    <3>2. QED  BY <1>1, <1>2, <1>4, <2>1, <3>1 DEF IInv, TypeOK, ContextType, ParamType, ChanType
  <2>3. RatioIsFrozen' /\ BilledIsServing'
    BY <1>1, <1>2, <1>4, <1>8, <2>2 DEF IInv, RatioIsFrozen, BilledIsServing, Repriced
  <2>4. CrossInv'
    <3> SUFFICES ASSUME Crossing  PROVE RetriesLeft' /\ BehindIsTried'
      BY <1>2 DEF CrossInv, Crossing
    <3>1. s \in SelectAuto(param) /\ ~param.reset
      BY <1>2 DEF Crossing, CacheGetRandomSatisfiedChannel, IInv, CrossInv, RetriesLeft
    <3>2. IF s.param.reset THEN s.param.retry = 0 ELSE s.param.retry < conf.retries
      BY <1>3, <1>8, <3>1, SelectedAuto DEF Crossing, IInv
    <3>3. RetriesLeft'  BY <1>1, <1>2, <2>1, <3>2 DEF RetriesLeft
    <3>4. PICK i \in ctx.index .. Len(AutoGroups) :
                   /\ s.group = AutoGroups[i] /\ s.ctx.index <= i + 1
                   /\ \A k \in ctx.index .. i - 1 : Satisfying(AutoGroups[k]) = {}
      BY <1>3, <1>8, <3>1, SelectedAuto DEF Crossing, IInv
    <3>5. s.ctx.index \in Nat /\ ctx.index \in Nat  BY <1>4, GroupTypes DEF ContextType, IInv, TypeOK
    <3>6. ASSUME NEW k \in 1 .. s.ctx.index - 1
          PROVE  k \in Behind \/ k \in ctx.index .. i - 1 \/ k = i
      BY <3>4, <3>5, GroupTypes DEF Behind
    <3>7. BehindIsTried  BY <1>2 DEF IInv, CrossInv
    <3>8. ASSUME NEW k \in Behind', Satisfying(AutoGroups[k])' # {}
          PROVE  AutoGroups[k] \in tried' \cup {chan'.group}
      <4>1. k \in 1 .. s.ctx.index - 1 /\ Satisfying(AutoGroups[k]) # {}
        BY <1>1, <1>2, <3>8 DEF Behind, Satisfying
      <4>2. CASE k \in Behind  BY <1>2, <3>7, <4>1, <4>2 DEF BehindIsTried
      <4>3. CASE k = i  BY <2>2, <3>4, <4>3
      <4>4. QED  BY <3>4, <3>6, <4>1, <4>2, <4>3
    <3>9. QED  BY <2>1, <3>3, <3>8 DEF BehindIsTried
  <2>5. EveryGroupTried'  BY <2>1 DEF EveryGroupTried
  <2>6. QED  BY <1>5, <2>2, <2>3, <2>4, <2>5 DEF IInv
<1>9. QED  BY <1>1, <1>6, <1>7, <1>8

\* What is said of all groups is said of channels that stay as they are.
LEMMA ChangeInv ==
  ASSUME IInv, Change
  PROVE  IInv'
<1> USE DEF IInv, Change
<1>1. changes \in Nat /\ changes' = changes + 1  BY DEF TypeOK
<1>2. up' \subseteq Channels  BY DEF TypeOK
<1>3. TypeOK' /\ OwnGroup' /\ RatioIsFrozen' /\ BilledIsServing'
  BY <1>1, <1>2 DEF TypeOK, OwnGroup, RatioIsFrozen, BilledIsServing
<1>4. CrossInv' /\ EveryGroupTried'  BY <1>1 DEF CrossInv, Crossing, EveryGroupTried
<1>5. QED  BY <1>3, <1>4

-----------------------------------------------------------------------------
(* The theorems                                                            *)

\* The invariant of a request: the context names the group that serves, the groups before
\* its index have been tried, and an attempt leaves a retry for the next one.
THEOREM RetryInvariant == RetrySpec => []IInv
<1>1. ASSUME RetryInit  PROVE IInv
  <2>1. FALSE \in BOOLEAN /\ 0 \in Nat /\ 1 \in 1 .. Len(AutoGroups) + 1  BY GroupTypes
  <2>2. param \in ParamType /\ param.retry = 0 /\ ~param.reset
    <3>1. param = [retry |-> 0, reset |-> FALSE]  BY <1>1 DEF RetryInit
    <3>2. QED  BY <2>1, <3>1, Zenon DEF ParamType
  <2>3. ctx \in ContextType /\ ctx.group = None /\ ctx.index = 1  BY <1>1, <2>1 DEF RetryInit, ContextType
  <2>4. TypeOK  BY <1>1, <2>2, <2>3 DEF RetryInit, TypeOK, ContextType, ParamType
  <2>5. OwnGroup /\ RatioIsFrozen /\ BilledIsServing /\ CrossInv /\ EveryGroupTried
    BY <1>1, <2>2, <2>3
    DEF RetryInit, OwnGroup, RatioIsFrozen, BilledIsServing, CrossInv, RetriesLeft, EveryGroupTried
  <2>6. QED  BY <2>4, <2>5 DEF IInv
<1>2. ASSUME IInv, [RetryNext]_retryVars  PROVE IInv'
  <2> USE <1>2
  <2>1. CASE DistributeSpecific  BY <2>1, DistributeSpecificInv
  <2>2. CASE ResolveOriginTask  BY <2>2, ResolveOriginTaskInv
  <2>3. CASE DistributePreferred  BY <2>3, DistributePreferredInv
  <2>4. CASE DistributeSelected  BY <2>4, DistributeSelectedInv
  <2>5. CASE Success  BY <2>5, SuccessInv
  <2>6. ASSUME NEW e \in Errors, Failure(e)  PROVE IInv'  BY <2>6, FailureInv
  <2>7. CASE Select  BY <2>7, SelectInv
  <2>8. CASE Change  BY <2>8, ChangeInv
  <2>9. CASE UNCHANGED retryVars
    <3> USE <2>9 DEF IInv
    <3>1. TypeOK' /\ OwnGroup' /\ RatioIsFrozen' /\ BilledIsServing'
      BY DEF TypeOK, OwnGroup, RatioIsFrozen, BilledIsServing
    <3>2. CrossInv'  BY DEF CrossInv, Crossing, RetriesLeft, BehindIsTried, Behind, Satisfying
    <3>3. EveryGroupTried'  BY DEF EveryGroupTried, AffinitySkips, Satisfying
    <3>4. QED  BY <3>1, <3>2, <3>3
  <2>10. QED
    BY <2>1, <2>2, <2>3, <2>4, <2>5, <2>6, <2>7, <2>8, <2>9 DEF RetryNext, RequestStep
<1>3. QED  BY <1>1, <1>2, PTL DEF RetrySpec

\* The ratio a request is charged with is that of the group whose channel it is sent to, for
\* every attempt of Relay and RelayTask, however the channels change meanwhile; that of a
\* tiered expression stays the one of the group the request was sent to first.
THEOREM ChargedWhereServed == RetrySpec => []BilledIsServing
<1>1. IInv => BilledIsServing  BY DEF IInv
<1>2. QED  BY <1>1, RetryInvariant, PTL

\* A token that may cross groups is told of an error another channel may not have, or that
\* there is no channel, only after every group with a channel was tried, for any list of
\* groups and any number of retries above zero; the error of a channel without an enabled
\* key, which ends the loop at once, is neither.
THEOREM NoGroupLeftOut == RetrySpec => []EveryGroupTried
<1>1. IInv => EveryGroupTried  BY DEF IInv
<1>2. QED  BY <1>1, RetryInvariant, PTL

-----------------------------------------------------------------------------
(* TokenStore: the types, and the inductive invariant                      *)

SnapType == [status : {"on", "off", "gone"}, quota : Int, full : BOOLEAN]
HashType == [status : {"on", "off", "gone", "unset"}, quota : Int, full : BOOLEAN, ttl : 1..TTL]
GoroutineType == [kind : {"none", "set", "del", "incr", "apply"}, row : Rows \cup {Missing},
                  snap : SnapType \cup {Missing}, delta : Int, ttl : 0..TTL]
LookupType == [pc : {"cache", "db", "accepted"}, row : Rows, full : BOOLEAN]
ChangePcs == Rows \cup {"idle", "tokenread", "tokenwrite", "tokendelete", "userread", "userwrite",
                        "userback", "fieldttl", "field", "userdelete", "harddelete", "dropuser", "droptoken",
                        "override", "delta"}
ChangeOps == {"none", "token_on", "token_off", "token_edit", "token_delete", "disable", "enable",
              "settings", "user_delete", "hard_delete", "override", "charge", "refund"}
ChangeType == [pc : ChangePcs, op : ChangeOps, row : Rows \cup {Missing},
               snap : SnapType \cup {Missing}, ttl : 0..TTL]

TokenTypeOK ==
  /\ db \in [Rows -> [status : {"on", "off", "gone"}, quota : Int]]
  /\ hash \in [Rows -> HashType \cup {Missing}]
  /\ task \in [Slots -> GoroutineType] /\ req \in [Requests -> LookupType]
  /\ job \in [Jobs -> ChangeType] /\ stale \in BOOLEAN

\* A goroutine that sets a hash has all its fields; one that increments has a time to live.
GoodGoroutine(g) ==
  /\ g.kind # "none" => g.row \in Rows
  /\ g.kind = "set" => g.snap \in SnapType /\ g.snap.full
  /\ g.kind = "apply" => g.ttl > 0

\* What a change has read, and what kind of change is where.
Pending == {"userback", "fieldttl", "field"}
GoodChange(c) ==
  /\ c.pc = "delta" => c.row \in Rows
  /\ c.pc \in {"tokenwrite", "userwrite", "fieldttl", "field"} => c.snap \in SnapType
  /\ c.pc = "tokenwrite" => c.snap.full
  /\ c.pc = "field" => c.ttl > 0
  /\ c.pc \in Pending \cup {"userread", "userwrite"} => c.op \in {"disable", "enable", "settings"}
  /\ c.pc = "userdelete" => c.op = "user_delete"
  /\ c.pc = "dropuser" => c.op \in {"disable", "user_delete"}
StaleChange(c) == c.pc = "userwrite" /\ c.snap.status = "gone"

\* A request that got past the token saw a token with all its fields.
GoodLookup(q) == (q.pc = "accepted" => q.row = "user") /\ (q.row = "user" => q.full)

\* Only a hash with all its fields has the status "on".
TokenHashInv == hash["token"] # Missing /\ hash["token"].status = "on" => hash["token"].full

\* As long as nobody wrote it late and no change of the user left it alone, a user's hash that says "on" when the row does not is about
\* to be overwritten or dropped.
UserHashInv ==
  ~stale /\ hash["user"] # Missing /\ hash["user"].status = "on" =>
    /\ db["user"].status = "off" => \E j \in Jobs : job[j].pc \in Pending
    /\ db["user"].status = "gone" => \E j \in Jobs : job[j].pc = "dropuser"

TokenInv ==
  /\ TokenTypeOK /\ TokenHashInv /\ UserHashInv
  /\ \A i \in Slots : GoodGoroutine(task[i])
  /\ \A j \in Jobs : GoodChange(job[j]) /\ (StaleChange(job[j]) => db["user"].status = "gone")
  /\ \A r \in Requests : GoodLookup(req[r])

-----------------------------------------------------------------------------
(* TokenStore: frames                                                      *)

\* A goroutine is started: one slot changes.
LEMMA GoroutineStarted ==
  ASSUME TokenInv, NEW g \in GoroutineType, GoodGoroutine(g), Starts(g)
  PROVE  task' \in [Slots -> GoroutineType] /\ \A i \in Slots : GoodGoroutine(task'[i])
<1>1. PICK i \in Slots : task' = [task EXCEPT ![i] = g]  BY DEF Starts
<1>2. task \in [Slots -> GoroutineType] /\ \A k \in Slots : GoodGoroutine(task[k])
  BY DEF TokenInv, TokenTypeOK
<1>3. ASSUME NEW k \in Slots PROVE task'[k] = IF k = i THEN g ELSE task[k]  BY <1>1, <1>2
<1> QED  BY <1>1, <1>2, <1>3

\* A goroutine is over, or goes on as g.
LEMMA GoroutineMoved ==
  ASSUME TokenInv, NEW i \in Slots, NEW g \in GoroutineType, GoodGoroutine(g),
         task' = [task EXCEPT ![i] = g]
  PROVE  task' \in [Slots -> GoroutineType] /\ \A k \in Slots : GoodGoroutine(task'[k])
<1>1. task \in [Slots -> GoroutineType] /\ \A k \in Slots : GoodGoroutine(task[k])
  BY DEF TokenInv, TokenTypeOK
<1>2. ASSUME NEW k \in Slots PROVE task'[k] = IF k = i THEN g ELSE task[k]  BY <1>1
<1> QED  BY <1>1, <1>2

\* The goroutines of the program are well formed.
LEMMA Goroutines ==
  /\ Free \in GoroutineType /\ GoodGoroutine(Free)
  /\ \A x \in Rows, s \in SnapType : s.full => Set(x, s) \in GoroutineType /\ GoodGoroutine(Set(x, s))
  /\ \A x \in Rows : Del(x) \in GoroutineType /\ GoodGoroutine(Del(x))
  /\ \A x \in Rows, d \in Int : Incr(x, d) \in GoroutineType /\ GoodGoroutine(Incr(x, d))
<1>1. Free \in GoroutineType /\ GoodGoroutine(Free)
  BY TokenAssumption DEF GoroutineType, GoodGoroutine, Free
<1>2. ASSUME NEW x \in Rows, NEW s \in SnapType, s.full
      PROVE  Set(x, s) \in GoroutineType /\ GoodGoroutine(Set(x, s))
  <2>1. Set(x, s) \in GoroutineType  BY <1>1 DEF Set, GoroutineType
  <2>2. Set(x, s).kind = "set" /\ Set(x, s).row = x /\ Set(x, s).snap = s  BY DEF Set, Free
  <2> QED  BY <1>2, <2>1, <2>2 DEF GoodGoroutine
<1>3. ASSUME NEW x \in Rows PROVE Del(x) \in GoroutineType /\ GoodGoroutine(Del(x))
  <2>1. Del(x) \in GoroutineType  BY <1>1 DEF Del, GoroutineType
  <2>2. Del(x).kind = "del" /\ Del(x).row = x  BY DEF Del, Free
  <2> QED  BY <2>1, <2>2 DEF GoodGoroutine
<1>4. ASSUME NEW x \in Rows, NEW d \in Int PROVE Incr(x, d) \in GoroutineType /\ GoodGoroutine(Incr(x, d))
  <2>1. Incr(x, d) \in GoroutineType  BY <1>1 DEF Incr, GoroutineType
  <2>2. Incr(x, d).kind = "incr" /\ Incr(x, d).row = x  BY DEF Incr, Free
  <2> QED  BY <2>1, <2>2 DEF GoodGoroutine
<1> QED  BY <1>1, <1>2, <1>3, <1>4

\* What is read from a row.
LEMMA SnapshotType ==
  ASSUME TokenTypeOK, NEW x \in Rows
  PROVE  /\ Snapshot(x) \in SnapType /\ Snapshot(x).full /\ Snapshot(x).status = db[x].status
         /\ StatusOf(x) \in SnapType /\ StatusOf(x).status = db[x].status
<1>1. db[x] \in [status : {"on", "off", "gone"}, quota : Int]  BY DEF TokenTypeOK
<1>2. Snapshot(x) = [status |-> db[x].status, quota |-> db[x].quota, full |-> TRUE]  BY DEF Snapshot
<1>3. Snapshot(x) \in SnapType  BY <1>1, <1>2 DEF SnapType
<1>4. Snapshot(x).full /\ Snapshot(x).status = db[x].status  BY <1>2
<1>5. StatusOf(x) \in SnapType /\ StatusOf(x).status = Snapshot(x).status  BY <1>3 DEF StatusOf, SnapType
<1> QED  BY <1>3, <1>4, <1>5

\* What a change makes of what it read.
LEMMA WantedType ==
  ASSUME NEW s \in SnapType, NEW op
  PROVE  /\ Wanted(op, s) \in SnapType /\ Wanted(op, s).full = s.full
         /\ Wanted(op, s).status = "gone" => s.status = "gone"
<1> USE TokenAssumption
<1>1. CASE op \in {"token_on", "enable"}
  <2>1. Wanted(op, s) = [s EXCEPT !.status = "on"]  BY <1>1 DEF Wanted
  <2> QED  BY <2>1 DEF SnapType
<1>2. CASE op \in {"token_off", "disable"}
  <2>1. Wanted(op, s) = [s EXCEPT !.status = "off"]  BY <1>2 DEF Wanted
  <2> QED  BY <2>1 DEF SnapType
<1>3. CASE op = "token_edit"
  <2>1. Wanted(op, s) = [s EXCEPT !.quota = Quota]  BY <1>3 DEF Wanted
  <2> QED  BY <2>1 DEF SnapType
<1>4. CASE op \notin {"token_on", "enable", "token_off", "disable", "token_edit"}
  <2>1. Wanted(op, s) = s  BY <1>4 DEF Wanted
  <2> QED  BY <2>1
<1> QED  BY <1>1, <1>2, <1>3, <1>4

\* Every change but j is where it was.
OtherJobs(j) == job' \in [Jobs -> ChangeType] /\ \A k \in Jobs : k # j => job'[k] = job[k]

\* The change alone moves.
LEMMA ChangeMoved ==
  ASSUME TokenInv, NEW j \in Jobs, NEW c \in ChangeType, job' = [job EXCEPT ![j] = c]
  PROVE  OtherJobs(j) /\ job'[j] = c
BY DEF TokenInv, TokenTypeOK, OtherJobs

\* The other changes have read nothing that a deletion of the user could spoil.
LEMMA ChangesKept ==
  ASSUME TokenInv, NEW j \in Jobs, OtherJobs(j), GoodChange(job'[j]),
         db["user"].status = "gone" => db'["user"].status = "gone",
         StaleChange(job'[j]) => db'["user"].status = "gone"
  PROVE  \A k \in Jobs : GoodChange(job'[k]) /\ (StaleChange(job'[k]) => db'["user"].status = "gone")
BY DEF TokenInv, OtherJobs

\* A step that leaves the user's status and hash alone, and every change that is to repair
\* the hash where it is.
LEMMA UserHashKept ==
  ASSUME TokenInv, hash'["user"] = hash["user"], stale' = stale, db'["user"].status = db["user"].status,
         \A k \in Jobs : job[k].pc \in Pending \cup {"dropuser"} => job'[k].pc = job[k].pc
  PROVE  UserHashInv'
BY DEF TokenInv, UserHashInv

\* A change goes on elsewhere and keeps what it has read.
LEMMA ChangeGoesTo ==
  ASSUME TokenInv, NEW j \in Jobs, NEW to \in ChangePcs, Goto(j, to)
  PROVE  /\ OtherJobs(j) /\ job'[j].pc = to
         /\ job'[j].op = job[j].op /\ job'[j].snap = job[j].snap /\ job'[j].row = job[j].row
<1>1. job \in [Jobs -> ChangeType]  BY DEF TokenInv, TokenTypeOK
<1> DEFINE c == [job[j] EXCEPT !.pc = to]
<1>2. c \in ChangeType /\ c.pc = to /\ c.op = job[j].op /\ c.snap = job[j].snap /\ c.row = job[j].row
  BY <1>1 DEF ChangeType
<1>3. job' = [job EXCEPT ![j] = c]  BY DEF Goto
<1> HIDE DEF c
<1> QED  BY <1>2, <1>3, ChangeMoved

\* A change that is over, or has not begun.
LEMMA IdleGood == Idle \in ChangeType /\ GoodChange(Idle) /\ ~StaleChange(Idle) /\ Idle.pc = "idle"
BY TokenAssumption DEF Idle, ChangeType, ChangePcs, ChangeOps, GoodChange, StaleChange, Pending

\* A change is over.
LEMMA ChangeEnds ==
  ASSUME TokenInv, NEW j \in Jobs, EndJob(j)
  PROVE  OtherJobs(j) /\ job'[j] = Idle /\ GoodChange(Idle) /\ ~StaleChange(Idle) /\ Idle.pc = "idle"
BY IdleGood, ChangeMoved DEF EndJob

\* A change that ends was not to repair the hash of a user: the hash is as good as before.
LEMMA UserHashWithout ==
  ASSUME TokenInv, NEW j \in Jobs, OtherJobs(j), job[j].pc \notin Pending \cup {"dropuser"},
         hash'["user"] = hash["user"], stale' = stale, db'["user"].status = db["user"].status
  PROVE  UserHashInv'
<1>1. \A k \in Jobs : job[k].pc \in Pending \cup {"dropuser"} => job'[k].pc = job[k].pc
  BY DEF OtherJobs
<1> QED  BY <1>1, UserHashKept

-----------------------------------------------------------------------------
(* TokenStore: each action preserves the invariant                         *)

\* A hash that is set as a whole.
LEMMA HSetObjType ==
  ASSUME NEW s \in SnapType
  PROVE  HSetObj(s) \in HashType /\ HSetObj(s).status = s.status /\ HSetObj(s).full = s.full
BY TokenAssumption DEF HSetObj, HashType, SnapType

\* A goroutine sets a hash.
LEMMA TaskSetInv == ASSUME TokenInv, NEW i \in Slots, TaskSet(i) PROVE TokenInv'
<1>1. /\ task[i].row \in Rows /\ task[i].snap \in SnapType /\ task[i].snap.full
  BY DEF TokenInv, GoodGoroutine, TaskSet
<1> DEFINE x == task[i].row
           h == HSetObj(task[i].snap)
<1>2. h \in HashType /\ h.status = task[i].snap.status /\ h.full = task[i].snap.full
  BY <1>1, HSetObjType
<1>3. hash' = [hash EXCEPT ![x] = h] /\ hash \in [Rows -> HashType \cup {Missing}]
  BY DEF TaskSet, TokenInv, TokenTypeOK
<1>4. task' \in [Slots -> GoroutineType] /\ \A k \in Slots : GoodGoroutine(task'[k])
  BY GoroutineMoved, Goroutines DEF TaskSet
<1>5. UNCHANGED <<db, req, job>> /\ stale' = (stale \/ (x = "user" /\ task[i].snap.status # db[x].status))
  BY DEF TaskSet, Late
<1> HIDE DEF x, h
<1>6. hash' \in [Rows -> HashType \cup {Missing}]  BY <1>2, <1>3
<1>7. TokenHashInv'
  <2>1. CASE x = "token"
    <3>1. hash'["token"] = h  BY <1>3, <2>1 DEF Rows
    <3> QED  BY <1>1, <1>2, <3>1 DEF TokenHashInv
  <2>2. CASE x # "token"
    <3>1. hash'["token"] = hash["token"]  BY <1>3, <2>2 DEF Rows
    <3> QED  BY <3>1 DEF TokenHashInv, TokenInv
  <2> QED  BY <2>1, <2>2
<1>8. UserHashInv'
  <2>1. CASE x = "user"
    <3>1. hash'["user"] = h  BY <1>3, <2>1 DEF Rows
    <3> QED  BY <1>2, <1>5, <2>1, <3>1 DEF UserHashInv
  <2>2. CASE x # "user"
    <3>1. hash'["user"] = hash["user"]  BY <1>3, <2>2 DEF Rows
    <3>2. stale' = stale  BY <1>5, <2>2 DEF TokenInv, TokenTypeOK
    <3> QED  BY <1>5, <3>1, <3>2, UserHashKept
  <2> QED  BY <2>1, <2>2
<1>9. stale' \in BOOLEAN  BY <1>5 DEF TokenInv, TokenTypeOK
<1> QED  BY <1>4, <1>5, <1>6, <1>7, <1>8, <1>9 DEF TokenInv, TokenTypeOK

\* A hash is dropped: nothing has to be true of it.
LEMMA HashDropped ==
  ASSUME TokenInv, NEW x \in Rows, hash' = [hash EXCEPT ![x] = Missing], stale' = stale,
         db'["user"].status = db["user"].status,
         x # "user" => \A k \in Jobs : job[k].pc \in Pending \cup {"dropuser"} => job'[k].pc = job[k].pc
  PROVE  hash' \in [Rows -> HashType \cup {Missing}] /\ TokenHashInv' /\ UserHashInv'
<1>1. hash \in [Rows -> HashType \cup {Missing}]  BY DEF TokenInv, TokenTypeOK
<1>2. \A y \in Rows : hash'[y] = IF y = x THEN Missing ELSE hash[y]  BY <1>1
<1>3. hash' \in [Rows -> HashType \cup {Missing}]  BY <1>1
<1>4. TokenHashInv'  BY <1>2 DEF TokenHashInv, TokenInv, Rows
<1>5. UserHashInv'
  <2>1. CASE x = "user"  BY <1>2, <2>1 DEF UserHashInv, Rows
  <2>2. CASE x # "user"  BY <1>2, <2>2, UserHashKept DEF Rows
  <2> QED  BY <2>1, <2>2
<1> QED  BY <1>3, <1>4, <1>5

\* A goroutine drops a hash.
LEMMA TaskDelInv == ASSUME TokenInv, NEW i \in Slots, TaskDel(i) PROVE TokenInv'
<1>1. task[i].row \in Rows  BY DEF TokenInv, GoodGoroutine, TaskDel
<1>2. task' \in [Slots -> GoroutineType] /\ \A k \in Slots : GoodGoroutine(task'[k])
  BY GoroutineMoved, Goroutines DEF TaskDel
<1>3. UNCHANGED <<db, req, job, stale>> /\ hash' = [hash EXCEPT ![task[i].row] = Missing]  BY DEF TaskDel, past
<1>4. hash' \in [Rows -> HashType \cup {Missing}] /\ TokenHashInv' /\ UserHashInv'
  BY <1>1, <1>3, HashDropped
<1> QED  BY <1>2, <1>3, <1>4 DEF TokenInv, TokenTypeOK

\* A goroutine reads the time to live.
LEMMA TaskTTLInv == ASSUME TokenInv, NEW i \in Slots, TaskTTL(i) PROVE TokenInv'
<1> DEFINE g == [task[i] EXCEPT !.kind = "apply", !.ttl = TTLOf(task[i].row)]
<1>1. task[i].row \in Rows /\ task[i] \in GoroutineType
  BY DEF TokenInv, TokenTypeOK, GoodGoroutine, TaskTTL
<1>2. TTLOf(task[i].row) \in 0..TTL
  BY <1>1, TokenAssumption DEF TTLOf, TokenInv, TokenTypeOK, HashType
<1>3. g \in GoroutineType /\ g.kind = "apply" /\ g.row = task[i].row /\ g.ttl = TTLOf(task[i].row)
  BY <1>1, <1>2 DEF GoroutineType
<1>4. task' = [task EXCEPT ![i] = IF TTLOf(task[i].row) <= 0 THEN Free ELSE g]  BY DEF TaskTTL
<1> HIDE DEF g
<1>5. task' \in [Slots -> GoroutineType] /\ \A k \in Slots : GoodGoroutine(task'[k])
  <2>1. CASE TTLOf(task[i].row) <= 0  BY <1>4, <2>1, GoroutineMoved, Goroutines
  <2>2. CASE ~(TTLOf(task[i].row) <= 0)
    <3>1. GoodGoroutine(g)  BY <1>1, <1>2, <1>3, <2>2 DEF GoodGoroutine
    <3> QED  BY <1>3, <1>4, <2>2, <3>1, GoroutineMoved
  <2> QED  BY <2>1, <2>2
<1>6. UNCHANGED <<db, hash, req, job, stale>>  BY DEF TaskTTL, past
<1> QED  BY <1>5, <1>6 DEF TokenInv, TokenTypeOK, TokenHashInv, UserHashInv

\* A goroutine whose call fails is over.
LEMMA TaskFailsInv == ASSUME TokenInv, NEW i \in Slots, TaskFails(i) PROVE TokenInv'
<1>1. task' \in [Slots -> GoroutineType] /\ \A k \in Slots : GoodGoroutine(task'[k])
  BY GoroutineMoved, Goroutines DEF TaskFails
<1>2. UNCHANGED <<db, hash, req, job, stale>>  BY DEF TaskFails, past
<1> QED  BY <1>1, <1>2 DEF TokenInv, TokenTypeOK, TokenHashInv, UserHashInv

\* A hash, or the blank one.
RawHash == [status : {"on", "off", "gone", "unset"}, quota : Int, full : BOOLEAN, ttl : 0..TTL]
\* A goroutine increments the quota of a hash, which may be gone meanwhile.
LEMMA TaskIncrInv == ASSUME TokenInv, NEW i \in Slots, TaskIncr(i) PROVE TokenInv'
<1> DEFINE x == task[i].row
           b == Base(x)
           h == [b EXCEPT !.quota = b.quota + task[i].delta, !.ttl = task[i].ttl]
<1>1. x \in Rows /\ task[i].ttl \in 1..TTL /\ task[i].delta \in Int
  BY DEF TokenInv, TokenTypeOK, GoodGoroutine, GoroutineType, TaskIncr
<1>2. hash \in [Rows -> HashType \cup {Missing}]  BY DEF TokenInv, TokenTypeOK
<1>3. /\ hash[x] # Missing => b = hash[x] /\ b \in HashType
      /\ hash[x] = Missing => b = Blank
  BY <1>1, <1>2 DEF Base
<1>4. b \in RawHash
  <2>1. Blank \in RawHash
    BY TokenAssumption DEF Blank, RawHash
  <2>2. HashType \subseteq RawHash
    BY DEF HashType, RawHash
  <2> QED  BY <1>3, <2>1, <2>2
<1>5. hash' = [hash EXCEPT ![x] = h]  BY DEF TaskIncr
<1> HIDE DEF b
<1>6. h \in HashType /\ h.status = b.status /\ h.full = b.full
  <2> DEFINE q == b.quota + task[i].delta
             l == task[i].ttl
  <2>1. q \in Int /\ l \in 1..TTL  BY <1>1, <1>4 DEF RawHash
  <2>2. h = [b EXCEPT !.quota = q, !.ttl = l]  OBVIOUS
  <2> HIDE DEF q, l, h
  <2> QED  BY <1>4, <2>1, <2>2 DEF HashType, RawHash
<1> HIDE DEF x, h
<1>7. \A y \in Rows : hash'[y] = IF y = x THEN h ELSE hash[y]  BY <1>2, <1>5
<1>8. hash' \in [Rows -> HashType \cup {Missing}]  BY <1>2, <1>5, <1>6
<1>9. UNCHANGED <<db, req, job, stale>>  BY DEF TaskIncr, past
<1>10. Blank.status = "unset"  BY DEF Blank
<1>11. TokenHashInv'  BY <1>3, <1>6, <1>7, <1>10 DEF TokenHashInv, TokenInv, Rows
<1>12. UserHashInv'
  <2>1. hash'["user"] = IF x = "user" THEN h ELSE hash["user"]  BY <1>7 DEF Rows
  <2> QED  BY <1>3, <1>6, <1>9, <1>10, <2>1 DEF UserHashInv, TokenInv
<1>13. task' \in [Slots -> GoroutineType] /\ \A k \in Slots : GoodGoroutine(task'[k])
  BY GoroutineMoved, Goroutines DEF TaskIncr
<1> QED  BY <1>8, <1>9, <1>11, <1>12, <1>13 DEF TokenInv, TokenTypeOK

\* Time passes: hashes expire.
LEMMA TickInv == ASSUME TokenInv, Tick PROVE TokenInv'
<1>1. hash \in [Rows -> HashType \cup {Missing}]  BY DEF TokenInv, TokenTypeOK
<1>2. ASSUME NEW x \in Rows
      PROVE  /\ hash'[x] \in HashType \cup {Missing}
             /\ hash'[x] # Missing => /\ hash[x] # Missing
                                      /\ hash'[x].status = hash[x].status /\ hash'[x].full = hash[x].full
  <2>1. hash'[x] = IF TTLOf(x) = 1 THEN Missing
                   ELSE IF TTLOf(x) > 1 THEN [hash[x] EXCEPT !.ttl = hash[x].ttl - 1] ELSE hash[x]
    BY DEF Tick
  <2>2. CASE hash[x] = Missing
    <3>1. TTLOf(x) = 0  BY <2>2 DEF TTLOf
    <3> QED  BY <2>1, <2>2, <3>1
  <2>3. CASE hash[x] # Missing
    <3>1. hash[x] \in HashType /\ TTLOf(x) = hash[x].ttl /\ hash[x].ttl \in 1..TTL
      BY <1>1, <2>3 DEF TTLOf, HashType
    <3>2. CASE TTLOf(x) = 1  BY <2>1, <3>2
    <3>3. CASE TTLOf(x) # 1
      <4>1. hash'[x] = [hash[x] EXCEPT !.ttl = hash[x].ttl - 1]  BY <2>1, <3>1, <3>3
      <4>2. hash[x].ttl - 1 \in 1..TTL  BY <3>1, <3>3, TokenAssumption
      <4> QED  BY <2>3, <3>1, <4>1, <4>2 DEF HashType
    <3> QED  BY <3>2, <3>3
  <2> QED  BY <2>2, <2>3
<1>3. hash' \in [Rows -> HashType \cup {Missing}]
  <2>1. hash' = [x \in Rows |-> hash'[x]]  BY DEF Tick
  <2> QED  BY <1>2, <2>1
<1>4. UNCHANGED <<db, task, req, job, stale>>  BY DEF Tick
<1>5. TokenHashInv' /\ UserHashInv'
  BY <1>2, <1>4 DEF TokenHashInv, UserHashInv, TokenInv, Rows
<1> QED  BY <1>3, <1>4, <1>5 DEF TokenInv, TokenTypeOK

\* A lookup goes on as q.
LEMMA LookupMoved ==
  ASSUME TokenInv, NEW r \in Requests, NEW q \in LookupType, GoodLookup(q), req' = [req EXCEPT ![r] = q]
  PROVE  req' \in [Requests -> LookupType] /\ \A s \in Requests : GoodLookup(req'[s])
<1>1. req \in [Requests -> LookupType] /\ \A s \in Requests : GoodLookup(req[s])
  BY DEF TokenInv, TokenTypeOK
<1>2. ASSUME NEW s \in Requests PROVE req'[s] = IF s = r THEN q ELSE req[s]  BY <1>1
<1> QED  BY <1>1, <1>2

\* A request that starts anew.
LEMMA WaitingGood == Waiting \in LookupType /\ GoodLookup(Waiting) /\ Waiting.pc = "cache"
BY DEF Waiting, LookupType, GoodLookup, Rows

\* What TokenAuth makes of a row or of a hash: a token is taken only with all its fields.
LEMMA DecideGood ==
  ASSUME TokenInv, NEW r \in Requests, NEW snap, snap.full \in BOOLEAN,
         req[r].row = "token" /\ snap.status = "on" => snap.full,
         Decide(r, req[r].row, snap)
  PROVE  req' \in [Requests -> LookupType] /\ \A s \in Requests : GoodLookup(req'[s])
<1>1. req[r] \in LookupType /\ GoodLookup(req[r])  BY DEF TokenInv, TokenTypeOK
<1>2. CASE ~Valid(req[r].row, snap)
  <2>1. req' = [req EXCEPT ![r] = Waiting]  BY <1>2 DEF Decide
  <2> QED  BY <2>1, WaitingGood, LookupMoved
<1>3. CASE Valid(req[r].row, snap) /\ req[r].row = "token"
  <2> DEFINE q == [pc |-> "cache", row |-> "user", full |-> snap.full]
  <2>1. req' = [req EXCEPT ![r] = q]  BY <1>3 DEF Decide
  <2>2. snap.full  BY <1>3 DEF Valid
  <2>3. q \in LookupType  BY DEF LookupType, Rows
  <2>4. GoodLookup(q)  BY <2>2 DEF GoodLookup
  <2> HIDE DEF q
  <2> QED  BY <2>1, <2>3, <2>4, LookupMoved
<1>4. CASE Valid(req[r].row, snap) /\ req[r].row # "token"
  <2> DEFINE q == [req[r] EXCEPT !.pc = "accepted"]
  <2>1. req' = [req EXCEPT ![r] = q]  BY <1>4 DEF Decide
  <2>2. q \in LookupType /\ q.row = req[r].row /\ q.full = req[r].full  BY <1>1 DEF LookupType
  <2>3. req[r].row = "user"  BY <1>1, <1>4 DEF LookupType, Rows
  <2>4. GoodLookup(q)  BY <1>1, <2>2, <2>3 DEF GoodLookup
  <2> HIDE DEF q
  <2> QED  BY <2>1, <2>2, <2>4, LookupMoved
<1> QED  BY <1>2, <1>3, <1>4

\* A request looks the token or the user up, or is served.
LEMMA ClientStepInv == ASSUME TokenInv, NEW r \in Requests, ClientStep(r) PROVE TokenInv'
<1> DEFINE x == req[r].row
<1>1. req[r] \in LookupType /\ x \in Rows /\ GoodLookup(req[r])
  BY DEF TokenInv, TokenTypeOK, LookupType
<1>2. UNCHANGED <<db, hash, job, stale>>  BY DEF ClientStep, FromCache, CacheMiss, FromDB, Serve, past
<1>3. TokenHashInv' /\ UserHashInv'  BY <1>2 DEF TokenHashInv, UserHashInv, TokenInv
<1>4. /\ task' \in [Slots -> GoroutineType] /\ \A k \in Slots : GoodGoroutine(task'[k])
  <2>1. CASE task' = task  BY <2>1 DEF TokenInv, TokenTypeOK
  <2>2. CASE FromDB(r) /\ task' # task
    <3>1. Starts(Set(x, Snapshot(x)))  BY <2>2 DEF FromDB
    <3>2. Snapshot(x) \in SnapType /\ Snapshot(x).full  BY <1>1, SnapshotType DEF TokenInv
    <3> HIDE DEF x
    <3> QED  BY <1>1, <3>1, <3>2, Goroutines, GoroutineStarted
  <2> QED  BY <2>1, <2>2 DEF ClientStep, FromCache, CacheMiss, Serve
<1>5. req' \in [Requests -> LookupType] /\ \A s \in Requests : GoodLookup(req'[s])
  <2>1. CASE FromCache(r)
    <3>1. Decide(r, x, hash[x]) /\ hash[x] # Missing  BY <2>1 DEF FromCache
    <3>2. hash[x] \in HashType  BY <1>1, <3>1 DEF TokenInv, TokenTypeOK
    <3>3. hash[x].full \in BOOLEAN  BY <3>2 DEF HashType
    <3>4. x = "token" /\ hash[x].status = "on" => hash[x].full  BY <3>1 DEF TokenInv, TokenHashInv
    <3> QED  BY <3>1, <3>3, <3>4, DecideGood
  <2>4. CASE CacheMiss(r)
    <3> DEFINE q == [req[r] EXCEPT !.pc = "db"]
    <3>1. req' = [req EXCEPT ![r] = q]  BY <2>4 DEF CacheMiss
    <3>2. q \in LookupType /\ q.pc = "db" /\ q.row = x /\ q.full = req[r].full
      BY <1>1 DEF LookupType
    <3>3. GoodLookup(q)  BY <1>1, <3>2 DEF GoodLookup
    <3> HIDE DEF q
    <3> QED  BY <3>1, <3>2, <3>3, LookupMoved
  <2>2. CASE FromDB(r)
    <3>1. CASE db[x].status = "gone"
      <4>1. req' = [req EXCEPT ![r] = Waiting]  BY <2>2, <3>1 DEF FromDB
      <4> QED  BY <4>1, WaitingGood, LookupMoved
    <3>2. CASE db[x].status # "gone"
      <4>1. Decide(r, x, Snapshot(x))  BY <2>2, <3>2 DEF FromDB
      <4>2. Snapshot(x).full  BY <1>1, SnapshotType DEF TokenInv
      <4>3. Snapshot(x).full \in BOOLEAN  BY <1>1, SnapshotType DEF TokenInv, SnapType
      <4>4. x = "token" /\ Snapshot(x).status = "on" => Snapshot(x).full  BY <4>2
      <4> QED  BY <4>1, <4>3, <4>4, DecideGood
    <3> QED  BY <3>1, <3>2
  <2>3. CASE Serve(r)
    <3>1. req' = [req EXCEPT ![r] = Waiting]  BY <2>3 DEF Serve
    <3> QED  BY <3>1, WaitingGood, LookupMoved
  <2> QED  BY <2>1, <2>2, <2>3, <2>4 DEF ClientStep
<1> QED  BY <1>2, <1>3, <1>4, <1>5 DEF TokenInv, TokenTypeOK

\* What a change that moves leaves alone: the hashes, the goroutines and the requests.
LEMMA ChangeStepInv ==
  ASSUME TokenInv, NEW j \in Jobs, OtherJobs(j), GoodChange(job'[j]),
         StaleChange(job'[j]) => db["user"].status = "gone",
         job[j].pc \notin Pending \cup {"dropuser"},
         UNCHANGED <<db, hash, task, req, stale>>
  PROVE  TokenInv'
<1>1. UserHashInv'  BY UserHashWithout
<1>2. \A k \in Jobs : GoodChange(job'[k]) /\ (StaleChange(job'[k]) => db'["user"].status = "gone")
  BY ChangesKept
<1> QED  BY <1>1, <1>2 DEF TokenInv, TokenTypeOK, TokenHashInv, OtherJobs

\* A change begins.
LEMMA StartInv == ASSUME TokenInv, NEW j \in Jobs, Start(j) PROVE TokenInv'
<1>1. ASSUME NEW op \in ChangeOps, NEW to \in ChangePcs, Begin(j, op, to),
             to \notin Pending \cup {"delta", "tokenwrite", "userwrite", "dropuser"},
             to = "userread" => op \in {"disable", "enable", "settings"},
             to = "userdelete" => op = "user_delete"
      PROVE  TokenInv'
  <2> DEFINE c == [job[j] EXCEPT !.op = op, !.pc = to]
  <2>1. job \in [Jobs -> ChangeType] /\ job[j] = Idle /\ Idle.pc = "idle"
    BY <1>1 DEF TokenInv, TokenTypeOK, Begin, Idle
  <2>2. c \in ChangeType /\ c.op = op /\ c.pc = to  BY <2>1 DEF ChangeType
  <2>3. job' = [job EXCEPT ![j] = c]  BY <1>1, <2>1 DEF Begin
  <2> HIDE DEF c
  <2>4. OtherJobs(j) /\ job'[j] = c  BY <2>2, <2>3, ChangeMoved
  <2>5. GoodChange(c) /\ ~StaleChange(c)  BY <1>1, <2>2 DEF GoodChange, StaleChange, Pending
  <2>6. UNCHANGED <<db, hash, task, req, stale>>  BY <1>1 DEF Begin, past
  <2> QED  BY <2>1, <2>4, <2>5, <2>6, ChangeStepInv DEF Pending
<1> QED  BY <1>1 DEF Start, ChangeOps, ChangePcs, Rows, Pending

\* The quota of a hash is left to a goroutine.
LEMMA DeltaStartInv == ASSUME TokenInv, NEW j \in Jobs, DeltaStart(j) PROVE TokenInv'
<1>1. job \in [Jobs -> ChangeType] /\ job[j].pc \in Rows  BY DEF TokenInv, TokenTypeOK, DeltaStart
<1> DEFINE c == [job[j] EXCEPT !.row = job[j].pc, !.pc = "delta"]
<1>2. c \in ChangeType /\ c.pc = "delta" /\ c.row = job[j].pc  BY <1>1 DEF ChangeType, ChangePcs
<1>3. job' = [job EXCEPT ![j] = c]  BY DEF DeltaStart
<1> HIDE DEF c
<1>4. OtherJobs(j) /\ job'[j] = c  BY <1>2, <1>3, ChangeMoved
<1>5. GoodChange(c) /\ ~StaleChange(c)  BY <1>1, <1>2 DEF GoodChange, StaleChange, Pending
<1>6. Delta(job[j].op) \in Int  BY DEF Delta
<1>7. task' \in [Slots -> GoroutineType] /\ \A k \in Slots : GoodGoroutine(task'[k])
  BY <1>1, <1>6, Goroutines, GoroutineStarted DEF DeltaStart
<1>8. UNCHANGED <<db, hash, req, stale>>  BY DEF DeltaStart, past
<1>9. UserHashInv'  BY <1>1, <1>4, <1>8, UserHashWithout DEF Pending, Rows
<1>10. \A k \in Jobs : GoodChange(job'[k]) /\ (StaleChange(job'[k]) => db'["user"].status = "gone")
  BY <1>4, <1>5, <1>8, ChangesKept
<1> QED  BY <1>4, <1>7, <1>8, <1>9, <1>10 DEF TokenInv, TokenTypeOK, TokenHashInv, OtherJobs

\* A row is written and its status stays.
LEMMA RowWritten ==
  ASSUME TokenInv, NEW j \in Jobs, OtherJobs(j), GoodChange(job'[j]), ~StaleChange(job'[j]),
         job[j].pc \notin Pending \cup {"dropuser"},
         db' \in [Rows -> [status : {"on", "off", "gone"}, quota : Int]],
         db'["user"].status = db["user"].status,
         task' \in [Slots -> GoroutineType], \A k \in Slots : GoodGoroutine(task'[k]),
         UNCHANGED <<hash, req, stale>>
  PROVE  TokenInv'
<1>1. UserHashInv'  BY UserHashWithout
<1>2. \A k \in Jobs : GoodChange(job'[k]) /\ (StaleChange(job'[k]) => db'["user"].status = "gone")
  BY ChangesKept
<1> QED  BY <1>1, <1>2 DEF TokenInv, TokenTypeOK, TokenHashInv, OtherJobs

\* The quota of a row.
LEMMA DeltaWriteInv == ASSUME TokenInv, NEW j \in Jobs, DeltaWrite(j) PROVE TokenInv'
<1> DEFINE x == job[j].row
           d == Delta(job[j].op)
<1>1. x \in Rows /\ d \in Int /\ job[j].pc = "delta"
  BY DEF TokenInv, GoodChange, DeltaWrite, Delta
<1>2. db \in [Rows -> [status : {"on", "off", "gone"}, quota : Int]]  BY DEF TokenInv, TokenTypeOK
<1>3. db' = IF db[x].status = "gone" THEN db ELSE [db EXCEPT ![x].quota = db[x].quota + d]
  BY DEF DeltaWrite
<1> HIDE DEF x, d
<1>4. /\ db' \in [Rows -> [status : {"on", "off", "gone"}, quota : Int]]
      /\ db'["user"].status = db["user"].status
  <2>1. db[x] \in [status : {"on", "off", "gone"}, quota : Int]  BY <1>1, <1>2
  <2> DEFINE q == db[x].quota + d
             y == [db[x] EXCEPT !.quota = q]
  <2>2. q \in Int  BY <1>1, <2>1
  <2>3. db' = IF db[x].status = "gone" THEN db ELSE [db EXCEPT ![x] = y]  BY <1>3
  <2> HIDE DEF q
  <2>4. y \in [status : {"on", "off", "gone"}, quota : Int] /\ y.status = db[x].status  BY <2>1, <2>2
  <2> HIDE DEF y
  <2> QED  BY <1>1, <1>2, <2>3, <2>4 DEF Rows
<1>5. OtherJobs(j) /\ GoodChange(job'[j]) /\ ~StaleChange(job'[j])
  BY ChangeEnds DEF DeltaWrite
<1>6. UNCHANGED <<hash, task, req, stale>>  BY DEF DeltaWrite, past
<1> QED  BY <1>1, <1>4, <1>5, <1>6, RowWritten DEF TokenInv, TokenTypeOK, Pending

\* A token is read.
LEMMA TokenReadInv == ASSUME TokenInv, NEW j \in Jobs, TokenRead(j) PROVE TokenInv'
<1>1. job[j].pc = "tokenread" /\ UNCHANGED <<db, hash, task, req, stale>>  BY DEF TokenRead, past
<1>2. CASE EndJob(j)  BY <1>1, <1>2, ChangeEnds, ChangeStepInv DEF Pending
<1>3. CASE db["token"].status # "gone"
  <2> DEFINE s == Wanted(job[j].op, Snapshot("token"))
             to == IF job[j].op = "token_delete" THEN "tokendelete" ELSE "tokenwrite"
             c == [job[j] EXCEPT !.snap = s, !.pc = to]
  <2>1. job[j] \in ChangeType  BY DEF TokenInv, TokenTypeOK
  <2>2. s \in SnapType /\ s.full = TRUE
    <3>1. Snapshot("token") \in SnapType /\ Snapshot("token").full  BY SnapshotType DEF TokenInv, Rows
    <3>2. Snapshot("token").full = TRUE  BY <3>1 DEF SnapType
    <3> QED  BY <3>1, <3>2, WantedType
  <2>3. to \in {"tokendelete", "tokenwrite"}  OBVIOUS
  <2>4. job' = [job EXCEPT ![j] = c]  BY <1>3 DEF TokenRead
  <2> HIDE DEF s, to
  <2>5. c \in ChangeType /\ c.pc = to /\ c.snap = s  BY <2>1, <2>2, <2>3 DEF ChangeType, ChangePcs
  <2> HIDE DEF c
  <2>6. GoodChange(c) /\ ~StaleChange(c)  BY <2>2, <2>3, <2>5 DEF GoodChange, StaleChange, Pending
  <2>7. OtherJobs(j) /\ job'[j] = c  BY <2>4, <2>5, ChangeMoved
  <2> QED  BY <1>1, <2>6, <2>7, ChangeStepInv DEF Pending
<1> QED  BY <1>2, <1>3 DEF TokenRead

\* A token is written.
LEMMA TokenWriteInv == ASSUME TokenInv, NEW j \in Jobs, TokenWrite(j) PROVE TokenInv'
<1> DEFINE s == job[j].snap
<1>1. job[j].pc = "tokenwrite" /\ s \in SnapType /\ s.full  BY DEF TokenWrite, TokenInv, GoodChange
<1>2. db \in [Rows -> [status : {"on", "off", "gone"}, quota : Int]]  BY DEF TokenInv, TokenTypeOK
<1>3. /\ db' \in [Rows -> [status : {"on", "off", "gone"}, quota : Int]]
      /\ db'["user"].status = db["user"].status
  <2> DEFINE y == [db["token"] EXCEPT !.status = s.status, !.quota = s.quota]
  <2>1. db' = IF db["token"].status = "gone" THEN db ELSE [db EXCEPT !["token"] = y]
    BY <1>2 DEF TokenWrite, Rows
  <2>2. y \in [status : {"on", "off", "gone"}, quota : Int]  BY <1>1, <1>2 DEF SnapType, Rows
  <2> HIDE DEF y
  <2> QED  BY <1>2, <2>1, <2>2 DEF Rows
<1>4. task' \in [Slots -> GoroutineType] /\ \A k \in Slots : GoodGoroutine(task'[k])
  <2>1. Starts(Set("token", s))  BY DEF TokenWrite
  <2> HIDE DEF s
  <2> QED  BY <1>1, <2>1, Goroutines, GoroutineStarted DEF Rows
<1>5. OtherJobs(j) /\ GoodChange(job'[j]) /\ ~StaleChange(job'[j])  BY ChangeEnds DEF TokenWrite
<1>6. UNCHANGED <<hash, req, stale>>  BY DEF TokenWrite, past
<1> QED  BY <1>1, <1>3, <1>4, <1>5, <1>6, RowWritten DEF Pending

\* A token is deleted.
LEMMA TokenDeleteInv == ASSUME TokenInv, NEW j \in Jobs, TokenDelete(j) PROVE TokenInv'
<1>1. db \in [Rows -> [status : {"on", "off", "gone"}, quota : Int]]  BY DEF TokenInv, TokenTypeOK
<1>2. /\ db' \in [Rows -> [status : {"on", "off", "gone"}, quota : Int]]
      /\ db'["user"].status = db["user"].status
  BY <1>1 DEF TokenDelete, Rows
<1>3. task' \in [Slots -> GoroutineType] /\ \A k \in Slots : GoodGoroutine(task'[k])
  BY Goroutines, GoroutineStarted DEF TokenDelete, Rows
<1>4. OtherJobs(j) /\ GoodChange(job'[j]) /\ ~StaleChange(job'[j])  BY ChangeEnds DEF TokenDelete
<1>5. UNCHANGED <<hash, req, stale>> /\ job[j].pc = "tokendelete"  BY DEF TokenDelete, past
<1> QED  BY <1>2, <1>3, <1>4, <1>5, RowWritten DEF Pending

\* The quota of a user is overwritten.
LEMMA OverrideInv == ASSUME TokenInv, NEW j \in Jobs, Override(j) PROVE TokenInv'
<1>1. db \in [Rows -> [status : {"on", "off", "gone"}, quota : Int]]  BY DEF TokenInv, TokenTypeOK
<1>2. /\ db' \in [Rows -> [status : {"on", "off", "gone"}, quota : Int]]
      /\ db'["user"].status = db["user"].status
  BY <1>1, TokenAssumption DEF Override, Rows
<1>3. OtherJobs(j) /\ GoodChange(job'[j]) /\ ~StaleChange(job'[j])  BY ChangeEnds DEF Override
<1>4. UNCHANGED <<hash, task, req, stale>> /\ job[j].pc = "override"  BY DEF Override, past
<1> QED  BY <1>2, <1>3, <1>4, RowWritten DEF TokenInv, TokenTypeOK, Pending

\* A user is read.
LEMMA UserReadInv == ASSUME TokenInv, NEW j \in Jobs, UserRead(j) PROVE TokenInv'
<1>1. job[j].pc = "userread" /\ UNCHANGED <<db, hash, task, req, stale>>  BY DEF UserRead, past
<1> DEFINE s == Wanted(job[j].op, StatusOf("user"))
           c == [job[j] EXCEPT !.snap = s, !.pc = "userwrite"]
<1>2. job[j] \in ChangeType /\ job[j].op \in {"disable", "enable", "settings"}
  BY <1>1 DEF TokenInv, TokenTypeOK, GoodChange
<1>3. s \in SnapType /\ (s.status = "gone" => db["user"].status = "gone")
  <2>1. StatusOf("user") \in SnapType /\ StatusOf("user").status = db["user"].status
    BY SnapshotType DEF TokenInv, Rows
  <2> QED  BY <2>1, WantedType
<1>4. job' = [job EXCEPT ![j] = c]  BY DEF UserRead
<1> HIDE DEF s
<1>5. c \in ChangeType /\ c.pc = "userwrite" /\ c.snap = s /\ c.op = job[j].op
  BY <1>2, <1>3 DEF ChangeType, ChangePcs
<1> HIDE DEF c
<1>6. GoodChange(c)  BY <1>2, <1>3, <1>5 DEF GoodChange, Pending
<1>7. StaleChange(c) => db["user"].status = "gone"  BY <1>3, <1>5 DEF StaleChange
<1>8. OtherJobs(j) /\ job'[j] = c  BY <1>4, <1>5, ChangeMoved
<1> QED  BY <1>1, <1>6, <1>7, <1>8, ChangeStepInv DEF Pending

\* A user is written; the hash is to follow.
LEMMA UserWriteInv == ASSUME TokenInv, NEW j \in Jobs, UserWrite(j) PROVE TokenInv'
<1>1. job[j].pc = "userwrite" /\ UNCHANGED <<hash, task, req, stale>>  BY DEF UserWrite
<1>2. CASE db["user"].status = "gone"
  <2>1. EndJob(j) /\ UNCHANGED db  BY <1>2 DEF UserWrite
  <2> QED  BY <1>1, <2>1, ChangeEnds, ChangeStepInv DEF Pending
<1>3. CASE db["user"].status # "gone"
  <2> DEFINE s == job[j].snap.status
  <2>1. /\ job[j].snap \in SnapType /\ s # "gone"
        /\ job[j].op \in {"disable", "enable", "settings"}
    BY <1>1, <1>3 DEF TokenInv, GoodChange, StaleChange
  <2>2. s \in {"on", "off"}  BY <2>1 DEF SnapType
  <2>3. db' = [db EXCEPT !["user"].status = s] /\ Goto(j, "userback")  BY <1>3 DEF UserWrite
  <2> HIDE DEF s
  <2>4. db \in [Rows -> [status : {"on", "off", "gone"}, quota : Int]]  BY DEF TokenInv, TokenTypeOK
  <2>5. db' \in [Rows -> [status : {"on", "off", "gone"}, quota : Int]] /\ db'["user"].status = s
    BY <2>2, <2>3, <2>4 DEF Rows
  <2>6. OtherJobs(j) /\ job'[j].pc = "userback" /\ job'[j].op = job[j].op
    BY <2>3, ChangeGoesTo DEF ChangePcs
  <2>7. GoodChange(job'[j]) /\ ~StaleChange(job'[j])
    BY <2>1, <2>6 DEF GoodChange, StaleChange, Pending
  <2>8. \A k \in Jobs : GoodChange(job'[k]) /\ (StaleChange(job'[k]) => db'["user"].status = "gone")
    BY <1>3, <2>6, <2>7, ChangesKept
  <2>9. UserHashInv'  BY <2>2, <2>5, <2>6 DEF UserHashInv, Pending
  <2> QED  BY <1>1, <2>5, <2>6, <2>8, <2>9 DEF TokenInv, TokenTypeOK, TokenHashInv, OtherJobs
<1> QED  BY <1>2, <1>3

\* A change that is to repair the hash still is, or finds that the user is gone.
LEMMA UserHashPending ==
  ASSUME TokenInv, NEW j \in Jobs, OtherJobs(j), job[j].pc \in Pending,
         job'[j].pc \in Pending \/ db["user"].status = "gone",
         UNCHANGED <<db, hash, stale>>
  PROVE  UserHashInv'
<1>1. \A k \in Jobs : job[k].pc = "dropuser" => job'[k].pc = "dropuser"
  BY DEF OtherJobs, Pending
<1>2. db["user"].status # "gone" => job'[j].pc \in Pending  OBVIOUS
<1> QED  BY <1>1, <1>2 DEF TokenInv, UserHashInv

\* The row is read back.
LEMMA UserBackInv == ASSUME TokenInv, NEW j \in Jobs, UserBack(j) PROVE TokenInv'
<1>1. job[j].pc = "userback" /\ UNCHANGED <<db, hash, task, req, stale>>  BY DEF UserBack, past
<1>2. ASSUME OtherJobs(j), GoodChange(job'[j]), ~StaleChange(job'[j]),
             job'[j].pc \in Pending \/ db["user"].status = "gone"
      PROVE  TokenInv'
  <2>1. UserHashInv'  BY <1>1, <1>2, UserHashPending DEF Pending
  <2>2. \A k \in Jobs : GoodChange(job'[k]) /\ (StaleChange(job'[k]) => db'["user"].status = "gone")
    BY <1>1, <1>2, ChangesKept
  <2> QED  BY <1>1, <1>2, <2>1, <2>2 DEF TokenInv, TokenTypeOK, TokenHashInv, OtherJobs
<1>3. CASE db["user"].status = "gone"
  <2>1. EndJob(j)  BY <1>3 DEF UserBack
  <2> QED  BY <1>2, <1>3, <2>1, ChangeEnds
<1>4. CASE db["user"].status # "gone"
  <2> DEFINE s == StatusOf("user")
             c == [job[j] EXCEPT !.snap = s, !.pc = "fieldttl"]
  <2>1. job[j] \in ChangeType /\ job[j].op \in {"disable", "enable", "settings"}
    BY <1>1 DEF TokenInv, TokenTypeOK, GoodChange, Pending
  <2>2. s \in SnapType  BY SnapshotType DEF TokenInv, Rows
  <2>3. job' = [job EXCEPT ![j] = c]  BY <1>4 DEF UserBack
  <2> HIDE DEF s
  <2>4. c \in ChangeType /\ c.pc = "fieldttl" /\ c.snap = s /\ c.op = job[j].op
    BY <2>1, <2>2 DEF ChangeType, ChangePcs
  <2> HIDE DEF c
  <2>5. GoodChange(c) /\ ~StaleChange(c) /\ c.pc \in Pending
    BY <2>1, <2>2, <2>4 DEF GoodChange, StaleChange, Pending
  <2>6. OtherJobs(j) /\ job'[j] = c  BY <2>3, <2>4, ChangeMoved
  <2> QED  BY <1>2, <2>5, <2>6
<1> QED  BY <1>3, <1>4

\* After the fields the change is over, or drops the hashes.
LEMMA FieldsDone ==
  ASSUME TokenInv, NEW j \in Jobs, AfterFields(j) \/ EndJob(j)
  PROVE  OtherJobs(j) /\ GoodChange(job'[j]) /\ ~StaleChange(job'[j])
<1>1. CASE EndJob(j)  BY <1>1, ChangeEnds
<1>2. CASE AfterFields(j)
  <2> DEFINE c == [Idle EXCEPT !.op = "disable", !.pc = "dropuser"]
  <2>1. c \in ChangeType /\ c.op = "disable" /\ c.pc = "dropuser"
    BY IdleGood DEF ChangeType, ChangePcs, ChangeOps
  <2>2. job' = [job EXCEPT ![j] = IF job[j].op = "disable" THEN c ELSE Idle]  BY <1>2 DEF AfterFields
  <2> HIDE DEF c
  <2>3. GoodChange(c) /\ ~StaleChange(c)  BY <2>1 DEF GoodChange, StaleChange, Pending
  <2>4. CASE job[j].op = "disable"
    <3>1. OtherJobs(j) /\ job'[j] = c  BY <2>1, <2>2, <2>4, ChangeMoved
    <3> QED  BY <2>3, <3>1
  <2>5. CASE job[j].op # "disable"
    <3>1. EndJob(j)  BY <2>2, <2>5 DEF EndJob
    <3> QED  BY <3>1, ChangeEnds
  <2> QED  BY <2>4, <2>5
<1> QED  BY <1>1, <1>2

\* The time to live of the user's hash is read; without one there is no hash to repair.
LEMMA FieldTTLInv == ASSUME TokenInv, NEW j \in Jobs, FieldTTL(j) PROVE TokenInv'
<1>1. job[j].pc = "fieldttl" /\ UNCHANGED <<db, hash, task, req, stale>>  BY DEF FieldTTL, past
<1>2. hash["user"] \in HashType \cup {Missing}  BY DEF TokenInv, TokenTypeOK, Rows
<1>3. TTLOf("user") \in 0..TTL /\ (TTLOf("user") <= 0 => hash["user"] = Missing)
  BY <1>2, TokenAssumption DEF TTLOf, HashType
<1>4. ASSUME OtherJobs(j), GoodChange(job'[j]), ~StaleChange(job'[j]), UserHashInv'
      PROVE  TokenInv'
  <2>1. \A k \in Jobs : GoodChange(job'[k]) /\ (StaleChange(job'[k]) => db'["user"].status = "gone")
    BY <1>1, <1>4, ChangesKept
  <2> QED  BY <1>1, <1>4, <2>1 DEF TokenInv, TokenTypeOK, TokenHashInv, OtherJobs
<1>5. CASE TTLOf("user") <= 0
  <2>1. AfterFields(j)  BY <1>5 DEF FieldTTL
  <2>2. UserHashInv'  BY <1>1, <1>3, <1>5 DEF UserHashInv
  <2> QED  BY <1>4, <2>1, <2>2, FieldsDone
<1>6. CASE ~(TTLOf("user") <= 0)
  <2> DEFINE l == TTLOf("user")
             c == [job[j] EXCEPT !.pc = "field", !.ttl = l]
  <2>1. job[j] \in ChangeType /\ GoodChange(job[j])  BY DEF TokenInv, TokenTypeOK
  <2>2. l \in 0..TTL /\ l > 0  BY <1>3, <1>6
  <2>a. job' = [job EXCEPT ![j].pc = "field", ![j].ttl = l]  BY <1>6 DEF FieldTTL
  <2> HIDE DEF l
  <2>b. job' = [job EXCEPT ![j] = c]  BY <2>a
  <2>3. c \in ChangeType /\ c.pc = "field" /\ c.ttl = l /\ c.snap = job[j].snap /\ c.op = job[j].op
    BY <2>1, <2>2 DEF ChangeType, ChangePcs
  <2> HIDE DEF c
  <2>4. GoodChange(c) /\ ~StaleChange(c) /\ c.pc \in Pending
    BY <1>1, <2>1, <2>2, <2>3 DEF GoodChange, StaleChange, Pending
  <2>5. OtherJobs(j) /\ job'[j] = c  BY <2>b, <2>3, ChangeMoved
  <2>6. UserHashInv'  BY <1>1, <2>4, <2>5, UserHashPending DEF Pending
  <2> QED  BY <1>4, <2>4, <2>5, <2>6
<1> QED  BY <1>5, <1>6

\* The fields of the user's hash are set; what they say is what the row says, or late.
LEMMA FieldSetInv == ASSUME TokenInv, NEW j \in Jobs, FieldSet(j) PROVE TokenInv'
<1> DEFINE b == Base("user")
           s == job[j].snap.status
           l == job[j].ttl
           h == [b EXCEPT !.status = s, !.ttl = l]
<1>1. job[j].pc = "field" /\ UNCHANGED <<db, task, req>> /\ (AfterFields(j) \/ EndJob(j))  BY DEF FieldSet
<1>2. job[j].snap \in SnapType /\ l \in 1..TTL
  BY <1>1, TokenAssumption DEF TokenInv, TokenTypeOK, GoodChange, ChangeType
<1>3. s \in {"on", "off", "gone"}  BY <1>2 DEF SnapType
<1>4. hash \in [Rows -> HashType \cup {Missing}]  BY DEF TokenInv, TokenTypeOK
<1>5. b \in RawHash
  <2>1. Blank \in RawHash  BY TokenAssumption DEF Blank, RawHash
  <2>2. HashType \subseteq RawHash  BY DEF HashType, RawHash
  <2> QED  BY <1>4, <2>1, <2>2 DEF Base, Rows
<1>6. hash' = [hash EXCEPT !["user"] = h] /\ stale' = (stale \/ s # db["user"].status)
  BY DEF FieldSet, Late
<1> HIDE DEF b, s, l
<1>7. h \in HashType /\ h.status = s  BY <1>2, <1>3, <1>5 DEF HashType, RawHash
<1> HIDE DEF h
<1>8. /\ hash' \in [Rows -> HashType \cup {Missing}]
      /\ hash'["user"] = h /\ hash'["token"] = hash["token"]
  BY <1>4, <1>6, <1>7 DEF Rows
<1>9. UserHashInv'  BY <1>1, <1>6, <1>7, <1>8 DEF UserHashInv
<1>10. TokenHashInv'  BY <1>8 DEF TokenHashInv, TokenInv
<1>11. OtherJobs(j) /\ GoodChange(job'[j]) /\ ~StaleChange(job'[j])  BY <1>1, FieldsDone
<1>12. \A k \in Jobs : GoodChange(job'[k]) /\ (StaleChange(job'[k]) => db'["user"].status = "gone")
  BY <1>1, <1>11, ChangesKept
<1>13. stale' \in BOOLEAN  BY <1>6 DEF TokenInv, TokenTypeOK
<1> QED  BY <1>1, <1>8, <1>9, <1>10, <1>11, <1>12, <1>13 DEF TokenInv, TokenTypeOK, OtherJobs

\* A user is deleted; the hashes are to be dropped.
LEMMA UserDeleteInv == ASSUME TokenInv, NEW j \in Jobs, UserDelete(j) PROVE TokenInv'
<1>1. job[j].pc = "userdelete" /\ UNCHANGED <<hash, task, req, stale>> /\ Goto(j, "dropuser")
  BY DEF UserDelete
<1>2. db \in [Rows -> [status : {"on", "off", "gone"}, quota : Int]]  BY DEF TokenInv, TokenTypeOK
<1>3. db' \in [Rows -> [status : {"on", "off", "gone"}, quota : Int]] /\ db'["user"].status = "gone"
  BY <1>2 DEF UserDelete, Rows
<1>4. OtherJobs(j) /\ job'[j].pc = "dropuser" /\ job'[j].op = job[j].op
  BY <1>1, ChangeGoesTo DEF ChangePcs
<1>5. job[j].op = "user_delete"  BY <1>1 DEF TokenInv, GoodChange
<1>6. GoodChange(job'[j]) /\ ~StaleChange(job'[j])  BY <1>4, <1>5 DEF GoodChange, StaleChange, Pending
<1>7. \A k \in Jobs : GoodChange(job'[k]) /\ (StaleChange(job'[k]) => db'["user"].status = "gone")
  BY <1>3, <1>4, <1>6, ChangesKept
<1>8. UserHashInv'  BY <1>3, <1>4 DEF UserHashInv
<1> QED  BY <1>1, <1>3, <1>4, <1>7, <1>8 DEF TokenInv, TokenTypeOK, TokenHashInv, OtherJobs

\* The hashes of a user and of its token are dropped.
LEMMA DropInv == ASSUME TokenInv, NEW j \in Jobs, DropUser(j) \/ DropToken(j) PROVE TokenInv'
<1>1. UNCHANGED <<db, task, req, stale>>  BY DEF DropUser, DropToken, past
<1>2. OtherJobs(j) /\ GoodChange(job'[j]) /\ ~StaleChange(job'[j])
  <2>1. CASE DropUser(j)
    <3>1. CASE Goto(j, "droptoken")
      <4>1. OtherJobs(j) /\ job'[j].pc = "droptoken"  BY <3>1, ChangeGoesTo DEF ChangePcs
      <4> QED  BY <4>1 DEF GoodChange, StaleChange, Pending
    <3>2. CASE EndJob(j)  BY <3>2, ChangeEnds
    <3> QED  BY <2>1, <3>1, <3>2 DEF DropUser
  <2>2. CASE DropToken(j)  BY <2>2, ChangeEnds DEF DropToken
  <2> QED  BY <2>1, <2>2
<1>3. hash' \in [Rows -> HashType \cup {Missing}] /\ TokenHashInv' /\ UserHashInv'
  <2>1. CASE DropUser(j)  BY <1>1, <2>1, HashDropped DEF DropUser, Rows
  <2>2. CASE DropToken(j)
    <3>1. \A k \in Jobs : job[k].pc \in Pending \cup {"dropuser"} => job'[k].pc = job[k].pc
      BY <1>2, <2>2 DEF OtherJobs, DropToken, Pending
    <3> QED  BY <1>1, <2>2, <3>1, HashDropped DEF DropToken, Rows
  <2> QED  BY <2>1, <2>2
<1>4. \A k \in Jobs : GoodChange(job'[k]) /\ (StaleChange(job'[k]) => db'["user"].status = "gone")
  BY <1>1, <1>2, ChangesKept
<1> QED  BY <1>1, <1>2, <1>3, <1>4 DEF TokenInv, TokenTypeOK, OtherJobs

\* A user is deleted and Redis is not told.
LEMMA HardDeleteInv == ASSUME TokenInv, NEW j \in Jobs, HardDelete(j) PROVE TokenInv'
<1>1. UNCHANGED <<hash, task, req>> /\ EndJob(j) /\ stale'  BY DEF HardDelete
<1>2. stale' = TRUE  BY DEF HardDelete
<1>3. db \in [Rows -> [status : {"on", "off", "gone"}, quota : Int]]  BY DEF TokenInv, TokenTypeOK
<1>4. db' \in [Rows -> [status : {"on", "off", "gone"}, quota : Int]] /\ db'["user"].status = "gone"
  BY <1>3 DEF HardDelete, Rows
<1>5. OtherJobs(j) /\ GoodChange(job'[j]) /\ ~StaleChange(job'[j])  BY <1>1, ChangeEnds
<1>6. \A k \in Jobs : GoodChange(job'[k]) /\ (StaleChange(job'[k]) => db'["user"].status = "gone")
  BY <1>4, <1>5, ChangesKept
<1>7. UserHashInv'  BY <1>1 DEF UserHashInv
<1> QED  BY <1>1, <1>2, <1>4, <1>5, <1>6, <1>7 DEF TokenInv, TokenTypeOK, TokenHashInv, OtherJobs

\* A call of Redis fails: the hash stays as it is.
LEMMA CallFailsInv == ASSUME TokenInv, NEW j \in Jobs, CallFails(j) PROVE TokenInv'
<1>1. UNCHANGED <<db, hash, task, req>> /\ stale' = (stale \/ job[j].pc # "droptoken")  BY DEF CallFails
<1>2. stale' \in BOOLEAN  BY <1>1 DEF TokenInv, TokenTypeOK
<1>3. OtherJobs(j) /\ GoodChange(job'[j]) /\ ~StaleChange(job'[j])
  <2>1. CASE Goto(j, "droptoken")
    <3>1. OtherJobs(j) /\ job'[j].pc = "droptoken"  BY <2>1, ChangeGoesTo DEF ChangePcs
    <3> QED  BY <3>1 DEF GoodChange, StaleChange, Pending
  <2>2. CASE EndJob(j)  BY <2>2, ChangeEnds
  <2> QED  BY <2>1, <2>2 DEF CallFails
<1>4. UserHashInv'
  <2>1. CASE job[j].pc = "droptoken"
    <3>1. stale' = stale  BY <1>1, <2>1 DEF TokenInv, TokenTypeOK
    <3> QED  BY <1>1, <1>3, <2>1, <3>1, UserHashWithout DEF Pending
  <2>2. CASE job[j].pc # "droptoken"
    <3>1. stale'  BY <1>1, <2>2
    <3> QED  BY <3>1 DEF UserHashInv
  <2> QED  BY <2>1, <2>2
<1>5. \A k \in Jobs : GoodChange(job'[k]) /\ (StaleChange(job'[k]) => db'["user"].status = "gone")
  BY <1>1, <1>3, ChangesKept
<1> QED  BY <1>1, <1>2, <1>3, <1>4, <1>5 DEF TokenInv, TokenTypeOK, TokenHashInv, OtherJobs

-----------------------------------------------------------------------------
(* TokenStore: the theorems                                                *)

\* The invariant holds at first, with the hashes there or not.
LEMMA TokenStart == TokenInit => TokenInv
<1> SUFFICES ASSUME TokenInit PROVE TokenInv  OBVIOUS
<1> USE TokenAssumption
<1>1. db \in [Rows -> [status : {"on", "off", "gone"}, quota : Int]] /\ \A x \in Rows : db[x].status = "on"
  BY DEF TokenInit
<1>2. ASSUME NEW x \in Rows
      PROVE  LET h == HSetObj(Snapshot(x)) IN h \in HashType /\ h.status = "on" /\ h.full
  <2>1. db[x] \in [status : {"on", "off", "gone"}, quota : Int]  BY <1>1
  <2>2. Snapshot(x) = [status |-> db[x].status, quota |-> db[x].quota, full |-> TRUE]  BY DEF Snapshot
  <2>3. Snapshot(x) \in SnapType  BY <2>1, <2>2 DEF SnapType
  <2>4. Snapshot(x).full = TRUE /\ Snapshot(x).status = "on"  BY <1>1, <2>2
  <2> QED  BY <2>3, <2>4, HSetObjType
<1>3. PICK warm \in SUBSET Rows : hash = [x \in Rows |-> IF x \in warm THEN HSetObj(Snapshot(x)) ELSE Missing]
  BY DEF TokenInit
<1>4. \A x \in Rows : hash[x] \in HashType \cup {Missing} /\ (hash[x] # Missing => hash[x].full)
  <2> TAKE x \in Rows
  <2>1. CASE x \in warm
    <3>1. hash[x] = HSetObj(Snapshot(x))  BY <1>3, <2>1
    <3> QED  BY <1>2, <3>1
  <2>2. CASE x \notin warm  BY <1>3, <2>2
  <2> QED  BY <2>1, <2>2
<1>5. hash \in [Rows -> HashType \cup {Missing}]
  <2>1. hash = [x \in Rows |-> hash[x]]  BY <1>3
  <2> QED  BY <1>4, <2>1
<1>6. TokenHashInv /\ UserHashInv  BY <1>1, <1>4 DEF TokenHashInv, UserHashInv, Rows
<1>8. job \in [Jobs -> ChangeType] /\ \A j \in Jobs : GoodChange(job[j]) /\ ~StaleChange(job[j])
  BY IdleGood DEF TokenInit
<1>9. task \in [Slots -> GoroutineType] /\ \A i \in Slots : GoodGoroutine(task[i])
  BY Goroutines DEF TokenInit
<1>10. req \in [Requests -> LookupType] /\ \A r \in Requests : GoodLookup(req[r])
  BY WaitingGood DEF TokenInit
<1>11. stale \in BOOLEAN  BY DEF TokenInit
<1> QED  BY <1>1, <1>5, <1>6, <1>8, <1>9, <1>10, <1>11 DEF TokenInv, TokenTypeOK

\* Every step preserves the invariant.
LEMMA TokenStep == TokenInv /\ [TokenNext]_tokenVars => TokenInv'
<1> SUFFICES ASSUME TokenInv, [TokenNext]_tokenVars PROVE TokenInv'  OBVIOUS
<1>1. ASSUME NEW j \in Jobs, JobStep(j) PROVE TokenInv'
  BY <1>1, DeltaStartInv, DeltaWriteInv, TokenReadInv, TokenWriteInv, TokenDeleteInv, UserReadInv,
     UserWriteInv, UserBackInv, FieldTTLInv, FieldSetInv, UserDeleteInv, HardDeleteInv, DropInv, CallFailsInv, OverrideInv
  DEF JobStep
<1>2. ASSUME NEW i \in Slots, TaskStep(i) PROVE TokenInv'
  BY <1>2, TaskSetInv, TaskDelInv, TaskTTLInv, TaskIncrInv, TaskFailsInv DEF TaskStep
<1>3. CASE UNCHANGED tokenVars
  BY <1>3 DEF tokenVars, TokenInv, TokenTypeOK, TokenHashInv, UserHashInv
<1> QED  BY <1>1, <1>2, <1>3, ClientStepInv, StartInv, TickInv DEF TokenNext

\* However the goroutines, the expiry and the changes interleave, a hash that says "on" has
\* all its fields, and one of a user who is not enabled is about to be put right, unless a write
\* came late or nobody told Redis of the change.
THEOREM HashesConsistent == TokenSpec => []TokenInv
BY TokenStart, TokenStep, PTL DEF TokenSpec

\* RedisHIncrBy may bring a hash back that has the quota alone: TokenAuth never accepts it.
THEOREM PartialHashRefused == TokenSpec => []PartialRefused
<1>1. TokenInv => PartialRefused  BY DEF TokenInv, GoodLookup, PartialRefused
<1> QED  BY <1>1, HashesConsistent, PTL

\* TokenAuth accepts a request when it finds the user enabled.
LEMMA AcceptedMeansOn ==
  ASSUME TokenTypeOK, NEW r \in Requests, NEW s \in Requests, NEW snap,
         Decide(s, req[s].row, snap), Passes(r)
  PROVE  s = r /\ req[s].row = "user" /\ snap.status = "on"
<1>1. req \in [Requests -> LookupType]  BY DEF TokenTypeOK
<1>2. s = r  BY <1>1 DEF Decide, Passes
<1>3. Valid(req[s].row, snap)
  <2> SUFFICES ASSUME ~Valid(req[s].row, snap) PROVE FALSE  OBVIOUS
  <2>1. req'[s] = Waiting  BY <1>1 DEF Decide
  <2> QED  BY <1>2, <2>1, WaitingGood DEF Passes
<1>4. req[s].row # "token"
  <2> SUFFICES ASSUME req[s].row = "token" PROVE FALSE  OBVIOUS
  <2>1. req'[s] = [pc |-> "cache", row |-> "user", full |-> snap.full]  BY <1>1, <1>3 DEF Decide
  <2> QED  BY <1>2, <2>1 DEF Passes
<1>5. req[s].row = "user"  BY <1>1, <1>4 DEF LookupType, Rows
<1> QED  BY <1>2, <1>3, <1>5 DEF Valid

\* A request gets past the status of the user as the hash has it, or as the row has it.
LEMMA PassesOn ==
  ASSUME TokenInv, NEW r \in Requests, NEW s \in Requests, ClientStep(s), Passes(r)
  PROVE  (hash["user"] # Missing /\ hash["user"].status = "on") \/ db["user"].status = "on"
<1>1. TokenTypeOK /\ req \in [Requests -> LookupType]  BY DEF TokenInv, TokenTypeOK
<1> DEFINE x == req[s].row
<1>2. CASE FromCache(s)
  <2>1. Decide(s, req[s].row, hash[x]) /\ hash[x] # Missing  BY <1>2 DEF FromCache
  <2>2. req[s].row = "user" /\ hash[x].status = "on"  BY <1>1, <2>1, AcceptedMeansOn
  <2> QED  BY <2>1, <2>2
<1>5. CASE CacheMiss(s)
  <2>1. req' = [req EXCEPT ![s].pc = "db"]  BY <1>5 DEF CacheMiss
  <2>2. req'[s].pc = "db" /\ (s # r => req'[r] = req[r])  BY <1>1, <2>1 DEF LookupType
  <2> QED  BY <2>2 DEF Passes
<1>3. CASE FromDB(s)
  <2>1. CASE db[x].status = "gone"
    <3>1. req' = [req EXCEPT ![s] = Waiting]  BY <1>3, <2>1 DEF FromDB
    <3>2. req'[s] = Waiting /\ (s # r => req'[r] = req[r])  BY <1>1, <3>1
    <3> QED  BY <3>2, WaitingGood DEF Passes
  <2>2. CASE db[x].status # "gone"
    <3>1. Decide(s, req[s].row, Snapshot(x))  BY <1>3, <2>2 DEF FromDB
    <3>2. req[s].row = "user" /\ Snapshot(x).status = "on"  BY <1>1, <3>1, AcceptedMeansOn
    <3> QED  BY <1>1, <3>2, SnapshotType DEF Rows
  <2> QED  BY <2>1, <2>2
<1>4. CASE Serve(s)
  <2>1. req'[s] = Waiting /\ (s # r => req'[r] = req[r])  BY <1>1, <1>4 DEF Serve
  <2> QED  BY <2>1, WaitingGood DEF Passes
<1> QED  BY <1>2, <1>3, <1>4, <1>5 DEF ClientStep

\* Only requests move requests.
LEMMA OnlyClients ==
  ASSUME [TokenNext]_tokenVars, req' # req PROVE \E s \in Requests : ClientStep(s)
<1>1. ASSUME NEW j \in Jobs, JobStep(j) PROVE req' = req
  BY <1>1 DEF JobStep, DeltaStart, DeltaWrite, TokenRead, TokenWrite, TokenDelete, UserRead,
     UserWrite, UserBack, FieldTTL, FieldSet, UserDelete, HardDelete, DropUser, DropToken,
     CallFails, Override
<1>2. ASSUME NEW j \in Jobs, Start(j) PROVE req' = req  BY <1>2 DEF Start, Begin
<1>3. ASSUME NEW i \in Slots, TaskStep(i) PROVE req' = req
  BY <1>3 DEF TaskStep, TaskSet, TaskDel, TaskTTL, TaskIncr, TaskFails
<1>4. Tick => req' = req  BY DEF Tick
<1> QED  BY <1>1, <1>2, <1>3, <1>4 DEF TokenNext

-----------------------------------------------------------------------------
(* TokenStore: how long a hash may say that a user is enabled who is not   *)

UserOn == hash["user"] # Missing /\ hash["user"].status = "on"

\* Goroutines and changes that still hold that the user was enabled, and goroutines that are
\* about to give the hash its time to live again.
OldSet(g) == g.kind = "set" /\ g.row = "user" /\ g.snap.status = "on"
OldChange(c) == c.pc \in {"fieldttl", "field"} /\ c.snap.status = "on"
Extends(g) == g.kind = "apply" /\ g.row = "user"

\* The ticks a hash has lived unseen and those it has left are no more than the time to live.
QuietInv ==
  /\ quiet \in 0..TTL
  /\ db["user"].status # "on" =>
       /\ UserOn => hash["user"].ttl + quiet <= TTL
       /\ \A i \in Slots : OldSet(task[i]) => quiet = 0
       /\ \A i \in Slots : Extends(task[i]) /\ UserOn => task[i].ttl + quiet <= TTL
       /\ \A j \in Jobs : OldChange(job[j]) => quiet = 0

\* When the count starts again there is nothing to show.
LEMMA QuietReset ==
  ASSUME TokenInv', quiet' = 0 PROVE QuietInv'
<1>1. 0 \in 0..TTL  BY TokenAssumption
<1>2. hash'["user"] # Missing => hash'["user"].ttl \in 1..TTL
  BY DEF TokenInv, TokenTypeOK, HashType, Rows
<1>3. \A i \in Slots : task'[i].ttl \in 0..TTL  BY DEF TokenInv, TokenTypeOK, GoroutineType
<1> QED  BY <1>1, <1>2, <1>3, TokenAssumption DEF QuietInv, UserOn

\* While it goes on nobody holds that the user was enabled: what a step has to keep.
Harmless ==
  /\ UserOn' => UserOn /\ hash'["user"].ttl + quiet <= TTL
  /\ \A i \in Slots : task'[i] = task[i] \/
       (~OldSet(task'[i]) /\ (Extends(task'[i]) /\ UserOn => task'[i].ttl + quiet <= TTL))
  /\ \A j \in Jobs : job'[j] = job[j] \/ ~OldChange(job'[j])

LEMMA QuietKept ==
  ASSUME QuietInv, TokenInv', quiet' = quiet, db'["user"].status = db["user"].status,
         db["user"].status # "on" /\ quiet # 0 => Harmless
  PROVE  QuietInv'
<1>1. CASE db["user"].status = "on"  BY <1>1 DEF QuietInv
<1>2. CASE quiet = 0  BY <1>2, QuietReset
<1>3. CASE db["user"].status # "on" /\ quiet # 0
  <2>1. Harmless  BY <1>3
  <2>2. \A i \in Slots : OldSet(task'[i]) => quiet = 0  BY <1>3, <2>1 DEF QuietInv, Harmless
  <2>3. \A j \in Jobs : OldChange(job'[j]) => quiet = 0  BY <1>3, <2>1 DEF QuietInv, Harmless
  <2>4. \A i \in Slots : Extends(task'[i]) /\ UserOn' => task'[i].ttl + quiet <= TTL
    BY <1>3, <2>1 DEF QuietInv, Harmless
  <2>5. UserOn' => hash'["user"].ttl + quiet <= TTL  BY <2>1 DEF Harmless
  <2> QED  BY <2>2, <2>3, <2>4, <2>5 DEF QuietInv
<1> QED  BY <1>1, <1>2, <1>3

\* A step that leaves the user's hash alone or drops it, and every other actor where it is.
LEMMA HashLeft ==
  ASSUME QuietInv, db["user"].status # "on", hash'["user"] = hash["user"] \/ hash'["user"] = Missing
  PROVE  UserOn' => UserOn /\ hash'["user"].ttl + quiet <= TTL
BY DEF QuietInv, UserOn

\* A goroutine that is over, or that was started for anything but an old snapshot.
LEMMA NewGoroutines ==
  /\ ~OldSet(Free) /\ ~Extends(Free)
  /\ \A x, snap : (x = "user" => snap.status # "on") => ~OldSet(Set(x, snap))
  /\ \A x, snap : ~Extends(Set(x, snap))
  /\ \A x : ~OldSet(Del(x)) /\ ~Extends(Del(x))
  /\ \A x, d : ~OldSet(Incr(x, d)) /\ ~Extends(Incr(x, d))
BY DEF Free, Set, Del, Incr, OldSet, Extends

\* Where one goroutine moves.
LEMMA TaskMoved ==
  ASSUME TokenInv, NEW i \in Slots, NEW g, task' = [task EXCEPT ![i] = g]
  PROVE  \A k \in Slots : task'[k] = IF k = i THEN g ELSE task[k]
BY DEF TokenInv, TokenTypeOK

LEMMA TaskStarted ==
  ASSUME TokenInv, NEW g, Starts(g)
  PROVE  \A k \in Slots : task'[k] = task[k] \/ task'[k] = g
<1>1. PICK i \in Slots : task' = [task EXCEPT ![i] = g]  BY DEF Starts
<1> QED  BY <1>1, TaskMoved

\* The goroutines.
LEMMA TaskQuiet ==
  ASSUME TokenInv, TokenInv', QuietInv, NEW i \in Slots, TaskStep(i)
  PROVE  QuietInv'
<1>1. quiet' = quiet /\ UNCHANGED <<db, job>>
  BY DEF TaskStep, TaskSet, TaskDel, TaskTTL, TaskIncr, TaskFails, past
<1> SUFFICES ASSUME db["user"].status # "on", quiet # 0 PROVE Harmless  BY <1>1, QuietKept
<1>2. hash \in [Rows -> HashType \cup {Missing}] /\ task \in [Slots -> GoroutineType]
  BY DEF TokenInv, TokenTypeOK
<1>3. task[i].kind # "none" => task[i].row \in Rows  BY DEF TokenInv, GoodGoroutine
<1>4. ASSUME task' = [task EXCEPT ![i] = Free], UserOn' => UserOn /\ hash'["user"].ttl + quiet <= TTL
      PROVE  Harmless
  BY <1>1, <1>4, TaskMoved, NewGoroutines DEF Harmless
<1>5. CASE TaskSet(i)
  <2> DEFINE h == HSetObj(task[i].snap)
  <2>1. task[i].row \in Rows /\ task[i].snap \in SnapType /\ h.status = task[i].snap.status
    BY <1>5, HSetObjType DEF TaskSet, TokenInv, GoodGoroutine
  <2>2. hash' = [hash EXCEPT ![task[i].row] = h]  BY <1>5 DEF TaskSet
  <2> HIDE DEF h
  <2>3. CASE task[i].row = "user"
    <3>1. hash'["user"] = h  BY <1>2, <2>2, <2>3 DEF Rows
    <3>2. ~OldSet(task[i])  BY DEF QuietInv
    <3>3. ~UserOn'  BY <1>5, <2>1, <2>3, <3>1, <3>2 DEF UserOn, OldSet, TaskSet
    <3> QED  BY <1>4, <1>5, <3>3 DEF TaskSet
  <2>4. CASE task[i].row # "user"
    <3>1. hash'["user"] = hash["user"]  BY <1>2, <2>2, <2>4 DEF Rows
    <3> QED  BY <1>4, <1>5, <3>1, HashLeft DEF TaskSet
  <2> QED  BY <2>3, <2>4
<1>6. CASE TaskDel(i)
  <2>1. hash'["user"] = hash["user"] \/ hash'["user"] = Missing  BY <1>2, <1>3, <1>6 DEF TaskDel, Rows
  <2> QED  BY <1>4, <1>6, <2>1, HashLeft DEF TaskDel
<1>7. CASE TaskTTL(i)
  <2> DEFINE l == TTLOf(task[i].row)
             g == [task[i] EXCEPT !.kind = "apply", !.ttl = l]
  <2>1. hash' = hash /\ task[i].kind = "incr"  BY <1>7 DEF TaskTTL
  <2>2. CASE task' = [task EXCEPT ![i] = Free]  BY <1>4, <2>1, <2>2, HashLeft
  <2>3. CASE task' = [task EXCEPT ![i] = g]
    <3>1. task[i] \in GoroutineType  BY <1>2
    <3>2. g.kind = "apply" /\ g.row = task[i].row /\ g.ttl = l  BY <3>1 DEF GoroutineType
    <3>3. task[i].row = "user" /\ UserOn => l = hash["user"].ttl  BY DEF TTLOf, UserOn
    <3> HIDE DEF g, l
    <3>4. ~OldSet(g) /\ (Extends(g) /\ UserOn => g.ttl + quiet <= TTL)
      BY <3>2, <3>3 DEF OldSet, Extends, QuietInv
    <3> QED  BY <1>1, <2>1, <2>3, <3>4, TaskMoved, HashLeft DEF Harmless
  <2> QED  BY <1>7, <2>2, <2>3 DEF TaskTTL
<1>8. CASE TaskIncr(i)
  <2> DEFINE x == task[i].row
             b == Base(x)
             h == [b EXCEPT !.quota = b.quota + task[i].delta, !.ttl = task[i].ttl]
  <2>1. task[i].kind = "apply" /\ x \in Rows  BY <1>3, <1>8 DEF TaskIncr
  <2>2. hash' = [hash EXCEPT ![x] = h]  BY <1>8 DEF TaskIncr
  <2>3. CASE x = "user"
    <3>1. b = IF hash["user"] = Missing THEN Blank ELSE hash["user"]  BY <2>3 DEF Base
    <3>2. b \in RawHash
      <4>1. Blank \in RawHash  BY TokenAssumption DEF Blank, RawHash
      <4>2. HashType \subseteq RawHash  BY DEF HashType, RawHash
      <4> QED  BY <1>2, <3>1, <4>1, <4>2 DEF Rows
    <3>3. h.status = b.status /\ h.ttl = task[i].ttl  BY <3>2 DEF RawHash
    <3> HIDE DEF b, h
    <3>4. hash'["user"] = h  BY <1>2, <2>2, <2>3 DEF Rows
    <3>5. UserOn' => UserOn  BY <3>1, <3>3, <3>4 DEF UserOn, Blank
    <3>6. UserOn => task[i].ttl + quiet <= TTL  BY <2>1, <2>3 DEF QuietInv, Extends
    <3> QED  BY <1>4, <1>8, <3>3, <3>4, <3>5, <3>6 DEF TaskIncr
  <2>4. CASE x # "user"
    <3> HIDE DEF h
    <3>1. hash'["user"] = hash["user"]  BY <1>2, <2>2, <2>4 DEF Rows
    <3> QED  BY <1>4, <1>8, <3>1, HashLeft DEF TaskIncr
  <2> QED  BY <2>3, <2>4
<1>9. CASE TaskFails(i)  BY <1>4, <1>9, HashLeft DEF TaskFails
<1> QED  BY <1>5, <1>6, <1>7, <1>8, <1>9 DEF TaskStep

\* The requests: what they read from the row is what the row says.
LEMMA ClientQuiet ==
  ASSUME TokenInv, TokenInv', QuietInv, NEW r \in Requests, ClientStep(r)
  PROVE  QuietInv'
<1>1. UNCHANGED <<db, hash, job, quiet>>  BY DEF ClientStep, FromCache, CacheMiss, FromDB, Serve, past
<1> SUFFICES ASSUME db["user"].status # "on", quiet # 0 PROVE Harmless  BY <1>1, QuietKept
<1>2. UserOn' => UserOn /\ hash'["user"].ttl + quiet <= TTL  BY <1>1, HashLeft
<1>3. CASE task' = task  BY <1>1, <1>2, <1>3 DEF Harmless
<1>4. CASE FromDB(r) /\ task' # task
  <2> DEFINE x == req[r].row
             snap == Snapshot(x)
  <2>1. Starts(Set(x, snap))  BY <1>4 DEF FromDB
  <2>2. x = "user" => snap.status # "on"  BY DEF Snapshot
  <2> HIDE DEF x, snap
  <2>3. ~OldSet(Set(x, snap)) /\ ~Extends(Set(x, snap))  BY <2>2, NewGoroutines
  <2>4. \A k \in Slots : task'[k] = task[k] \/ task'[k] = Set(x, snap)  BY <2>1, TaskStarted
  <2> QED  BY <1>1, <1>2, <2>3, <2>4 DEF Harmless
<1> QED  BY <1>3, <1>4 DEF ClientStep, FromCache, CacheMiss, Serve

\* A change begins.
LEMMA StartQuiet ==
  ASSUME TokenInv, TokenInv', QuietInv, NEW j \in Jobs, Start(j)
  PROVE  QuietInv'
<1>1. PICK op, to : /\ Begin(j, op, to) /\ to \notin {"fieldttl", "field"}
  BY DEF Start, Rows
<1>2. UNCHANGED <<db, hash, task, quiet>>  BY <1>1 DEF Begin, past
<1> SUFFICES ASSUME db["user"].status # "on", quiet # 0 PROVE Harmless  BY <1>2, QuietKept
<1>3. job \in [Jobs -> ChangeType]  BY DEF TokenInv, TokenTypeOK
<1>4. job'[j].pc = to /\ \A k \in Jobs : k # j => job'[k] = job[k]
  BY <1>1, <1>3 DEF Begin, ChangeType
<1>5. ~OldChange(job'[j])  BY <1>1, <1>4 DEF OldChange
<1> QED  BY <1>2, <1>4, <1>5, HashLeft DEF Harmless

\* The changes.
LEMMA JobQuiet ==
  ASSUME TokenInv, TokenInv', QuietInv, NEW j \in Jobs, JobStep(j)
  PROVE  QuietInv'
<1>1. job \in [Jobs -> ChangeType] /\ hash \in [Rows -> HashType \cup {Missing}]
      /\ db \in [Rows -> [status : {"on", "off", "gone"}, quota : Int]]
  BY DEF TokenInv, TokenTypeOK
<1>2. ASSUME quiet' = quiet, db'["user"].status = db["user"].status,
             task' = task \/ (\E x \in Rows, d \in Int : Starts(Incr(x, d))) \/ Starts(Del("token"))
               \/ (\E snap : Starts(Set("token", snap))),
             db["user"].status # "on" /\ quiet # 0 => (UserOn' => UserOn /\ hash'["user"].ttl + quiet <= TTL),
             OtherJobs(j), db["user"].status # "on" /\ quiet # 0 => ~OldChange(job'[j])
      PROVE  QuietInv'
  <2> SUFFICES ASSUME db["user"].status # "on", quiet # 0 PROVE Harmless  BY <1>2, QuietKept
  <2>1. \A k \in Slots : task'[k] = task[k] \/ (~OldSet(task'[k]) /\ ~Extends(task'[k]))
    <3>1. CASE task' = task  BY <3>1
    <3>2. ASSUME NEW x \in Rows, NEW d \in Int, Starts(Incr(x, d))
          PROVE  \A k \in Slots : task'[k] = task[k] \/ (~OldSet(task'[k]) /\ ~Extends(task'[k]))
      BY <3>2, TaskStarted, NewGoroutines
    <3>3. CASE Starts(Del("token"))  BY <3>3, TaskStarted, NewGoroutines
    <3>4. ASSUME NEW snap, Starts(Set("token", snap))
          PROVE  \A k \in Slots : task'[k] = task[k] \/ (~OldSet(task'[k]) /\ ~Extends(task'[k]))
      BY <3>4, TaskStarted, NewGoroutines
    <3> QED  BY <1>2, <3>1, <3>2, <3>3, <3>4
  <2> QED  BY <1>2, <2>1 DEF Harmless, OtherJobs
<1>3. ASSUME EndJob(j) PROVE OtherJobs(j) /\ ~OldChange(job'[j])
  BY <1>3, ChangeEnds DEF OldChange
<1>4. ASSUME NEW to \in ChangePcs, Goto(j, to), to \notin {"fieldttl", "field"}
      PROVE  OtherJobs(j) /\ ~OldChange(job'[j])
  BY <1>4, ChangeGoesTo DEF OldChange
<1>5. CASE DeltaStart(j)
  <2>1. /\ job[j].pc \in Rows /\ Starts(Incr(job[j].pc, Delta(job[j].op)))
        /\ UNCHANGED <<db, hash, quiet>>
    BY <1>5 DEF DeltaStart, past
  <2>2. Delta(job[j].op) \in Int  BY DEF Delta
  <2> DEFINE c == [job[j] EXCEPT !.row = job[j].pc, !.pc = "delta"]
  <2>3. c \in ChangeType /\ c.pc = "delta"  BY <1>1, <2>1 DEF ChangeType, ChangePcs
  <2>4. job' = [job EXCEPT ![j] = c]  BY <1>5 DEF DeltaStart
  <2> HIDE DEF c
  <2>5. OtherJobs(j) /\ ~OldChange(job'[j])  BY <2>3, <2>4, ChangeMoved DEF OldChange
  <2> QED  BY <1>2, <2>1, <2>2, <2>5, HashLeft
<1>6. CASE DeltaWrite(j)
  <2>1. UNCHANGED <<hash, task, quiet>> /\ EndJob(j)  BY <1>6 DEF DeltaWrite, past
  <2>2. job[j].row \in Rows  BY <1>6 DEF TokenInv, GoodChange, DeltaWrite
  <2>3. db'["user"].status = db["user"].status
    <3> DEFINE x == job[j].row
               q == db[x].quota + Delta(job[j].op)
    <3>1. db' = IF db[x].status = "gone" THEN db ELSE [db EXCEPT ![x].quota = q]
      BY <1>6 DEF DeltaWrite
    <3> HIDE DEF x, q
    <3> QED  BY <1>1, <3>1 DEF Rows
  <2> QED  BY <1>2, <1>3, <2>1, <2>3, HashLeft
<1>7. CASE TokenRead(j)
  <2>1. UNCHANGED <<db, hash, task, quiet>>  BY <1>7 DEF TokenRead, past
  <2>2. OtherJobs(j) /\ ~OldChange(job'[j])
    <3>1. CASE EndJob(j)  BY <1>3, <3>1
    <3>2. CASE db["token"].status # "gone"
      <4>1. /\ job'[j].pc \in {"tokendelete", "tokenwrite"}
            /\ \A k \in Jobs : k # j => job'[k] = job[k]
        BY <1>1, <1>7, <3>2 DEF TokenRead, ChangeType
      <4>2. job' \in [Jobs -> ChangeType]  BY DEF TokenInv, TokenTypeOK
      <4> QED  BY <4>1, <4>2 DEF OtherJobs, OldChange
    <3> QED  BY <1>7, <3>1, <3>2 DEF TokenRead
  <2> QED  BY <1>2, <2>1, <2>2, HashLeft
<1>8. CASE TokenWrite(j)
  <2>1. UNCHANGED <<hash, quiet>> /\ Starts(Set("token", job[j].snap)) /\ EndJob(j)
    BY <1>8 DEF TokenWrite, past
  <2>2. db'["user"].status = db["user"].status  BY <1>1, <1>8 DEF TokenWrite, Rows
  <2> QED  BY <1>2, <1>3, <2>1, <2>2, HashLeft
<1>9. CASE TokenDelete(j)
  <2>1. UNCHANGED <<hash, quiet>> /\ Starts(Del("token")) /\ EndJob(j)  BY <1>9 DEF TokenDelete, past
  <2>2. db'["user"].status = db["user"].status  BY <1>1, <1>9 DEF TokenDelete, Rows
  <2> QED  BY <1>2, <1>3, <2>1, <2>2, HashLeft
<1>10. CASE UserRead(j)
  <2>1. UNCHANGED <<db, hash, task, quiet>>  BY <1>10 DEF UserRead, past
  <2>2. job'[j].pc = "userwrite" /\ \A k \in Jobs : k # j => job'[k] = job[k]
    BY <1>1, <1>10 DEF UserRead, ChangeType
  <2>3. OtherJobs(j) /\ ~OldChange(job'[j])  BY <2>2 DEF OtherJobs, OldChange, TokenInv, TokenTypeOK
  <2> QED  BY <1>2, <2>1, <2>3, HashLeft
<1>11. CASE UserWrite(j)
  <2>1. CASE db["user"].status = "gone"
    <3>1. UNCHANGED <<db, hash, task, quiet>> /\ EndJob(j)  BY <1>11, <2>1 DEF UserWrite
    <3> QED  BY <1>2, <1>3, <3>1, HashLeft
  <2>2. CASE db["user"].status # "gone"
    <3>1. quiet' = 0  BY <1>11, <2>2 DEF UserWrite
    <3> QED  BY <3>1, QuietReset
  <2> QED  BY <2>1, <2>2
<1>12. CASE UserBack(j)
  <2>1. UNCHANGED <<db, hash, task, quiet>>  BY <1>12 DEF UserBack, past
  <2>2. OtherJobs(j) /\ (db["user"].status # "on" => ~OldChange(job'[j]))
    <3>1. CASE EndJob(j)  BY <1>3, <3>1
    <3>2. CASE db["user"].status # "gone"
      <4>1. /\ job'[j].snap = StatusOf("user") /\ \A k \in Jobs : k # j => job'[k] = job[k]
        BY <1>1, <1>12, <3>2 DEF UserBack, ChangeType
      <4>2. StatusOf("user").status = db["user"].status  BY SnapshotType DEF TokenInv, Rows
      <4>3. job' \in [Jobs -> ChangeType]  BY DEF TokenInv, TokenTypeOK
      <4> QED  BY <4>1, <4>2, <4>3 DEF OtherJobs, OldChange
    <3> QED  BY <1>12, <3>1, <3>2 DEF UserBack
  <2> QED  BY <1>2, <2>1, <2>2, HashLeft
<1>13. CASE FieldTTL(j)
  <2>1. UNCHANGED <<db, hash, task, quiet>> /\ job[j].pc = "fieldttl"  BY <1>13 DEF FieldTTL, past
  <2>2. OtherJobs(j) /\ (OldChange(job'[j]) => OldChange(job[j]))
    <3>1. CASE AfterFields(j)
      <4>1. /\ job'[j].pc \notin {"fieldttl", "field"} /\ \A k \in Jobs : k # j => job'[k] = job[k]
        BY <1>1, <3>1 DEF AfterFields, Idle
      <4> QED  BY <4>1 DEF OtherJobs, OldChange, TokenInv, TokenTypeOK
    <3>2. CASE ~AfterFields(j)
      <4> DEFINE l == TTLOf("user")
      <4>1. job' = [job EXCEPT ![j].pc = "field", ![j].ttl = l]  BY <1>13, <3>2 DEF FieldTTL
      <4> HIDE DEF l
      <4>2. job'[j].snap = job[j].snap /\ \A k \in Jobs : k # j => job'[k] = job[k]
        BY <1>1, <4>1 DEF ChangeType
      <4> QED  BY <2>1, <4>2 DEF OtherJobs, OldChange, TokenInv, TokenTypeOK
    <3> QED  BY <3>1, <3>2
  <2>3. db["user"].status # "on" /\ quiet # 0 => ~OldChange(job[j])  BY DEF QuietInv
  <2> QED  BY <1>2, <2>1, <2>2, <2>3, HashLeft
<1>14. CASE FieldSet(j)
  <2> DEFINE b == Base("user")
             h == [b EXCEPT !.status = job[j].snap.status, !.ttl = job[j].ttl]
  <2>1. UNCHANGED <<db, task, quiet>> /\ job[j].pc = "field" /\ hash' = [hash EXCEPT !["user"] = h]
    BY <1>14 DEF FieldSet
  <2>2. b \in RawHash
    <3>1. Blank \in RawHash  BY TokenAssumption DEF Blank, RawHash
    <3>2. HashType \subseteq RawHash  BY DEF HashType, RawHash
    <3> QED  BY <1>1, <3>1, <3>2 DEF Base, Rows
  <2>3. h.status = job[j].snap.status  BY <2>2 DEF RawHash
  <2> HIDE DEF b, h
  <2>4. hash'["user"] = h  BY <1>1, <2>1 DEF Rows
  <2>5. db["user"].status # "on" /\ quiet # 0 => ~UserOn'
    BY <2>1, <2>3, <2>4 DEF QuietInv, OldChange, UserOn
  <2>6. OtherJobs(j) /\ ~OldChange(job'[j])
    <3>1. CASE EndJob(j)  BY <1>3, <3>1
    <3>2. CASE AfterFields(j)
      <4>1. /\ job'[j].pc \notin {"fieldttl", "field"} /\ \A k \in Jobs : k # j => job'[k] = job[k]
        BY <1>1, <3>2 DEF AfterFields, Idle
      <4> QED  BY <4>1 DEF OtherJobs, OldChange, TokenInv, TokenTypeOK
    <3> QED  BY <1>14, <3>1, <3>2 DEF FieldSet
  <2> QED  BY <1>2, <2>1, <2>5, <2>6
<1>15. CASE UserDelete(j) \/ HardDelete(j)
  <2>1. quiet' = 0  BY <1>15 DEF UserDelete, HardDelete
  <2> QED  BY <2>1, QuietReset
<1>16. CASE DropUser(j) \/ DropToken(j)
  <2>1. UNCHANGED <<db, task, quiet>>  BY <1>16 DEF DropUser, DropToken, past
  <2>2. hash'["user"] = hash["user"] \/ hash'["user"] = Missing
    BY <1>1, <1>16 DEF DropUser, DropToken, Rows
  <2>3. OtherJobs(j) /\ ~OldChange(job'[j])  BY <1>3, <1>4, <1>16 DEF DropUser, DropToken, ChangePcs
  <2> QED  BY <1>2, <2>1, <2>2, <2>3, HashLeft
<1>17. CASE CallFails(j)
  <2>1. UNCHANGED <<db, hash, task, quiet>>  BY <1>17 DEF CallFails
  <2>2. OtherJobs(j) /\ ~OldChange(job'[j])  BY <1>3, <1>4, <1>17 DEF CallFails, ChangePcs
  <2> QED  BY <1>2, <2>1, <2>2, HashLeft
<1>18. CASE Override(j)
  <2>1. UNCHANGED <<hash, task, quiet>> /\ EndJob(j)  BY <1>18 DEF Override, past
  <2>2. db'["user"].status = db["user"].status  BY <1>1, <1>18 DEF Override, Rows
  <2> QED  BY <1>2, <1>3, <2>1, <2>2, HashLeft
<1> QED  BY <1>5, <1>6, <1>7, <1>8, <1>9, <1>10, <1>11, <1>12, <1>13, <1>14, <1>15, <1>16, <1>17, <1>18
         DEF JobStep

\* Time passes: what the hash has left is one tick less, and one more has gone by.
LEMMA TickQuiet == ASSUME TokenInv, TokenInv', QuietInv, Tick PROVE QuietInv'
<1>1. UNCHANGED <<db, task, job>>  BY DEF Tick
<1>2. CASE Busy \/ db["user"].status = "on"
  <2>1. quiet' = 0  BY <1>2 DEF Tick
  <2> QED  BY <2>1, QuietReset
<1>3. CASE ~(Busy \/ db["user"].status = "on")
  <2>1. quiet \in 0..TTL /\ quiet' = IF quiet < TTL THEN quiet + 1 ELSE TTL  BY <1>3 DEF Tick, QuietInv
  <2>2. quiet' \in 0..TTL /\ quiet' <= quiet + 1  BY <2>1, TokenAssumption
  <2>3. \A i \in Slots : ~OldSet(task'[i]) /\ ~Extends(task'[i])
    BY <1>1, <1>3 DEF Busy, OldSet, Extends
  <2>4. \A j \in Jobs : ~OldChange(job'[j])  BY <1>1, <1>3 DEF Busy, OldChange, Idle
  <2>5. UserOn' => hash'["user"].ttl + quiet' <= TTL
    <3> SUFFICES ASSUME UserOn' PROVE hash'["user"].ttl + quiet' <= TTL  OBVIOUS
    <3>1. hash'["user"] = IF TTLOf("user") = 1 THEN Missing
                          ELSE IF TTLOf("user") > 1 THEN [hash["user"] EXCEPT !.ttl = hash["user"].ttl - 1]
                          ELSE hash["user"]
      BY DEF Tick, Rows
    <3>2. hash["user"] \in HashType \cup {Missing}  BY DEF TokenInv, TokenTypeOK, Rows
    <3>3. hash["user"] # Missing
      <4> SUFFICES ASSUME hash["user"] = Missing PROVE FALSE  OBVIOUS
      <4>1. TTLOf("user") = 0  BY DEF TTLOf
      <4> QED  BY <3>1, <4>1 DEF UserOn
    <3>4. TTLOf("user") = hash["user"].ttl /\ hash["user"].ttl \in 1..TTL
      BY <3>2, <3>3 DEF TTLOf, HashType
    <3>5. hash["user"].ttl # 1  BY <3>1, <3>4 DEF UserOn
    <3>6. hash'["user"] = [hash["user"] EXCEPT !.ttl = hash["user"].ttl - 1]  BY <3>1, <3>4, <3>5
    <3>7. hash'["user"].ttl = hash["user"].ttl - 1 /\ hash'["user"].status = hash["user"].status
      BY <3>2, <3>3, <3>6 DEF HashType
    <3>8. hash["user"].ttl + quiet <= TTL  BY <1>3, <3>3, <3>7 DEF QuietInv, UserOn
    <3> QED  BY <2>1, <2>2, <3>4, <3>7, <3>8, TokenAssumption
  <2> QED  BY <2>2, <2>3, <2>4, <2>5 DEF QuietInv
<1> QED  BY <1>2, <1>3

\* RedisKeyCacheSeconds is the longest that a hash says "on" of a user who is not, counted from
\* the last change or goroutine that had to do with the user.
THEOREM StaleHashesExpire == TokenSpec => []QuietInv
<1>1. TokenInit => QuietInv
  <2>1. 0 \in 0..TTL  BY TokenAssumption
  <2> QED  BY <2>1 DEF TokenInit, QuietInv, Rows
<1>2. TokenInv /\ TokenInv' /\ QuietInv /\ [TokenNext]_tokenVars => QuietInv'
  <2> SUFFICES ASSUME TokenInv, TokenInv', QuietInv, [TokenNext]_tokenVars PROVE QuietInv'  OBVIOUS
  <2>1. CASE UNCHANGED tokenVars
    BY <2>1 DEF tokenVars, QuietInv, UserOn
  <2> QED  BY <2>1, TaskQuiet, ClientQuiet, StartQuiet, JobQuiet, TickQuiet DEF TokenNext
<1> QED  BY <1>1, <1>2, HashesConsistent, PTL DEF TokenSpec

\* ManageUser, DeleteUser and User.Delete: TokenAuth lets nobody past the status of a user who
\* is not enabled, at once when the hash was dropped and no write overtook the change, and in
\* every case when the time to live has passed.
THEOREM DisabledStaysOut == TokenSpec => DisabledBlocks
<1>1. ASSUME TokenInv, QuietInv, [TokenNext]_tokenVars, Blocked, NEW r \in Requests, Passes(r)
      PROVE  FALSE
  <2>1. req' # req  BY <1>1 DEF Passes
  <2>2. PICK s \in Requests : ClientStep(s)  BY <1>1, <2>1, OnlyClients
  <2>3. UserOn  BY <1>1, <2>2, PassesOn DEF Blocked, UserOn
  <2>4. db["user"].status \in {"off", "gone"}  BY <1>1 DEF TokenInv, TokenTypeOK, Rows, Blocked
  <2>5. CASE quiet = TTL
    <3>1. hash["user"].ttl \in 1..TTL  BY <1>1, <2>3 DEF UserOn, TokenInv, TokenTypeOK, HashType, Rows
    <3>2. hash["user"].ttl + quiet <= TTL  BY <1>1, <2>3, <2>4 DEF QuietInv
    <3> QED  BY <2>5, <3>1, <3>2, TokenAssumption
  <2>6. CASE ~stale /\ \A j \in Jobs : ~Between(j)
    BY <1>1, <2>3, <2>4, <2>6 DEF TokenInv, UserHashInv, UserOn, Between, Pending
  <2> QED  BY <1>1, <2>5, <2>6 DEF Blocked
<1>2. TokenInv /\ QuietInv /\ [TokenNext]_tokenVars =>
        [Blocked => \A r \in Requests : ~Passes(r)]_tokenVars
  BY <1>1
<1> QED  BY <1>2, HashesConsistent, StaleHashesExpire, PTL DEF TokenSpec, DisabledBlocks
=============================================================================
