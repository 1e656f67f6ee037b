-------------------------- MODULE Payments_proofs ---------------------------
(***************************************************************************)
(* Proofs about Payments in one process, for any number of orders, workers *)
(* and faults: an order is credited once and with what it was sold for, a  *)
(* gateway is told to stop calling only after the order was credited, and  *)
(* the payments keep PaymentPromise.                                       *)
(***************************************************************************)
EXTENDS Payments, FiniteSets, FiniteSetTheorems, TLAPS

-----------------------------------------------------------------------------
(* The inductive invariant: the lock                                       *)

BodyPcs == {"sub", "grant", "expire", "topup", "recharge", "save", "credit"}
HoldPcs == BodyPcs \cup {"unlock"}
UserPcs == HoldPcs \cup {"wait", "unref"}

\* The workers that have a reference to the mutex of an order, and those that hold it.
Users(o) == {w \in Workers : job[w].o = o /\ job[w].pc \in UserPcs /\ job[w].mu # None}
Holds(w) == job[w].pc \in HoldPcs /\ job[w].mu # None

\* An order has at most one mutex, which is in the table as long as it has users, counts them
\* and is held by the one that is between MuLock and UnlockOrder.
Unlocked(o) == Users(o) = {} /\ \A v \in Workers : mutex[o][v] = Free
LockedWith(o, id) ==
  /\ Users(o) # {} /\ mutex[o][id].refs = Cardinality(Users(o))
  /\ \A w \in Users(o) : job[w].mu = id
  /\ \A w \in Users(o) : Holds(w) <=> mutex[o][id].holder = w
  /\ mutex[o][id].holder \in Users(o) \cup {None}
  /\ \A v \in Workers : v # id => mutex[o][v] = Free
LockOk(o) ==
  /\ IsFiniteSet(Users(o))
  /\ \A n \in Nodes : IF table[n][o] = None THEN Unlocked(o) ELSE LockedWith(o, table[n][o])

-----------------------------------------------------------------------------
(* The inductive invariant: what the handlers know                         *)

\* A handler that is about to credit the order
Crediting(w) ==
  job[w].pc \in {"grant", "recharge", "credit"} \/ (job[w].pc = "save" /\ job[w].ev = "paid")

\* What justifies that the gateway of a paid order stops calling.
Excused(o) == grants[o] > 0 \/ (hit[o] /\ ~Careful(o))

\* The event of a handler has happened.
EventOk(w) ==
  LET o == job[w].o  ev == job[w].ev
  IN /\ ev # "none" /\ phase[o] # "new"
     /\ ev \in {"paid", "failed", "expired"} => verdict[o] = ev
     /\ ev = "return" => verdict[o] = "paid" /\ kind[o].sub /\ Is(o, "epay")
     /\ ev = "manual" => manual[o]

\* Only handlers of payments that were not made (Waffo's) work without the lock.
WithLock(w) ==
  job[w].mu = None =>
    \/ job[w].pc \in {"lock", "resolve", "reply"}
    \/ job[w].pc \in {"topup", "save"} /\ job[w].ev \in {"failed", "expired"}

\* How a handler came to where it is.
PathOk(w) ==
  LET o == job[w].o  ev == job[w].ev
  IN /\ job[w].pc = "resolve" => Is(o, "pancake") /\ job[w].mu = None
     /\ job[w].pc = "sub" => /\ ev \in {"paid", "return", "expired"}
                             /\ kind[o].sub \/ Is(o, "stripe") \/ Is(o, "creem")
     /\ job[w].pc = "grant" => ev \in {"paid", "return"} /\ kind[o].sub
     /\ job[w].pc = "expire" => ev = "expired" /\ kind[o].sub
     /\ job[w].pc = "topup" => ev # "return" /\ (kind[o].sub /\ ev = "paid" => hit[o] /\ ~Careful(o))
     /\ job[w].pc = "recharge" => ~kind[o].sub /\ (ev = "manual" \/ (ev = "paid" /\ ~Is(o, "epay")))
     /\ job[w].pc = "save" => /\ ~kind[o].sub /\ ev \in {"paid", "failed", "expired"}
                              /\ ev = "paid" => Is(o, "epay")
     /\ job[w].pc = "credit" => ~kind[o].sub /\ Is(o, "epay") /\ ev = "paid" /\ topups[o] # "pending"

JobOk(w) ==
  job[w].pc # "idle" =>
    /\ job[w].o \in Orders /\ EventOk(w) /\ WithLock(w) /\ PathOk(w)
    /\ Crediting(w) => grants[job[w].o] = 0
    /\ job[w].ack /\ job[w].ev = "paid" => Excused(job[w].o)

-----------------------------------------------------------------------------
(* The inductive invariant: the rows                                       *)

\* The row a callback looks for
Row(o) == IF kind[o].sub THEN subs[o] ELSE topups[o]

Untouched(o) ==
  /\ topups[o] = "none" /\ subs[o] = "none" /\ grants[o] = 0 /\ credited[o] = 0
  /\ verdict[o] = "open" /\ ~manual[o]

\* A worker that has saved the row of an Epay top-up and is about to credit the user
InCredit(o) == \E w \in Workers : job[w].pc = "credit" /\ job[w].o = o

\* Rows have their order's sort, and those of a paid order are pending or completed.
SortOk(o) ==
  /\ phase[o] = "new" => Untouched(o)
  /\ ~kind[o].sub => subs[o] = "none"
  /\ kind[o].sub => topups[o] \in {"none", "success"}
  /\ verdict[o] # "open" => phase[o] = "open"
  /\ phase[o] \in {"inserted", "open"} /\ verdict[o] \in {"open", "paid"} => Row(o) \in {"pending", "success"}

\* What is pending was not credited, and what is completed was.
CreditOk(o) ==
  /\ topups[o] = "pending" \/ subs[o] = "pending" => grants[o] = 0
  /\ grants[o] \in {0, 1}
  /\ ~kind[o].sub /\ grants[o] = 0 => credited[o] = 0
  /\ ~kind[o].sub /\ grants[o] = 1 /\ ~(Is(o, "creem") /\ manual[o]) => credited[o] = Sold(o)
  /\ subs[o] = "success" => grants[o] > 0
  /\ topups[o] = "success" /\ ~kind[o].sub => grants[o] > 0 \/ (Is(o, "epay") /\ hit[o]) \/ InCredit(o)
  /\ verdict[o] = "paid" /\ ~owed[o] => Excused(o)

RowOk(o) == SortOk(o) /\ CreditOk(o)

IInv ==
  /\ TypeOK
  /\ \A o \in Orders : LockOk(o) /\ RowOk(o)
  /\ \A w \in Workers : JobOk(w)

-----------------------------------------------------------------------------
(* The effect of the operators on jobs                                     *)

JobType ==
  [pc : {"idle", "lock", "wait", "unlock", "unref", "reply", "resolve",
         "sub", "grant", "expire", "topup", "recharge", "save", "credit"},
   o : Orders \cup {None},
   ev : {"none", "paid", "return", "failed", "expired", "manual"},
   mu : Workers \cup {None}, ack : BOOLEAN]
Pcs == BodyPcs \cup {"idle", "lock", "wait", "unlock", "unref", "reply", "resolve"}

\* Only w's job changes.
OnlyJobOf(w) ==
  job' \in [Workers -> JobType] /\ \A v \in Workers : v # w => job'[v] = job[v]

\* w goes on to l.
Moved(w, l) ==
  /\ OnlyJobOf(w) /\ job'[w].pc = l
  /\ job'[w].o = job[w].o /\ job'[w].ev = job[w].ev /\ job'[w].mu = job[w].mu

\* w has done its work: it unlocks the order, if it has locked it.
Finished(w) == Moved(w, IF job[w].mu = None THEN "reply" ELSE "unlock")

\* The callbacks that are acknowledged whatever happens
Always(o) == Is(o, "stripe") \/ (Is(o, "epay") /\ ~kind[o].sub)

\* Jobs have their type.
LEMMA JobTypes == TypeOK => job \in [Workers -> JobType]
BY DEF TypeOK, JobType

\* SetJob changes one job.
LEMMA SetJobEffect ==
  ASSUME TypeOK, NEW w \in Workers, NEW j \in JobType, SetJob(w, j)
  PROVE  OnlyJobOf(w) /\ job'[w] = j
BY JobTypes DEF SetJob, OnlyJobOf

\* Goto moves a job on.
LEMMA GotoEffect ==
  ASSUME TypeOK, NEW w \in Workers, NEW l \in Pcs, Goto(w, l)
  PROVE  Moved(w, l) /\ job'[w].ack = job[w].ack
<1> DEFINE j == [job[w] EXCEPT !.pc = l]
<1>1. job[w] \in JobType  BY JobTypes
<1>2. j \in JobType /\ j.pc = l /\ j.o = job[w].o /\ j.ev = job[w].ev /\ j.mu = job[w].mu /\ j.ack = job[w].ack
  BY <1>1 DEF JobType, Pcs, BodyPcs
<1>3. SetJob(w, j)  BY DEF Goto
<1> HIDE DEF j
<1>4. QED  BY <1>2, <1>3, SetJobEffect DEF Moved

\* Done finishes a job with the answer a, or with the one that is always given.
LEMMA DoneEffect ==
  ASSUME TypeOK, NEW w \in Workers, NEW a \in BOOLEAN, Done(w, a)
  PROVE  Finished(w) /\ (job'[w].ack => a \/ Always(job[w].o))
<1> DEFINE b == a \/ Always(job[w].o)
           l == IF job[w].mu = None THEN "reply" ELSE "unlock"
           j == [job[w] EXCEPT !.pc = l, !.ack = b]
<1>1. job[w] \in JobType  BY JobTypes
<1>2. SetJob(w, j)  BY DEF Done, Always
<1>3. b \in BOOLEAN  BY Zenon
<1>4. b => a \/ Always(job[w].o)  OBVIOUS
<1>5. l \in Pcs  BY DEF Pcs
<1> HIDE DEF b, l
<1>6. j \in JobType /\ j.pc = l /\ j.o = job[w].o /\ j.ev = job[w].ev /\ j.mu = job[w].mu /\ j.ack = b
  BY <1>1, <1>3, <1>5 DEF JobType, Pcs, BodyPcs
<1> HIDE DEF j
<1>7. OnlyJobOf(w) /\ job'[w] = j  BY <1>2, <1>6, SetJobEffect
<1>8. QED  BY <1>4, <1>6, <1>7 DEF Finished, Moved, l

\* A job that ends is idle.
LEMMA IdleType == Idle \in JobType /\ Idle.pc = "idle" /\ Idle.mu = None /\ Idle.ack = FALSE
<1>1. FALSE \in BOOLEAN  OBVIOUS
<1>2. QED  BY <1>1, Zenon DEF Idle, JobType

-----------------------------------------------------------------------------
(* The lock                                                                *)

\* v's use of the lock of o stays as it is.
SameUse(v, o) ==
  /\ (v \in Users(o))' <=> v \in Users(o)
  /\ v \in Users(o) => (Holds(v)' <=> Holds(v)) /\ job'[v].mu = job[v].mu

\* The lock is as good as before when its users are the same.
LEMMA LockStays ==
  ASSUME NEW o \in Orders, LockOk(o), mutex'[o] = mutex[o], \A n \in Nodes : table'[n][o] = table[n][o],
         \A v \in Workers : SameUse(v, o)
  PROVE  LockOk(o)'
<1>1. Users(o)' = Users(o)  BY DEF SameUse, Users
<1>2. \A w \in Users(o) : (Holds(w)' <=> Holds(w)) /\ job'[w].mu = job[w].mu  BY DEF SameUse, Users
<1>3. Unlocked(o) => Unlocked(o)'  BY <1>1 DEF Unlocked
<1>4. ASSUME NEW id, LockedWith(o, id)  PROVE LockedWith(o, id)'
  BY <1>1, <1>2, <1>4 DEF LockedWith
<1>5. QED  BY <1>1, <1>3, <1>4 DEF LockOk

\* A worker whose job does not change uses every lock as before.
LEMMA SameJobSameUse ==
  ASSUME NEW v \in Workers, job'[v] = job[v], NEW o
  PROVE  SameUse(v, o)
BY DEF SameUse, Users, Holds

\* So does one that has no mutex, before and after the step, ...
LEMMA NoMutexNoUse ==
  ASSUME NEW v \in Workers, NEW o, ~(job[v].pc \in UserPcs /\ job[v].mu # None),
         ~(job'[v].pc \in UserPcs /\ job'[v].mu # None)
  PROVE  SameUse(v, o)
BY DEF SameUse, Users

\* ... or holds it before and after.
LEMMA StillHeld ==
  ASSUME NEW v \in Workers, NEW o, job[v].pc \in HoldPcs, job'[v].pc \in HoldPcs,
         job'[v].o = job[v].o, job'[v].mu = job[v].mu
  PROVE  SameUse(v, o)
BY DEF SameUse, Users, Holds, UserPcs

\* The steps of a handler between locking and unlocking.
LEMMA BodyKeepsLocks ==
  ASSUME NEW w \in Workers, \A o \in Orders : LockOk(o), UNCHANGED <<table, mutex>>,
         job[w].pc \in BodyPcs \cup {"resolve"}, job[w].pc = "resolve" => job[w].mu = None,
         NEW l \in BodyPcs \cup {"lock"}, l = "lock" => job[w].mu = None,
         Moved(w, l) \/ Finished(w)
  PROVE  \A o \in Orders : LockOk(o)'
<1> SUFFICES ASSUME NEW o \in Orders  PROVE LockOk(o)'
  OBVIOUS
<1>1. \A v \in Workers : v # w => SameUse(v, o)  BY SameJobSameUse DEF Moved, Finished, OnlyJobOf
<1>2. CASE job[w].mu = None
  BY <1>2, NoMutexNoUse, <1>1, LockStays DEF Moved, Finished
<1>3. CASE job[w].mu # None
  <2>1. job[w].pc \in HoldPcs /\ job'[w].pc \in HoldPcs /\ job'[w].o = job[w].o /\ job'[w].mu = job[w].mu
    BY <1>3 DEF Moved, Finished, HoldPcs
  <2>2. SameUse(w, o)  BY <2>1, StillHeld
  <2>3. QED  BY <1>1, <2>2, LockStays
<1>4. QED  BY <1>2, <1>3

\* At most one worker holds the lock of an order.
LEMMA Exclusive ==
  ASSUME SingleNode, NEW o \in Orders, LockOk(o), NEW v \in Workers, NEW w \in Workers,
         job[v].o = o, job[w].o = o, Holds(v), Holds(w)
  PROVE  v = w
<1>1. v \in Users(o) /\ w \in Users(o)  BY DEF Users, Holds, UserPcs
<1>2. NodeOf[v] \in Nodes  BY PaymentAssumption
<1>3. table[NodeOf[v]][o] # None /\ LockedWith(o, table[NodeOf[v]][o])
  BY <1>1, <1>2 DEF LockOk, Unlocked
<1>4. QED  BY <1>1, <1>3 DEF LockedWith

\* A worker with a reference finds its mutex in the table, and nobody else has another one.
LEMMA UserFinds ==
  ASSUME NEW o \in Orders, LockOk(o), NEW w \in Users(o)
  PROVE  table[NodeOf[w]][o] = job[w].mu /\ job[w].mu # None /\ LockedWith(o, job[w].mu)
<1>1. NodeOf[w] \in Nodes  BY PaymentAssumption DEF Users
<1>2. table[NodeOf[w]][o] # None /\ LockedWith(o, table[NodeOf[w]][o])
  BY <1>1 DEF LockOk, Unlocked
<1>3. table[NodeOf[w]][o] = job[w].mu  BY <1>2 DEF LockedWith
<1>4. QED  BY <1>2, <1>3

MutexType == [refs : Nat, holder : Workers \cup {None}]

\* Mutexes have their type.
LEMMA MutexField ==
  ASSUME TypeOK, NEW o \in Orders, NEW id \in Workers
  PROVE  mutex[o][id] \in MutexType /\ mutex[o][id].refs \in Nat /\ mutex[o][id].holder \in Workers \cup {None}
BY DEF TypeOK, MutexType

\* A step with the lock of one order leaves the other locks alone.
LEMMA OtherLocks ==
  ASSUME NEW w \in Workers, NEW o \in Orders, OnlyJobOf(w), job[w].o = o, job'[w].o = o,
         NEW p \in Orders, p # o, LockOk(p),
         \A n \in Nodes : table'[n][p] = table[n][p], mutex'[p] = mutex[p]
  PROVE  LockOk(p)'
<1>1. \A v \in Workers : v # w => SameUse(v, p)  BY SameJobSameUse DEF OnlyJobOf
<1>2. SameUse(w, p)  BY DEF SameUse, Users
<1>3. QED  BY <1>1, <1>2, LockStays

\* LockOrder counts one more user of the mutex in the table, or makes a new one.
LEMMA LockOrderLocks ==
  ASSUME SingleNode, TypeOK, \A o \in Orders : LockOk(o), NEW w \in Workers, job[w].o \in Orders, LockOrder(w)
  PROVE  /\ table' \in [Nodes -> [Orders -> Workers \cup {None}]]
         /\ mutex' \in [Orders -> [Workers -> MutexType]]
         /\ OnlyJobOf(w) /\ job'[w].pc = "wait" /\ job'[w].o = job[w].o /\ job'[w].ev = job[w].ev
         /\ job'[w].ack = job[w].ack /\ job'[w].mu # None
         /\ \A o \in Orders : LockOk(o)'
<1> PICK o \in Orders : o = job[w].o  OBVIOUS
<1> PICK id : id = OrderMutex(w)  OBVIOUS
<1> DEFINE n == NodeOf[w]
           r == [mutex[o][id] EXCEPT !.refs = @ + 1]
           j == [job[w] EXCEPT !.pc = "wait", !.mu = id]
<1>1. /\ job[w].pc = "lock" /\ table' = [table EXCEPT ![n][o] = id]
      /\ mutex' = [mutex EXCEPT ![o][id] = r] /\ SetJob(w, j)
  BY DEF LockOrder
<1>2. n \in Nodes /\ o \in Orders /\ None \notin Workers  BY PaymentAssumption
<1>3. IF table[n][o] = None THEN Unlocked(o) ELSE LockedWith(o, table[n][o])  BY <1>2 DEF LockOk
<1>4. IF table[n][o] = None THEN id = w ELSE id = table[n][o]
  <2>1. CASE table[n][o] # None  BY <2>1 DEF OrderMutex
  <2>2. CASE table[n][o] = None
    <3>1. mutex[o][w] = Free  BY <1>3, <2>2 DEF Unlocked
    <3>2. QED  BY <2>2, <3>1 DEF OrderMutex
  <2>3. QED  BY <2>1, <2>2
<1>5. id \in Workers  BY <1>2, <1>4 DEF TypeOK
<1> HIDE DEF n
<1>6. mutex[o][id] \in MutexType  BY <1>2, <1>5, MutexField
<1>7. r \in MutexType /\ r.refs = mutex[o][id].refs + 1 /\ r.holder = mutex[o][id].holder
  BY <1>6 DEF MutexType
<1>8. job[w] \in JobType  BY JobTypes
<1>9. /\ j \in JobType /\ j.pc = "wait" /\ j.mu = id /\ j.o = o /\ j.ev = job[w].ev /\ j.ack = job[w].ack
  BY <1>5, <1>8 DEF JobType
<1> HIDE DEF r, j
<1>10. OnlyJobOf(w) /\ job'[w] = j  BY <1>1, <1>9, SetJobEffect
<1>11. /\ table' \in [Nodes -> [Orders -> Workers \cup {None}]]
       /\ \A m \in Nodes, p \in Orders : table'[m][p] = IF p = o THEN id ELSE table[m][p]
  <2>1. table' = [table EXCEPT ![n][o] = id]  BY <1>1
  <2>2. n \in Nodes /\ o \in Orders /\ id \in Workers \cup {None}  BY <1>2, <1>5
  <2>3. QED  BY <2>1, <2>2 DEF TypeOK, SingleNode
<1>12. /\ mutex' \in [Orders -> [Workers -> MutexType]]
       /\ mutex'[o][id] = r
       /\ \A v \in Workers : v # id => mutex'[o][v] = mutex[o][v]
       /\ \A p \in Orders : p # o => mutex'[p] = mutex[p]
  <2>1. mutex' = [mutex EXCEPT ![o][id] = r]  BY <1>1
  <2>2. QED  BY <1>5, <1>7, <2>1 DEF TypeOK, MutexType
<1>13. w \notin Users(o) /\ Users(o)' = Users(o) \cup {w}
  <2>1. w \notin Users(o)  BY <1>1 DEF Users, UserPcs, HoldPcs, BodyPcs
  <2>2. w \in Users(o)'  BY <1>2, <1>5, <1>9, <1>10 DEF Users, UserPcs
  <2>3. \A v \in Workers : v # w => (v \in Users(o)' <=> v \in Users(o))  BY <1>10 DEF OnlyJobOf, Users
  <2>4. Users(o) \subseteq Workers /\ Users(o)' \subseteq Workers  BY DEF Users
  <2>5. QED  BY <2>1, <2>2, <2>3, <2>4
<1>14. IsFiniteSet(Users(o))' /\ Cardinality(Users(o)') = Cardinality(Users(o)) + 1
  BY <1>13, <1>2, FS_AddElement DEF LockOk
<1>15. ~Holds(w)'  BY <1>9, <1>10 DEF Holds, HoldPcs, BodyPcs
<1>16. \A v \in Users(o) : (Holds(v)' <=> Holds(v)) /\ job'[v].mu = job[v].mu
  BY <1>10, <1>13 DEF OnlyJobOf, Holds, Users
<1>17. LockedWith(o, id)'
  <2>1. CASE table[n][o] = None
    <3>1. Users(o)' = {w} /\ \A v \in Workers : mutex[o][v] = Free  BY <1>3, <1>13, <2>1 DEF Unlocked
    <3>2. r.refs = 1 /\ r.holder = None  BY <1>5, <1>7, <3>1 DEF Free
    <3>3. Cardinality(Users(o)') = 1  BY <3>1, FS_Singleton
    <3>4. \A v \in Workers : v # id => mutex'[o][v] = Free  BY <1>12, <3>1
    <3>5. QED  BY <1>2, <1>9, <1>10, <1>12, <1>15, <3>1, <3>2, <3>3, <3>4 DEF LockedWith
  <2>2. CASE table[n][o] # None
    <3>1. LockedWith(o, id)  BY <1>3, <1>4, <2>2
    <3>2. mutex'[o][id].refs = Cardinality(Users(o)')  BY <1>7, <1>12, <1>14, <3>1 DEF LockedWith
    <3>3. \A v \in Users(o)' : job'[v].mu = id  BY <1>9, <1>10, <1>13, <1>16, <3>1 DEF LockedWith
    <3>4. mutex'[o][id].holder = mutex[o][id].holder  BY <1>7, <1>12
    <3>5. mutex[o][id].holder # w  BY <1>2, <1>13, <3>1 DEF LockedWith
    <3>6. \A v \in Users(o)' : Holds(v)' <=> mutex'[o][id].holder = v
      BY <1>13, <1>15, <1>16, <3>1, <3>4, <3>5 DEF LockedWith
    <3>7. mutex'[o][id].holder \in Users(o)' \cup {None}  BY <1>13, <3>1, <3>4 DEF LockedWith
    <3>8. \A v \in Workers : v # id => mutex'[o][v] = Free  BY <1>12, <3>1 DEF LockedWith
    <3>9. QED  BY <1>13, <3>2, <3>3, <3>6, <3>7, <3>8 DEF LockedWith
  <2>3. QED  BY <2>1, <2>2
<1>18. \A m \in Nodes : table'[m][o] = id /\ id # None  BY <1>2, <1>5, <1>11
<1>19. LockOk(o)'  BY <1>14, <1>17, <1>18 DEF LockOk
<1>20. \A p \in Orders : p # o => LockOk(p)'
  BY <1>2, <1>9, <1>10, <1>11, <1>12, OtherLocks
<1>21. QED  BY <1>2, <1>5, <1>9, <1>10, <1>11, <1>12, <1>19, <1>20

\* MuLock takes a mutex that nobody holds.
LEMMA MuLockLocks ==
  ASSUME SingleNode, TypeOK, \A o \in Orders : LockOk(o), NEW w \in Workers, job[w].o \in Orders,
         WithLock(w), MuLock(w)
  PROVE  /\ mutex' \in [Orders -> [Workers -> MutexType]]
         /\ Moved(w, Body(job[w].o, job[w].ev)) /\ job'[w].ack = job[w].ack /\ job[w].mu # None
         /\ \A o \in Orders : LockOk(o)'
<1> PICK o \in Orders : o = job[w].o  OBVIOUS
<1> PICK id : id = job[w].mu  OBVIOUS
<1> PICK l : l = Body(job[w].o, job[w].ev)  OBVIOUS
<1>1. /\ job[w].pc = "wait" /\ mutex[o][id].holder = None
      /\ mutex' = [mutex EXCEPT ![o][id].holder = w] /\ Goto(w, l) /\ UNCHANGED table
  BY DEF MuLock
<1>2. id # None /\ w \in Users(o)  BY <1>1 DEF WithLock, Users, UserPcs
<1>3. id \in Workers /\ None \notin Workers  BY <1>2, PaymentAssumption DEF TypeOK
<1>4. LockedWith(o, id)  BY <1>2, UserFinds
<1>5. l \in {"sub", "topup"}  BY DEF Body
<1>6. Moved(w, l) /\ job'[w].ack = job[w].ack  BY <1>1, <1>5, GotoEffect DEF Pcs, BodyPcs
<1>7. mutex[o][id] \in MutexType  BY <1>3, MutexField
<1> DEFINE r == [mutex[o][id] EXCEPT !.holder = w]
<1>8. r \in MutexType /\ r.refs = mutex[o][id].refs /\ r.holder = w  BY <1>7 DEF MutexType
<1>9. mutex' = [mutex EXCEPT ![o][id] = r]  BY <1>1
<1> HIDE DEF r
<1>10. /\ mutex' \in [Orders -> [Workers -> MutexType]]
       /\ mutex'[o][id] = r
       /\ \A v \in Workers : v # id => mutex'[o][v] = mutex[o][v]
       /\ \A p \in Orders : p # o => mutex'[p] = mutex[p]
  BY <1>3, <1>8, <1>9 DEF TypeOK, MutexType
<1>11. Users(o)' = Users(o)
  <2>1. w \in Users(o)'  BY <1>2, <1>5, <1>6 DEF Users, Moved, UserPcs, HoldPcs, BodyPcs
  <2>2. \A v \in Workers : v # w => (v \in Users(o)' <=> v \in Users(o))  BY <1>6 DEF Moved, OnlyJobOf, Users
  <2>3. Users(o) \subseteq Workers /\ Users(o)' \subseteq Workers  BY DEF Users
  <2>4. QED  BY <1>2, <2>1, <2>2, <2>3
<1>12. Holds(w)'  BY <1>2, <1>5, <1>6 DEF Holds, Moved, HoldPcs, BodyPcs
<1>13. \A v \in Users(o) : v # w => ~Holds(v)'
  <2>1. \A v \in Users(o) : ~Holds(v)  BY <1>1, <1>3, <1>4 DEF LockedWith, Users
  <2>2. QED  BY <1>6, <2>1 DEF Moved, OnlyJobOf, Holds, Users
<1>14. \A v \in Users(o) : job'[v].mu = id  BY <1>4, <1>6 DEF Moved, OnlyJobOf, LockedWith, Users
<1>15. LockedWith(o, id)'
  <2>1. mutex'[o][id].refs = Cardinality(Users(o)')  BY <1>4, <1>8, <1>10, <1>11 DEF LockedWith
  <2>2. \A v \in Users(o)' : Holds(v)' <=> mutex'[o][id].holder = v  BY <1>8, <1>10, <1>11, <1>12, <1>13
  <2>3. \A v \in Workers : v # id => mutex'[o][v] = Free  BY <1>4, <1>10 DEF LockedWith
  <2>4. mutex'[o][id].holder \in Users(o)' \cup {None}  BY <1>2, <1>8, <1>10, <1>11
  <2>5. QED  BY <1>2, <1>11, <1>14, <2>1, <2>2, <2>3, <2>4 DEF LockedWith
<1>16. \A n \in Nodes : table'[n][o] = id
  <2>1. table[NodeOf[w]][o] = id /\ NodeOf[w] \in Nodes  BY <1>2, UserFinds, PaymentAssumption
  <2>2. QED  BY <1>1, <2>1 DEF SingleNode
<1>17. LockOk(o)'  BY <1>2, <1>11, <1>15, <1>16 DEF LockOk
<1>18. \A p \in Orders : p # o => LockOk(p)'
  BY <1>1, <1>6, <1>10, OtherLocks DEF Moved
<1>19. QED  BY <1>2, <1>6, <1>10, <1>17, <1>18

\* UnlockOrder finds the mutex that w holds, and lets it go.
LEMMA UnlockOrderLocks ==
  ASSUME SingleNode, TypeOK, \A o \in Orders : LockOk(o), NEW w \in Workers, job[w].o \in Orders,
         WithLock(w), UnlockOrder(w)
  PROVE  /\ mutex' \in [Orders -> [Workers -> MutexType]]
         /\ Moved(w, "unref") /\ job'[w].ack = job[w].ack
         /\ \A o \in Orders : LockOk(o)'
<1> PICK o \in Orders : o = job[w].o  OBVIOUS
<1> PICK id : id = job[w].mu  OBVIOUS
<1>1. job[w].pc = "unlock" /\ UNCHANGED table  BY DEF UnlockOrder
<1>2. id # None /\ w \in Users(o)  BY <1>1 DEF WithLock, Users, UserPcs, HoldPcs
<1>3. id \in Workers /\ None \notin Workers  BY <1>2, PaymentAssumption DEF TypeOK
<1>4. LockedWith(o, id) /\ table[NodeOf[w]][o] = id  BY <1>2, UserFinds
<1> DEFINE j == [job[w] EXCEPT !.pc = "unref", !.mu = id]
           r == [mutex[o][id] EXCEPT !.holder = None]
<1>5. mutex' = [mutex EXCEPT ![o][id] = r] /\ SetJob(w, j)  BY <1>2, <1>4 DEF UnlockOrder
<1>6. job[w] \in JobType  BY JobTypes
<1>7. /\ j \in JobType /\ j.pc = "unref" /\ j.mu = id /\ j.o = o /\ j.ev = job[w].ev /\ j.ack = job[w].ack
  BY <1>3, <1>6 DEF JobType
<1>8. mutex[o][id] \in MutexType  BY <1>3, MutexField
<1>9. r \in MutexType /\ r.refs = mutex[o][id].refs /\ r.holder = None  BY <1>8 DEF MutexType
<1> HIDE DEF j, r
<1>10. OnlyJobOf(w) /\ job'[w] = j  BY <1>5, <1>7, SetJobEffect
<1>11. Moved(w, "unref") /\ job'[w].ack = job[w].ack  BY <1>7, <1>10 DEF Moved
<1>12. /\ mutex' \in [Orders -> [Workers -> MutexType]]
       /\ mutex'[o][id] = r
       /\ \A v \in Workers : v # id => mutex'[o][v] = mutex[o][v]
       /\ \A p \in Orders : p # o => mutex'[p] = mutex[p]
  BY <1>3, <1>5, <1>9 DEF TypeOK, MutexType
<1>13. Users(o)' = Users(o)
  <2>1. w \in Users(o)'  BY <1>2, <1>11 DEF Users, Moved, UserPcs
  <2>2. \A v \in Workers : v # w => (v \in Users(o)' <=> v \in Users(o))  BY <1>11 DEF Moved, OnlyJobOf, Users
  <2>3. Users(o) \subseteq Workers /\ Users(o)' \subseteq Workers  BY DEF Users
  <2>4. QED  BY <1>2, <2>1, <2>2, <2>3
<1>14. \A v \in Users(o) : ~Holds(v)'
  <2>1. Holds(w)  BY <1>1, <1>2 DEF Holds, HoldPcs
  <2>2. \A v \in Users(o) : v # w => ~Holds(v)  BY <1>2, <1>4, <2>1 DEF LockedWith
  <2>3. ~Holds(w)'  BY <1>11 DEF Holds, Moved, HoldPcs, BodyPcs
  <2>4. QED  BY <1>11, <2>2, <2>3 DEF Moved, OnlyJobOf, Holds, Users
<1>15. \A v \in Users(o) : job'[v].mu = id  BY <1>4, <1>11 DEF Moved, OnlyJobOf, LockedWith, Users
<1>16. LockedWith(o, id)'
  <2>1. mutex'[o][id].refs = Cardinality(Users(o)')  BY <1>4, <1>9, <1>12, <1>13 DEF LockedWith
  <2>2. \A v \in Users(o)' : Holds(v)' <=> mutex'[o][id].holder = v
    BY <1>3, <1>9, <1>12, <1>13, <1>14 DEF Users
  <2>3. \A v \in Workers : v # id => mutex'[o][v] = Free  BY <1>4, <1>12 DEF LockedWith
  <2>4. mutex'[o][id].holder \in Users(o)' \cup {None}  BY <1>9, <1>12
  <2>5. QED  BY <1>2, <1>13, <1>15, <2>1, <2>2, <2>3, <2>4 DEF LockedWith
<1>17. \A n \in Nodes : table'[n][o] = id
  <2>1. NodeOf[w] \in Nodes  BY PaymentAssumption
  <2>2. QED  BY <1>1, <1>4, <2>1 DEF SingleNode
<1>18. LockOk(o)'  BY <1>2, <1>13, <1>16, <1>17 DEF LockOk
<1>19. \A p \in Orders : p # o => LockOk(p)'
  BY <1>1, <1>11, <1>12, OtherLocks DEF Moved
<1>20. QED  BY <1>11, <1>12, <1>18, <1>19

\* The last user removes the entry, and leaves no mutex behind.
LEMMA UnrefLocks ==
  ASSUME SingleNode, TypeOK, \A o \in Orders : LockOk(o), NEW w \in Workers, job[w].o \in Orders,
         WithLock(w), Unref(w)
  PROVE  /\ mutex' \in [Orders -> [Workers -> MutexType]]
         /\ table' \in [Nodes -> [Orders -> Workers \cup {None}]]
         /\ Moved(w, "reply") /\ job'[w].ack = job[w].ack
         /\ \A o \in Orders : LockOk(o)'
<1> PICK o \in Orders : o = job[w].o  OBVIOUS
<1> PICK id : id = job[w].mu  OBVIOUS
<1> PICK refs : refs = mutex[o][id].refs - 1  OBVIOUS
<1> DEFINE n == NodeOf[w]
           r == [mutex[o][id] EXCEPT !.refs = refs]
<1>1. /\ job[w].pc = "unref" /\ mutex' = [mutex EXCEPT ![o][id] = r]
      /\ table' = [table EXCEPT ![n][o] = IF refs = 0 THEN None ELSE @]
      /\ Goto(w, "reply")
  BY DEF Unref
<1>2. id # None /\ w \in Users(o)  BY <1>1 DEF WithLock, Users, UserPcs
<1>3. id \in Workers /\ None \notin Workers /\ n \in Nodes  BY <1>2, PaymentAssumption DEF TypeOK
<1>4. LockedWith(o, id) /\ table[n][o] = id  BY <1>2, UserFinds
<1>5. Moved(w, "reply") /\ job'[w].ack = job[w].ack  BY <1>1, GotoEffect DEF Pcs
<1>6. mutex[o][id] \in MutexType /\ mutex[o][id].refs \in Nat  BY <1>3, MutexField
<1>7. IsFiniteSet(Users(o)) /\ mutex[o][id].refs = Cardinality(Users(o))  BY <1>4 DEF LockOk, LockedWith
<1>8. Users(o)' = Users(o) \ {w}
  <2>1. w \notin Users(o)'  BY <1>5 DEF Users, Moved, UserPcs, HoldPcs, BodyPcs
  <2>2. \A v \in Workers : v # w => (v \in Users(o)' <=> v \in Users(o))  BY <1>5 DEF Moved, OnlyJobOf, Users
  <2>3. Users(o) \subseteq Workers /\ Users(o)' \subseteq Workers  BY DEF Users
  <2>4. QED  BY <2>1, <2>2, <2>3
<1>9. IsFiniteSet(Users(o))' /\ Cardinality(Users(o)') = refs  BY <1>2, <1>7, <1>8, FS_RemoveElement
<1>10. refs \in Nat /\ (refs = 0 <=> Users(o)' = {})  BY <1>9, FS_CardinalityType, FS_EmptySet
<1>11. r \in MutexType /\ r.refs = refs /\ r.holder = mutex[o][id].holder  BY <1>6, <1>10 DEF MutexType
<1> HIDE DEF r, n
<1>12. /\ mutex' \in [Orders -> [Workers -> MutexType]]
       /\ mutex'[o][id] = r
       /\ \A v \in Workers : v # id => mutex'[o][v] = mutex[o][v]
       /\ \A p \in Orders : p # o => mutex'[p] = mutex[p]
  BY <1>1, <1>3, <1>11 DEF TypeOK, MutexType
<1>13. /\ table' \in [Nodes -> [Orders -> Workers \cup {None}]]
       /\ \A m \in Nodes, p \in Orders : table'[m][p] = IF p # o THEN table[m][p] ELSE IF refs = 0 THEN None ELSE id
  <2>1. table' = [table EXCEPT ![n][o] = IF refs = 0 THEN None ELSE id]  BY <1>1, <1>4
  <2>2. (IF refs = 0 THEN None ELSE id) \in Workers \cup {None}  BY <1>3
  <2>3. QED  BY <1>3, <2>1, <2>2 DEF TypeOK, SingleNode
<1>14. ~Holds(w) /\ mutex[o][id].holder # w
  <2>1. ~Holds(w)  BY <1>1 DEF Holds, HoldPcs, BodyPcs
  <2>2. QED  BY <1>2, <1>4, <2>1 DEF LockedWith
<1>15. mutex'[o][id].holder = mutex[o][id].holder /\ mutex'[o][id].holder \in Users(o)' \cup {None}
  BY <1>4, <1>8, <1>11, <1>12, <1>14 DEF LockedWith
<1>16. LockOk(o)'
  <2>1. CASE refs = 0
    <3>1. mutex'[o][id] = Free
      <4>1. r.refs = 0 /\ r.holder = None  BY <1>10, <1>11, <1>12, <1>15, <2>1
      <4>2. QED  BY <1>11, <1>12, <4>1 DEF MutexType, Free
    <3>2. \A v \in Workers : mutex'[o][v] = Free  BY <1>4, <1>12, <3>1 DEF LockedWith
    <3>3. Unlocked(o)'  BY <1>10, <2>1, <3>2 DEF Unlocked
    <3>4. \A m \in Nodes : table'[m][o] = None  BY <1>13, <2>1
    <3>5. QED  BY <1>9, <3>3, <3>4 DEF LockOk
  <2>2. CASE refs # 0
    <3>1. \A v \in Users(o)' : v \in Users(o) /\ job'[v] = job[v]  BY <1>5, <1>8 DEF Moved, OnlyJobOf, Users
    <3>2. \A v \in Users(o)' : job'[v].mu = id  BY <1>4, <3>1 DEF LockedWith
    <3>3. \A v \in Users(o)' : Holds(v)' <=> mutex'[o][id].holder = v  BY <1>4, <1>15, <3>1 DEF LockedWith, Holds
    <3>4. \A v \in Workers : v # id => mutex'[o][v] = Free  BY <1>4, <1>12 DEF LockedWith
    <3>5. mutex'[o][id].refs = Cardinality(Users(o)')  BY <1>9, <1>11, <1>12
    <3>6. LockedWith(o, id)'  BY <1>10, <1>15, <2>2, <3>2, <3>3, <3>4, <3>5 DEF LockedWith
    <3>7. \A m \in Nodes : table'[m][o] = id  BY <1>13, <2>2
    <3>8. QED  BY <1>2, <1>9, <3>6, <3>7 DEF LockOk
  <2>3. QED  BY <2>1, <2>2
<1>17. \A p \in Orders : p # o => LockOk(p)'
  BY <1>5, <1>12, <1>13, OtherLocks DEF Moved
<1>18. QED  BY <1>5, <1>12, <1>13, <1>16, <1>17

\* A crash of the only process leaves no lock.
LEMMA CrashLocks ==
  ASSUME SingleNode, TypeOK, NEW n \in Nodes, Crash(n)
  PROVE  /\ mutex' \in [Orders -> [Workers -> MutexType]]
         /\ table' \in [Nodes -> [Orders -> Workers \cup {None}]]
         /\ job' = [w \in Workers |-> Idle]
         /\ \A o \in Orders : LockOk(o)'
<1>1. \A w \in Workers : NodeOf[w] = n  BY PaymentAssumption DEF SingleNode
<1>2. job' = [w \in Workers |-> Idle]  BY <1>1 DEF Crash
<1>3. mutex' = [o \in Orders |-> [w \in Workers |-> Free]]  BY <1>1 DEF Crash
<1>4. Free \in MutexType  BY DEF Free, MutexType
<1>5. table' = [table EXCEPT ![n] = [o \in Orders |-> None]]  BY DEF Crash
<1>6. /\ table' \in [Nodes -> [Orders -> Workers \cup {None}]]
      /\ \A m \in Nodes, o \in Orders : table'[m][o] = None
  BY <1>5 DEF TypeOK, SingleNode
<1>7. \A o \in Orders : Users(o)' = {}  BY <1>2, IdleType DEF Users
<1>8. \A o \in Orders : Unlocked(o)'  BY <1>3, <1>7 DEF Unlocked
<1>9. \A o \in Orders : LockOk(o)'  BY <1>6, <1>7, <1>8, FS_EmptySet DEF LockOk
<1>10. QED  BY <1>2, <1>3, <1>4, <1>6, <1>9

-----------------------------------------------------------------------------
(* What a step of one handler leaves to the others                         *)

\* The order stays what it is; events, approvals and failures are not taken back, and a row
\* does not become pending again.
Forward(o) ==
  /\ kind'[o] = kind[o]
  /\ phase[o] # "new" => phase'[o] # "new"
  /\ verdict[o] # "open" => verdict'[o] = verdict[o]
  /\ manual[o] => manual'[o]
  /\ hit[o] => hit'[o]
  /\ topups[o] # "pending" => topups'[o] # "pending"
  /\ grants'[o] \in {grants[o], grants[o] + 1}

\* A handler that is about to credit holds the lock.
LEMMA CreditingHolds ==
  ASSUME NEW w \in Workers, JobOk(w), Crediting(w)
  PROVE  job[w].o \in Orders /\ Holds(w)
BY DEF JobOk, WithLock, PathOk, Crediting, Holds, HoldPcs, BodyPcs

\* What a handler knows stays true while others work.
LEMMA OtherJob ==
  ASSUME TypeOK, NEW v \in Workers, JobOk(v), job'[v] = job[v],
         job[v].pc # "idle" => Forward(job[v].o),
         Crediting(v) => grants'[job[v].o] = grants[job[v].o]
  PROVE  JobOk(v)'
<1> SUFFICES ASSUME job[v].pc # "idle"  PROVE JobOk(v)'
  BY DEF JobOk
<1> PICK o : o = job[v].o  OBVIOUS
<1>1. o \in Orders /\ EventOk(v) /\ WithLock(v) /\ PathOk(v)  BY DEF JobOk
<1>2. Forward(o) /\ grants[o] \in Nat  BY <1>1 DEF TypeOK
<1>3. \A g : Is(o, g)' <=> Is(o, g)  BY <1>2 DEF Is, Forward
<1>4. EventOk(v)'  BY <1>1, <1>2, <1>3 DEF EventOk, Forward
<1>5. WithLock(v)'  BY <1>1 DEF WithLock
<1>6. Careful(o)' <=> Careful(o)  BY <1>2, <1>3 DEF Careful, Forward
<1>7. PathOk(v)'  BY <1>1, <1>2, <1>3, <1>6 DEF PathOk, Forward
<1>8. Crediting(v)' => grants'[o] = 0  BY DEF Crediting, JobOk
<1>9. Excused(o) => Excused(o)'  BY <1>2, <1>6 DEF Excused, Forward
<1>10. QED  BY <1>1, <1>4, <1>5, <1>7, <1>8, <1>9 DEF JobOk

\* An order whose rows stay as they are is as good as before: failures may be added, and the
\* handlers that are about to credit it stay.
SameRow(o) ==
  /\ kind'[o] = kind[o] /\ phase'[o] = phase[o] /\ verdict'[o] = verdict[o] /\ owed'[o] = owed[o]
  /\ topups'[o] = topups[o] /\ subs'[o] = subs[o] /\ grants'[o] = grants[o] /\ credited'[o] = credited[o]
  /\ manual'[o] = manual[o] /\ (hit[o] => hit'[o])

\* A row nobody writes stays in order.
LEMMA RowStays ==
  ASSUME NEW o \in Orders, RowOk(o), SameRow(o), InCredit(o) => InCredit(o)' \/ (Is(o, "epay") /\ hit'[o])
  PROVE  RowOk(o)'
<1>1. \A g : Is(o, g)' <=> Is(o, g)  BY DEF Is, SameRow
<1>2. SortOk(o)'  BY <1>1 DEF RowOk, SortOk, SameRow, Untouched, Row
<1>3. Sold(o)' = Sold(o)  BY <1>1 DEF Sold
<1>4. Excused(o) => Excused(o)'  BY <1>1 DEF Excused, Careful, SameRow
<1>5. CreditOk(o)'  BY <1>1, <1>3, <1>4 DEF RowOk, CreditOk, SameRow
<1>6. QED  BY <1>2, <1>5 DEF RowOk

\* What is left to show of a step of w: its own order and its own job.
LEMMA WorkerStep ==
  ASSUME SingleNode, IInv, NEW w \in Workers, NEW o \in Orders,
         job[w].pc # "idle", job[w].o = o, OnlyJobOf(w), job'[w].pc # "credit" \/ job'[w].o = o,
         \A p \in Orders : p # o => SameRow(p), Forward(o),
         grants'[o] = grants[o] \/ Crediting(w),
         TypeOK', \A p \in Orders : LockOk(p)', JobOk(w)', RowOk(o)'
  PROVE  IInv'
<1>1. ASSUME NEW v \in Workers, v # w  PROVE JobOk(v)'
  <2>1. job'[v] = job[v] /\ JobOk(v)  BY <1>1 DEF OnlyJobOf, IInv
  <2>2. ASSUME job[v].pc # "idle"  PROVE Forward(job[v].o)
    <3>1. job[v].o \in Orders  BY <2>1, <2>2 DEF JobOk
    <3>2. CASE job[v].o = o  BY <3>2
    <3>3. CASE job[v].o # o
      <4>1. SameRow(job[v].o) /\ grants[job[v].o] \in Nat  BY <3>1, <3>3 DEF IInv, TypeOK
      <4>2. QED  BY <4>1 DEF SameRow, Forward
    <3>4. QED  BY <3>2, <3>3
  <2>3. ASSUME Crediting(v)  PROVE grants'[job[v].o] = grants[job[v].o]
    <3>1. job[v].o \in Orders /\ Holds(v)  BY <2>1, <2>3, CreditingHolds
    <3>2. CASE job[v].o # o  BY <3>1, <3>2 DEF SameRow
    <3>3. CASE job[v].o = o /\ Crediting(w)
      <4>1. Holds(w) /\ JobOk(w) /\ LockOk(o)  BY <3>3, CreditingHolds DEF IInv
      <4>2. v = w  BY <3>1, <3>3, <4>1, Exclusive
      <4>3. QED  BY <1>1, <4>2
    <3>4. QED  BY <3>2, <3>3
  <2>4. QED  BY <2>1, <2>2, <2>3, OtherJob DEF IInv
<1>2. ASSUME NEW p \in Orders, p # o  PROVE RowOk(p)'
  <2>1. InCredit(p) => InCredit(p)'  BY <1>2 DEF InCredit, OnlyJobOf
  <2>2. RowOk(p) /\ SameRow(p)  BY <1>2 DEF IInv
  <2>3. QED  BY <2>1, <2>2, RowStays
<1>3. QED  BY <1>1, <1>2 DEF IInv

\* The variables that only the requests and the gateway write.
World == UNCHANGED <<worldVars, manual>>

\* A step of w that reads, or fails.
LEMMA ReadStep ==
  ASSUME SingleNode, IInv, NEW w \in Workers, NEW o \in Orders,
         job[w].pc \notin {"idle", "credit"}, job[w].o = o, OnlyJobOf(w),
         job'[w].pc # "credit", World, UNCHANGED <<rowVars, owed>>,
         \A p \in Orders : hit[p] => hit'[p],
         TypeOK', \A p \in Orders : LockOk(p)', JobOk(w)'
  PROVE  IInv'
<1>1. \A p \in Orders : SameRow(p)  BY DEF World, worldVars, rowVars, SameRow
<1>2. Forward(o)  BY DEF World, worldVars, rowVars, Forward
<1>3. InCredit(o) => InCredit(o)'  BY DEF InCredit, OnlyJobOf
<1>4. RowOk(o)'  BY <1>1, <1>3, RowStays DEF IInv
<1>5. grants'[o] = grants[o]  BY DEF rowVars
<1>6. QED  BY <1>1, <1>2, <1>4, <1>5, WorkerStep

\* A call may fail, and what failed is remembered.
MayFail ==
  /\ faults' \in 0 .. MaxFaults /\ hit' \in [Orders -> BOOLEAN]
  /\ \A p \in Orders : hit[p] => hit'[p]

\* A fault is counted and recorded at its order.
LEMMA FaultEffect ==
  ASSUME TypeOK, NEW o \in Orders, Fault(o)
  PROVE  MayFail /\ hit'[o]
<1>1. faults' \in 0 .. MaxFaults  BY PaymentAssumption DEF Fault, TypeOK
<1>2. hit' = [hit EXCEPT ![o] = TRUE] /\ hit \in [Orders -> BOOLEAN]  BY DEF Fault, TypeOK
<1>3. hit' \in [Orders -> BOOLEAN] /\ hit'[o] /\ \A p \in Orders : hit[p] => hit'[p]
  BY <1>2, Zenon
<1>4. QED  BY <1>1, <1>3 DEF MayFail

\* So is a failing call that is no fault of its own.
LEMMA HitEffect ==
  ASSUME TypeOK, NEW o \in Orders, hit' = [hit EXCEPT ![o] = TRUE], UNCHANGED faults
  PROVE  MayFail /\ hit'[o]
<1>1. hit \in [Orders -> BOOLEAN]  BY DEF TypeOK
<1>2. hit' \in [Orders -> BOOLEAN] /\ hit'[o] /\ \A p \in Orders : hit[p] => hit'[p]
  BY <1>1, Zenon
<1>3. QED  BY <1>2 DEF MayFail, TypeOK

\* A step without fault leaves the history.
LEMMA NoFault ==
  ASSUME TypeOK, UNCHANGED <<hit, faults>>
  PROVE  MayFail
BY DEF MayFail, TypeOK

\* What a handler leaves alone while it has the lock.
Outside == World /\ UNCHANGED <<owed, lockVars, extra>>

\* The rows have their types.
RowTypes ==
  /\ topups' \in [Orders -> Statuses] /\ subs' \in [Orders -> Statuses]
  /\ grants' \in [Orders -> Nat] /\ credited' \in [Orders -> Nat]

\* A step of one worker that leaves the rest alone but for rows of their type.
LEMMA TypeStep ==
  ASSUME TypeOK, NEW w \in Workers, OnlyJobOf(w), Outside, MayFail, RowTypes
  PROVE  TypeOK'
BY DEF TypeOK, OnlyJobOf, JobType, Outside, World, worldVars, lockVars, MayFail, RowTypes

\* A handler that finishes knows what it knew; it answers yes to a paid order only with an excuse.
LEMMA FinishedJob ==
  ASSUME TypeOK, NEW w \in Workers, NEW o \in Orders, JobOk(w), job[w].pc # "idle", job[w].o = o,
         Finished(w), Forward(o), job'[w].ack /\ job[w].ev = "paid" => Excused(o)'
  PROVE  JobOk(w)'
<1>1. EventOk(w)  BY DEF JobOk
<1>2. \A g : Is(o, g)' <=> Is(o, g)  BY DEF Is, Forward
<1>3. EventOk(w)'  BY <1>1, <1>2 DEF EventOk, Forward, Finished, Moved
<1>4. WithLock(w)' /\ PathOk(w)' /\ ~Crediting(w)'  BY DEF WithLock, PathOk, Crediting, Finished, Moved
<1>5. QED  BY <1>3, <1>4 DEF JobOk, Finished, Moved

\* A handler that goes on with what it knows.
LEMMA MovedJob ==
  ASSUME TypeOK, NEW w \in Workers, NEW o \in Orders, JobOk(w), job[w].pc # "idle", job[w].o = o,
         NEW l, Moved(w, l), job'[w].ack = job[w].ack, Forward(o),
         WithLock(w)', PathOk(w)', Crediting(w)' => grants'[o] = 0
  PROVE  JobOk(w)'
<1>1. EventOk(w) /\ (job[w].ack /\ job[w].ev = "paid" => Excused(o))  BY DEF JobOk
<1>2. \A g : Is(o, g)' <=> Is(o, g)  BY DEF Is, Forward
<1>3. EventOk(w)'  BY <1>1, <1>2 DEF EventOk, Forward, Moved
<1>4. grants[o] \in Nat /\ (Careful(o)' <=> Careful(o))  BY <1>2 DEF Careful, Forward, TypeOK
<1>5. Excused(o) => Excused(o)'  BY <1>4 DEF Excused, Forward
<1>6. QED  BY <1>1, <1>3, <1>5 DEF JobOk, Moved

\* A handler writes the rows of its order and finishes.
LEMMA FinishWrites ==
  ASSUME SingleNode, IInv, NEW w \in Workers, NEW o \in Orders, job[w].o = o, job[w].pc \in BodyPcs,
         Finished(w), Outside, MayFail, RowTypes, Forward(o),
         \A p \in Orders : p # o => SameRow(p),
         grants'[o] = grants[o] \/ Crediting(w), RowOk(o)',
         job'[w].ack /\ job[w].ev = "paid" => Excused(o)'
  PROVE  IInv'
<1>1. OnlyJobOf(w)  BY DEF Finished, Moved
<1>2. TypeOK'  BY <1>1, TypeStep DEF IInv
<1>3. \A p \in Orders : LockOk(p)'
  <2>1. job[w].pc \in BodyPcs \cup {"resolve"} /\ job[w].pc # "resolve"  BY DEF BodyPcs
  <2>2. "sub" \in BodyPcs \cup {"lock"}  BY DEF BodyPcs
  <2>3. UNCHANGED <<table, mutex>>  BY DEF Outside, lockVars
  <2>4. QED  BY <2>1, <2>2, <2>3, BodyKeepsLocks DEF IInv
<1>4. job[w].pc # "idle"  BY DEF BodyPcs
<1>5. JobOk(w)'  BY <1>4, FinishedJob DEF IInv
<1>6. job'[w].pc # "credit"  BY DEF Finished, Moved
<1>7. QED  BY <1>1, <1>2, <1>3, <1>4, <1>5, <1>6, WorkerStep

\* A handler that finishes without having written.
LEMMA FinishReads ==
  ASSUME SingleNode, IInv, NEW w \in Workers, NEW o \in Orders, job[w].o = o,
         job[w].pc \in BodyPcs \cup {"resolve"}, job[w].pc # "credit",
         Finished(w), Outside, MayFail, UNCHANGED rowVars,
         job'[w].ack /\ job[w].ev = "paid" => Excused(o)'
  PROVE  IInv'
<1>1. OnlyJobOf(w) /\ JobOk(w) /\ job[w].pc # "idle"  BY DEF Finished, Moved, IInv, BodyPcs
<1>2. RowTypes /\ Forward(o)
  BY DEF RowTypes, Forward, rowVars, Outside, World, worldVars, MayFail, IInv, TypeOK
<1>3. TypeOK'  BY <1>1, <1>2, TypeStep DEF IInv
<1>4. \A p \in Orders : LockOk(p)'
  <2>1. job[w].pc = "resolve" => job[w].mu = None  BY <1>1 DEF JobOk, PathOk
  <2>2. "sub" \in BodyPcs \cup {"lock"}  BY DEF BodyPcs
  <2>3. UNCHANGED <<table, mutex>>  BY DEF Outside, lockVars
  <2>4. QED  BY <2>1, <2>2, <2>3, BodyKeepsLocks DEF IInv
<1>5. JobOk(w)'  BY <1>1, <1>2, FinishedJob DEF IInv
<1>6. job'[w].pc # "credit"  BY DEF Finished, Moved
<1>7. QED  BY <1>1, <1>3, <1>4, <1>5, <1>6, ReadStep DEF Outside, MayFail

\* A handler that goes on after a read.
LEMMA MoveReads ==
  ASSUME SingleNode, IInv, NEW w \in Workers, NEW o \in Orders, job[w].o = o,
         job[w].pc \in BodyPcs \cup {"resolve"}, job[w].pc # "credit",
         NEW l \in BodyPcs \cup {"lock"}, l # "credit", l = "lock" => job[w].mu = None,
         Moved(w, l), job'[w].ack = job[w].ack, Outside, MayFail, UNCHANGED rowVars,
         WithLock(w)', PathOk(w)', Crediting(w)' => grants[o] = 0
  PROVE  IInv'
<1>1. OnlyJobOf(w) /\ JobOk(w) /\ job[w].pc # "idle"  BY DEF Moved, IInv, BodyPcs
<1>2. RowTypes /\ Forward(o) /\ grants'[o] = grants[o]
  BY DEF RowTypes, Forward, rowVars, Outside, World, worldVars, MayFail, IInv, TypeOK
<1>3. TypeOK'  BY <1>1, <1>2, TypeStep DEF IInv
<1>4. \A p \in Orders : LockOk(p)'
  <2>1. job[w].pc = "resolve" => job[w].mu = None  BY <1>1 DEF JobOk, PathOk
  <2>2. UNCHANGED <<table, mutex>>  BY DEF Outside, lockVars
  <2>3. QED  BY <2>1, <2>2, BodyKeepsLocks DEF IInv
<1>5. JobOk(w)'  BY <1>1, <1>2, MovedJob DEF IInv
<1>6. job'[w].pc # "credit"  BY DEF Moved
<1>7. QED  BY <1>1, <1>3, <1>4, <1>5, <1>6, ReadStep DEF Outside, MayFail

-----------------------------------------------------------------------------
(* The handlers                                                            *)

\* What is known of a handler at work on its order.
LEMMA AtWork ==
  ASSUME IInv, NEW w \in Workers, job[w].pc # "idle"
  PROVE  /\ job[w].o \in Orders /\ TypeOK /\ JobOk(w) /\ EventOk(w) /\ WithLock(w) /\ PathOk(w)
         /\ RowOk(job[w].o) /\ SortOk(job[w].o) /\ CreditOk(job[w].o)
BY DEF IInv, JobOk, RowOk

\* An order has one gateway.
LEMMA NotCareful ==
  ASSUME NEW o \in Orders, Is(o, "stripe") \/ Is(o, "pancake") \/ (Is(o, "epay") /\ ~kind[o].sub) \/ (Is(o, "creem") /\ kind[o].sub)
  PROVE  ~Careful(o)
BY DEF Careful, Is

\* Careful does not change with the rows.
LEMMA CarefulStays ==
  ASSUME NEW o \in Orders, Outside
  PROVE  Careful(o)' <=> Careful(o)
BY DEF Careful, Is, Outside, World, worldVars

\* A call that failed excuses the answer given in spite of it, unless the gateway is careful.
LEMMA HitExcuses ==
  ASSUME NEW o \in Orders, Outside, ~Careful(o), hit'[o]
  PROVE  Excused(o)'
BY CarefulStays DEF Excused

\* The lookup of a Pancake order finds it, or fails and is acknowledged.
LEMMA ResolveInv ==
  ASSUME SingleNode, IInv, NEW w \in Workers, Resolve(w)
  PROVE  IInv'
<1>1. job[w].pc = "resolve" /\ UNCHANGED rowVars /\ Outside
  BY DEF Resolve, Outside, World
<1> PICK o : o = job[w].o  OBVIOUS
<1>2. /\ o \in Orders /\ TypeOK /\ Is(o, "pancake") /\ job[w].mu = None
  BY <1>1, AtWork DEF PathOk
<1>3. CASE Goto(w, "lock") /\ UNCHANGED <<hit, faults>>
  <2>1. Moved(w, "lock") /\ job'[w].ack = job[w].ack  BY <1>2, <1>3, GotoEffect DEF Pcs
  <2>2. WithLock(w)' /\ PathOk(w)' /\ ~Crediting(w)'  BY <2>1 DEF Moved, WithLock, PathOk, Crediting
  <2>3. MayFail  BY <1>2, <1>3, NoFault
  <2>4. QED  BY <1>1, <1>2, <2>1, <2>2, <2>3, MoveReads
<1>4. CASE Done(w, TRUE) /\ Fault(o)
  <2>1. Finished(w)
    <3>1. TRUE \in BOOLEAN  OBVIOUS
    <3>2. QED  BY <1>2, <1>4, <3>1, DoneEffect
  <2>2. MayFail /\ hit'[o]  BY <1>2, <1>4, FaultEffect
  <2>3. Excused(o)'  BY <1>1, <1>2, <2>2, NotCareful, HitExcuses
  <2>4. QED  BY <1>1, <1>2, <2>1, <2>2, <2>3, FinishReads
<1>5. QED  BY <1>3, <1>4 DEF Resolve

\* A paid order has the row its callback looks for.
LEMMA PaidRow ==
  ASSUME NEW o \in Orders, SortOk(o), verdict[o] = "paid"
  PROVE  IF kind[o].sub THEN subs[o] \in {"pending", "success"} ELSE topups[o] \in {"pending", "success"}
BY DEF SortOk, Row

\* No subscription order was found, or the lookup failed.
LEMMA NoSubscriptionOrderInv ==
  ASSUME SingleNode, IInv, NEW w \in Workers, job[w].pc = "sub", Outside, UNCHANGED rowVars, MayFail,
         subs[job[w].o] # "none" => hit'[job[w].o], NoSubscriptionOrder(w)
  PROVE  IInv'
<1> PICK o : o = job[w].o  OBVIOUS
<1>1. /\ o \in Orders /\ TypeOK /\ EventOk(w) /\ WithLock(w) /\ PathOk(w) /\ SortOk(o)
  BY AtWork
<1>2. /\ job[w].ev \in {"paid", "return", "expired"} /\ (kind[o].sub \/ Is(o, "stripe") \/ Is(o, "creem"))
      /\ job[w].pc \in BodyPcs
  BY <1>1 DEF PathOk, BodyPcs
<1>3. kind[o].sub /\ job[w].ev = "paid" => hit'[o]  BY <1>1, PaidRow DEF EventOk
<1>4. CASE (Is(o, "stripe") \/ Is(o, "creem")) /\ Goto(w, "topup")
  <2>1. Moved(w, "topup") /\ job'[w].ack = job[w].ack  BY <1>1, <1>4, GotoEffect DEF Pcs, BodyPcs
  <2>2. job[w].ev # "return"  BY <1>1, <1>4 DEF EventOk, Is
  <2>3. WithLock(w)' /\ ~Crediting(w)'  BY <1>1, <2>1 DEF Moved, WithLock, Crediting
  <2>4. kind'[o] = kind[o]  BY DEF Outside, World, worldVars
  <2>5. kind[o].sub => ~Careful(o)  BY <1>1, <1>4, NotCareful
  <2>6. PathOk(w)'  BY <1>1, <1>3, <2>1, <2>2, <2>4, <2>5, CarefulStays DEF Moved, PathOk
  <2>7. "topup" \in BodyPcs  BY DEF BodyPcs
  <2>8. QED  BY <1>1, <1>2, <2>1, <2>3, <2>6, <2>7, MoveReads
<1>5. CASE Is(o, "creem") /\ kind[o].sub /\ Done(w, TRUE)
  <2>1. Finished(w)
    <3>1. TRUE \in BOOLEAN  OBVIOUS
    <3>2. QED  BY <1>1, <1>5, <3>1, DoneEffect
  <2>2. job[w].ev = "paid" => Excused(o)'  BY <1>1, <1>3, <1>5, NotCareful, HitExcuses
  <2>3. QED  BY <1>1, <1>2, <2>1, <2>2, FinishReads
<1>6. CASE ~Is(o, "stripe") /\ ~Is(o, "creem") /\ Done(w, FALSE)
  <2>1. Finished(w) /\ (job'[w].ack => Always(o))
    <3>1. FALSE \in BOOLEAN  OBVIOUS
    <3>2. QED  BY <1>1, <1>6, <3>1, DoneEffect
  <2>2. ~job'[w].ack  BY <1>2, <1>6, <2>1 DEF Always
  <2>3. QED  BY <1>1, <1>2, <2>1, <2>2, FinishReads
<1>7. QED  BY <1>4, <1>5, <1>6 DEF NoSubscriptionOrder

\* A callback that finishes after a read, with the answer a.
LEMMA DoneReads ==
  ASSUME SingleNode, IInv, NEW w \in Workers, NEW o \in Orders, job[w].o = o,
         job[w].pc \in BodyPcs, job[w].pc # "credit", NEW a \in BOOLEAN, Done(w, a),
         Outside, MayFail, UNCHANGED rowVars,
         (a \/ Always(o)) /\ job[w].ev = "paid" => Excused(o)'
  PROVE  IInv'
<1>1. Finished(w) /\ (job'[w].ack => a \/ Always(o))  BY DoneEffect DEF IInv
<1>2. job'[w].ack /\ job[w].ev = "paid" => Excused(o)'  BY <1>1
<1>3. QED  BY <1>1, <1>2, FinishReads

\* What is excused stays so.
LEMMA StillExcused ==
  ASSUME NEW o \in Orders, Outside, MayFail, UNCHANGED rowVars, Excused(o)
  PROVE  Excused(o)'
BY CarefulStays DEF Excused, MayFail, rowVars

\* CompleteSubscriptionOrder and ExpireSubscriptionOrder look at the order.
LEMMA ReadSubscriptionOrderInv ==
  ASSUME SingleNode, IInv, NEW w \in Workers, ReadSubscriptionOrder(w)
  PROVE  IInv'
<1> PICK o : o = job[w].o  OBVIOUS
<1>1. job[w].pc = "sub" /\ UNCHANGED rowVars /\ Outside
  BY DEF ReadSubscriptionOrder, Outside, World
<1>2. /\ o \in Orders /\ TypeOK /\ EventOk(w) /\ WithLock(w) /\ PathOk(w) /\ SortOk(o) /\ CreditOk(o)
      /\ job[w].pc \in BodyPcs
  BY <1>1, AtWork DEF BodyPcs
<1>b. TRUE \in BOOLEAN /\ FALSE \in BOOLEAN  OBVIOUS
<1>3. CASE subs[o] # "none" /\ NoSubscriptionOrder(w) /\ Fault(o)
  BY <1>1, <1>2, <1>3, FaultEffect, NoSubscriptionOrderInv
<1>4. CASE subs[o] = "none" /\ NoSubscriptionOrder(w) /\ UNCHANGED <<hit, faults>>
  BY <1>1, <1>2, <1>4, NoFault, NoSubscriptionOrderInv
<1>5. CASE subs[o] = "success" /\ Done(w, TRUE) /\ UNCHANGED <<hit, faults>>
  <2>1. Excused(o) /\ MayFail  BY <1>2, <1>5, NoFault DEF CreditOk, Excused
  <2>2. QED  BY <1>1, <1>2, <1>b, <1>5, <2>1, StillExcused, DoneReads
<1>6. CASE subs[o] \in {"failed", "expired"} /\ Done(w, job[w].ev = "expired") /\ UNCHANGED <<hit, faults>>
  <2>1. job[w].ev # "paid"
    <3>1. kind[o].sub  BY <1>2, <1>6 DEF SortOk
    <3>2. QED  BY <1>2, <1>6, <3>1, PaidRow DEF EventOk
  <2>2. (job[w].ev = "expired") \in BOOLEAN  OBVIOUS
  <2>3. QED  BY <1>1, <1>2, <1>6, <2>1, <2>2, NoFault, DoneReads
<1>7. CASE Done(w, FALSE) /\ hit' = [hit EXCEPT ![o] = TRUE] /\ UNCHANGED faults
  <2>1. MayFail /\ hit'[o]  BY <1>2, <1>7, HitEffect
  <2>2. Always(o) => Excused(o)'  BY <1>1, <1>2, <2>1, NotCareful, HitExcuses DEF Always
  <2>3. QED  BY <1>1, <1>2, <1>b, <1>7, <2>1, <2>2, DoneReads
<1>8. ASSUME NEW l, l = (IF job[w].ev # "expired" THEN "grant" ELSE "expire"),
             subs[o] = "pending", Goto(w, l), UNCHANGED <<hit, faults>>
      PROVE  IInv'
  <2>1. l \in BodyPcs /\ l # "credit" /\ l # "lock"  BY <1>8 DEF BodyPcs
  <2>2. Moved(w, l) /\ job'[w].ack = job[w].ack  BY <1>2, <1>8, <2>1, GotoEffect DEF Pcs
  <2>3. kind[o].sub /\ grants[o] = 0  BY <1>2, <1>8 DEF SortOk, CreditOk
  <2>4. kind'[o] = kind[o]  BY <1>1 DEF Outside, World, worldVars
  <2>5. PathOk(w)'  BY <1>1, <1>2, <1>8, <2>2, <2>3, <2>4 DEF PathOk, Moved
  <2>6. WithLock(w)'  BY <1>1, <1>2, <2>2 DEF WithLock, Moved
  <2>7. QED  BY <1>1, <1>2, <1>8, <2>1, <2>2, <2>3, <2>5, <2>6, NoFault, MoveReads
<1>9. QED
  <2> DEFINE paid == job[w].ev # "expired"
  <2>1. ~paid <=> job[w].ev = "expired"  OBVIOUS
  <2>2. \/ subs[o] # "none" /\ NoSubscriptionOrder(w) /\ Fault(o)
        \/ subs[o] = "none" /\ NoSubscriptionOrder(w) /\ UNCHANGED <<hit, faults>>
        \/ subs[o] = "success" /\ Done(w, TRUE) /\ UNCHANGED <<hit, faults>>
        \/ subs[o] \in {"failed", "expired"} /\ Done(w, ~paid) /\ UNCHANGED <<hit, faults>>
        \/ Done(w, FALSE) /\ hit' = [hit EXCEPT ![o] = TRUE] /\ UNCHANGED faults
        \/ subs[o] = "pending" /\ Goto(w, IF paid THEN "grant" ELSE "expire") /\ UNCHANGED <<hit, faults>>
    BY DEF ReadSubscriptionOrder
  <2>3. Done(w, ~paid) => Done(w, job[w].ev = "expired")  BY Zenon
  <2>4. QED  BY <1>3, <1>4, <1>5, <1>6, <1>7, <1>8, <2>2, <2>3

\* A step that writes only rows of one order keeps the others.
LEMMA OnlyRowsOf ==
  ASSUME TypeOK, NEW o \in Orders, Outside, MayFail,
         \A p \in Orders : p # o => /\ topups'[p] = topups[p] /\ subs'[p] = subs[p]
                                    /\ grants'[p] = grants[p] /\ credited'[p] = credited[p],
         topups'[o] # "pending" \/ topups'[o] = topups[o], grants'[o] \in {grants[o], grants[o] + 1}
  PROVE  Forward(o) /\ \A p \in Orders : p # o => SameRow(p)
BY DEF Forward, SameRow, Outside, World, worldVars, MayFail

\* CompleteSubscriptionOrder grants the subscription while w alone has the order.
LEMMA GrantSubscriptionInv ==
  ASSUME SingleNode, IInv, NEW w \in Workers, GrantSubscription(w)
  PROVE  IInv'
<1> PICK o : o = job[w].o  OBVIOUS
<1>1. job[w].pc = "grant" /\ Outside /\ UNCHANGED credited
  BY DEF GrantSubscription, Outside, World
<1>2. /\ o \in Orders /\ TypeOK /\ EventOk(w) /\ PathOk(w) /\ SortOk(o) /\ CreditOk(o) /\ JobOk(w)
      /\ job[w].pc \in BodyPcs
  BY <1>1, AtWork DEF BodyPcs
<1>3. Crediting(w) /\ grants[o] = 0 /\ kind[o].sub  BY <1>1, <1>2 DEF Crediting, JobOk, PathOk
<1>b. TRUE \in BOOLEAN /\ FALSE \in BOOLEAN  OBVIOUS
<1>4. CASE /\ topups' = [topups EXCEPT ![o] = "success"] /\ subs' = [subs EXCEPT ![o] = "success"]
           /\ grants' = [grants EXCEPT ![o] = @ + 1] /\ Done(w, TRUE) /\ UNCHANGED <<hit, faults>>
  <2>1. Finished(w)  BY <1>2, <1>b, <1>4, DoneEffect
  <2>2. MayFail  BY <1>2, <1>4, NoFault
  <2>3. RowTypes  BY <1>1, <1>2, <1>4 DEF TypeOK, RowTypes, Statuses
  <2>4. topups'[o] = "success" /\ subs'[o] = "success" /\ grants'[o] = 1  BY <1>2, <1>3, <1>4 DEF TypeOK
  <2>5. Forward(o) /\ \A p \in Orders : p # o => SameRow(p)
    BY <1>1, <1>2, <1>3, <1>4, <2>2, <2>4, OnlyRowsOf DEF TypeOK
  <2>6. kind'[o] = kind[o] /\ phase'[o] = phase[o] /\ verdict'[o] = verdict[o]
    BY <1>1 DEF Outside, World, worldVars
  <2>7. Excused(o)'  BY <2>4 DEF Excused
  <2>8. SortOk(o)'  BY <1>2, <1>3, <2>4, <2>6 DEF SortOk, Row, EventOk
  <2>9. CreditOk(o)'  BY <1>3, <2>4, <2>6, <2>7 DEF CreditOk
  <2>10. QED  BY <1>1, <1>2, <1>3, <2>1, <2>2, <2>3, <2>5, <2>7, <2>8, <2>9, FinishWrites DEF RowOk
<1>5. CASE Done(w, FALSE) /\ Fault(o) /\ UNCHANGED <<topups, subs, grants>>
  <2>1. MayFail /\ hit'[o]  BY <1>2, <1>5, FaultEffect
  <2>2. Always(o) => Excused(o)'  BY <1>1, <1>2, <2>1, NotCareful, HitExcuses DEF Always
  <2>3. UNCHANGED rowVars  BY <1>1, <1>5 DEF rowVars
  <2>4. QED  BY <1>1, <1>2, <1>b, <1>5, <2>1, <2>2, <2>3, DoneReads
<1>6. QED  BY <1>4, <1>5 DEF GrantSubscription

\* An order expires only if its payment did.
LEMMA ExpireSubscriptionOrderInv ==
  ASSUME SingleNode, IInv, NEW w \in Workers, ExpireSubscriptionOrder(w)
  PROVE  IInv'
<1> PICK o : o = job[w].o  OBVIOUS
<1>1. job[w].pc = "expire" /\ Outside /\ UNCHANGED <<topups, grants, credited>> /\ Done(w, TRUE)
  BY DEF ExpireSubscriptionOrder, Outside, World
<1>2. /\ o \in Orders /\ TypeOK /\ EventOk(w) /\ PathOk(w) /\ SortOk(o) /\ CreditOk(o) /\ RowOk(o)
      /\ job[w].pc \in BodyPcs
  BY <1>1, AtWork DEF BodyPcs
<1>3. job[w].ev = "expired" /\ verdict[o] = "expired" /\ kind[o].sub /\ phase[o] # "new"
  BY <1>1, <1>2 DEF PathOk, EventOk
<1>b. TRUE \in BOOLEAN  OBVIOUS
<1>4. CASE subs' = [subs EXCEPT ![o] = "expired"] /\ UNCHANGED <<hit, faults>>
  <2>1. Finished(w)  BY <1>1, <1>2, <1>b, DoneEffect
  <2>2. MayFail  BY <1>2, <1>4, NoFault
  <2>3. RowTypes  BY <1>1, <1>2, <1>4 DEF TypeOK, RowTypes, Statuses
  <2>4. subs'[o] = "expired"  BY <1>2, <1>4 DEF TypeOK
  <2>5. Forward(o) /\ \A p \in Orders : p # o => SameRow(p)
    BY <1>1, <1>2, <1>4, <2>2, OnlyRowsOf DEF TypeOK
  <2>6. kind'[o] = kind[o] /\ phase'[o] = phase[o] /\ verdict'[o] = verdict[o]
    BY <1>1 DEF Outside, World, worldVars
  <2>7. SortOk(o)'  BY <1>1, <1>2, <1>3, <2>4, <2>6 DEF SortOk
  <2>8. CreditOk(o)'  BY <1>1, <1>2, <1>3, <2>4, <2>6 DEF CreditOk
  <2>9. QED  BY <1>1, <1>2, <1>3, <2>1, <2>2, <2>3, <2>5, <2>7, <2>8, FinishWrites DEF RowOk
<1>5. CASE UNCHANGED subs /\ Fault(o)
  <2>1. MayFail  BY <1>2, <1>5, FaultEffect
  <2>2. UNCHANGED rowVars  BY <1>1, <1>5 DEF rowVars
  <2>3. QED  BY <1>1, <1>2, <1>3, <1>b, <2>1, <2>2, DoneReads
<1>6. QED  BY <1>4, <1>5 DEF ExpireSubscriptionOrder

\* A top-up that is completed was credited, once its lock is free.
LEMMA CompletedIsCredited ==
  ASSUME SingleNode, IInv, NEW w \in Workers, NEW o \in Orders, job[w].o = o, job[w].pc = "topup",
         job[w].ev = "paid", topups[o] \notin {"none", "pending"}
  PROVE  Excused(o)
<1>1. EventOk(w) /\ PathOk(w) /\ WithLock(w) /\ SortOk(o) /\ CreditOk(o)  BY AtWork
<1>2. verdict[o] = "paid"  BY <1>1 DEF EventOk
<1>3. CASE kind[o].sub  BY <1>1, <1>3 DEF PathOk, Excused
<1>4. CASE ~kind[o].sub
  <2>1. topups[o] = "success"  BY <1>1, <1>2, <1>4, PaidRow
  <2>2. ~InCredit(o)
    <3> SUFFICES ASSUME NEW v \in Workers, job[v].pc = "credit", job[v].o = o  PROVE FALSE
      BY DEF InCredit
    <3>1. Holds(v)
      <4>1. JobOk(v) /\ Crediting(v)  BY DEF IInv, Crediting
      <4>2. QED  BY <4>1, CreditingHolds
    <3>2. Holds(w)  BY <1>1 DEF WithLock, Holds, HoldPcs, BodyPcs
    <3>3. v = w  BY <3>1, <3>2, Exclusive DEF IInv
    <3>4. QED  BY <3>3
  <2>3. QED  BY <1>1, <1>4, <2>1, <2>2, NotCareful DEF CreditOk, Excused
<1>5. QED  BY <1>3, <1>4

\* Every handler of top-ups looks at the row.
LEMMA ReadTopUpInv ==
  ASSUME SingleNode, IInv, NEW w \in Workers, ReadTopUp(w)
  PROVE  IInv'
<1> PICK o : o = job[w].o  OBVIOUS
<1>1. job[w].pc = "topup" /\ UNCHANGED rowVars /\ Outside
  BY DEF ReadTopUp, Outside, World
<1>2. /\ o \in Orders /\ TypeOK /\ EventOk(w) /\ WithLock(w) /\ PathOk(w) /\ SortOk(o) /\ CreditOk(o)
      /\ job[w].pc \in BodyPcs
  BY <1>1, AtWork DEF BodyPcs
<1>3. CASE topups[o] = "none" /\ Done(w, job[w].ev = "failed") /\ UNCHANGED <<hit, faults>>
  <2>1. (job[w].ev = "failed") \in BOOLEAN /\ MayFail  BY <1>2, <1>3, NoFault
  <2>2. job[w].ev = "paid" => Excused(o)
    <3> SUFFICES ASSUME job[w].ev = "paid"  PROVE Excused(o)
      OBVIOUS
    <3>1. verdict[o] = "paid"  BY <1>2 DEF EventOk
    <3>2. kind[o].sub  BY <1>2, <1>3, <3>1, PaidRow
    <3>3. QED  BY <1>1, <1>2, <3>2 DEF PathOk, Excused
  <2>3. QED  BY <1>1, <1>2, <1>3, <2>1, <2>2, StillExcused, DoneReads
<1>4. CASE topups[o] # "none" /\ Done(w, job[w].ev = "failed") /\ Fault(o)
  <2>1. (job[w].ev = "failed") \in BOOLEAN  OBVIOUS
  <2>2. MayFail /\ hit'[o]  BY <1>2, <1>4, FaultEffect
  <2>3. Always(o) => Excused(o)'  BY <1>1, <1>2, <2>2, NotCareful, HitExcuses DEF Always
  <2>4. QED  BY <1>1, <1>2, <1>4, <2>1, <2>2, <2>3, DoneReads
<1>5. CASE topups[o] \notin {"none", "pending"} /\ Settled(w) /\ UNCHANGED <<hit, faults>>
  <2> DEFINE strict == job[w].ev = "paid" /\ (Is(o, "waffo") \/ Is(o, "pancake"))
  <2>1. PICK a \in BOOLEAN : Done(w, a)
    <3>1. (strict => topups[o] = "success") \in BOOLEAN  BY Zenon
    <3>2. Done(w, strict => topups[o] = "success")  BY <1>5 DEF Settled
    <3>3. QED  BY <3>1, <3>2, Zenon
  <2>2. MayFail  BY <1>2, <1>5, NoFault
  <2>3. job[w].ev = "paid" => Excused(o)  BY <1>1, <1>2, <1>5, CompletedIsCredited
  <2>4. QED  BY <1>1, <1>2, <2>1, <2>2, <2>3, StillExcused, DoneReads
<1>6. ASSUME NEW l, topups[o] = "pending", Goto(w, l), UNCHANGED <<hit, faults>>,
             l = (IF job[w].ev = "manual" \/ (job[w].ev = "paid" /\ ~Is(o, "epay")) THEN "recharge" ELSE "save")
      PROVE  IInv'
  <2>1. l \in BodyPcs /\ l # "credit" /\ l # "lock"  BY <1>6 DEF BodyPcs
  <2>2. Moved(w, l) /\ job'[w].ack = job[w].ack  BY <1>2, <1>6, <2>1, GotoEffect DEF Pcs
  <2>3. ~kind[o].sub /\ grants[o] = 0  BY <1>2, <1>6 DEF SortOk, CreditOk
  <2>4. kind'[o] = kind[o] /\ (Is(o, "epay")' <=> Is(o, "epay"))  BY <1>1 DEF Outside, World, worldVars, Is
  <2>5. job[w].ev \in {"paid", "failed", "expired", "manual"}
    <3>1. job[w] \in JobType  BY <1>2, JobTypes
    <3>2. QED  BY <1>1, <1>2, <3>1 DEF JobType, EventOk, PathOk
  <2>6. PathOk(w)'  BY <1>2, <1>6, <2>2, <2>3, <2>4, <2>5 DEF PathOk, Moved
  <2>7. WithLock(w)'  BY <1>1, <1>2, <1>6, <2>2 DEF WithLock, Moved
  <2>8. QED  BY <1>1, <1>2, <1>6, <2>1, <2>2, <2>3, <2>6, <2>7, NoFault, MoveReads
<1>7. QED  BY <1>3, <1>4, <1>5, <1>6 DEF ReadTopUp

\* A transaction completes a top-up, while w alone has the order.
LEMMA CreditTopUpInv ==
  ASSUME SingleNode, IInv, NEW w \in Workers, NEW worth \in Nat, CreditTopUp(w, worth),
         ~(Is(job[w].o, "creem") /\ manual[job[w].o]) => worth = Sold(job[w].o)
  PROVE  IInv'
<1> PICK o : o = job[w].o  OBVIOUS
<1>1. job[w].pc = "recharge" /\ Outside /\ UNCHANGED subs
  BY DEF CreditTopUp, Outside, World
<1>2. /\ o \in Orders /\ TypeOK /\ EventOk(w) /\ PathOk(w) /\ SortOk(o) /\ CreditOk(o) /\ JobOk(w)
      /\ job[w].pc \in BodyPcs
  BY <1>1, AtWork DEF BodyPcs
<1>3. Crediting(w) /\ grants[o] = 0 /\ ~kind[o].sub  BY <1>1, <1>2 DEF Crediting, JobOk, PathOk
<1>b. TRUE \in BOOLEAN /\ FALSE \in BOOLEAN  OBVIOUS
<1>4. CASE /\ topups' = [topups EXCEPT ![o] = "success"] /\ grants' = [grants EXCEPT ![o] = @ + 1]
           /\ credited' = [credited EXCEPT ![o] = @ + worth] /\ Done(w, TRUE) /\ UNCHANGED <<hit, faults>>
  <2>1. Finished(w)  BY <1>2, <1>b, <1>4, DoneEffect
  <2>2. MayFail  BY <1>2, <1>4, NoFault
  <2>3. RowTypes  BY <1>1, <1>2, <1>4 DEF TypeOK, RowTypes, Statuses
  <2>4. topups'[o] = "success" /\ grants'[o] = 1 /\ credited'[o] = worth
    <3>1. credited[o] = 0  BY <1>2, <1>3 DEF CreditOk
    <3>2. QED  BY <1>2, <1>3, <1>4, <3>1 DEF TypeOK
  <2>5. Forward(o) /\ \A p \in Orders : p # o => SameRow(p)
    BY <1>1, <1>2, <1>3, <1>4, <2>2, <2>4, OnlyRowsOf DEF TypeOK
  <2>6. kind'[o] = kind[o] /\ phase'[o] = phase[o] /\ verdict'[o] = verdict[o] /\ manual'[o] = manual[o]
    BY <1>1 DEF Outside, World, worldVars
  <2>7. Excused(o)'  BY <2>4 DEF Excused
  <2>8. SortOk(o)'  BY <1>1, <1>2, <1>3, <2>4, <2>6 DEF SortOk, Row, EventOk
  <2>9. (Is(o, "creem")' <=> Is(o, "creem")) /\ Sold(o)' = Sold(o)  BY <2>6 DEF Is, Sold
  <2>10. CreditOk(o)'
    <3>1. subs'[o] = "none"  BY <1>1, <1>2, <1>3 DEF SortOk
    <3>2. ~(Is(o, "creem") /\ manual[o]) => worth = Sold(o)  OBVIOUS
    <3>3. QED  BY <1>3, <2>4, <2>6, <2>7, <2>9, <3>1, <3>2 DEF CreditOk
  <2>11. QED  BY <1>1, <1>2, <1>3, <2>1, <2>2, <2>3, <2>5, <2>7, <2>8, <2>10, FinishWrites DEF RowOk
<1>5. CASE Done(w, FALSE) /\ Fault(o) /\ UNCHANGED <<topups, grants, credited>>
  <2>1. MayFail /\ hit'[o]  BY <1>2, <1>5, FaultEffect
  <2>2. Always(o) => Excused(o)'  BY <1>1, <1>2, <2>1, NotCareful, HitExcuses DEF Always
  <2>3. UNCHANGED rowVars  BY <1>1, <1>5 DEF rowVars
  <2>4. QED  BY <1>1, <1>2, <1>b, <1>5, <2>1, <2>2, <2>3, DoneReads
<1>6. QED  BY <1>4, <1>5 DEF CreditTopUp

\* Every gateway credits what the order was sold for; the administrator takes Creem's quota for
\* units, but only in an order he was asked to complete.
LEMMA RechargesInv ==
  ASSUME SingleNode, IInv, NEW w \in Workers,
         \/ Recharge(w) \/ RechargeCreem(w) \/ RechargeWaffo(w) \/ RechargeWaffoPancake(w)
         \/ ManualCompleteTopUp(w)
  PROVE  IInv'
<1>1. QuotaPerUnit \in Nat /\ 1 \in Nat  BY PaymentAssumption
<1>2. CASE Recharge(w) \/ RechargeWaffo(w) \/ RechargeWaffoPancake(w)
  <2>1. CreditTopUp(w, QuotaPerUnit) /\ Sold(job[w].o) = QuotaPerUnit
    BY <1>2 DEF Recharge, RechargeWaffo, RechargeWaffoPancake, By, Sold, Is
  <2>2. QED  BY <1>1, <2>1, CreditTopUpInv
<1>3. CASE RechargeCreem(w)
  <2>1. CreditTopUp(w, 1) /\ Sold(job[w].o) = 1  BY <1>3 DEF RechargeCreem, By, Sold
  <2>2. QED  BY <1>1, <2>1, CreditTopUpInv
<1>4. CASE ManualCompleteTopUp(w)
  <2>1. CreditTopUp(w, QuotaPerUnit) /\ job[w].ev = "manual" /\ job[w].pc = "recharge"
    BY <1>4 DEF ManualCompleteTopUp, CreditTopUp
  <2>2. manual[job[w].o]  BY <2>1, AtWork DEF EventOk
  <2>3. ~Is(job[w].o, "creem") => Sold(job[w].o) = QuotaPerUnit  BY DEF Sold
  <2>4. QED  BY <1>1, <2>1, <2>2, <2>3, CreditTopUpInv
<1>5. QED  BY <1>2, <1>3, <1>4

\* EpayNotify saves the row and goes on to credit the user.
LEMMA EpaySaveInv ==
  ASSUME SingleNode, IInv, NEW w \in Workers, EpaySave(w)
  PROVE  IInv'
<1> PICK o : o = job[w].o  OBVIOUS
<1>1. /\ job[w].pc = "save" /\ job[w].ev = "paid" /\ Is(o, "epay") /\ Outside
      /\ UNCHANGED <<subs, grants, credited>>
  BY DEF EpaySave, By, Outside, World
<1>2. /\ o \in Orders /\ TypeOK /\ EventOk(w) /\ PathOk(w) /\ WithLock(w) /\ SortOk(o) /\ CreditOk(o) /\ JobOk(w)
      /\ job[w].pc \in BodyPcs
  BY <1>1, AtWork DEF BodyPcs
<1>3. Crediting(w) /\ grants[o] = 0 /\ ~kind[o].sub /\ ~Careful(o)
  BY <1>1, <1>2, NotCareful DEF Crediting, JobOk, PathOk
<1>4. CASE topups' = [topups EXCEPT ![o] = "success"] /\ Goto(w, "credit") /\ UNCHANGED <<hit, faults>>
  <2>1. Moved(w, "credit") /\ job'[w].ack = job[w].ack  BY <1>2, <1>4, GotoEffect DEF Pcs, BodyPcs
  <2>2. MayFail  BY <1>2, <1>4, NoFault
  <2>3. RowTypes  BY <1>1, <1>2, <1>4 DEF TypeOK, RowTypes, Statuses
  <2>4. topups'[o] = "success" /\ grants'[o] = 0  BY <1>1, <1>2, <1>3, <1>4 DEF TypeOK
  <2>5. Forward(o) /\ \A p \in Orders : p # o => SameRow(p)
    BY <1>1, <1>2, <1>4, <2>2, <2>4, OnlyRowsOf DEF TypeOK
  <2>6. kind'[o] = kind[o] /\ phase'[o] = phase[o] /\ verdict'[o] = verdict[o] /\ manual'[o] = manual[o] /\ owed'[o] = owed[o]
    BY <1>1 DEF Outside, World, worldVars
  <2>7. InCredit(o)'  BY <2>1 DEF InCredit, Moved
  <2>8. SortOk(o)'  BY <1>1, <1>2, <1>3, <2>4, <2>6 DEF SortOk, Row, EventOk
  <2>9. CreditOk(o)'
    <3>1. subs'[o] = "none" /\ credited'[o] = 0  BY <1>1, <1>2, <1>3 DEF SortOk, CreditOk
    <3>2. Excused(o) => Excused(o)'  BY <1>1, <1>4, CarefulStays, <1>2 DEF Excused
    <3>3. QED  BY <1>2, <1>3, <2>4, <2>6, <2>7, <3>1, <3>2 DEF CreditOk
  <2>10. PathOk(w)' /\ WithLock(w)'
    BY <1>1, <1>2, <1>3, <2>1, <2>4, <2>6 DEF PathOk, WithLock, Moved, Is
  <2>11. JobOk(w)'  BY <1>1, <1>2, <2>1, <2>4, <2>5, <2>10, MovedJob
  <2>12. TypeOK' /\ OnlyJobOf(w)  BY <1>1, <1>2, <2>1, <2>2, <2>3, TypeStep DEF Moved
  <2>13. \A p \in Orders : LockOk(p)'
    <3>1. job[w].pc \in BodyPcs \cup {"resolve"} /\ "credit" \in BodyPcs \cup {"lock"}  BY <1>2 DEF BodyPcs
    <3>2. UNCHANGED <<table, mutex>>  BY <1>1 DEF Outside, lockVars
    <3>3. QED  BY <1>1, <2>1, <3>1, <3>2, BodyKeepsLocks DEF IInv
  <2>14. QED
    BY <1>1, <1>2, <1>3, <2>1, <2>4, <2>5, <2>8, <2>9, <2>11, <2>12, <2>13, WorkerStep DEF RowOk, Moved
<1>5. CASE Done(w, TRUE) /\ Fault(o) /\ UNCHANGED topups
  <2>1. MayFail /\ hit'[o] /\ TRUE \in BOOLEAN  BY <1>2, <1>5, FaultEffect
  <2>2. Excused(o)'  BY <1>1, <1>2, <1>3, <2>1, HitExcuses
  <2>3. UNCHANGED rowVars  BY <1>1, <1>5 DEF rowVars
  <2>4. QED  BY <1>1, <1>2, <1>5, <2>1, <2>2, <2>3, DoneReads
<1>6. QED  BY <1>4, <1>5 DEF EpaySave

\* The second call of EpayNotify credits the user, or fails and is remembered.
LEMMA EpayCreditInv ==
  ASSUME SingleNode, IInv, NEW w \in Workers, EpayCredit(w)
  PROVE  IInv'
<1> PICK o : o = job[w].o  OBVIOUS
<1>1. /\ job[w].pc = "credit" /\ Done(w, TRUE) /\ Outside /\ UNCHANGED <<topups, subs>>
  BY DEF EpayCredit, Outside, World
<1>2. /\ o \in Orders /\ TypeOK /\ EventOk(w) /\ PathOk(w) /\ SortOk(o) /\ CreditOk(o) /\ JobOk(w) /\ RowOk(o)
      /\ job[w].pc \in BodyPcs
  BY <1>1, AtWork DEF BodyPcs
<1>3. /\ Crediting(w) /\ grants[o] = 0 /\ ~kind[o].sub /\ Is(o, "epay") /\ ~Careful(o)
      /\ job[w].ev = "paid" /\ topups[o] # "pending"
  BY <1>1, <1>2, NotCareful DEF Crediting, JobOk, PathOk
<1>4. Finished(w)
  <2>1. TRUE \in BOOLEAN  OBVIOUS
  <2>2. QED  BY <1>1, <1>2, <2>1, DoneEffect
<1>5. kind'[o] = kind[o] /\ phase'[o] = phase[o] /\ verdict'[o] = verdict[o] /\ manual'[o] = manual[o] /\ owed'[o] = owed[o]
  BY <1>1 DEF Outside, World, worldVars
<1>6. CASE /\ grants' = [grants EXCEPT ![o] = @ + 1] /\ credited' = [credited EXCEPT ![o] = @ + QuotaPerUnit]
           /\ UNCHANGED <<hit, faults>>
  <2>1. MayFail  BY <1>2, <1>6, NoFault
  <2>2. RowTypes  BY <1>1, <1>2, <1>6, PaymentAssumption DEF TypeOK, RowTypes
  <2>3. grants'[o] = 1 /\ credited'[o] = QuotaPerUnit
    <3>1. credited[o] = 0  BY <1>2, <1>3 DEF CreditOk
    <3>2. QED  BY <1>2, <1>3, <1>6, <3>1, PaymentAssumption DEF TypeOK
  <2>4. Forward(o) /\ \A p \in Orders : p # o => SameRow(p)
    BY <1>1, <1>2, <1>3, <1>6, <2>1, <2>3, OnlyRowsOf DEF TypeOK
  <2>5. Excused(o)'  BY <2>3 DEF Excused
  <2>6. SortOk(o)'  BY <1>1, <1>2, <1>3, <1>5 DEF SortOk, Row, EventOk
  <2>7. CreditOk(o)'
    <3>1. subs'[o] = "none" /\ topups'[o] # "pending"  BY <1>1, <1>2, <1>3 DEF SortOk
    <3>2. Sold(o)' = QuotaPerUnit  BY <1>3, <1>5 DEF Sold, Is
    <3>3. QED  BY <1>3, <1>5, <2>3, <2>5, <3>1, <3>2 DEF CreditOk
  <2>8. QED  BY <1>1, <1>2, <1>3, <1>4, <2>1, <2>2, <2>4, <2>5, <2>6, <2>7, FinishWrites DEF RowOk
<1>7. CASE Fault(o) /\ UNCHANGED <<grants, credited>>
  <2>1. MayFail /\ hit'[o]  BY <1>2, <1>7, FaultEffect
  <2>2. RowTypes  BY <1>1, <1>2, <1>7 DEF TypeOK, RowTypes
  <2>3. Forward(o) /\ \A p \in Orders : SameRow(p)
    BY <1>1, <1>2, <1>7, <2>1 DEF Forward, SameRow, Outside, World, worldVars, MayFail, TypeOK
  <2>4. RowOk(o)'  BY <1>2, <1>3, <2>1, <2>3, RowStays
  <2>5. Excused(o)'  BY <1>1, <1>2, <1>3, <2>1, HitExcuses
  <2>6. QED  BY <1>1, <1>2, <1>3, <1>4, <2>1, <2>2, <2>3, <2>4, <2>5, FinishWrites
<1>8. QED  BY <1>6, <1>7 DEF EpayCredit

\* A row is closed for a payment that was not made, with the lock or, by Waffo, without it.
LEMMA CloseTopUpInv ==
  ASSUME SingleNode, IInv, NEW w \in Workers, job[w].ev \in {"failed", "expired"}, CloseTopUp(w)
  PROVE  IInv'
<1> PICK o : o = job[w].o  OBVIOUS
<1>1. job[w].pc = "save" /\ Outside /\ UNCHANGED <<subs, grants, credited>> /\ Done(w, TRUE)
  BY DEF CloseTopUp, Outside, World
<1>2. /\ o \in Orders /\ TypeOK /\ EventOk(w) /\ PathOk(w) /\ SortOk(o) /\ CreditOk(o)
      /\ job[w].pc \in BodyPcs
  BY <1>1, AtWork DEF BodyPcs
<1>3. verdict[o] = job[w].ev /\ ~kind[o].sub /\ phase[o] # "new" /\ job[w].ev # "paid"
  BY <1>1, <1>2 DEF PathOk, EventOk
<1>b. TRUE \in BOOLEAN  OBVIOUS
<1>4. CASE topups' = [topups EXCEPT ![o] = job[w].ev] /\ UNCHANGED <<hit, faults>>
  <2>1. Finished(w)  BY <1>1, <1>2, <1>b, DoneEffect
  <2>2. MayFail  BY <1>2, <1>4, NoFault
  <2>3. RowTypes  BY <1>1, <1>2, <1>4 DEF TypeOK, RowTypes, Statuses
  <2>4. topups'[o] \in {"failed", "expired"}  BY <1>2, <1>4 DEF TypeOK
  <2>5. Forward(o) /\ \A p \in Orders : p # o => SameRow(p)
    BY <1>1, <1>2, <1>4, <2>2, <2>4, OnlyRowsOf DEF TypeOK
  <2>6. kind'[o] = kind[o] /\ phase'[o] = phase[o] /\ verdict'[o] = verdict[o] /\ manual'[o] = manual[o] /\ owed'[o] = owed[o]
    BY <1>1 DEF Outside, World, worldVars
  <2>7. SortOk(o)'  BY <1>1, <1>2, <1>3, <2>4, <2>6 DEF SortOk
  <2>8. Sold(o)' = Sold(o) /\ (Is(o, "creem")' <=> Is(o, "creem"))  BY <2>6 DEF Sold, Is
  <2>9. CreditOk(o)'  BY <1>1, <1>2, <1>3, <2>4, <2>6, <2>8 DEF CreditOk
  <2>10. QED  BY <1>1, <1>2, <1>3, <2>1, <2>2, <2>3, <2>5, <2>7, <2>9, FinishWrites DEF RowOk
<1>5. CASE Fault(o) /\ UNCHANGED topups
  <2>1. MayFail  BY <1>2, <1>5, FaultEffect
  <2>2. UNCHANGED rowVars  BY <1>1, <1>5 DEF rowVars
  <2>3. QED  BY <1>1, <1>2, <1>3, <1>b, <2>1, <2>2, DoneReads
<1>6. QED  BY <1>4, <1>5 DEF CloseTopUp

-----------------------------------------------------------------------------
(* The steps of the lock, and the answer                                   *)

\* What the steps of the lock leave alone.
Unwritten == UNCHANGED <<worldVars, owed, rowVars, manual, hit, extra, faults>>

\* Such a step keeps the invariant with the lock and with what its worker knows.
LEMMA LockStep ==
  ASSUME SingleNode, IInv, NEW w \in Workers, job[w].pc \notin {"idle", "credit"}, OnlyJobOf(w),
         job'[w].pc # "credit", Unwritten,
         mutex' \in [Orders -> [Workers -> MutexType]],
         table' \in [Nodes -> [Orders -> Workers \cup {None}]],
         \A p \in Orders : LockOk(p)', JobOk(w)'
  PROVE  IInv'
<1> PICK o : o = job[w].o  OBVIOUS
<1>1. o \in Orders /\ TypeOK  BY AtWork
<1>2. World /\ UNCHANGED <<rowVars, owed>> /\ \A p \in Orders : hit[p] => hit'[p]
  BY DEF Unwritten, World
<1>3. TypeOK'
  BY <1>1 DEF TypeOK, OnlyJobOf, JobType, MutexType, Unwritten, worldVars, rowVars
<1>4. QED  BY <1>1, <1>2, <1>3, ReadStep

\* A worker that moves on with the lock knows what it knew.
LEMMA LockMoves ==
  ASSUME SingleNode, IInv, NEW w \in Workers, job[w].pc # "idle", NEW l, Moved(w, l),
         job'[w].ack = job[w].ack, Unwritten, WithLock(w)', PathOk(w)', ~Crediting(w)'
  PROVE  JobOk(w)'
<1> PICK o : o = job[w].o  OBVIOUS
<1>1. o \in Orders /\ TypeOK /\ JobOk(w)  BY AtWork
<1>2. Forward(o)  BY <1>1 DEF Forward, Unwritten, worldVars, rowVars, TypeOK
<1>3. QED  BY <1>1, <1>2, MovedJob

\* LockOrder gives the handler a mutex.
LEMMA LockOrderInv ==
  ASSUME SingleNode, IInv, NEW w \in Workers, LockOrder(w)
  PROVE  IInv'
<1> PICK o : o = job[w].o  OBVIOUS
<1>1. job[w].pc = "lock" /\ Unwritten  BY DEF LockOrder, Unwritten
<1>2. o \in Orders /\ TypeOK /\ JobOk(w) /\ EventOk(w)  BY <1>1, AtWork
<1>3. /\ table' \in [Nodes -> [Orders -> Workers \cup {None}]]
      /\ mutex' \in [Orders -> [Workers -> MutexType]]
      /\ OnlyJobOf(w) /\ job'[w].pc = "wait" /\ job'[w].o = o /\ job'[w].ev = job[w].ev
      /\ job'[w].ack = job[w].ack /\ job'[w].mu # None
      /\ \A p \in Orders : LockOk(p)'
  BY <1>2, LockOrderLocks DEF IInv
<1>4. \A g : Is(o, g)' <=> Is(o, g)  BY <1>1 DEF Is, Unwritten, worldVars
<1>5. EventOk(w)'  BY <1>1, <1>2, <1>3, <1>4 DEF EventOk, Unwritten, worldVars
<1>6. WithLock(w)' /\ PathOk(w)' /\ ~Crediting(w)'  BY <1>3 DEF WithLock, PathOk, Crediting
<1>7. Excused(o) => Excused(o)'
  BY <1>1, <1>4 DEF Excused, Careful, Unwritten, worldVars, rowVars
<1>8. JobOk(w)'  BY <1>1, <1>2, <1>3, <1>5, <1>6, <1>7 DEF JobOk
<1>9. QED  BY <1>1, <1>3, <1>8, LockStep

\* A handler that has locked its order starts where its event is handled.
LEMMA MuLockInv ==
  ASSUME SingleNode, IInv, NEW w \in Workers, MuLock(w)
  PROVE  IInv'
<1> PICK o : o = job[w].o  OBVIOUS
<1> PICK l : l = Body(o, job[w].ev)  OBVIOUS
<1>1. job[w].pc = "wait" /\ Unwritten /\ UNCHANGED table  BY DEF MuLock, Unwritten
<1>2. o \in Orders /\ TypeOK /\ JobOk(w) /\ EventOk(w) /\ WithLock(w)  BY <1>1, AtWork
<1>3. /\ mutex' \in [Orders -> [Workers -> MutexType]]
      /\ Moved(w, l) /\ job'[w].ack = job[w].ack /\ job[w].mu # None
      /\ \A p \in Orders : LockOk(p)'
  BY <1>2, MuLockLocks DEF IInv
<1>4. kind'[o] = kind[o] /\ \A g : Is(o, g)' <=> Is(o, g)  BY <1>1 DEF Is, Unwritten, worldVars
<1>5. l \in {"sub", "topup"}
  BY DEF Body
<1>6. WithLock(w)' /\ ~Crediting(w)'  BY <1>3, <1>5 DEF WithLock, Crediting, Moved
<1>7. PathOk(w)'
  <2>1. CASE l = "sub"
    <3>1. /\ job[w].ev \in {"paid", "return", "expired"}
          /\ kind[o].sub \/ Is(o, "stripe") \/ Is(o, "creem")
      BY <2>1 DEF Body
    <3>2. QED  BY <1>3, <1>4, <2>1, <3>1 DEF PathOk, Moved
  <2>2. CASE l = "topup"
    <3>1. job[w].ev # "return" /\ ~(kind[o].sub /\ job[w].ev = "paid")
      BY <1>2, <2>2 DEF Body, EventOk
    <3>2. QED  BY <1>3, <1>4, <2>2, <3>1 DEF PathOk, Moved
  <2>3. QED  BY <1>5, <2>1, <2>2
<1>8. JobOk(w)'  BY <1>1, <1>3, <1>6, <1>7, LockMoves
<1>9. table' \in [Nodes -> [Orders -> Workers \cup {None}]]  BY <1>1, <1>2 DEF TypeOK
<1>10. QED  BY <1>1, <1>3, <1>5, <1>8, <1>9, LockStep DEF Moved

\* The mutex is let go ...
LEMMA UnlockOrderInv ==
  ASSUME SingleNode, IInv, NEW w \in Workers, UnlockOrder(w)
  PROVE  IInv'
<1>1. job[w].pc = "unlock" /\ Unwritten /\ UNCHANGED table  BY DEF UnlockOrder, Unwritten
<1>2. job[w].o \in Orders /\ TypeOK /\ WithLock(w)  BY <1>1, AtWork
<1>3. /\ mutex' \in [Orders -> [Workers -> MutexType]]
      /\ Moved(w, "unref") /\ job'[w].ack = job[w].ack
      /\ \A p \in Orders : LockOk(p)'
  BY <1>2, UnlockOrderLocks DEF IInv
<1>4. job[w].mu # None  BY <1>1, <1>2 DEF WithLock
<1>5. WithLock(w)' /\ PathOk(w)' /\ ~Crediting(w)'
  BY <1>3, <1>4 DEF WithLock, PathOk, Crediting, Moved
<1>6. JobOk(w)'  BY <1>1, <1>3, <1>5, LockMoves
<1>7. table' \in [Nodes -> [Orders -> Workers \cup {None}]]  BY <1>1, <1>2 DEF TypeOK
<1>8. QED  BY <1>1, <1>3, <1>6, <1>7, LockStep DEF Moved

\* ... and then no longer counted.
LEMMA UnrefInv ==
  ASSUME SingleNode, IInv, NEW w \in Workers, Unref(w)
  PROVE  IInv'
<1>1. job[w].pc = "unref" /\ Unwritten  BY DEF Unref, Unwritten
<1>2. job[w].o \in Orders /\ TypeOK /\ WithLock(w)  BY <1>1, AtWork
<1>3. /\ mutex' \in [Orders -> [Workers -> MutexType]]
      /\ table' \in [Nodes -> [Orders -> Workers \cup {None}]]
      /\ Moved(w, "reply") /\ job'[w].ack = job[w].ack
      /\ \A p \in Orders : LockOk(p)'
  BY <1>2, UnrefLocks DEF IInv
<1>4. WithLock(w)' /\ PathOk(w)' /\ ~Crediting(w)'
  BY <1>3 DEF WithLock, PathOk, Crediting, Moved
<1>5. JobOk(w)'  BY <1>1, <1>3, <1>4, LockMoves
<1>6. QED  BY <1>1, <1>3, <1>5, LockStep DEF Moved

\* The gateway is told to stop calling by a handler that has an excuse.
LEMMA ReplyInv ==
  ASSUME SingleNode, IInv, NEW w \in Workers, Reply(w)
  PROVE  IInv'
<1> PICK o : o = job[w].o  OBVIOUS
<1>1. /\ job[w].pc = "reply" /\ SetJob(w, Idle)
      /\ UNCHANGED <<worldVars, rowVars, manual, hit, lockVars, extra, faults>>
  BY DEF Reply
<1>2. o \in Orders /\ TypeOK /\ JobOk(w) /\ RowOk(o)  BY <1>1, AtWork
<1>3. OnlyJobOf(w) /\ job'[w] = Idle  BY <1>1, <1>2, IdleType, SetJobEffect
<1> DEFINE b == owed[o] /\ ~(job[w].ack /\ job[w].ev = verdict[o])
<1>4. owed' = [owed EXCEPT ![o] = b]  BY DEF Reply
<1>5. owed' \in [Orders -> BOOLEAN] /\ (\A p \in Orders : p # o => owed'[p] = owed[p]) /\ (owed'[o] <=> b)
  <2>1. b \in BOOLEAN /\ owed \in [Orders -> BOOLEAN]  BY <1>2, Zenon DEF TypeOK
  <2> HIDE DEF b
  <2>2. QED  BY <1>2, <1>4, <2>1, Zenon
<1>6. TypeOK'
  BY <1>1, <1>2, <1>3, <1>5 DEF TypeOK, OnlyJobOf, JobType, worldVars, rowVars, lockVars
<1>7. JobOk(w)'  BY <1>3, IdleType DEF JobOk
<1>8. ASSUME NEW p \in Orders  PROVE LockOk(p)'
  <2>1. SameUse(w, p)
    BY <1>1, <1>3, IdleType, NoMutexNoUse DEF UserPcs, HoldPcs, BodyPcs
  <2>2. \A v \in Workers : SameUse(v, p)  BY <1>3, <2>1, SameJobSameUse DEF OnlyJobOf
  <2>3. QED  BY <1>1, <2>2, LockStays DEF lockVars, IInv
<1>9. (\A p \in Orders : p # o => SameRow(p)) /\ Forward(o) /\ grants'[o] = grants[o]
  BY <1>1, <1>2, <1>5 DEF SameRow, Forward, worldVars, rowVars, TypeOK
<1>10. \A g : Is(o, g)' <=> Is(o, g)  BY <1>1 DEF Is, worldVars
<1>11. SortOk(o)'
  BY <1>1, <1>2, <1>10 DEF RowOk, SortOk, Untouched, Row, worldVars, rowVars
<1>12. CreditOk(o)'
  <2>1. Sold(o)' = Sold(o)  BY <1>10 DEF Sold
  <2>2. Excused(o) => Excused(o)'
    BY <1>1, <1>10 DEF Excused, Careful, worldVars, rowVars
  <2>3. InCredit(o) => InCredit(o)'  BY <1>1, <1>3 DEF InCredit, OnlyJobOf
  <2>4. verdict[o] = "paid" /\ ~owed'[o] => Excused(o)
    <3>1. job[w].ack /\ job[w].ev = "paid" => Excused(o)  BY <1>1, <1>2 DEF JobOk
    <3>2. verdict[o] = "paid" /\ ~owed[o] => Excused(o)  BY <1>2 DEF RowOk, CreditOk
    <3>3. QED  BY <1>5, <3>1, <3>2
  <2>5. QED
    BY <1>1, <1>2, <1>10, <2>1, <2>2, <2>3, <2>4 DEF RowOk, CreditOk, worldVars, rowVars
<1>13. job'[w].pc # "credit" /\ job[w].pc # "idle"  BY <1>1, <1>3, IdleType
<1>14. QED
  BY <1>2, <1>3, <1>6, <1>7, <1>8, <1>9, <1>11, <1>12, <1>13, WorkerStep DEF RowOk

\* Every step of a handler keeps the invariant.
LEMMA StepInv ==
  ASSUME SingleNode, IInv, NEW w \in Workers, Step(w)
  PROVE  IInv'
<1>1. CASE SessionAsyncPaymentFailed(w) \/ UpdatePendingTopUpStatus(w)
  BY <1>1, CloseTopUpInv DEF SessionAsyncPaymentFailed, UpdatePendingTopUpStatus
<1>2. CASE \/ Recharge(w) \/ RechargeCreem(w) \/ RechargeWaffo(w) \/ RechargeWaffoPancake(w)
           \/ ManualCompleteTopUp(w)
  BY <1>2, RechargesInv
<1>3. CASE LockOrder(w) \/ MuLock(w) \/ UnlockOrder(w) \/ Unref(w) \/ Reply(w)
  BY <1>3, LockOrderInv, MuLockInv, UnlockOrderInv, UnrefInv, ReplyInv
<1>4. CASE Resolve(w) \/ ReadSubscriptionOrder(w) \/ GrantSubscription(w)
           \/ ExpireSubscriptionOrder(w)
  BY <1>4, ResolveInv, ReadSubscriptionOrderInv, GrantSubscriptionInv, ExpireSubscriptionOrderInv
<1>5. CASE ReadTopUp(w) \/ EpaySave(w) \/ EpayCredit(w)
  BY <1>5, ReadTopUpInv, EpaySaveInv, EpayCreditInv
<1>6. QED  BY <1>1, <1>2, <1>3, <1>4, <1>5 DEF Step

-----------------------------------------------------------------------------
(* Requests, the gateway, and crashes                                      *)

\* A step outside the handlers concerns one order; nobody works on an order that has no row.
LEMMA EnvStep ==
  ASSUME SingleNode, IInv, NEW o \in Orders, UNCHANGED <<lockVars, job>>, TypeOK',
         \A p \in Orders : p # o => SameRow(p),
         phase[o] = "new" \/ Forward(o), grants'[o] = grants[o], RowOk(o)'
  PROVE  IInv'
<1>1. ASSUME NEW v \in Workers  PROVE JobOk(v)'
  <2>1. JobOk(v) /\ TypeOK /\ job'[v] = job[v]  BY DEF IInv
  <2>2. ASSUME job[v].pc # "idle"  PROVE Forward(job[v].o) /\ grants'[job[v].o] = grants[job[v].o]
    <3>1. job[v].o \in Orders /\ phase[job[v].o] # "new"  BY <2>1, <2>2 DEF JobOk, EventOk
    <3>2. CASE job[v].o = o  BY <3>1, <3>2
    <3>3. CASE job[v].o # o
      <4>1. SameRow(job[v].o) /\ grants[job[v].o] \in Nat  BY <2>1, <3>1, <3>3 DEF TypeOK
      <4>2. QED  BY <4>1 DEF SameRow, Forward
    <3>4. QED  BY <3>2, <3>3
  <2>3. Crediting(v) => job[v].pc # "idle"  BY DEF Crediting
  <2>4. QED  BY <2>1, <2>2, <2>3, OtherJob
<1>2. ASSUME NEW p \in Orders  PROVE LockOk(p)'
  <2>1. \A v \in Workers : SameUse(v, p)  BY SameJobSameUse
  <2>2. QED  BY <2>1, LockStays DEF lockVars, IInv
<1>3. ASSUME NEW p \in Orders, p # o  PROVE RowOk(p)'
  <2>1. InCredit(p) => InCredit(p)'  BY DEF InCredit
  <2>2. QED  BY <1>3, <2>1, RowStays DEF IInv
<1>4. QED  BY <1>1, <1>2, <1>3 DEF IInv

\* A request inserts the row of its order.
LEMMA RequestInv ==
  ASSUME SingleNode, IInv, NEW o \in Orders, NEW g, NEW sub, NEW next \in {"inserted", "open"},
         Request(o, g, sub, next)
  PROVE  IInv'
<1>1. /\ phase[o] = "new" /\ phase' = [phase EXCEPT ![o] = next] /\ Insert(o)
      /\ UNCHANGED <<kind, verdict, full, owed, grants, credited, manual, hit, lockVars, job, extra, faults>>
  BY DEF Request
<1>2. TypeOK /\ Untouched(o)  BY <1>1 DEF IInv, RowOk, SortOk
<1>3. /\ topups' \in [Orders -> Statuses] /\ subs' \in [Orders -> Statuses]
      /\ \A p \in Orders : p # o => topups'[p] = topups[p] /\ subs'[p] = subs[p]
      /\ IF kind[o].sub THEN subs'[o] = "pending" /\ topups'[o] = "none"
         ELSE topups'[o] = "pending" /\ subs'[o] = "none"
  BY <1>1, <1>2 DEF Insert, TypeOK, Statuses, Untouched
<1>4. phase' \in [Orders -> {"new", "inserted", "open", "closed"}] /\ phase'[o] = next
      /\ \A p \in Orders : p # o => phase'[p] = phase[p]
  BY <1>1, <1>2 DEF TypeOK
<1>5. TypeOK'  BY <1>1, <1>2, <1>3, <1>4 DEF TypeOK, lockVars
<1>6. \A p \in Orders : p # o => SameRow(p)  BY <1>1, <1>3, <1>4 DEF SameRow
<1>7. SortOk(o)'  BY <1>1, <1>2, <1>3, <1>4 DEF SortOk, Row, Untouched
<1>8. CreditOk(o)'  BY <1>1, <1>2, <1>3 DEF CreditOk, Untouched
<1>9. QED  BY <1>1, <1>5, <1>6, <1>7, <1>8, EnvStep DEF RowOk

\* The payment link is made, ...
LEMMA LinkCreatedInv ==
  ASSUME SingleNode, IInv, NEW o \in Orders, LinkCreated(o)
  PROVE  IInv'
<1>1. /\ phase[o] = "inserted" /\ phase' = [phase EXCEPT ![o] = "open"]
      /\ UNCHANGED <<kind, verdict, full, owed, rowVars, manual, hit, lockVars, job, extra, faults>>
  BY DEF LinkCreated
<1>2. TypeOK /\ SortOk(o) /\ CreditOk(o)  BY DEF IInv, RowOk
<1>3. phase' \in [Orders -> {"new", "inserted", "open", "closed"}] /\ phase'[o] = "open"
      /\ \A p \in Orders : p # o => phase'[p] = phase[p]
  BY <1>1, <1>2 DEF TypeOK
<1>4. TypeOK'  BY <1>1, <1>2, <1>3 DEF TypeOK, lockVars, rowVars
<1>5. (\A p \in Orders : p # o => SameRow(p)) /\ Forward(o) /\ grants'[o] = grants[o]
  BY <1>1, <1>3 DEF SameRow, Forward, rowVars
<1>6. SortOk(o)'  BY <1>1, <1>2, <1>3 DEF SortOk, Row, rowVars
<1>7. \A g : Is(o, g)' <=> Is(o, g)  BY <1>1 DEF Is
<1>8. CreditOk(o)'
  BY <1>1, <1>2, <1>7 DEF CreditOk, Excused, Careful, InCredit, Sold, rowVars
<1>9. QED  BY <1>1, <1>4, <1>5, <1>6, <1>8, EnvStep DEF RowOk

\* ... or not, and the row is closed: nobody can have paid.
LEMMA LinkFailedInv ==
  ASSUME SingleNode, IInv, NEW o \in Orders, LinkFailed(o)
  PROVE  IInv'
<1>1. /\ phase[o] = "inserted" /\ phase' = [phase EXCEPT ![o] = "closed"]
      /\ UNCHANGED <<kind, verdict, full, owed, grants, credited, manual, hit, lockVars, job, extra, faults>>
  BY DEF LinkFailed
<1>2. TypeOK /\ SortOk(o) /\ CreditOk(o) /\ verdict[o] = "open"  BY <1>1 DEF IInv, RowOk, SortOk
<1>3. /\ topups' \in [Orders -> Statuses]
      /\ \A p \in Orders : p # o => topups'[p] = topups[p]
      /\ topups'[o] = topups[o] \/ (topups'[o] = "failed" /\ ~kind[o].sub)
  BY <1>2 DEF LinkFailed, TypeOK, Statuses
<1>4. /\ subs' \in [Orders -> Statuses]
      /\ \A p \in Orders : p # o => subs'[p] = subs[p]
      /\ subs'[o] = subs[o] \/ (subs'[o] \in {"failed", "expired"} /\ kind[o].sub)
  <2>1. \/ subs' = subs
        \/ kind[o].sub /\ subs' = [subs EXCEPT ![o] = "failed"]
        \/ kind[o].sub /\ subs' = [subs EXCEPT ![o] = "expired"]
    BY DEF LinkFailed
  <2>2. QED  BY <1>2, <2>1 DEF TypeOK, Statuses
<1>5. phase' \in [Orders -> {"new", "inserted", "open", "closed"}] /\ phase'[o] = "closed"
      /\ \A p \in Orders : p # o => phase'[p] = phase[p]
  BY <1>1, <1>2 DEF TypeOK
<1>6. TypeOK'  BY <1>1, <1>2, <1>3, <1>4, <1>5 DEF TypeOK, lockVars
<1>7. (\A p \in Orders : p # o => SameRow(p)) /\ Forward(o)
  BY <1>1, <1>3, <1>4, <1>5 DEF SameRow, Forward
<1>8. SortOk(o)'  BY <1>1, <1>2, <1>3, <1>4, <1>5 DEF SortOk
<1>9. (\A g : Is(o, g)' <=> Is(o, g)) /\ (InCredit(o) => InCredit(o)')
  BY <1>1 DEF Is, InCredit
<1>10. CreditOk(o)'
  BY <1>1, <1>2, <1>3, <1>4, <1>9 DEF CreditOk, Sold
<1>11. QED  BY <1>1, <1>6, <1>7, <1>8, <1>10, EnvStep DEF RowOk

\* The gateway decides about a payment that the user could make.
LEMMA DecideInv ==
  ASSUME SingleNode, IInv, NEW o \in Orders, Decide(o)
  PROVE  IInv'
<1>1. /\ phase[o] = "open" /\ verdict[o] = "open" /\ owed' = [owed EXCEPT ![o] = TRUE]
      /\ UNCHANGED <<kind, phase, full, rowVars, manual, hit, lockVars, job, extra, faults>>
  BY DEF Decide
<1>2. PICK v \in {"paid", "failed", "expired"} : verdict' = [verdict EXCEPT ![o] = v]
  BY DEF Decide, Verdicts
<1>3. TypeOK /\ SortOk(o) /\ CreditOk(o)  BY DEF IInv, RowOk
<1>4. /\ verdict' \in [Orders -> {"open", "paid", "failed", "expired"}] /\ verdict'[o] = v
      /\ \A p \in Orders : p # o => verdict'[p] = verdict[p]
  BY <1>2, <1>3 DEF TypeOK
<1>5. owed' \in [Orders -> BOOLEAN] /\ owed'[o] /\ \A p \in Orders : p # o => owed'[p] = owed[p]
  <2>1. owed \in [Orders -> BOOLEAN]  BY <1>3 DEF TypeOK
  <2>2. QED  BY <1>1, <2>1, Zenon
<1>6. TypeOK'  BY <1>1, <1>3, <1>4, <1>5 DEF TypeOK, lockVars, rowVars
<1>7. (\A p \in Orders : p # o => SameRow(p)) /\ Forward(o) /\ grants'[o] = grants[o]
  BY <1>1, <1>4, <1>5 DEF SameRow, Forward, rowVars
<1>8. SortOk(o)'  BY <1>1, <1>3, <1>4 DEF SortOk, Row, rowVars
<1>9. (\A g : Is(o, g)' <=> Is(o, g)) /\ (InCredit(o) => InCredit(o)')
  BY <1>1 DEF Is, InCredit
<1>10. CreditOk(o)'  BY <1>1, <1>3, <1>5, <1>9 DEF CreditOk, Sold, rowVars
<1>11. QED  BY <1>1, <1>6, <1>7, <1>8, <1>10, EnvStep DEF RowOk

\* The plan can no longer be bought: no row depends on it.
LEMMA PlanFillsInv ==
  ASSUME SingleNode, IInv, PlanFills
  PROVE  IInv'
<1>1. /\ full' = TRUE
      /\ UNCHANGED <<kind, phase, verdict, owed, rowVars, manual, hit, lockVars, job, extra, faults>>
  BY DEF PlanFills
<1>2. PICK o \in Orders : TRUE  BY DEF PlanFills
<1>3. TypeOK /\ RowOk(o)  BY DEF IInv
<1>4. full' \in BOOLEAN  BY <1>1
<1>5. TypeOK'  BY <1>1, <1>3, <1>4 DEF TypeOK, lockVars, rowVars
<1>6. (\A p \in Orders : SameRow(p)) /\ Forward(o) /\ grants'[o] = grants[o]
  BY <1>1 DEF SameRow, Forward, rowVars
<1>7. InCredit(o) => InCredit(o)'  BY <1>1 DEF InCredit
<1>8. RowOk(o)'  BY <1>3, <1>6, <1>7, RowStays
<1>9. QED  BY <1>1, <1>5, <1>6, <1>8, EnvStep

\* The job of a handler that starts.
NewJob(o, ev, first) == [Idle EXCEPT !.pc = first, !.o = o, !.ev = ev]

\* It has no mutex and has not answered.
LEMMA StartedJob ==
  ASSUME NEW o \in Orders, NEW ev \in {"paid", "return", "failed", "expired", "manual"},
         NEW first \in {"lock", "resolve", "topup"}
  PROVE  LET j == NewJob(o, ev, first)
         IN  j \in JobType /\ j.pc = first /\ j.o = o /\ j.ev = ev /\ j.mu = None /\ ~j.ack
<1>a. PICK j : j = NewJob(o, ev, first)  OBVIOUS
<1>1. PICK i \in JobType : i = Idle  BY IdleType
<1>2. j = [i EXCEPT !.pc = first, !.o = o, !.ev = ev]  BY <1>a, <1>1 DEF NewJob
<1>3. j \in JobType  BY <1>2 DEF JobType
<1>4. j.pc = first /\ j.o = o /\ j.ev = ev /\ j.mu = i.mu /\ j.ack = i.ack  BY <1>2 DEF JobType
<1>5. QED  BY <1>a, <1>1, <1>3, <1>4, IdleType

\* The event a handler is started for has happened (manual' as the step may be the approval).
Happened(o, ev) ==
  /\ phase[o] # "new"
  /\ ev \in {"paid", "failed", "expired"} => verdict[o] = ev
  /\ ev = "return" => verdict[o] = "paid" /\ kind[o].sub /\ Is(o, "epay")
  /\ ev = "manual" => manual'[o]

\* A handler starts for an event that has happened; an approval is noted in the same step.
LEMMA StartStep ==
  ASSUME SingleNode, IInv, NEW w \in Workers, NEW o \in Orders,
         NEW ev \in {"paid", "return", "failed", "expired", "manual"}, NEW first,
         \/ first = "lock"
         \/ first = "resolve" /\ Is(o, "pancake")
         \/ first = "topup" /\ ev \in {"failed", "expired"},
         Start(w, o, ev, first), Happened(o, ev),
         UNCHANGED <<worldVars, owed, rowVars, hit, lockVars, faults>>,
         extra' \in 0 .. MaxExtra, manual' \in [Orders -> BOOLEAN],
         \A p \in Orders : p # o => manual'[p] = manual[p], manual[o] => manual'[o]
  PROVE  IInv'
<1> PICK j : j = NewJob(o, ev, first)  OBVIOUS
<1>1. job[w].pc = "idle" /\ SetJob(w, j) /\ TypeOK  BY DEF Start, NewJob, IInv
<1>2. j \in JobType /\ j.pc = first /\ j.o = o /\ j.ev = ev /\ j.mu = None /\ ~j.ack
  <2>1. first \in {"lock", "resolve", "topup"}  OBVIOUS
  <2>2. QED  BY <2>1, StartedJob
<1>3. OnlyJobOf(w) /\ job'[w] = j  BY <1>1, <1>2, SetJobEffect
<1>4. TypeOK'
  BY <1>1, <1>3 DEF TypeOK, OnlyJobOf, JobType, worldVars, rowVars, lockVars
<1>5. \A g : Is(o, g)' <=> Is(o, g)  BY DEF Is, worldVars
<1>6. JobOk(w)'
  <2>1. EventOk(w)'  BY <1>2, <1>3, <1>5 DEF EventOk, Happened, worldVars
  <2>2. WithLock(w)' /\ ~Crediting(w)'  BY <1>2, <1>3 DEF WithLock, Crediting
  <2>3. PathOk(w)'  BY <1>2, <1>3, <1>5 DEF PathOk
  <2>4. QED  BY <1>2, <1>3, <2>1, <2>2, <2>3 DEF JobOk
<1>7. \A p \in Orders : Forward(p) /\ grants'[p] = grants[p]
  BY <1>1 DEF Forward, worldVars, rowVars
<1>8. ASSUME NEW v \in Workers, v # w  PROVE JobOk(v)'
  <2>1. JobOk(v) /\ job'[v] = job[v]  BY <1>3, <1>8 DEF IInv, OnlyJobOf
  <2>2. job[v].pc # "idle" => job[v].o \in Orders  BY <2>1 DEF JobOk
  <2>3. Crediting(v) => job[v].pc # "idle"  BY DEF Crediting
  <2>4. QED  BY <1>1, <1>7, <2>1, <2>2, <2>3, OtherJob
<1>9. ASSUME NEW p \in Orders  PROVE LockOk(p)'
  <2>1. SameUse(w, p)
    BY <1>1, <1>2, <1>3, NoMutexNoUse DEF UserPcs, HoldPcs, BodyPcs
  <2>2. \A v \in Workers : SameUse(v, p)  BY <1>3, <2>1, SameJobSameUse DEF OnlyJobOf
  <2>3. QED  BY <2>2, LockStays DEF lockVars, IInv
<1>10. \A p \in Orders : InCredit(p) => InCredit(p)'  BY <1>1, <1>3 DEF InCredit, OnlyJobOf
<1>11. ASSUME NEW p \in Orders, p # o  PROVE RowOk(p)'
  <2>1. SameRow(p)  BY <1>11 DEF SameRow, worldVars, rowVars
  <2>2. QED  BY <1>10, <2>1, RowStays DEF IInv
<1>12. RowOk(o)'
  <2>1. SortOk(o) /\ CreditOk(o) /\ phase[o] # "new"  BY DEF IInv, RowOk, Happened
  <2>2. SortOk(o)'  BY <2>1 DEF SortOk, Row, worldVars, rowVars
  <2>3. CreditOk(o)'
    BY <1>5, <1>10, <2>1 DEF CreditOk, Excused, Careful, Sold, worldVars, rowVars
  <2>4. QED  BY <2>2, <2>3 DEF RowOk
<1>13. QED  BY <1>4, <1>6, <1>8, <1>9, <1>11, <1>12 DEF IInv

\* A callback comes about a payment that was decided.
LEMMA CallbackInv ==
  ASSUME SingleNode, IInv, NEW w \in Workers, NEW o \in Orders, NEW first,
         \/ first = "lock"
         \/ first = "resolve" /\ Is(o, "pancake")
         \/ first = "topup" /\ verdict[o] \in {"failed", "expired"},
         Callback(w, o, first)
  PROVE  IInv'
<1>1. /\ verdict[o] # "open" /\ Start(w, o, verdict[o], first)
      /\ UNCHANGED <<worldVars, owed, rowVars, manual, hit, lockVars, faults>>
  BY DEF Callback
<1>2. TypeOK /\ SortOk(o)  BY DEF IInv, RowOk
<1>3. verdict[o] \in {"paid", "failed", "expired"}  BY <1>1, <1>2 DEF TypeOK
<1>4. Happened(o, verdict[o])  BY <1>1, <1>2, <1>3 DEF Happened, SortOk
<1>5. extra' \in 0 .. MaxExtra
  <2>1. extra' = extra \/ Extra  BY DEF Callback
  <2>2. QED  BY <1>2, <2>1, PaymentAssumption DEF Extra, TypeOK
<1>6. manual' = manual /\ manual \in [Orders -> BOOLEAN]  BY <1>1, <1>2 DEF TypeOK
<1>7. QED  BY <1>1, <1>3, <1>4, <1>5, <1>6, StartStep

\* Every gateway's callback starts where its handler does.
LEMMA DeliverInv ==
  ASSUME SingleNode, IInv, NEW w \in Workers, NEW o \in Orders, Deliver(w, o)
  PROVE  IInv'
<1>1. CASE \/ EpayNotify(w, o) \/ SubscriptionEpayNotify(w, o) \/ StripeWebhook(w, o)
           \/ CreemWebhook(w, o)
  <2>1. Callback(w, o, "lock")
    BY <1>1 DEF EpayNotify, SubscriptionEpayNotify, StripeWebhook, CreemWebhook
  <2>2. QED  BY <2>1, CallbackInv
<1>2. CASE WaffoWebhook(w, o)
  <2>1. CASE verdict[o] = "paid"
    <3>1. Callback(w, o, "lock")  BY <1>2, <2>1 DEF WaffoWebhook
    <3>2. QED  BY <3>1, CallbackInv
  <2>2. CASE verdict[o] # "paid"
    <3>1. Callback(w, o, "topup")  BY <1>2, <2>2 DEF WaffoWebhook
    <3>2. verdict[o] \in {"failed", "expired"}  BY <2>2, <3>1 DEF Callback, IInv, TypeOK
    <3>3. QED  BY <3>1, <3>2, CallbackInv
  <2>3. QED  BY <2>1, <2>2
<1>3. CASE WaffoPancakeWebhook(w, o)
  <2>1. Callback(w, o, "resolve") /\ Is(o, "pancake")  BY <1>3 DEF WaffoPancakeWebhook
  <2>2. QED  BY <2>1, CallbackInv
<1>4. QED  BY <1>1, <1>2, <1>3 DEF Deliver

\* The user comes back from a payment of his.
LEMMA ReturnInv ==
  ASSUME SingleNode, IInv, NEW w \in Workers, NEW o \in Orders, SubscriptionEpayReturn(w, o)
  PROVE  IInv'
<1>1. /\ verdict[o] = "paid" /\ Is(o, "epay") /\ kind[o].sub /\ Start(w, o, "return", "lock") /\ Extra
      /\ UNCHANGED <<worldVars, owed, rowVars, manual, hit, lockVars, faults>>
  BY DEF SubscriptionEpayReturn
<1>2. TypeOK /\ SortOk(o)  BY DEF IInv, RowOk
<1>3. Happened(o, "return")  BY <1>1, <1>2 DEF Happened, SortOk
<1>4. extra' \in 0 .. MaxExtra  BY <1>1, <1>2, PaymentAssumption DEF Extra, TypeOK
<1>5. manual' = manual /\ manual \in [Orders -> BOOLEAN]  BY <1>1, <1>2 DEF TypeOK
<1>6. QED  BY <1>1, <1>3, <1>4, <1>5, StartStep

\* An administrator completes an order whose row he sees.
LEMMA AdminInv ==
  ASSUME SingleNode, IInv, NEW w \in Workers, NEW o \in Orders, AdminCompleteTopUp(w, o)
  PROVE  IInv'
<1>1. /\ topups[o] # "none" /\ Start(w, o, "manual", "lock") /\ Extra
      /\ manual' = [manual EXCEPT ![o] = TRUE]
      /\ UNCHANGED <<worldVars, owed, rowVars, hit, lockVars, faults>>
  BY DEF AdminCompleteTopUp
<1>2. TypeOK /\ SortOk(o)  BY DEF IInv, RowOk
<1>3. /\ manual' \in [Orders -> BOOLEAN] /\ manual'[o]
      /\ \A p \in Orders : p # o => manual'[p] = manual[p]
  <2>1. manual \in [Orders -> BOOLEAN]  BY <1>2 DEF TypeOK
  <2>2. QED  BY <1>1, <2>1, Zenon
<1>4. phase[o] # "new"  BY <1>1, <1>2 DEF SortOk, Untouched
<1>5. Happened(o, "manual")  BY <1>3, <1>4 DEF Happened
<1>6. extra' \in 0 .. MaxExtra  BY <1>1, <1>2, PaymentAssumption DEF Extra, TypeOK
<1>7. QED  BY <1>1, <1>3, <1>5, <1>6, StartStep

\* A crash forgets the handlers and their locks; the credit it loses is remembered as a failure.
LEMMA CrashInv ==
  ASSUME SingleNode, IInv, NEW n \in Nodes, Crash(n)
  PROVE  IInv'
<1>1. /\ mutex' \in [Orders -> [Workers -> MutexType]]
      /\ table' \in [Nodes -> [Orders -> Workers \cup {None}]]
      /\ job' = [w \in Workers |-> Idle]
      /\ \A p \in Orders : LockOk(p)'
  BY CrashLocks DEF IInv
<1>2. /\ faults < MaxFaults /\ faults' = faults + 1
      /\ UNCHANGED <<worldVars, owed, rowVars, manual, extra>>
  BY DEF Crash
<1>3. \A w \in Workers : NodeOf[w] = n  BY PaymentAssumption DEF SingleNode
<1>4. /\ hit' \in [Orders -> BOOLEAN]
      /\ \A p \in Orders : hit'[p] <=> hit[p] \/ InCredit(p)
  <2> DEFINE lost(p) == \E w \in {v \in Workers : NodeOf[v] = n} : job[w].o = p /\ job[w].pc = "credit"
  <2>1. hit' = [p \in Orders |-> hit[p] \/ lost(p)]  BY DEF Crash
  <2>2. \A p \in Orders : lost(p) <=> InCredit(p)  BY <1>3 DEF InCredit
  <2>3. \A p \in Orders : (hit[p] \/ lost(p)) \in BOOLEAN  BY Zenon
  <2> HIDE DEF lost
  <2>4. QED  BY <2>1, <2>2, <2>3, Zenon
<1>5. TypeOK'
  <2>1. TypeOK  BY DEF IInv
  <2>2. faults' \in 0 .. MaxFaults  BY <1>2, <2>1, PaymentAssumption DEF TypeOK
  <2>3. job' \in [Workers -> JobType]  BY <1>1, IdleType
  <2>4. QED
    BY <1>1, <1>2, <1>4, <2>1, <2>2, <2>3 DEF TypeOK, JobType, MutexType, worldVars, rowVars
<1>6. ASSUME NEW w \in Workers  PROVE JobOk(w)'  BY <1>1, IdleType DEF JobOk
<1>7. ASSUME NEW p \in Orders  PROVE RowOk(p)'
  <2>1. SameRow(p)  BY <1>2, <1>4 DEF SameRow, worldVars, rowVars
  <2>2. ASSUME InCredit(p)  PROVE Is(p, "epay") /\ hit'[p]
    <3>1. PICK w \in Workers : job[w].pc = "credit" /\ job[w].o = p  BY <2>2 DEF InCredit
    <3>2. PathOk(w)  BY <3>1, AtWork
    <3>3. QED  BY <1>4, <2>2, <3>1, <3>2 DEF PathOk
  <2>3. QED  BY <2>1, <2>2, RowStays DEF IInv
<1>8. QED  BY <1>1, <1>5, <1>6, <1>7 DEF IInv

-----------------------------------------------------------------------------
(* The invariant                                                           *)

\* No order has a row, a lock or a handler at first.
LEMMA InitInv == Init => IInv
<1> SUFFICES ASSUME Init  PROVE IInv
  OBVIOUS
<1>1. TypeOK
  <2>1. job \in [Workers -> JobType]  BY IdleType DEF Init
  <2>2. mutex \in [Orders -> [Workers -> MutexType]]  BY DEF Init, Free, MutexType
  <2>3. extra \in 0 .. MaxExtra /\ faults \in 0 .. MaxFaults  BY PaymentAssumption DEF Init
  <2>4. FALSE \in BOOLEAN  OBVIOUS
  <2>5. /\ owed \in [Orders -> BOOLEAN] /\ full \in BOOLEAN /\ manual \in [Orders -> BOOLEAN]
        /\ hit \in [Orders -> BOOLEAN]
    BY <2>4, Zenon DEF Init
  <2>6. /\ kind \in [Orders -> Kinds]
        /\ phase \in [Orders -> {"new", "inserted", "open", "closed"}]
        /\ verdict \in [Orders -> {"open", "paid", "failed", "expired"}]
        /\ topups \in [Orders -> Statuses] /\ subs \in [Orders -> Statuses]
        /\ grants \in [Orders -> Nat] /\ credited \in [Orders -> Nat]
        /\ table \in [Nodes -> [Orders -> Workers \cup {None}]]
    BY DEF Init, Statuses
  <2>7. QED  BY <2>1, <2>2, <2>3, <2>5, <2>6 DEF TypeOK, JobType, MutexType
<1>2. \A w \in Workers : JobOk(w)  BY IdleType DEF Init, JobOk
<1>3. ASSUME NEW o \in Orders  PROVE RowOk(o)
  <2>1. Untouched(o) /\ phase[o] = "new"  BY DEF Init, Untouched
  <2>2. QED  BY <2>1 DEF RowOk, SortOk, CreditOk, Untouched, Row
<1>4. ASSUME NEW o \in Orders  PROVE LockOk(o)
  <2>1. Users(o) = {}  BY IdleType DEF Init, Users
  <2>2. Unlocked(o) /\ \A n \in Nodes : table[n][o] = None  BY <2>1 DEF Init, Unlocked
  <2>3. QED  BY <2>1, <2>2, FS_EmptySet DEF LockOk
<1>5. QED  BY <1>1, <1>2, <1>3, <1>4 DEF IInv

\* Nothing happens to the invariant when nothing happens.
LEMMA StutterInv == IInv /\ UNCHANGED vars => IInv'
<1> SUFFICES ASSUME IInv, UNCHANGED vars  PROVE IInv'
  OBVIOUS
<1>1. /\ UNCHANGED <<kind, phase, verdict, full, owed, topups, subs, grants, credited, manual, hit>>
      /\ UNCHANGED <<table, mutex, job, extra, faults>>
  BY DEF vars, worldVars, rowVars, lockVars
<1>2. TypeOK'  BY <1>1 DEF IInv, TypeOK
<1>3. \A o \in Orders : SameRow(o) /\ Forward(o) /\ (InCredit(o) => InCredit(o)')
  BY <1>1 DEF SameRow, Forward, InCredit
<1>4. \A o \in Orders : RowOk(o)'  BY <1>3, RowStays DEF IInv
<1>5. \A v \in Workers, o \in Orders : SameUse(v, o)  BY <1>1, SameJobSameUse
<1>6. \A o \in Orders : LockOk(o)'  BY <1>1, <1>5, LockStays DEF IInv
<1>7. ASSUME NEW v \in Workers  PROVE JobOk(v)'
  <2>1. JobOk(v) /\ TypeOK  BY DEF IInv
  <2>2. job[v].pc # "idle" => job[v].o \in Orders  BY <2>1 DEF JobOk
  <2>3. QED  BY <1>1, <1>3, <2>1, <2>2, OtherJob
<1>8. QED  BY <1>2, <1>4, <1>6, <1>7 DEF IInv

\* Every step keeps the invariant.
LEMMA NextInv ==
  ASSUME SingleNode, IInv, [Next]_vars
  PROVE  IInv'
<1>1. ASSUME NEW o \in Orders,
             \/ RequestEpay(o) \/ RequestStripePay(o) \/ RequestCreemPay(o) \/ RequestWaffoPay(o)
             \/ RequestWaffoPancakePay(o) \/ SubscriptionRequestEpay(o)
             \/ SubscriptionRequestStripePay(o) \/ SubscriptionRequestCreemPay(o)
             \/ SubscriptionRequestWaffoPancakePay(o)
      PROVE  IInv'
  BY <1>1, RequestInv
     DEF RequestEpay, RequestStripePay, RequestCreemPay, RequestWaffoPay, RequestWaffoPancakePay,
         SubscriptionRequestEpay, SubscriptionRequestStripePay, SubscriptionRequestCreemPay,
         SubscriptionRequestWaffoPancakePay
<1>2. ASSUME NEW o \in Orders, LinkCreated(o) \/ LinkFailed(o) \/ Decide(o)  PROVE IInv'
  BY <1>2, LinkCreatedInv, LinkFailedInv, DecideInv
<1>3. ASSUME NEW o \in Orders, NEW w \in Workers,
             Deliver(w, o) \/ SubscriptionEpayReturn(w, o) \/ AdminCompleteTopUp(w, o)
      PROVE  IInv'
  BY <1>3, DeliverInv, ReturnInv, AdminInv
<1>4. CASE PlanFills  BY <1>4, PlanFillsInv
<1>5. ASSUME NEW w \in Workers, Step(w)  PROVE IInv'  BY <1>5, StepInv
<1>6. ASSUME NEW n \in Nodes, Crash(n)  PROVE IInv'  BY <1>6, CrashInv
<1>7. CASE UNCHANGED vars  BY <1>7, StutterInv
<1>8. QED  BY <1>1, <1>2, <1>3, <1>4, <1>5, <1>6, <1>7 DEF Next

-----------------------------------------------------------------------------
(* Theorems                                                                *)

\* The invariant holds in every state of one process's payments: every order has one mutex that
\* LockOrder and UnlockOrder count right, and what a handler read stays true until it writes.
THEOREM PaymentInvariant == SingleNode => (Spec => []IInv)
<1>1. IInv /\ [Next]_vars /\ SingleNode => IInv'  BY NextInv
<1>2. SUFFICES ASSUME SingleNode  PROVE Spec => []IInv
  OBVIOUS
<1>3. IInv /\ [Next]_vars => IInv'  BY <1>1, <1>2
<1>4. QED  BY <1>3, InitInv, PTL DEF Spec

\* In one process every order is credited at most once and with what it was sold for, whatever
\* callbacks, administrators, failing calls and crashes do (LockOrder and the checks of the status).
THEOREM PaidOnce == Spec => []CreditedOnce
<1>1. IInv => CreditedOnce
  <2> SUFFICES ASSUME IInv, NEW o \in Orders
               PROVE  /\ grants[o] <= 1
                      /\ ~kind[o].sub /\ ~(Is(o, "creem") /\ manual[o]) => credited[o] = grants[o] * Sold(o)
    BY DEF CreditedOnce
  <2>1. CreditOk(o)  BY DEF IInv, RowOk
  <2>2. Sold(o) \in Nat  BY PaymentAssumption DEF Sold
  <2>3. CASE grants[o] = 0  BY <2>1, <2>2, <2>3 DEF CreditOk
  <2>4. CASE grants[o] = 1  BY <2>1, <2>2, <2>4 DEF CreditOk
  <2>5. QED  BY <2>1, <2>3, <2>4 DEF CreditOk
<1>2. CASE SingleNode
  <2>1. Spec => []IInv  BY <1>2, PaymentInvariant
  <2>2. QED  BY <1>1, <2>1, PTL
<1>3. CASE ~SingleNode
  <2>1. CreditedOnce  BY <1>3 DEF CreditedOnce
  <2>2. QED  BY <2>1, PTL
<1>4. QED  BY <1>2, <1>3

\* In one process a gateway that was told to stop calling about a payment was told so after the
\* order was credited, unless a call failed and the gateway's handler does not care.
THEOREM AckAfterCredit == SingleNode => (Spec => []AcknowledgedIsCredited)
<1>1. IInv => AcknowledgedIsCredited
  <2> SUFFICES ASSUME IInv, NEW o \in Orders, verdict[o] = "paid", ~owed[o], Careful(o) \/ ~hit[o]
               PROVE  grants[o] > 0
    BY DEF AcknowledgedIsCredited
  <2>1. CreditOk(o)  BY DEF IInv, RowOk
  <2>2. QED  BY <2>1 DEF CreditOk, Excused
<1>2. SUFFICES ASSUME SingleNode  PROVE Spec => []AcknowledgedIsCredited
  OBVIOUS
<1>3. Spec => []IInv  BY <1>2, PaymentInvariant
<1>4. QED  BY <1>1, <1>3, PTL

-----------------------------------------------------------------------------
(* The refinement                                                          *)

\* The orders that were paid or approved
Due == {o \in Orders : verdict[o] = "paid" \/ manual[o]}
SameDue == Due' = Due

\* A handler that is about to credit an order credits one that is due, for the first time.
LEMMA CreditingIsDue ==
  ASSUME IInv, NEW w \in Workers, Crediting(w)
  PROVE  job[w].o \in Due /\ grants[job[w].o] = 0 /\ grants \in [Orders -> Nat]
<1>1. job[w].pc # "idle"  BY DEF Crediting
<1>2. job[w].o \in Orders /\ TypeOK /\ JobOk(w) /\ EventOk(w) /\ PathOk(w)  BY <1>1, AtWork
<1>3. grants[job[w].o] = 0  BY <1>1, <1>2 DEF JobOk
<1>4. job[w].ev \in {"paid", "return", "manual"}  BY <1>2 DEF Crediting, PathOk
<1>5. verdict[job[w].o] = "paid" \/ manual[job[w].o]  BY <1>2, <1>4 DEF EventOk
<1>6. QED  BY <1>2, <1>3, <1>5 DEF Due, TypeOK

\* The three writes that credit an order grant it in PaymentPromise; a failing one does nothing.
LEMMA GrantMaps ==
  ASSUME IInv, NEW w \in Workers, Crediting(w), SameDue,
         \/ grants' = [grants EXCEPT ![job[w].o] = @ + 1]
         \/ UNCHANGED grants
  PROVE  [Promise!Next]_<<Due, grants>>
<1> PICK o : o = job[w].o  OBVIOUS
<1>1. o \in Due /\ o \in Orders /\ grants[o] = 0 /\ grants \in [Orders -> Nat]
  BY CreditingIsDue DEF Due
<1>2. CASE grants' = [grants EXCEPT ![o] = @ + 1]
  <2>1. grants' = [grants EXCEPT ![o] = 1]  BY <1>1, <1>2
  <2>2. Promise!Grant(o)  BY <1>1, <2>1 DEF Promise!Grant, SameDue, Due
  <2>3. QED  BY <1>1, <2>2 DEF Promise!Next
<1>3. CASE UNCHANGED grants  BY <1>3 DEF SameDue
<1>4. QED  BY <1>2, <1>3

\* Every step of a handler is a grant or no step of PaymentPromise.
LEMMA StepMaps ==
  ASSUME IInv, NEW w \in Workers, Step(w)
  PROVE  [Promise!Next]_<<Due, grants>>
<1>1. SameDue
  <2>1. UNCHANGED <<verdict, manual>>
    BY DEF Step, LockOrder, MuLock, UnlockOrder, Unref, Reply, Resolve, ReadSubscriptionOrder,
           GrantSubscription, ExpireSubscriptionOrder, ReadTopUp, Recharge, RechargeCreem,
           RechargeWaffo, RechargeWaffoPancake, ManualCompleteTopUp, CreditTopUp, EpaySave,
           EpayCredit, SessionAsyncPaymentFailed, UpdatePendingTopUpStatus, CloseTopUp, worldVars
  <2>2. QED  BY <2>1 DEF SameDue, Due
<1>2. CASE \/ LockOrder(w) \/ MuLock(w) \/ UnlockOrder(w) \/ Unref(w) \/ Reply(w) \/ Resolve(w)
           \/ ReadSubscriptionOrder(w) \/ ExpireSubscriptionOrder(w) \/ ReadTopUp(w) \/ EpaySave(w)
           \/ SessionAsyncPaymentFailed(w) \/ UpdatePendingTopUpStatus(w)
  <2>1. UNCHANGED grants
    BY <1>2 DEF LockOrder, MuLock, UnlockOrder, Unref, Reply, Resolve, ReadSubscriptionOrder,
                ExpireSubscriptionOrder, ReadTopUp, EpaySave, SessionAsyncPaymentFailed,
                UpdatePendingTopUpStatus, CloseTopUp, rowVars
  <2>2. QED  BY <1>1, <2>1 DEF SameDue
<1>3. CASE GrantSubscription(w)
  BY <1>1, <1>3, GrantMaps DEF GrantSubscription, Crediting
<1>4. CASE EpayCredit(w)
  BY <1>1, <1>4, GrantMaps DEF EpayCredit, Crediting
<1>5. CASE \/ Recharge(w) \/ RechargeCreem(w) \/ RechargeWaffo(w) \/ RechargeWaffoPancake(w)
           \/ ManualCompleteTopUp(w)
  <2>1. PICK worth : CreditTopUp(w, worth)
    BY <1>5 DEF Recharge, RechargeCreem, RechargeWaffo, RechargeWaffoPancake, ManualCompleteTopUp
  <2>2. QED  BY <1>1, <2>1, GrantMaps DEF CreditTopUp, Crediting
<1>6. QED  BY <1>2, <1>3, <1>4, <1>5 DEF Step

\* A payment and an approval make an order due; the other steps outside the handlers do nothing.
LEMMA NextMaps ==
  ASSUME IInv, [Next]_vars
  PROVE  [Promise!Next]_<<Due, grants>>
<1>1. ASSUME NEW o \in Orders,
             \/ RequestEpay(o) \/ RequestStripePay(o) \/ RequestCreemPay(o) \/ RequestWaffoPay(o)
             \/ RequestWaffoPancakePay(o) \/ SubscriptionRequestEpay(o)
             \/ SubscriptionRequestStripePay(o) \/ SubscriptionRequestCreemPay(o)
             \/ SubscriptionRequestWaffoPancakePay(o) \/ LinkCreated(o) \/ LinkFailed(o)
      PROVE  [Promise!Next]_<<Due, grants>>
  <2>1. UNCHANGED <<verdict, manual, grants>>
    BY <1>1
       DEF RequestEpay, RequestStripePay, RequestCreemPay, RequestWaffoPay, RequestWaffoPancakePay,
           SubscriptionRequestEpay, SubscriptionRequestStripePay, SubscriptionRequestCreemPay,
           SubscriptionRequestWaffoPancakePay, Request, LinkCreated, LinkFailed, rowVars
  <2>2. QED  BY <2>1 DEF Due
<1>2. ASSUME NEW o \in Orders, Decide(o)  PROVE [Promise!Next]_<<Due, grants>>
  <2>1. /\ verdict[o] = "open" /\ UNCHANGED <<manual, grants>>
        /\ verdict \in [Orders -> {"open", "paid", "failed", "expired"}]
    BY <1>2 DEF Decide, rowVars, IInv, TypeOK
  <2>2. PICK v : verdict' = [verdict EXCEPT ![o] = v]  BY <1>2 DEF Decide
  <2>3. Due' = Due \cup {o} \/ Due' = Due
    <3>1. CASE v = "paid"  BY <2>1, <2>2, <3>1 DEF Due
    <3>2. CASE v # "paid"  BY <2>1, <2>2, <3>2 DEF Due
    <3>3. QED  BY <3>1, <3>2
  <2>4. Due' = Due \cup {o} => Promise!Approve(o)  BY <2>1 DEF Promise!Approve, Due
  <2>5. QED  BY <2>1, <2>3, <2>4 DEF Promise!Next
<1>3. ASSUME NEW o \in Orders, NEW w \in Workers, AdminCompleteTopUp(w, o)
      PROVE  [Promise!Next]_<<Due, grants>>
  <2>1. /\ manual' = [manual EXCEPT ![o] = TRUE] /\ UNCHANGED <<verdict, grants>>
        /\ manual \in [Orders -> BOOLEAN]
    BY <1>3 DEF AdminCompleteTopUp, rowVars, worldVars, IInv, TypeOK
  <2>2. manual'[o] /\ \A p \in Orders : p # o => manual'[p] = manual[p]  BY <2>1, Zenon
  <2>3. Due' = Due \cup {o}  BY <2>1, <2>2 DEF Due
  <2>4. Promise!Approve(o)  BY <2>1, <2>3 DEF Promise!Approve, Due
  <2>5. QED  BY <2>4 DEF Promise!Next
<1>4. CASE \/ PlanFills
           \/ \E n \in Nodes : Crash(n)
           \/ \E o \in Orders, w \in Workers : Deliver(w, o) \/ SubscriptionEpayReturn(w, o)
           \/ UNCHANGED vars
  <2>1. UNCHANGED <<verdict, manual, grants>>
    BY <1>4
       DEF PlanFills, Crash, Deliver, EpayNotify, SubscriptionEpayNotify, StripeWebhook, CreemWebhook,
           WaffoWebhook, WaffoPancakeWebhook, Callback, SubscriptionEpayReturn, vars, rowVars, worldVars
  <2>2. QED  BY <2>1 DEF Due
<1>5. ASSUME NEW w \in Workers, Step(w)  PROVE [Promise!Next]_<<Due, grants>>
  BY <1>5, StepMaps
<1>6. QED  BY <1>1, <1>2, <1>3, <1>4, <1>5 DEF Next

\* In one process the payments implement PaymentPromise: an order is granted only when it was paid
\* or approved, and only once.
THEOREM PromiseKept == SingleNode => (Spec => KeepsPromise)
<1>1. Init => Promise!Init
  <2> SUFFICES ASSUME Init  PROVE Promise!Init
    OBVIOUS
  <2>1. \A o \in Orders : verdict[o] = "open" /\ manual[o] = FALSE  BY DEF Init
  <2>2. Due = {}  BY <2>1 DEF Due
  <2>3. QED  BY <2>2 DEF Init, Promise!Init, Due
<1>2. IInv /\ [Next]_vars => [Promise!Next]_<<Due, grants>>  BY NextMaps
<1>3. SUFFICES ASSUME SingleNode  PROVE Spec => KeepsPromise
  OBVIOUS
<1>4. Spec => []IInv  BY <1>3, PaymentInvariant
<1>5. QED  BY <1>1, <1>2, <1>4, PTL DEF Spec, KeepsPromise, Promise!Spec, Due
=============================================================================
