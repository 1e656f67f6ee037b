----------------------- MODULE BillingSession_proofs -----------------------
(***************************************************************************)
(* Proofs about BillingSession for every set of requests, every profile,   *)
(* every set of amounts and every number of failing calls.  The inductive  *)
(* invariant is IInv: what the ledgers are out for a request agrees with   *)
(* the fields of its session.  One lemma per action shows that it keeps    *)
(* IInv; each splits the action into its cases, reads off the new values   *)
(* of the acting request and checks the six parts of Books on them.        *)
(***************************************************************************)
EXTENDS BillingSession, TLAPS

\* Nothing that Books(q) speaks of changes.
Same(q) ==
  /\ pc'[q] = pc[q] /\ req'[q] = req[q] /\ sess'[q] = sess[q] /\ due'[q] = due[q]
  /\ outcome'[q] = outcome[q] /\ bg'[q] = bg[q] /\ record'[q] = record[q]
  /\ paid'[q] = paid[q] /\ fee'[q] = fee[q] /\ (q \in hit' <=> q \in hit)
  /\ credits'[q] = credits[q] /\ tries'[q] = tries[q]

\* The books of a request that a step does not concern stay as they are.
LEMMA SameBooks ==
  ASSUME NEW q, Books(q), Same(q)
  PROVE  Books(q)'
<1>1. SourceBooks(q)' BY DEF Books, Same, SourceBooks
<1>2. SessionShape(q)'
  BY DEF Books, Same, SessionShape, Covers, Committed, Effective, InReserve, Profile
<1>3. OutcomeShape(q)' BY DEF Books, Same, OutcomeShape, Committed, SettleRefused
<1>4. FeeBooks(q)' BY DEF Books, Same, FeeBooks, TokenDue, Profile
<1>5. TokenBooks(q)'
  BY DEF Books, Same, TokenBooks, NetToken, TokenDue, TokenHold, Covers, Profile
<1>6. FundBooks(q)'
  BY DEF Books, Same, FundBooks, NetFund, Repeated, FundPaid, FundFee, FundHold, InReserve, Covers, Committed
<1>7. QED BY <1>1, <1>2, <1>3, <1>4, <1>5, <1>6 DEF Books

\* A step of one request: its own books are kept, the others' are untouched.
LEMMA OneRequest ==
  ASSUME IInv, NEW r \in Requests, TypeOK', SubWithinTotal', Books(r)',
         \A q \in Requests \ {r} : Same(q)
  PROVE  IInv'
<1>1. ASSUME NEW q \in Requests PROVE Books(q)'
  <2>1. CASE q = r BY <2>1
  <2>2. CASE q # r
    <3>1. Same(q) BY <2>2
    <3>2. Books(q) BY DEF IInv, BooksAgree
    <3>3. QED BY <3>1, <3>2, SameBooks
  <2>3. QED BY <2>1, <2>2
<1>2. QED BY <1>1 DEF IInv, BooksAgree

\* A subscription within its total refuses only a charge, never a refund.
LEMMA RefusedIsPositive ==
  ASSUME NEW n \in Int, LedgersOK, SubWithinTotal, ~DeltaFits(n)
  PROVE  n > 0
BY ConstantsAssumption DEF LedgersOK, SubWithinTotal, DeltaFits, NewUsed

\* Raising three amounts of a session keeps its type.
LEMMA SessionUpdate ==
  ASSUME NEW s \in SessionType, NEW a \in Nat, NEW b \in Nat, NEW c \in Nat
  PROVE  [s EXCEPT !.preConsumed = a, !.tokenConsumed = b, !.extraReserved = c] \in SessionType
BY DEF SessionType

\* What a successful Reserve does to the session keeps its type.
LEMMA GrownType ==
  ASSUME NEW s \in SessionType, NEW n \in Nat
  PROVE  Grown(s, n) \in SessionType
<1>1. s.preConsumed + n \in Nat /\ s.tokenConsumed + n \in Nat /\ s.extraReserved + n \in Nat
  BY DEF SessionType
<1>2. [s EXCEPT !.preConsumed = s.preConsumed + n, !.tokenConsumed = s.tokenConsumed + n,
                !.extraReserved = s.extraReserved + n] \in SessionType
  BY <1>1, SessionUpdate
<1>3. QED BY <1>2 DEF Grown

\* The inductive invariant holds before the first request arrives.
LEMMA InitInv == Init => IInv
<1> SUFFICES ASSUME Init PROVE IInv
  OBVIOUS
<1>1. TypeOK
  BY ConstantsAssumption
  DEF Init, TypeOK, LedgersOK, PcOK, ReqOK, OutcomeOK, SessOK, PaidOK, FaultsOK, Labels, BgLabels,
    SessionType, NoSession, NoProfile, ProfileType, Prefs, MaxAttempts
<1>2. SubWithinTotal BY ConstantsAssumption DEF Init, SubWithinTotal
<1>3. ASSUME NEW r \in Requests PROVE Books(r)
  BY <1>3 DEF Init, Books, SourceBooks, SessionShape, OutcomeShape, FeeBooks, TokenBooks,
    FundBooks, NetFund, Repeated, FundPaid, FundFee, NetToken, Covers, Opening, Reserving, Committed,
    TokenDue, TokenHold, InReserve, FundHold, NoSession, Effective, Profile, NoProfile
<1>4. QED BY <1>1, <1>2, <1>3 DEF IInv, BooksAgree

\* Arrive keeps the inductive invariant.
LEMMA ArriveStep ==
  ASSUME IInv, NEW r \in Requests, Arrive(r)
  PROVE  IInv'
<1>1. LedgersOK /\ PcOK /\ ReqOK /\ OutcomeOK /\ SessOK /\ PaidOK /\ FaultsOK
  BY DEF IInv, TypeOK
<1>2. /\ SourceBooks(r) /\ SessionShape(r) /\ OutcomeShape(r)
      /\ FeeBooks(r) /\ TokenBooks(r) /\ FundBooks(r)
  BY DEF IInv, BooksAgree, Books
<1>3. UNCHANGED <<wallet, token, subUsed, record, subActive, overflow, sess, due, outcome, bg, tries, paid, fee, credits, faults, hit>>
  BY DEF Arrive, ledgers, plan, ghosts, faultVars
<1>4. pc[r] = "new" /\ sess[r] = NoSession /\ outcome[r] = "none" /\ bg[r] = "none"
  BY <1>1, <1>2, <1>3 DEF Arrive, SessionShape, OutcomeShape, FeeBooks, Opening, Reserving, NoSession, ledgers,
       plan, ghosts, faultVars
<1>5. SubWithinTotal' BY <1>3 DEF IInv, SubWithinTotal
<1>6. CASE \E p \in Profiles :
           /\ req' = [req EXCEPT ![r] = [profile |-> p, tokenQuota |-> token]]
           /\ Goto(r, IF p.free THEN "serving" ELSE "dispatch")
  <2>1. pc'[r] \in {"serving", "dispatch"}
    BY <1>1, <1>3, <1>4, <1>6 DEF PcOK, ReqOK, Goto
  <2>2. TypeOK'
    BY ConstantsAssumption, <1>1, <1>3, <1>4, <1>6 DEF TypeOK, LedgersOK, PcOK, ReqOK, OutcomeOK, SessOK, PaidOK, FaultsOK, Labels,
         BgLabels, ProfileType, Goto
  <2>3. \A q \in Requests \ {r} : Same(q)
    BY <1>1, <1>3, <1>6 DEF Same, PcOK, ReqOK, Goto
  <2>4. Books(r)'
    BY <1>1, <1>2, <1>3, <1>4, <2>1 DEF Books, SourceBooks, NoSession, PaidOK, SessionShape, OutcomeShape, Opening,
         Reserving, Covers, InReserve, Committed, Effective, Profile, ReqOK, SessOK,
         SessionType, ProfileType, SettleRefused, FeeBooks, TokenDue, TokenBooks, NetToken,
         TokenHold, FundBooks, NetFund, Repeated, FundPaid, FundFee, FundHold
  <2>5. QED BY <2>2, <2>3, <1>5, <2>4, OneRequest
<1>7. QED
  BY <1>6 DEF Arrive, ledgers, plan, ghosts, faultVars

\* Dispatch keeps the inductive invariant.
LEMMA DispatchStep ==
  ASSUME IInv, NEW r \in Requests, Dispatch(r)
  PROVE  IInv'
<1>1. LedgersOK /\ PcOK /\ ReqOK /\ OutcomeOK /\ SessOK /\ PaidOK /\ FaultsOK
  BY DEF IInv, TypeOK
<1>2. /\ SourceBooks(r) /\ SessionShape(r) /\ OutcomeShape(r)
      /\ FeeBooks(r) /\ TokenBooks(r) /\ FundBooks(r)
  BY DEF IInv, BooksAgree, Books
<1>3. UNCHANGED <<wallet, token, subUsed, record, subActive, overflow, req, sess, due, bg, tries, paid, fee, credits>>
  BY DEF Dispatch, ledgers, plan, ghosts
<1>4. pc[r] = "dispatch" /\ sess[r] = NoSession /\ outcome[r] = "none" /\ bg[r] = "none"
  BY <1>1, <1>2, <1>3 DEF Dispatch, SessionShape, OutcomeShape, FeeBooks, Opening, Reserving, NoSession, ledgers,
       plan, ghosts
<1>5. SubWithinTotal' BY <1>3 DEF IInv, SubWithinTotal
<1>6. CASE pc' \in {[pc EXCEPT ![r] = "trySubscription"], [pc EXCEPT ![r] = "tryWallet"]}
            /\ NoFault /\ UNCHANGED outcome
  <2>1. pc'[r] \in {"trySubscription", "tryWallet"} /\ outcome'[r] = outcome[r] /\ hit' = hit
    BY <1>1, <1>3, <1>4, <1>6 DEF PcOK, OutcomeOK, FaultsOK, NoFault, faultVars
  <2>2. TypeOK'
    BY <1>1, <1>3, <1>4, <1>6 DEF TypeOK, LedgersOK, PcOK, ReqOK, OutcomeOK, SessOK, PaidOK, FaultsOK, Labels,
         BgLabels, NoFault, faultVars
  <2>3. \A q \in Requests \ {r} : Same(q)
    BY <1>1, <1>3, <1>6 DEF Same, PcOK, OutcomeOK, FaultsOK, NoFault, faultVars
  <2>4. Books(r)'
    BY <1>1, <1>2, <1>3, <1>4, <2>1 DEF Books, SourceBooks, NoSession, PaidOK, SessionShape, OutcomeShape, Opening,
         Reserving, Covers, InReserve, Committed, Effective, Profile, ReqOK, SessOK,
         SessionType, ProfileType, SettleRefused, FeeBooks, TokenDue, TokenBooks, NetToken,
         TokenHold, FundBooks, NetFund, Repeated, FundPaid, FundFee, FundHold
  <2>5. QED BY <2>2, <2>3, <1>5, <2>4, OneRequest
<1>7. CASE Reject(r) /\ Fault(r)
  <2>1. pc'[r] = "ended" /\ outcome'[r] = "rejected" /\ r \in hit'
    BY <1>1, <1>3, <1>4, <1>7 DEF PcOK, OutcomeOK, FaultsOK, Reject, Goto, Fault
  <2>2. TypeOK'
    BY <1>1, <1>3, <1>4, <1>7 DEF TypeOK, LedgersOK, PcOK, ReqOK, OutcomeOK, SessOK, PaidOK, FaultsOK, Labels,
         BgLabels, Reject, Goto, Fault
  <2>3. \A q \in Requests \ {r} : Same(q)
    BY <1>1, <1>3, <1>7 DEF Same, PcOK, OutcomeOK, FaultsOK, Reject, Goto, Fault
  <2>4. Books(r)'
    BY <1>1, <1>2, <1>3, <1>4, <2>1 DEF Books, SourceBooks, NoSession, PaidOK, SessionShape, OutcomeShape, Opening,
         Reserving, Covers, InReserve, Committed, Effective, Profile, ReqOK, SessOK,
         SessionType, ProfileType, SettleRefused, FeeBooks, TokenDue, TokenBooks, NetToken,
         TokenHold, FundBooks, NetFund, Repeated, FundPaid, FundFee, FundHold
  <2>5. QED BY <2>2, <2>3, <1>5, <2>4, OneRequest
<1>8. QED
  BY <1>6, <1>7 DEF Dispatch, ledgers, plan, ghosts, Goto

\* TryWallet keeps the inductive invariant.
LEMMA TryWalletStep ==
  ASSUME IInv, NEW r \in Requests, TryWallet(r)
  PROVE  IInv'
<1>1. LedgersOK /\ PcOK /\ ReqOK /\ OutcomeOK /\ SessOK /\ PaidOK /\ FaultsOK
  BY DEF IInv, TypeOK
<1>2. /\ SourceBooks(r) /\ SessionShape(r) /\ OutcomeShape(r)
      /\ FeeBooks(r) /\ TokenBooks(r) /\ FundBooks(r)
  BY DEF IInv, BooksAgree, Books
<1>3. UNCHANGED <<wallet, token, subUsed, record, subActive, overflow, req, due, bg, tries, paid, fee, credits>>
  BY DEF TryWallet, ledgers, plan, ghosts
<1>4. pc[r] = "tryWallet" /\ sess[r] = NoSession /\ outcome[r] = "none" /\ bg[r] = "none"
      /\ paid[r].wallet = 0 /\ paid[r].sub = 0 /\ fee[r].wallet = 0 /\ fee[r].sub = 0 /\ fee[r].token = 0
  BY <1>1, <1>2, <1>3 DEF TryWallet, SessionShape, OutcomeShape, FeeBooks, Opening, Reserving, NoSession,
       ledgers, plan, ghosts
<1>5. SubWithinTotal' BY <1>3 DEF IInv, SubWithinTotal
<1>6. CASE sess' = [sess EXCEPT ![r] = [NewSession("wallet") EXCEPT !.trusted = TRUE]]
            /\ Goto(r, "serving") /\ NoFault /\ UNCHANGED outcome
  <2>1. pc'[r] = "serving" /\ outcome'[r] = "none" /\ hit' = hit
        /\ sess'[r] = [NoSession EXCEPT !.funding = "wallet", !.trusted = TRUE]
    BY <1>1, <1>3, <1>4, <1>6 DEF PcOK, OutcomeOK, SessOK, FaultsOK, Goto, NoFault, faultVars, NewSession, NoSession
  <2>2. TypeOK'
    BY <1>1, <1>3, <1>4, <1>6 DEF TypeOK, LedgersOK, PcOK, ReqOK, OutcomeOK, SessOK, PaidOK, FaultsOK, Labels,
         BgLabels, SessionType, NoSession, Goto, NoFault, faultVars, NewSession
  <2>3. \A q \in Requests \ {r} : Same(q)
    BY <1>1, <1>3, <1>6 DEF Same, PcOK, OutcomeOK, SessOK, FaultsOK, Goto, NoFault, faultVars, NewSession,
         NoSession
  <2>4. Books(r)'
    BY <1>1, <1>2, <1>3, <1>4, <2>1 DEF Books, SourceBooks, NoSession, PaidOK, SessionShape, OutcomeShape, Opening,
         Reserving, Covers, InReserve, Committed, Effective, Profile, ReqOK, SessOK,
         SessionType, ProfileType, SettleRefused, FeeBooks, TokenDue, TokenBooks, NetToken,
         TokenHold, FundBooks, NetFund, Repeated, FundPaid, FundFee, FundHold
  <2>5. QED BY <2>2, <2>3, <1>5, <2>4, OneRequest
<1>7. CASE sess' = [sess EXCEPT ![r] = NewSession("wallet")]
            /\ pc' \in {[pc EXCEPT ![r] = "serving"], [pc EXCEPT ![r] = "preToken"]}
            /\ NoFault /\ UNCHANGED outcome
  <2>1. pc'[r] \in {"serving", "preToken"} /\ outcome'[r] = "none" /\ hit' = hit
        /\ sess'[r] = [NoSession EXCEPT !.funding = "wallet"]
    BY <1>1, <1>3, <1>4, <1>7 DEF PcOK, OutcomeOK, SessOK, FaultsOK, Goto, NoFault, faultVars, NewSession, NoSession
  <2>2. TypeOK'
    BY <1>1, <1>3, <1>4, <1>7 DEF TypeOK, LedgersOK, PcOK, ReqOK, OutcomeOK, SessOK, PaidOK, FaultsOK, Labels,
         BgLabels, SessionType, NoSession, Goto, NoFault, faultVars, NewSession
  <2>3. \A q \in Requests \ {r} : Same(q)
    BY <1>1, <1>3, <1>7 DEF Same, PcOK, OutcomeOK, SessOK, FaultsOK, Goto, NoFault, faultVars, NewSession,
         NoSession
  <2>4. Books(r)'
    BY <1>1, <1>2, <1>3, <1>4, <2>1 DEF Books, SourceBooks, NoSession, PaidOK, SessionShape, OutcomeShape, Opening,
         Reserving, Covers, InReserve, Committed, Effective, Profile, ReqOK, SessOK,
         SessionType, ProfileType, SettleRefused, FeeBooks, TokenDue, TokenBooks, NetToken,
         TokenHold, FundBooks, NetFund, Repeated, FundPaid, FundFee, FundHold
  <2>5. QED BY <2>2, <2>3, <1>5, <2>4, OneRequest
<1>8. CASE Goto(r, "trySubscription") /\ NoFault /\ UNCHANGED <<sess, outcome>>
  <2>1. pc'[r] = "trySubscription" /\ outcome'[r] = "none" /\ hit' = hit /\ sess'[r] = NoSession
    BY <1>1, <1>3, <1>4, <1>8 DEF PcOK, OutcomeOK, SessOK, FaultsOK, Goto, NoFault, faultVars
  <2>2. TypeOK'
    BY <1>1, <1>3, <1>4, <1>8 DEF TypeOK, LedgersOK, PcOK, ReqOK, OutcomeOK, SessOK, PaidOK, FaultsOK, Labels,
         BgLabels, SessionType, NoSession, Goto, NoFault, faultVars
  <2>3. \A q \in Requests \ {r} : Same(q)
    BY <1>1, <1>3, <1>8 DEF Same, PcOK, OutcomeOK, SessOK, FaultsOK, Goto, NoFault, faultVars
  <2>4. Books(r)'
    BY <1>1, <1>2, <1>3, <1>4, <2>1 DEF Books, SourceBooks, NoSession, PaidOK, SessionShape, OutcomeShape, Opening,
         Reserving, Covers, InReserve, Committed, Effective, Profile, ReqOK, SessOK,
         SessionType, ProfileType, SettleRefused, FeeBooks, TokenDue, TokenBooks, NetToken,
         TokenHold, FundBooks, NetFund, Repeated, FundPaid, FundFee, FundHold
  <2>5. QED BY <2>2, <2>3, <1>5, <2>4, OneRequest
<1>9. CASE Reject(r) /\ (NoFault \/ Fault(r)) /\ UNCHANGED sess
  <2>1. pc'[r] = "ended" /\ outcome'[r] = "rejected" /\ (r \in hit => r \in hit') /\ sess'[r] = NoSession
    BY <1>1, <1>3, <1>4, <1>9 DEF PcOK, OutcomeOK, SessOK, FaultsOK, Goto, NoFault, faultVars, Reject, Fault
  <2>2. TypeOK'
    BY <1>1, <1>3, <1>4, <1>9 DEF TypeOK, LedgersOK, PcOK, ReqOK, OutcomeOK, SessOK, PaidOK, FaultsOK, Labels,
         BgLabels, SessionType, NoSession, Goto, NoFault, faultVars, Reject, Fault
  <2>3. \A q \in Requests \ {r} : Same(q)
    BY <1>1, <1>3, <1>9 DEF Same, PcOK, OutcomeOK, SessOK, FaultsOK, Goto, NoFault, faultVars, Reject, Fault
  <2>4. Books(r)'
    BY <1>1, <1>2, <1>3, <1>4, <2>1 DEF Books, SourceBooks, NoSession, PaidOK, SessionShape, OutcomeShape, Opening,
         Reserving, Covers, InReserve, Committed, Effective, Profile, ReqOK, SessOK,
         SessionType, ProfileType, SettleRefused, FeeBooks, TokenDue, TokenBooks, NetToken,
         TokenHold, FundBooks, NetFund, Repeated, FundPaid, FundFee, FundHold
  <2>5. QED BY <2>2, <2>3, <1>5, <2>4, OneRequest
<1>10. QED
  BY <1>6, <1>7, <1>8, <1>9 DEF TryWallet, ledgers, plan, ghosts, Goto

\* TrySubscription keeps the inductive invariant.
LEMMA TrySubscriptionStep ==
  ASSUME IInv, NEW r \in Requests, TrySubscription(r)
  PROVE  IInv'
<1>1. LedgersOK /\ PcOK /\ ReqOK /\ OutcomeOK /\ SessOK /\ PaidOK /\ FaultsOK
  BY DEF IInv, TypeOK
<1>2. /\ SourceBooks(r) /\ SessionShape(r) /\ OutcomeShape(r)
      /\ FeeBooks(r) /\ TokenBooks(r) /\ FundBooks(r)
  BY DEF IInv, BooksAgree, Books
<1>3. UNCHANGED <<wallet, token, subUsed, record, subActive, overflow, req, due, outcome, bg, tries, paid, fee, credits, faults, hit>>
  BY DEF TrySubscription, ledgers, plan, ghosts, faultVars
<1>4. pc[r] = "trySubscription" /\ sess[r] = NoSession /\ outcome[r] = "none" /\ bg[r] = "none"
      /\ paid[r].wallet = 0 /\ paid[r].sub = 0 /\ fee[r].wallet = 0 /\ fee[r].sub = 0 /\ fee[r].token = 0
  BY <1>1, <1>2, <1>3 DEF TrySubscription, SessionShape, OutcomeShape, FeeBooks, Opening, Reserving, NoSession,
       ledgers, plan, ghosts, faultVars
<1>5. SubWithinTotal' BY <1>3 DEF IInv, SubWithinTotal
<1>6. CASE sess' = [sess EXCEPT ![r] = NewSession("subscription")] /\ Goto(r, "preToken")
  <2>1. pc'[r] = "preToken" /\ sess'[r] = [NoSession EXCEPT !.funding = "subscription"]
    BY <1>1, <1>3, <1>4, <1>6 DEF PcOK, SessOK, Goto, NewSession, NoSession
  <2>2. TypeOK'
    BY <1>1, <1>3, <1>4, <1>6 DEF TypeOK, LedgersOK, PcOK, ReqOK, OutcomeOK, SessOK, PaidOK, FaultsOK, Labels,
         BgLabels, SessionType, NoSession, Goto, NewSession
  <2>3. \A q \in Requests \ {r} : Same(q)
    BY <1>1, <1>3, <1>6 DEF Same, PcOK, SessOK, Goto, NewSession, NoSession
  <2>4. Books(r)'
    BY <1>1, <1>2, <1>3, <1>4, <2>1 DEF Books, SourceBooks, NoSession, PaidOK, SessionShape, OutcomeShape, Opening,
         Reserving, Covers, InReserve, Committed, Effective, Profile, ReqOK, SessOK,
         SessionType, ProfileType, SettleRefused, FeeBooks, TokenDue, TokenBooks, NetToken,
         TokenHold, FundBooks, NetFund, Repeated, FundPaid, FundFee, FundHold
  <2>5. QED BY <2>2, <2>3, <1>5, <2>4, OneRequest
<1>7. QED
  BY <1>6 DEF TrySubscription, ledgers, plan, ghosts, faultVars

\* PreConsumeTokenCheck keeps the inductive invariant.
LEMMA PreConsumeTokenCheckStep ==
  ASSUME IInv, NEW r \in Requests, PreConsumeTokenCheck(r)
  PROVE  IInv'
<1>1. LedgersOK /\ PcOK /\ ReqOK /\ OutcomeOK /\ SessOK /\ PaidOK /\ FaultsOK
  BY DEF IInv, TypeOK
<1>2. /\ SourceBooks(r) /\ SessionShape(r) /\ OutcomeShape(r)
      /\ FeeBooks(r) /\ TokenBooks(r) /\ FundBooks(r)
  BY DEF IInv, BooksAgree, Books
<1>3. UNCHANGED <<wallet, token, subUsed, record, subActive, overflow, req, due, bg, tries, paid, fee, credits>>
  BY DEF PreConsumeTokenCheck, ledgers, plan, ghosts
<1>4. pc[r] = "preToken" /\ outcome[r] = "none" /\ bg[r] = "none" /\ Effective(r) \in Nat
      /\ paid[r].wallet = 0 /\ paid[r].sub = 0 /\ fee[r].wallet = 0 /\ fee[r].sub = 0 /\ fee[r].token = 0
      /\ sess[r].preConsumed = 0 /\ sess[r].fundConsumed = 0 /\ sess[r].extraReserved = 0 /\ ~Committed(r) /\ ~sess[r].refunded
      /\ sess[r].tokenConsumed \in Nat
      /\ sess[r].funding # "none"
      /\ (sess[r].tokenConsumed = 0 \/ Profile(r).playground)
  BY <1>1, <1>2, <1>3 DEF PreConsumeTokenCheck, SessionShape, OutcomeShape, FeeBooks, Opening, Reserving,
       NoSession, ledgers, plan, ghosts, SessOK, SessionType, Effective, Profile, ReqOK,
       ProfileType
<1>5. SubWithinTotal' BY <1>3 DEF IInv, SubWithinTotal
<1>6. CASE /\ Profile(r).playground
           /\ sess' = [sess EXCEPT ![r].tokenConsumed = Effective(r)]
           /\ Goto(r, "preFund") /\ NoFault /\ UNCHANGED outcome
  <2>1. pc'[r] = "preFund" /\ outcome'[r] = "none" /\ hit' = hit /\ Profile(r).playground
        /\ sess'[r] = [sess[r] EXCEPT !.tokenConsumed = Effective(r)] /\ Effective(r)' = Effective(r)
    BY <1>1, <1>3, <1>4, <1>6 DEF PcOK, OutcomeOK, SessOK, FaultsOK, Effective, Profile, Goto, NoFault, faultVars
  <2>2. TypeOK'
    <3>1. PcOK' BY <1>1, <1>3, <1>4, <1>6 DEF PcOK, Labels, BgLabels, Effective, Profile, Goto, NoFault, faultVars
    <3>2. OutcomeOK' BY <1>1, <1>3, <1>4, <1>6 DEF OutcomeOK, Effective, Profile, Goto, NoFault, faultVars
    <3>3. SessOK' BY <1>1, <1>3, <1>4, <1>6 DEF SessOK, SessionType, NoSession, Effective, Profile, Goto, NoFault, faultVars
    <3>4. FaultsOK' BY <1>1, <1>3, <1>4, <1>6 DEF FaultsOK, Effective, Profile, Goto, NoFault, faultVars
    <3>5. QED BY <1>1, <1>3, <3>1, <3>2, <3>3, <3>4 DEF TypeOK, LedgersOK, ReqOK, PaidOK
  <2>3. \A q \in Requests \ {r} : Same(q)
    BY <1>1, <1>3, <1>6 DEF Same, PcOK, OutcomeOK, SessOK, FaultsOK, Effective, Profile, Goto, NoFault, faultVars
  <2>4. Books(r)'
    BY <1>1, <1>2, <1>3, <1>4, <2>1 DEF Books, SourceBooks, NoSession, PaidOK, SessionShape, Opening, Reserving, Covers,
         InReserve, Committed, Profile, ReqOK, SessOK, SessionType, ProfileType, OutcomeShape,
         SettleRefused, FeeBooks, TokenDue, TokenBooks, NetToken, TokenHold, Effective,
         FundBooks, NetFund, Repeated, FundPaid, FundFee, FundHold
  <2>5. QED BY <2>2, <2>3, <1>5, <2>4, OneRequest
<1>7. CASE ~Profile(r).playground /\ Goto(r, "decToken") /\ NoFault /\ UNCHANGED <<sess, outcome>>
  <2>1. ~Profile(r).playground /\ pc'[r] = "decToken" /\ outcome'[r] = "none" /\ hit' = hit /\ sess'[r] = sess[r]
    BY <1>1, <1>3, <1>4, <1>7 DEF PcOK, OutcomeOK, SessOK, FaultsOK, Goto, NoFault, faultVars
  <2>2. TypeOK'
    BY <1>1, <1>3, <1>4, <1>7 DEF TypeOK, LedgersOK, PcOK, ReqOK, OutcomeOK, SessOK, PaidOK, FaultsOK, Labels,
         BgLabels, SessionType, NoSession, Goto, NoFault, faultVars
  <2>3. \A q \in Requests \ {r} : Same(q)
    BY <1>1, <1>3, <1>7 DEF Same, PcOK, OutcomeOK, SessOK, FaultsOK, Goto, NoFault, faultVars
  <2>4. Books(r)'
    BY <1>1, <1>2, <1>3, <1>4, <2>1 DEF Books, SourceBooks, NoSession, PaidOK, SessionShape, Opening, Reserving, Covers,
         InReserve, Committed, Profile, ReqOK, SessOK, SessionType, ProfileType, OutcomeShape,
         SettleRefused, FeeBooks, TokenDue, TokenBooks, NetToken, TokenHold, Effective,
         FundBooks, NetFund, Repeated, FundPaid, FundFee, FundHold
  <2>5. QED BY <2>2, <2>3, <1>5, <2>4, OneRequest
<1>8. CASE Reject(r) /\ (NoFault \/ Fault(r)) /\ UNCHANGED sess
  <2>1. pc'[r] = "ended" /\ outcome'[r] = "rejected" /\ (r \in hit => r \in hit') /\ sess'[r] = sess[r]
    BY <1>1, <1>3, <1>4, <1>8 DEF PcOK, OutcomeOK, SessOK, FaultsOK, Goto, NoFault, faultVars, Reject, Fault
  <2>2. TypeOK'
    BY <1>1, <1>3, <1>4, <1>8 DEF TypeOK, LedgersOK, PcOK, ReqOK, OutcomeOK, SessOK, PaidOK, FaultsOK, Labels,
         BgLabels, SessionType, NoSession, Goto, NoFault, faultVars, Reject, Fault
  <2>3. \A q \in Requests \ {r} : Same(q)
    BY <1>1, <1>3, <1>8 DEF Same, PcOK, OutcomeOK, SessOK, FaultsOK, Goto, NoFault, faultVars, Reject, Fault
  <2>4. Books(r)'
    BY <1>1, <1>2, <1>3, <1>4, <2>1 DEF Books, SourceBooks, NoSession, PaidOK, SessionShape, Opening, Reserving, Covers,
         InReserve, Committed, Profile, ReqOK, SessOK, SessionType, ProfileType, OutcomeShape,
         SettleRefused, FeeBooks, TokenDue, TokenBooks, NetToken, TokenHold, Effective,
         FundBooks, NetFund, Repeated, FundPaid, FundFee, FundHold
  <2>5. QED BY <2>2, <2>3, <1>5, <2>4, OneRequest
<1>9. QED
  BY <1>6, <1>7, <1>8 DEF PreConsumeTokenCheck, ledgers, plan, ghosts

\* PreConsumeTokenDecrease keeps the inductive invariant.
LEMMA PreConsumeTokenDecreaseStep ==
  ASSUME IInv, NEW r \in Requests, PreConsumeTokenDecrease(r)
  PROVE  IInv'
<1>1. LedgersOK /\ PcOK /\ ReqOK /\ OutcomeOK /\ SessOK /\ PaidOK /\ FaultsOK
  BY DEF IInv, TypeOK
<1>2. /\ SourceBooks(r) /\ SessionShape(r) /\ OutcomeShape(r)
      /\ FeeBooks(r) /\ TokenBooks(r) /\ FundBooks(r)
  BY DEF IInv, BooksAgree, Books
<1>3. UNCHANGED <<wallet, subUsed, record, subActive, overflow, req, due, bg, tries, fee, credits>>
  BY DEF PreConsumeTokenDecrease, ledgers, plan, ChargeToken
<1>4. pc[r] = "decToken" /\ outcome[r] = "none" /\ bg[r] = "none" /\ Effective(r) \in Nat
      /\ paid[r].wallet = 0 /\ paid[r].sub = 0 /\ fee[r].wallet = 0 /\ fee[r].sub = 0 /\ fee[r].token = 0
      /\ sess[r].preConsumed = 0 /\ sess[r].fundConsumed = 0 /\ sess[r].extraReserved = 0 /\ ~Committed(r) /\ ~sess[r].refunded
      /\ sess[r].tokenConsumed \in Nat
      /\ sess[r].funding # "none" /\ ~Profile(r).playground /\ sess[r].tokenConsumed = 0
  BY <1>1, <1>2, <1>3 DEF PreConsumeTokenDecrease, SessionShape, OutcomeShape, FeeBooks, Opening, Reserving,
       NoSession, ledgers, plan, ChargeToken, SessOK, SessionType, Effective, Profile, ReqOK,
       ProfileType
<1>5. SubWithinTotal' BY <1>3 DEF IInv, SubWithinTotal
<1>6. CASE /\ ChargeToken(r, Effective(r))
           /\ sess' = [sess EXCEPT ![r].tokenConsumed = Effective(r)]
           /\ Goto(r, "preFund") /\ NoFault /\ UNCHANGED outcome
  <2>1. pc'[r] = "preFund" /\ outcome'[r] = "none" /\ hit' = hit
        /\ paid'[r].wallet = paid[r].wallet /\ paid'[r].sub = paid[r].sub /\ paid'[r].token = paid[r].token + Effective(r)
        /\ sess'[r] = [sess[r] EXCEPT !.tokenConsumed = Effective(r)] /\ Effective(r)' = Effective(r)
    BY <1>1, <1>3, <1>4, <1>6 DEF LedgersOK, PcOK, OutcomeOK, SessOK, PaidOK, FaultsOK, Effective, Profile, Goto,
         NoFault, faultVars, ChargeToken
  <2>2. TypeOK'
    <3>1. LedgersOK' BY ConstantsAssumption, <1>1, <1>3, <1>4, <1>6 DEF LedgersOK, Effective, Profile, Goto, NoFault, faultVars, ChargeToken
    <3>2. PcOK' BY <1>1, <1>3, <1>4, <1>6 DEF PcOK, Labels, BgLabels, Effective, Profile, Goto, NoFault, faultVars, ChargeToken
    <3>3. OutcomeOK' BY <1>1, <1>3, <1>4, <1>6 DEF OutcomeOK, Effective, Profile, Goto, NoFault, faultVars, ChargeToken
    <3>4. SessOK' BY <1>1, <1>3, <1>4, <1>6 DEF SessOK, SessionType, NoSession, Effective, Profile, Goto, NoFault, faultVars,
           ChargeToken
    <3>5. PaidOK' BY <1>1, <1>3, <1>4, <1>6 DEF PaidOK, Effective, Profile, Goto, NoFault, faultVars, ChargeToken
    <3>6. FaultsOK' BY <1>1, <1>3, <1>4, <1>6 DEF FaultsOK, Effective, Profile, Goto, NoFault, faultVars, ChargeToken
    <3>7. QED BY <1>1, <1>3, <3>1, <3>2, <3>3, <3>4, <3>5, <3>6 DEF TypeOK, ReqOK
  <2>3. \A q \in Requests \ {r} : Same(q)
    BY <1>1, <1>3, <1>6 DEF Same, LedgersOK, PcOK, OutcomeOK, SessOK, PaidOK, FaultsOK, Effective, Profile, Goto,
         NoFault, faultVars, ChargeToken
  <2>4. Books(r)'
    BY <1>1, <1>2, <1>3, <1>4, <2>1 DEF Books, SourceBooks, NoSession, PaidOK, SessionShape, Opening, Reserving, Covers,
         InReserve, Committed, Profile, ReqOK, SessOK, SessionType, ProfileType, OutcomeShape,
         SettleRefused, FeeBooks, TokenDue, TokenBooks, NetToken, TokenHold, Effective,
         FundBooks, NetFund, Repeated, FundPaid, FundFee, FundHold
  <2>5. QED BY <2>2, <2>3, <1>5, <2>4, OneRequest
<1>7. CASE Reject(r) /\ Fault(r) /\ UNCHANGED <<ledgers, paid, sess>>
  <2>1. pc'[r] = "ended" /\ outcome'[r] = "rejected" /\ r \in hit' /\ paid'[r] = paid[r] /\ sess'[r] = sess[r]
    BY <1>1, <1>3, <1>4, <1>7 DEF LedgersOK, PcOK, OutcomeOK, SessOK, PaidOK, FaultsOK, Goto, NoFault, faultVars,
         Reject, Fault, ledgers
  <2>2. TypeOK'
    BY ConstantsAssumption, <1>1, <1>3, <1>4, <1>7 DEF TypeOK, LedgersOK, PcOK, ReqOK, OutcomeOK, SessOK, PaidOK, FaultsOK, Labels,
         BgLabels, SessionType, NoSession, Goto, NoFault, faultVars, Reject, Fault, ledgers
  <2>3. \A q \in Requests \ {r} : Same(q)
    BY <1>1, <1>3, <1>7 DEF Same, LedgersOK, PcOK, OutcomeOK, SessOK, PaidOK, FaultsOK, Goto, NoFault, faultVars,
         Reject, Fault, ledgers
  <2>4. Books(r)'
    BY <1>1, <1>2, <1>3, <1>4, <2>1 DEF Books, SourceBooks, NoSession, PaidOK, SessionShape, Opening, Reserving, Covers,
         InReserve, Committed, Profile, ReqOK, SessOK, SessionType, ProfileType, OutcomeShape,
         SettleRefused, FeeBooks, TokenDue, TokenBooks, NetToken, TokenHold, Effective,
         FundBooks, NetFund, Repeated, FundPaid, FundFee, FundHold
  <2>5. QED BY <2>2, <2>3, <1>5, <2>4, OneRequest
<1>8. QED
  BY <1>6, <1>7 DEF PreConsumeTokenDecrease, ledgers, plan, ChargeToken

\* PreConsumeFunding keeps the inductive invariant.
LEMMA PreConsumeFundingStep ==
  ASSUME IInv, NEW r \in Requests, PreConsumeFunding(r)
  PROVE  IInv'
<1>1. LedgersOK /\ PcOK /\ ReqOK /\ OutcomeOK /\ SessOK /\ PaidOK /\ FaultsOK
  BY DEF IInv, TypeOK
<1>2. /\ SourceBooks(r) /\ SessionShape(r) /\ OutcomeShape(r)
      /\ FeeBooks(r) /\ TokenBooks(r) /\ FundBooks(r)
  BY DEF IInv, BooksAgree, Books
<1>3. UNCHANGED <<token, subActive, overflow, req, due, outcome, bg, tries, fee, credits>>
  BY DEF PreConsumeFunding, ledgers, plan, ChargeWallet
<1>4. pc[r] = "preFund" /\ outcome[r] = "none" /\ bg[r] = "none" /\ Effective(r) \in Nat
      /\ paid[r].wallet = 0 /\ paid[r].sub = 0 /\ fee[r].wallet = 0 /\ fee[r].sub = 0 /\ fee[r].token = 0
      /\ sess[r].preConsumed = 0 /\ sess[r].fundConsumed = 0 /\ sess[r].extraReserved = 0 /\ ~Committed(r) /\ ~sess[r].refunded
      /\ sess[r].tokenConsumed \in Nat
      /\ sess[r].funding # "none"
  BY <1>1, <1>2, <1>3 DEF PreConsumeFunding, SessionShape, OutcomeShape, FeeBooks, Opening, Reserving, NoSession,
       ledgers, plan, ChargeWallet, SessOK, SessionType, Effective, Profile, ReqOK,
       ProfileType
<1>5. CASE /\ sess[r].funding = "wallet" /\ ChargeWallet(r, Effective(r))
           /\ sess' = [sess EXCEPT ![r] = [@ EXCEPT !.fundConsumed = Effective(r), !.preConsumed = Effective(r)]]
           /\ Goto(r, "serving") /\ NoFault
  <2>1. /\ pc'[r] = "serving" /\ hit' = hit /\ sess[r].funding = "wallet" /\ record'[r] = record[r]
        /\ paid'[r].wallet = paid[r].wallet + Effective(r) /\ paid'[r].sub = paid[r].sub /\ paid'[r].token = paid[r].token
        /\ sess'[r] = [sess[r] EXCEPT !.fundConsumed = Effective(r), !.preConsumed = Effective(r)]
    BY <1>1, <1>3, <1>4, <1>5 DEF LedgersOK, PcOK, SessOK, PaidOK, FaultsOK, Goto, NoFault, faultVars, ChargeWallet
  <2>2. TypeOK'
    <3>1. LedgersOK' BY ConstantsAssumption, <1>1, <1>3, <1>4, <1>5 DEF LedgersOK, Goto, NoFault, faultVars, ChargeWallet
    <3>2. PcOK' BY <1>1, <1>3, <1>4, <1>5 DEF PcOK, Labels, BgLabels, Goto, NoFault, faultVars, ChargeWallet
    <3>3. SessOK' BY <1>1, <1>3, <1>4, <1>5 DEF SessOK, SessionType, NoSession, Goto, NoFault, faultVars, ChargeWallet
    <3>4. PaidOK' BY <1>1, <1>3, <1>4, <1>5 DEF PaidOK, Goto, NoFault, faultVars, ChargeWallet
    <3>5. FaultsOK' BY <1>1, <1>3, <1>4, <1>5 DEF FaultsOK, Goto, NoFault, faultVars, ChargeWallet
    <3>6. QED BY <1>1, <1>3, <3>1, <3>2, <3>3, <3>4, <3>5 DEF TypeOK, ReqOK, OutcomeOK
  <2>3. \A q \in Requests \ {r} : Same(q)
    BY <1>1, <1>3, <1>5 DEF Same, LedgersOK, PcOK, SessOK, PaidOK, FaultsOK, Goto, NoFault, faultVars,
         ChargeWallet
  <2>4. SubWithinTotal'
    BY <1>1, <1>3, <1>4, <1>5, ConstantsAssumption DEF IInv, SubWithinTotal, FundingFits, LedgersOK, ChargeWallet, ledgers
  <2>5. Books(r)'
    BY <1>1, <1>2, <1>3, <1>4, <2>1 DEF Books, SourceBooks, NoSession, PaidOK, SessionShape, Opening, Reserving, Covers,
         InReserve, Committed, Profile, ReqOK, SessOK, SessionType, ProfileType, OutcomeShape,
         SettleRefused, FeeBooks, TokenDue, TokenBooks, NetToken, TokenHold, Effective,
         FundBooks, NetFund, Repeated, FundPaid, FundFee, FundHold
  <2>6. QED BY <2>2, <2>3, <2>4, <2>5, OneRequest
<1>6. CASE /\ sess[r].funding = "subscription" /\ FundingFits(r, Effective(r))
           /\ subUsed' = subUsed + Effective(r)
           /\ record' = [record EXCEPT ![r] = "consumed"]
           /\ paid' = [paid EXCEPT ![r].sub = @ + Effective(r)]
           /\ UNCHANGED <<wallet, token>>
           /\ sess' = [sess EXCEPT ![r] = [@ EXCEPT !.fundConsumed = Effective(r), !.preConsumed = Effective(r)]]
           /\ Goto(r, "serving") /\ NoFault
  <2>1. /\ pc'[r] = "serving" /\ hit' = hit /\ sess[r].funding = "subscription"
        /\ record'[r] = "consumed"
        /\ paid'[r].wallet = paid[r].wallet /\ paid'[r].sub = paid[r].sub + Effective(r) /\ paid'[r].token = paid[r].token
        /\ sess'[r] = [sess[r] EXCEPT !.fundConsumed = Effective(r), !.preConsumed = Effective(r)]
    BY <1>1, <1>3, <1>4, <1>6 DEF LedgersOK, PcOK, SessOK, PaidOK, FaultsOK, Goto, NoFault, faultVars
  <2>2. TypeOK'
    <3>1. LedgersOK' BY ConstantsAssumption, <1>1, <1>3, <1>4, <1>6 DEF LedgersOK, Goto, NoFault, faultVars
    <3>2. PcOK' BY <1>1, <1>3, <1>4, <1>6 DEF PcOK, Labels, BgLabels, Goto, NoFault, faultVars
    <3>3. SessOK' BY <1>1, <1>3, <1>4, <1>6 DEF SessOK, SessionType, NoSession, Goto, NoFault, faultVars
    <3>4. PaidOK' BY <1>1, <1>3, <1>4, <1>6 DEF PaidOK, Goto, NoFault, faultVars
    <3>5. FaultsOK' BY <1>1, <1>3, <1>4, <1>6 DEF FaultsOK, Goto, NoFault, faultVars
    <3>6. QED BY <1>1, <1>3, <3>1, <3>2, <3>3, <3>4, <3>5 DEF TypeOK, ReqOK, OutcomeOK
  <2>3. \A q \in Requests \ {r} : Same(q)
    BY <1>1, <1>3, <1>6 DEF Same, LedgersOK, PcOK, SessOK, PaidOK, FaultsOK, Goto, NoFault, faultVars
  <2>4. SubWithinTotal'
    BY <1>1, <1>3, <1>4, <1>6, ConstantsAssumption DEF IInv, SubWithinTotal, FundingFits, LedgersOK, ChargeWallet, ledgers
  <2>5. Books(r)'
    BY <1>1, <1>2, <1>3, <1>4, <2>1 DEF Books, SourceBooks, NoSession, PaidOK, SessionShape, Opening, Reserving, Covers,
         InReserve, Committed, Profile, ReqOK, SessOK, SessionType, ProfileType, OutcomeShape,
         SettleRefused, FeeBooks, TokenDue, TokenBooks, NetToken, TokenHold, Effective,
         FundBooks, NetFund, Repeated, FundPaid, FundFee, FundHold
  <2>6. QED BY <2>2, <2>3, <2>4, <2>5, OneRequest
<1>7. CASE /\ Profile(r).playground
           /\ (\E l \in {"fallback", "reject"} : Goto(r, l))
           /\ NoFault \/ Fault(r)
           /\ UNCHANGED <<ledgers, paid, sess>>
  <2>1. /\ pc'[r] \in {"fallback", "reject"} /\ Profile(r).playground
        /\ (r \in hit => r \in hit') /\ paid'[r] = paid[r] /\ sess'[r] = sess[r] /\ record'[r] = record[r]
    BY <1>1, <1>3, <1>4, <1>7 DEF LedgersOK, PcOK, SessOK, PaidOK, FaultsOK, Goto, NoFault, faultVars, Fault, ledgers
  <2>2. TypeOK'
    BY ConstantsAssumption, <1>1, <1>3, <1>4, <1>7 DEF TypeOK, LedgersOK, PcOK, ReqOK, OutcomeOK, SessOK, PaidOK, FaultsOK, Labels,
         BgLabels, SessionType, NoSession, Goto, NoFault, faultVars, Fault, ledgers
  <2>3. \A q \in Requests \ {r} : Same(q)
    BY <1>1, <1>3, <1>7 DEF Same, LedgersOK, PcOK, SessOK, PaidOK, FaultsOK, Goto, NoFault, faultVars, Fault,
         ledgers
  <2>4. SubWithinTotal'
    BY <1>1, <1>3, <1>4, <1>7, ConstantsAssumption DEF IInv, SubWithinTotal, FundingFits, LedgersOK, ChargeWallet, ledgers
  <2>5. Books(r)'
    BY <1>1, <1>2, <1>3, <1>4, <2>1 DEF Books, SourceBooks, NoSession, PaidOK, SessionShape, Opening, Reserving, Covers,
         InReserve, Committed, Profile, ReqOK, SessOK, SessionType, ProfileType, OutcomeShape,
         SettleRefused, FeeBooks, TokenDue, TokenBooks, NetToken, TokenHold, Effective,
         FundBooks, NetFund, Repeated, FundPaid, FundFee, FundHold
  <2>6. QED BY <2>2, <2>3, <2>4, <2>5, OneRequest
<1>8. CASE /\ ~Profile(r).playground
           /\ (\E l \in {"rollbackInsufficient", "rollbackError"} : Goto(r, l))
           /\ NoFault \/ Fault(r)
           /\ UNCHANGED <<ledgers, paid, sess>>
  <2>1. /\ pc'[r] \in {"rollbackInsufficient", "rollbackError"} /\ ~Profile(r).playground
        /\ (r \in hit => r \in hit') /\ paid'[r] = paid[r] /\ sess'[r] = sess[r] /\ record'[r] = record[r]
    BY <1>1, <1>3, <1>4, <1>8 DEF LedgersOK, PcOK, SessOK, PaidOK, FaultsOK, Goto, NoFault, faultVars, Fault, ledgers
  <2>2. TypeOK'
    BY ConstantsAssumption, <1>1, <1>3, <1>4, <1>8 DEF TypeOK, LedgersOK, PcOK, ReqOK, OutcomeOK, SessOK, PaidOK, FaultsOK, Labels,
         BgLabels, SessionType, NoSession, Goto, NoFault, faultVars, Fault, ledgers
  <2>3. \A q \in Requests \ {r} : Same(q)
    BY <1>1, <1>3, <1>8 DEF Same, LedgersOK, PcOK, SessOK, PaidOK, FaultsOK, Goto, NoFault, faultVars, Fault,
         ledgers
  <2>4. SubWithinTotal'
    BY <1>1, <1>3, <1>4, <1>8, ConstantsAssumption DEF IInv, SubWithinTotal, FundingFits, LedgersOK, ChargeWallet, ledgers
  <2>5. Books(r)'
    BY <1>1, <1>2, <1>3, <1>4, <2>1 DEF Books, SourceBooks, NoSession, PaidOK, SessionShape, Opening, Reserving, Covers,
         InReserve, Committed, Profile, ReqOK, SessOK, SessionType, ProfileType, OutcomeShape,
         SettleRefused, FeeBooks, TokenDue, TokenBooks, NetToken, TokenHold, Effective,
         FundBooks, NetFund, Repeated, FundPaid, FundFee, FundHold
  <2>6. QED BY <2>2, <2>3, <2>4, <2>5, OneRequest
<1>9. QED
  BY <1>5, <1>6, <1>7, <1>8 DEF PreConsumeFunding, ledgers, plan, ChargeWallet, Goto, AfterFundingError

\* PreConsumeRollback keeps the inductive invariant.
LEMMA PreConsumeRollbackStep ==
  ASSUME IInv, NEW r \in Requests, PreConsumeRollback(r)
  PROVE  IInv'
<1>1. LedgersOK /\ PcOK /\ ReqOK /\ OutcomeOK /\ SessOK /\ PaidOK /\ FaultsOK
  BY DEF IInv, TypeOK
<1>2. /\ SourceBooks(r) /\ SessionShape(r) /\ OutcomeShape(r)
      /\ FeeBooks(r) /\ TokenBooks(r) /\ FundBooks(r)
  BY DEF IInv, BooksAgree, Books
<1>3. UNCHANGED <<wallet, subUsed, record, subActive, overflow, req, due, outcome, bg, tries, fee, credits>>
  BY DEF PreConsumeRollback, ledgers, plan, ChargeToken
<1>4. pc[r] \in {"rollbackInsufficient", "rollbackError"} /\ outcome[r] = "none" /\ bg[r] = "none" /\ Effective(r) \in Nat
      /\ paid[r].wallet = 0 /\ paid[r].sub = 0 /\ fee[r].wallet = 0 /\ fee[r].sub = 0 /\ fee[r].token = 0
      /\ sess[r].preConsumed = 0 /\ sess[r].fundConsumed = 0 /\ sess[r].extraReserved = 0 /\ ~Committed(r) /\ ~sess[r].refunded
      /\ sess[r].tokenConsumed \in Nat
      /\ sess[r].funding # "none" /\ ~Profile(r).playground
  BY <1>1, <1>2, <1>3 DEF PreConsumeRollback, SessionShape, OutcomeShape, FeeBooks, Opening, Reserving,
       NoSession, ledgers, plan, ChargeToken, SessOK, SessionType, Effective, Profile, ReqOK,
       ProfileType
<1>5. SubWithinTotal' BY <1>3 DEF IInv, SubWithinTotal
<1>6. CASE /\ ChargeToken(r, -sess[r].tokenConsumed) /\ NoFault
           /\ sess' = [sess EXCEPT ![r].tokenConsumed = 0]
           /\ Goto(r, IF pc[r] = "rollbackInsufficient" THEN "fallback" ELSE "reject")
  <2>1. pc'[r] \in {"fallback", "reject"} /\ hit' = hit
        /\ paid'[r].wallet = paid[r].wallet /\ paid'[r].sub = paid[r].sub /\ paid'[r].token = paid[r].token - sess[r].tokenConsumed
        /\ sess'[r] = [sess[r] EXCEPT !.tokenConsumed = 0]
    BY <1>1, <1>3, <1>4, <1>6 DEF LedgersOK, PcOK, SessOK, PaidOK, FaultsOK, Goto, NoFault, faultVars, ChargeToken,
         SessionType
  <2>2. TypeOK'
    <3>1. LedgersOK' BY ConstantsAssumption, <1>1, <1>3, <1>4, <1>6 DEF LedgersOK, Goto, NoFault, faultVars, ChargeToken, SessionType
    <3>2. PcOK' BY <1>1, <1>3, <1>4, <1>6 DEF PcOK, Labels, BgLabels, Goto, NoFault, faultVars, ChargeToken, SessionType
    <3>3. SessOK' BY <1>1, <1>3, <1>4, <1>6 DEF SessOK, SessionType, NoSession, Goto, NoFault, faultVars, ChargeToken, SessionType
    <3>4. PaidOK' BY <1>1, <1>3, <1>4, <1>6 DEF PaidOK, Goto, NoFault, faultVars, ChargeToken, SessionType
    <3>5. FaultsOK' BY <1>1, <1>3, <1>4, <1>6 DEF FaultsOK, Goto, NoFault, faultVars, ChargeToken, SessionType
    <3>6. QED BY <1>1, <1>3, <3>1, <3>2, <3>3, <3>4, <3>5 DEF TypeOK, ReqOK, OutcomeOK
  <2>3. \A q \in Requests \ {r} : Same(q)
    BY <1>1, <1>3, <1>6 DEF Same, LedgersOK, PcOK, SessOK, PaidOK, FaultsOK, Goto, NoFault, faultVars,
         ChargeToken, SessionType
  <2>4. Books(r)'
    <3>1. SourceBooks(r)' /\ SessionShape(r)' /\ FeeBooks(r)'
      BY <1>1, <1>2, <1>3, <1>4, <2>1 DEF SourceBooks, NoSession, PaidOK, SessionShape, Opening, Reserving, Covers,
           InReserve, Committed, Effective, Profile, ReqOK, SessOK, SessionType, ProfileType, FeeBooks, TokenDue
    <3>2. OutcomeShape(r)'
      BY <1>1, <1>2, <1>3, <1>4, <2>1 DEF OutcomeShape, SessionShape, Opening, Reserving, Committed, SettleRefused,
           NoSession, SessOK, SessionType
    <3>3. TokenBooks(r)'
      BY <1>1, <1>2, <1>3, <1>4, <2>1 DEF TokenBooks, NetToken, TokenHold, TokenDue, Covers, Profile, PaidOK,
           SessionShape, Opening, Reserving, SessOK, SessionType, ReqOK, ProfileType, OutcomeShape, Committed
    <3>4. FundBooks(r)'
      BY <1>1, <1>2, <1>3, <1>4, <2>1 DEF FundBooks, NetFund, Repeated, FundPaid, FundFee, FundHold, Committed,
           InReserve, Reserving, Covers, PaidOK, SessOK, SessionType, ReqOK, OutcomeShape
    <3>5. QED BY <3>1, <3>2, <3>3, <3>4 DEF Books
  <2>5. QED BY <2>2, <2>3, <1>5, <2>4, OneRequest
<1>7. CASE /\ Fault(r) /\ UNCHANGED <<ledgers, paid>>
           /\ sess' = [sess EXCEPT ![r].tokenConsumed = 0]
           /\ Goto(r, IF pc[r] = "rollbackInsufficient" THEN "fallback" ELSE "reject")
  <2>1. pc'[r] \in {"fallback", "reject"} /\ r \in hit' /\ paid'[r] = paid[r]
        /\ sess'[r] = [sess[r] EXCEPT !.tokenConsumed = 0]
    BY <1>1, <1>3, <1>4, <1>7 DEF LedgersOK, PcOK, SessOK, PaidOK, FaultsOK, Goto, Fault, ledgers
  <2>2. TypeOK'
    <3>1. LedgersOK' BY ConstantsAssumption, <1>1, <1>3, <1>4, <1>7 DEF LedgersOK, Goto, Fault, ledgers
    <3>2. PcOK' BY <1>1, <1>3, <1>4, <1>7 DEF PcOK, Labels, BgLabels, Goto, Fault, ledgers
    <3>3. SessOK' BY <1>1, <1>3, <1>4, <1>7 DEF SessOK, SessionType, NoSession, Goto, Fault, ledgers
    <3>4. PaidOK' BY <1>1, <1>3, <1>4, <1>7 DEF PaidOK, Goto, Fault, ledgers
    <3>5. FaultsOK' BY <1>1, <1>3, <1>4, <1>7 DEF FaultsOK, Goto, Fault, ledgers
    <3>6. QED BY <1>1, <1>3, <3>1, <3>2, <3>3, <3>4, <3>5 DEF TypeOK, ReqOK, OutcomeOK
  <2>3. \A q \in Requests \ {r} : Same(q)
    BY <1>1, <1>3, <1>7 DEF Same, LedgersOK, PcOK, SessOK, PaidOK, FaultsOK, Goto, Fault, ledgers
  <2>4. Books(r)'
    BY <1>1, <1>2, <1>3, <1>4, <2>1 DEF Books, SourceBooks, NoSession, PaidOK, SessionShape, Opening, Reserving, Covers,
         InReserve, Committed, Profile, ReqOK, SessOK, SessionType, ProfileType, OutcomeShape,
         SettleRefused, FeeBooks, TokenDue, TokenBooks, NetToken, TokenHold, Effective,
         FundBooks, NetFund, Repeated, FundPaid, FundFee, FundHold
  <2>5. QED BY <2>2, <2>3, <1>5, <2>4, OneRequest
<1>8. QED
  BY <1>6, <1>7 DEF PreConsumeRollback, ledgers, plan, ChargeToken

\* Fallback keeps the inductive invariant.
LEMMA FallbackStep ==
  ASSUME IInv, NEW r \in Requests, Fallback(r)
  PROVE  IInv'
<1>1. LedgersOK /\ PcOK /\ ReqOK /\ OutcomeOK /\ SessOK /\ PaidOK /\ FaultsOK
  BY DEF IInv, TypeOK
<1>2. /\ SourceBooks(r) /\ SessionShape(r) /\ OutcomeShape(r)
      /\ FeeBooks(r) /\ TokenBooks(r) /\ FundBooks(r)
  BY DEF IInv, BooksAgree, Books
<1>3. UNCHANGED <<wallet, token, subUsed, record, subActive, overflow, req, due, bg, tries, paid, fee, credits>>
  BY DEF Fallback, ledgers, plan, ghosts
<1>4. pc[r] \in {"fallback", "reject"} /\ outcome[r] = "none" /\ bg[r] = "none" /\ Effective(r) \in Nat
      /\ paid[r].wallet = 0 /\ paid[r].sub = 0 /\ fee[r].wallet = 0 /\ fee[r].sub = 0 /\ fee[r].token = 0
      /\ sess[r].preConsumed = 0 /\ sess[r].fundConsumed = 0 /\ sess[r].extraReserved = 0 /\ ~Committed(r) /\ ~sess[r].refunded
      /\ sess[r].tokenConsumed \in Nat
      /\ (sess[r].tokenConsumed = 0 \/ Profile(r).playground)
  BY <1>1, <1>2, <1>3 DEF Fallback, SessionShape, OutcomeShape, FeeBooks, Opening, Reserving, NoSession, ledgers,
       plan, ghosts, SessOK, SessionType, Effective, Profile, ReqOK, ProfileType
<1>5. SubWithinTotal' BY <1>3 DEF IInv, SubWithinTotal
<1>6. CASE sess' = [sess EXCEPT ![r] = NoSession] /\ Goto(r, "tryWallet") /\ NoFault /\ UNCHANGED outcome
  <2>1. pc'[r] = "tryWallet" /\ outcome'[r] = "none" /\ hit' = hit /\ sess'[r] = NoSession
    BY <1>1, <1>3, <1>4, <1>6 DEF PcOK, OutcomeOK, SessOK, FaultsOK, Goto, NoFault, faultVars
  <2>2. TypeOK'
    BY <1>1, <1>3, <1>4, <1>6 DEF TypeOK, LedgersOK, PcOK, ReqOK, OutcomeOK, SessOK, PaidOK, FaultsOK, Labels,
         BgLabels, SessionType, NoSession, Goto, NoFault, faultVars
  <2>3. \A q \in Requests \ {r} : Same(q)
    BY <1>1, <1>3, <1>6 DEF Same, PcOK, OutcomeOK, SessOK, FaultsOK, Goto, NoFault, faultVars
  <2>4. Books(r)'
    BY <1>1, <1>2, <1>3, <1>4, <2>1 DEF Books, SourceBooks, NoSession, PaidOK, SessionShape, Opening, Reserving, Covers,
         InReserve, Committed, Profile, ReqOK, SessOK, SessionType, ProfileType, OutcomeShape,
         SettleRefused, FeeBooks, TokenDue, TokenBooks, NetToken, TokenHold, Effective,
         FundBooks, NetFund, Repeated, FundPaid, FundFee, FundHold
  <2>5. QED BY <2>2, <2>3, <1>5, <2>4, OneRequest
<1>7. CASE sess' = [sess EXCEPT ![r] = NoSession] /\ Reject(r) /\ (NoFault \/ Fault(r))
  <2>1. pc'[r] = "ended" /\ outcome'[r] = "rejected" /\ (r \in hit => r \in hit') /\ sess'[r] = NoSession
    BY <1>1, <1>3, <1>4, <1>7 DEF PcOK, OutcomeOK, SessOK, FaultsOK, Goto, NoFault, faultVars, Reject, Fault
  <2>2. TypeOK'
    BY <1>1, <1>3, <1>4, <1>7 DEF TypeOK, LedgersOK, PcOK, ReqOK, OutcomeOK, SessOK, PaidOK, FaultsOK, Labels,
         BgLabels, SessionType, NoSession, Goto, NoFault, faultVars, Reject, Fault
  <2>3. \A q \in Requests \ {r} : Same(q)
    BY <1>1, <1>3, <1>7 DEF Same, PcOK, OutcomeOK, SessOK, FaultsOK, Goto, NoFault, faultVars, Reject, Fault
  <2>4. Books(r)'
    BY <1>1, <1>2, <1>3, <1>4, <2>1 DEF Books, SourceBooks, NoSession, PaidOK, SessionShape, Opening, Reserving, Covers,
         InReserve, Committed, Profile, ReqOK, SessOK, SessionType, ProfileType, OutcomeShape,
         SettleRefused, FeeBooks, TokenDue, TokenBooks, NetToken, TokenHold, Effective,
         FundBooks, NetFund, Repeated, FundPaid, FundFee, FundHold
  <2>5. QED BY <2>2, <2>3, <1>5, <2>4, OneRequest
<1>8. QED
  BY <1>6, <1>7 DEF Fallback, ledgers, plan, ghosts

\* Reserve keeps the inductive invariant.
LEMMA ReserveStep ==
  ASSUME IInv, NEW r \in Requests, Reserve(r)
  PROVE  IInv'
<1>1. LedgersOK /\ PcOK /\ ReqOK /\ OutcomeOK /\ SessOK /\ PaidOK /\ FaultsOK
  BY DEF IInv, TypeOK
<1>2. /\ SourceBooks(r) /\ SessionShape(r) /\ OutcomeShape(r)
      /\ FeeBooks(r) /\ TokenBooks(r) /\ FundBooks(r)
  BY DEF IInv, BooksAgree, Books
<1>3. UNCHANGED <<wallet, token, subUsed, record, subActive, overflow, req, sess, outcome, bg, tries, paid, fee, credits, faults, hit>>
  BY DEF Reserve, ledgers, plan, ghosts, faultVars
<1>4. pc[r] = "serving" /\ outcome[r] = "none" /\ bg[r] = "none"
      /\ fee[r].wallet = 0 /\ fee[r].sub = 0 /\ fee[r].token = 0
      /\ ~Committed(r) /\ ~sess[r].refunded /\ sess[r].tokenConsumed = sess[r].preConsumed
      /\ due[r] \in Nat /\ sess[r].preConsumed \in Nat /\ sess[r].fundConsumed \in Nat
      /\ sess[r].tokenConsumed \in Nat /\ sess[r].extraReserved \in Nat
      /\ sess[r].funding \in {"wallet", "subscription"}
  BY <1>1, <1>2, <1>3 DEF Reserve, SessionShape, OutcomeShape, FeeBooks, Opening, Reserving, NoSession, ledgers,
       plan, ghosts, faultVars, SessOK, SessionType, ReqOK, Serving
<1>5. SubWithinTotal' BY <1>3 DEF IInv, SubWithinTotal
<1>6. CASE /\ \E t \in Targets : t > sess[r].preConsumed /\ due' = [due EXCEPT ![r] = t - sess[r].preConsumed]
           /\ Goto(r, "reserveFunding")
  <2>1. pc'[r] = "reserveFunding" /\ due'[r] \in Nat
    BY <1>1, <1>3, <1>4, <1>6, ConstantsAssumption DEF PcOK, ReqOK, Goto
  <2>2. TypeOK'
    BY ConstantsAssumption, <1>1, <1>3, <1>4, <1>6 DEF TypeOK, LedgersOK, PcOK, ReqOK, OutcomeOK, SessOK, PaidOK, FaultsOK, Labels,
         BgLabels, ProfileType, Goto
  <2>3. \A q \in Requests \ {r} : Same(q)
    BY <1>1, <1>3, <1>6 DEF Same, PcOK, ReqOK, Goto
  <2>4. Books(r)'
    BY <1>1, <1>2, <1>3, <1>4, <2>1 DEF Books, SourceBooks, NoSession, PaidOK, SessionShape, Opening, Reserving, Covers,
         InReserve, Committed, Effective, Profile, ReqOK, SessOK, SessionType, ProfileType,
         OutcomeShape, SettleRefused, FeeBooks, TokenDue, TokenBooks, NetToken, TokenHold,
         FundBooks, NetFund, Repeated, FundPaid, FundFee, FundHold
  <2>5. QED BY <2>2, <2>3, <1>5, <2>4, OneRequest
<1>7. QED
  BY <1>6 DEF Reserve, ledgers, plan, ghosts, faultVars

\* ReserveFunding keeps the inductive invariant.
LEMMA ReserveFundingStep ==
  ASSUME IInv, NEW r \in Requests, ReserveFunding(r)
  PROVE  IInv'
<1>1. LedgersOK /\ PcOK /\ ReqOK /\ OutcomeOK /\ SessOK /\ PaidOK /\ FaultsOK
  BY DEF IInv, TypeOK
<1>2. /\ SourceBooks(r) /\ SessionShape(r) /\ OutcomeShape(r)
      /\ FeeBooks(r) /\ TokenBooks(r) /\ FundBooks(r)
  BY DEF IInv, BooksAgree, Books
<1>3. UNCHANGED <<token, record, subActive, overflow, req, due, outcome, bg, tries, fee, credits>>
  BY DEF ReserveFunding, plan, ChargeFunding, ChargeWallet, ChargeSub, ledgers
<1>4. pc[r] = "reserveFunding" /\ outcome[r] = "none" /\ bg[r] = "none"
      /\ fee[r].wallet = 0 /\ fee[r].sub = 0 /\ fee[r].token = 0
      /\ ~Committed(r) /\ ~sess[r].refunded /\ sess[r].tokenConsumed = sess[r].preConsumed
      /\ due[r] \in Nat /\ sess[r].preConsumed \in Nat /\ sess[r].fundConsumed \in Nat
      /\ sess[r].tokenConsumed \in Nat /\ sess[r].extraReserved \in Nat
      /\ sess[r].funding \in {"wallet", "subscription"}
  BY <1>1, <1>2, <1>3 DEF ReserveFunding, SessionShape, OutcomeShape, FeeBooks, Opening, Reserving, NoSession,
       plan, ChargeFunding, ChargeWallet, ChargeSub, ledgers, SessOK, SessionType, ReqOK,
       Serving
<1>5. CASE /\ sess[r].funding = "wallet" /\ ChargeWallet(r, due[r]) /\ NoFault
           /\ sess' = [sess EXCEPT ![r].fundConsumed = @ + due[r]]
           /\ Goto(r, IF Profile(r).playground THEN "reserved" ELSE "reserveToken")
  <2>1. /\ pc'[r] = (IF Profile(r).playground THEN "reserved" ELSE "reserveToken") /\ hit' = hit
        /\ sess[r].funding = "wallet"
        /\ paid'[r].wallet = paid[r].wallet + due[r] /\ paid'[r].sub = paid[r].sub /\ paid'[r].token = paid[r].token
        /\ sess'[r] = [sess[r] EXCEPT !.fundConsumed = @ + due[r]]
    BY <1>1, <1>3, <1>4, <1>5 DEF LedgersOK, PcOK, SessOK, PaidOK, FaultsOK, Goto, NoFault, faultVars, ChargeWallet
  <2>2. TypeOK'
    <3>1. LedgersOK' BY ConstantsAssumption, <1>1, <1>3, <1>4, <1>5 DEF LedgersOK, Goto, NoFault, faultVars, ChargeWallet
    <3>2. PcOK' BY <1>1, <1>3, <1>4, <1>5 DEF PcOK, Labels, BgLabels, Goto, NoFault, faultVars, ChargeWallet
    <3>3. SessOK' BY <1>1, <1>3, <1>4, <1>5 DEF SessOK, SessionType, NoSession, Goto, NoFault, faultVars, ChargeWallet
    <3>4. PaidOK' BY <1>1, <1>3, <1>4, <1>5 DEF PaidOK, Goto, NoFault, faultVars, ChargeWallet
    <3>5. FaultsOK' BY <1>1, <1>3, <1>4, <1>5 DEF FaultsOK, Goto, NoFault, faultVars, ChargeWallet
    <3>6. QED BY <1>1, <1>3, <3>1, <3>2, <3>3, <3>4, <3>5 DEF TypeOK, ReqOK, OutcomeOK
  <2>3. \A q \in Requests \ {r} : Same(q)
    BY <1>1, <1>3, <1>5 DEF Same, LedgersOK, PcOK, SessOK, PaidOK, FaultsOK, Goto, NoFault, faultVars,
         ChargeWallet
  <2>4. SubWithinTotal'
    BY <1>1, <1>3, <1>4, <1>5, ConstantsAssumption
    DEF IInv, SubWithinTotal, ChargeSub, DeltaFits, NewUsed, LedgersOK, ChargeWallet, ledgers
  <2>5. Books(r)'
    BY <1>1, <1>2, <1>3, <1>4, <2>1 DEF Books, SourceBooks, NoSession, PaidOK, SessionShape, Opening, Reserving, Covers,
         InReserve, Committed, Effective, Profile, ReqOK, SessOK, SessionType, ProfileType,
         OutcomeShape, SettleRefused, FeeBooks, TokenDue, TokenBooks, NetToken, TokenHold,
         FundBooks, NetFund, Repeated, FundPaid, FundFee, FundHold
  <2>6. QED BY <2>2, <2>3, <2>4, <2>5, OneRequest
<1>6. CASE /\ sess[r].funding = "subscription" /\ ChargeSub(r, due[r]) /\ NoFault /\ UNCHANGED sess
           /\ Goto(r, IF Profile(r).playground THEN "reserved" ELSE "reserveToken")
  <2>1. /\ pc'[r] = (IF Profile(r).playground THEN "reserved" ELSE "reserveToken") /\ hit' = hit
        /\ sess[r].funding = "subscription"
        /\ paid'[r].wallet = paid[r].wallet /\ paid'[r].sub = paid[r].sub + due[r] /\ paid'[r].token = paid[r].token
        /\ sess'[r] = sess[r]
    BY <1>1, <1>3, <1>4, <1>6 DEF LedgersOK, PcOK, SessOK, PaidOK, FaultsOK, Goto, NoFault, faultVars, ChargeSub,
         NewUsed
  <2>2. TypeOK'
    BY ConstantsAssumption, <1>1, <1>3, <1>4, <1>6 DEF TypeOK, LedgersOK, PcOK, ReqOK, OutcomeOK, SessOK, PaidOK, FaultsOK, Labels,
         BgLabels, SessionType, NoSession, Goto, NoFault, faultVars, ChargeSub, NewUsed
  <2>3. \A q \in Requests \ {r} : Same(q)
    BY <1>1, <1>3, <1>6 DEF Same, LedgersOK, PcOK, SessOK, PaidOK, FaultsOK, Goto, NoFault, faultVars, ChargeSub,
         NewUsed
  <2>4. SubWithinTotal'
    BY <1>1, <1>3, <1>4, <1>6, ConstantsAssumption
    DEF IInv, SubWithinTotal, ChargeSub, DeltaFits, NewUsed, LedgersOK, ChargeWallet, ledgers
  <2>5. Books(r)'
    BY <1>1, <1>2, <1>3, <1>4, <2>1 DEF Books, SourceBooks, NoSession, PaidOK, SessionShape, Opening, Reserving, Covers,
         InReserve, Committed, Effective, Profile, ReqOK, SessOK, SessionType, ProfileType,
         OutcomeShape, SettleRefused, FeeBooks, TokenDue, TokenBooks, NetToken, TokenHold,
         FundBooks, NetFund, Repeated, FundPaid, FundFee, FundHold
  <2>6. QED BY <2>2, <2>3, <2>4, <2>5, OneRequest
<1>7. CASE /\ Goto(r, "serving") /\ UNCHANGED <<ledgers, paid, sess>>
           /\ NoFault \/ Fault(r)
  <2>1. /\ pc'[r] = "serving" /\ (r \in hit => r \in hit') /\ paid'[r] = paid[r] /\ sess'[r] = sess[r]
    BY <1>1, <1>3, <1>4, <1>7 DEF LedgersOK, PcOK, SessOK, PaidOK, FaultsOK, Goto, NoFault, faultVars, Fault, ledgers
  <2>2. TypeOK'
    BY ConstantsAssumption, <1>1, <1>3, <1>4, <1>7 DEF TypeOK, LedgersOK, PcOK, ReqOK, OutcomeOK, SessOK, PaidOK, FaultsOK, Labels,
         BgLabels, SessionType, NoSession, Goto, NoFault, faultVars, Fault, ledgers
  <2>3. \A q \in Requests \ {r} : Same(q)
    BY <1>1, <1>3, <1>7 DEF Same, LedgersOK, PcOK, SessOK, PaidOK, FaultsOK, Goto, NoFault, faultVars, Fault,
         ledgers
  <2>4. SubWithinTotal'
    BY <1>1, <1>3, <1>4, <1>7, ConstantsAssumption
    DEF IInv, SubWithinTotal, ChargeSub, DeltaFits, NewUsed, LedgersOK, ChargeWallet, ledgers
  <2>5. Books(r)'
    BY <1>1, <1>2, <1>3, <1>4, <2>1 DEF Books, SourceBooks, NoSession, PaidOK, SessionShape, Opening, Reserving, Covers,
         InReserve, Committed, Effective, Profile, ReqOK, SessOK, SessionType, ProfileType,
         OutcomeShape, SettleRefused, FeeBooks, TokenDue, TokenBooks, NetToken, TokenHold,
         FundBooks, NetFund, Repeated, FundPaid, FundFee, FundHold
  <2>6. QED BY <2>2, <2>3, <2>4, <2>5, OneRequest
<1>8. QED
  BY <1>5, <1>6, <1>7 DEF ReserveFunding, plan, ChargeFunding, ChargeWallet, ChargeSub, ledgers, FundingFails

\* ReserveTokenCheck keeps the inductive invariant.
LEMMA ReserveTokenCheckStep ==
  ASSUME IInv, NEW r \in Requests, ReserveTokenCheck(r)
  PROVE  IInv'
<1>1. LedgersOK /\ PcOK /\ ReqOK /\ OutcomeOK /\ SessOK /\ PaidOK /\ FaultsOK
  BY DEF IInv, TypeOK
<1>2. /\ SourceBooks(r) /\ SessionShape(r) /\ OutcomeShape(r)
      /\ FeeBooks(r) /\ TokenBooks(r) /\ FundBooks(r)
  BY DEF IInv, BooksAgree, Books
<1>3. UNCHANGED <<wallet, token, subUsed, record, subActive, overflow, req, sess, due, outcome, bg, tries, paid, fee, credits>>
  BY DEF ReserveTokenCheck, ledgers, plan, ghosts
<1>4. pc[r] = "reserveToken" /\ ~Profile(r).playground /\ outcome[r] = "none" /\ bg[r] = "none"
      /\ fee[r].wallet = 0 /\ fee[r].sub = 0 /\ fee[r].token = 0
      /\ ~Committed(r) /\ ~sess[r].refunded /\ sess[r].tokenConsumed = sess[r].preConsumed
      /\ due[r] \in Nat /\ sess[r].preConsumed \in Nat /\ sess[r].fundConsumed \in Nat
      /\ sess[r].tokenConsumed \in Nat /\ sess[r].extraReserved \in Nat
      /\ sess[r].funding \in {"wallet", "subscription"}
  BY <1>1, <1>2, <1>3 DEF ReserveTokenCheck, SessionShape, OutcomeShape, FeeBooks, Opening, Reserving, NoSession,
       ledgers, plan, ghosts, SessOK, SessionType, ReqOK, Serving
<1>5. SubWithinTotal' BY <1>3 DEF IInv, SubWithinTotal
<1>6. CASE /\ (\E l \in {"reserveDecToken", "reserveRollback"} : Goto(r, l))
           /\ NoFault \/ Fault(r)
  <2>1. /\ pc'[r] \in {"reserveDecToken", "reserveRollback"} /\ (r \in hit => r \in hit')
    BY <1>1, <1>3, <1>4, <1>6 DEF PcOK, FaultsOK, Goto, NoFault, faultVars, Fault
  <2>2. TypeOK'
    BY <1>1, <1>3, <1>4, <1>6 DEF TypeOK, LedgersOK, PcOK, ReqOK, OutcomeOK, SessOK, PaidOK, FaultsOK, Labels,
         BgLabels, Goto, NoFault, faultVars, Fault
  <2>3. \A q \in Requests \ {r} : Same(q)
    BY <1>1, <1>3, <1>6 DEF Same, PcOK, FaultsOK, Goto, NoFault, faultVars, Fault
  <2>4. Books(r)'
    BY <1>1, <1>2, <1>3, <1>4, <2>1 DEF Books, SourceBooks, NoSession, PaidOK, SessionShape, Opening, Reserving, Covers,
         InReserve, Committed, Effective, Profile, ReqOK, SessOK, SessionType, ProfileType,
         OutcomeShape, SettleRefused, FeeBooks, TokenDue, TokenBooks, NetToken, TokenHold,
         FundBooks, NetFund, Repeated, FundPaid, FundFee, FundHold
  <2>5. QED BY <2>2, <2>3, <1>5, <2>4, OneRequest
<1>7. QED
  BY <1>6 DEF ReserveTokenCheck, ledgers, plan, ghosts

\* ReserveTokenDecrease keeps the inductive invariant.
LEMMA ReserveTokenDecreaseStep ==
  ASSUME IInv, NEW r \in Requests, ReserveTokenDecrease(r)
  PROVE  IInv'
<1>1. LedgersOK /\ PcOK /\ ReqOK /\ OutcomeOK /\ SessOK /\ PaidOK /\ FaultsOK
  BY DEF IInv, TypeOK
<1>2. /\ SourceBooks(r) /\ SessionShape(r) /\ OutcomeShape(r)
      /\ FeeBooks(r) /\ TokenBooks(r) /\ FundBooks(r)
  BY DEF IInv, BooksAgree, Books
<1>3. UNCHANGED <<wallet, subUsed, record, subActive, overflow, req, sess, due, outcome, bg, tries, fee, credits>>
  BY DEF ReserveTokenDecrease, plan, ChargeToken, ledgers
<1>4. pc[r] = "reserveDecToken" /\ ~Profile(r).playground /\ outcome[r] = "none" /\ bg[r] = "none"
      /\ fee[r].wallet = 0 /\ fee[r].sub = 0 /\ fee[r].token = 0
      /\ ~Committed(r) /\ ~sess[r].refunded /\ sess[r].tokenConsumed = sess[r].preConsumed
      /\ due[r] \in Nat /\ sess[r].preConsumed \in Nat /\ sess[r].fundConsumed \in Nat
      /\ sess[r].tokenConsumed \in Nat /\ sess[r].extraReserved \in Nat
      /\ sess[r].funding \in {"wallet", "subscription"}
  BY <1>1, <1>2, <1>3 DEF ReserveTokenDecrease, SessionShape, OutcomeShape, FeeBooks, Opening, Reserving,
       NoSession, plan, ChargeToken, ledgers, SessOK, SessionType, ReqOK, Serving
<1>5. SubWithinTotal' BY <1>3 DEF IInv, SubWithinTotal
<1>6. CASE ChargeToken(r, due[r]) /\ NoFault /\ Goto(r, "reserved")
  <2>1. /\ pc'[r] = "reserved" /\ hit' = hit
        /\ paid'[r].wallet = paid[r].wallet /\ paid'[r].sub = paid[r].sub /\ paid'[r].token = paid[r].token + due[r]
    BY <1>1, <1>3, <1>4, <1>6 DEF LedgersOK, PcOK, PaidOK, FaultsOK, Goto, NoFault, faultVars, ChargeToken
  <2>2. TypeOK'
    BY ConstantsAssumption, <1>1, <1>3, <1>4, <1>6 DEF TypeOK, LedgersOK, PcOK, ReqOK, OutcomeOK, SessOK, PaidOK, FaultsOK, Labels,
         BgLabels, Goto, NoFault, faultVars, ChargeToken
  <2>3. \A q \in Requests \ {r} : Same(q)
    BY <1>1, <1>3, <1>6 DEF Same, LedgersOK, PcOK, PaidOK, FaultsOK, Goto, NoFault, faultVars, ChargeToken
  <2>4. Books(r)'
    BY <1>1, <1>2, <1>3, <1>4, <2>1 DEF Books, SourceBooks, NoSession, PaidOK, SessionShape, Opening, Reserving, Covers,
         InReserve, Committed, Effective, Profile, ReqOK, SessOK, SessionType, ProfileType,
         OutcomeShape, SettleRefused, FeeBooks, TokenDue, TokenBooks, NetToken, TokenHold,
         FundBooks, NetFund, Repeated, FundPaid, FundFee, FundHold
  <2>5. QED BY <2>2, <2>3, <1>5, <2>4, OneRequest
<1>7. CASE Fault(r) /\ Goto(r, "reserveRollback") /\ UNCHANGED <<ledgers, paid>>
  <2>1. /\ pc'[r] = "reserveRollback" /\ r \in hit' /\ paid'[r] = paid[r]
    BY <1>1, <1>3, <1>4, <1>7 DEF LedgersOK, PcOK, PaidOK, FaultsOK, Goto, Fault, ledgers
  <2>2. TypeOK'
    BY ConstantsAssumption, <1>1, <1>3, <1>4, <1>7 DEF TypeOK, LedgersOK, PcOK, ReqOK, OutcomeOK, SessOK, PaidOK, FaultsOK, Labels,
         BgLabels, Goto, Fault, ledgers
  <2>3. \A q \in Requests \ {r} : Same(q)
    BY <1>1, <1>3, <1>7 DEF Same, LedgersOK, PcOK, PaidOK, FaultsOK, Goto, Fault, ledgers
  <2>4. Books(r)'
    BY <1>1, <1>2, <1>3, <1>4, <2>1 DEF Books, SourceBooks, NoSession, PaidOK, SessionShape, Opening, Reserving, Covers,
         InReserve, Committed, Effective, Profile, ReqOK, SessOK, SessionType, ProfileType,
         OutcomeShape, SettleRefused, FeeBooks, TokenDue, TokenBooks, NetToken, TokenHold,
         FundBooks, NetFund, Repeated, FundPaid, FundFee, FundHold
  <2>5. QED BY <2>2, <2>3, <1>5, <2>4, OneRequest
<1>8. QED
  BY <1>6, <1>7 DEF ReserveTokenDecrease, plan, ChargeToken, ledgers

\* ReserveRollback keeps the inductive invariant.
LEMMA ReserveRollbackStep ==
  ASSUME IInv, NEW r \in Requests, ReserveRollback(r)
  PROVE  IInv'
<1>1. LedgersOK /\ PcOK /\ ReqOK /\ OutcomeOK /\ SessOK /\ PaidOK /\ FaultsOK
  BY DEF IInv, TypeOK
<1>2. /\ SourceBooks(r) /\ SessionShape(r) /\ OutcomeShape(r)
      /\ FeeBooks(r) /\ TokenBooks(r) /\ FundBooks(r)
  BY DEF IInv, BooksAgree, Books
<1>3. UNCHANGED <<token, record, subActive, overflow, req, due, outcome, bg, tries, fee, credits>>
  BY DEF ReserveRollback, plan, ChargeFunding, ChargeWallet, ChargeSub, ledgers
<1>4. pc[r] = "reserveRollback" /\ ~Profile(r).playground /\ outcome[r] = "none" /\ bg[r] = "none"
      /\ fee[r].wallet = 0 /\ fee[r].sub = 0 /\ fee[r].token = 0
      /\ ~Committed(r) /\ ~sess[r].refunded /\ sess[r].tokenConsumed = sess[r].preConsumed
      /\ due[r] \in Nat /\ sess[r].preConsumed \in Nat /\ sess[r].fundConsumed \in Nat
      /\ sess[r].tokenConsumed \in Nat /\ sess[r].extraReserved \in Nat
      /\ sess[r].funding \in {"wallet", "subscription"}
      /\ (sess[r].funding = "wallet" => sess[r].fundConsumed - due[r] \in Nat)
  BY <1>1, <1>2, <1>3 DEF ReserveRollback, SessionShape, OutcomeShape, FeeBooks, Opening, Reserving, NoSession,
       plan, ChargeFunding, ChargeWallet, ChargeSub, ledgers, SessOK, SessionType, ReqOK,
       Serving, Covers, InReserve
<1>5. CASE /\ sess[r].funding = "wallet" /\ ChargeWallet(r, -due[r]) /\ NoFault
           /\ sess' = [sess EXCEPT ![r].fundConsumed = @ - due[r]]
           /\ Goto(r, "serving")
  <2>1. /\ pc'[r] = "serving" /\ hit' = hit
        /\ sess[r].funding = "wallet"
        /\ paid'[r].wallet = paid[r].wallet - due[r] /\ paid'[r].sub = paid[r].sub /\ paid'[r].token = paid[r].token
        /\ sess'[r] = [sess[r] EXCEPT !.fundConsumed = @ - due[r]]
    BY <1>1, <1>3, <1>4, <1>5 DEF LedgersOK, PcOK, SessOK, PaidOK, FaultsOK, Goto, NoFault, faultVars, ChargeWallet,
         SessionType
  <2>2. TypeOK'
    <3>1. LedgersOK' BY ConstantsAssumption, <1>1, <1>3, <1>4, <1>5 DEF LedgersOK, Goto, NoFault, faultVars, ChargeWallet, SessionType
    <3>2. PcOK' BY <1>1, <1>3, <1>4, <1>5 DEF PcOK, Labels, BgLabels, Goto, NoFault, faultVars, ChargeWallet, SessionType
    <3>3. SessOK' BY <1>1, <1>3, <1>4, <1>5 DEF SessOK, SessionType, NoSession, Goto, NoFault, faultVars, ChargeWallet, SessionType
    <3>4. PaidOK' BY <1>1, <1>3, <1>4, <1>5 DEF PaidOK, Goto, NoFault, faultVars, ChargeWallet, SessionType
    <3>5. FaultsOK' BY <1>1, <1>3, <1>4, <1>5 DEF FaultsOK, Goto, NoFault, faultVars, ChargeWallet, SessionType
    <3>6. QED BY <1>1, <1>3, <3>1, <3>2, <3>3, <3>4, <3>5 DEF TypeOK, ReqOK, OutcomeOK
  <2>3. \A q \in Requests \ {r} : Same(q)
    BY <1>1, <1>3, <1>5 DEF Same, LedgersOK, PcOK, SessOK, PaidOK, FaultsOK, Goto, NoFault, faultVars,
         ChargeWallet, SessionType
  <2>4. SubWithinTotal'
    BY <1>1, <1>3, <1>4, <1>5, ConstantsAssumption
    DEF IInv, SubWithinTotal, ChargeSub, DeltaFits, NewUsed, LedgersOK, ChargeWallet, ledgers
  <2>5. Books(r)'
    BY <1>1, <1>2, <1>3, <1>4, <2>1 DEF Books, SourceBooks, NoSession, PaidOK, SessionShape, Opening, Reserving, Covers,
         InReserve, Committed, Effective, Profile, ReqOK, SessOK, SessionType, ProfileType,
         OutcomeShape, SettleRefused, FeeBooks, TokenDue, TokenBooks, NetToken, TokenHold,
         FundBooks, NetFund, Repeated, FundPaid, FundFee, FundHold
  <2>6. QED BY <2>2, <2>3, <2>4, <2>5, OneRequest
<1>6. CASE /\ sess[r].funding = "subscription" /\ ChargeSub(r, -due[r]) /\ NoFault /\ UNCHANGED sess
           /\ Goto(r, "serving")
  <2>1. /\ pc'[r] = "serving" /\ hit' = hit
        /\ sess[r].funding = "subscription"
        /\ paid'[r].wallet = paid[r].wallet /\ paid'[r].sub = paid[r].sub - due[r] /\ paid'[r].token = paid[r].token
        /\ sess'[r] = sess[r]
    BY <1>1, <1>3, <1>4, <1>6 DEF LedgersOK, PcOK, SessOK, PaidOK, FaultsOK, Goto, NoFault, faultVars, ChargeSub,
         NewUsed
  <2>2. TypeOK'
    BY ConstantsAssumption, <1>1, <1>3, <1>4, <1>6 DEF TypeOK, LedgersOK, PcOK, ReqOK, OutcomeOK, SessOK, PaidOK, FaultsOK, Labels,
         BgLabels, SessionType, NoSession, Goto, NoFault, faultVars, ChargeSub, NewUsed
  <2>3. \A q \in Requests \ {r} : Same(q)
    BY <1>1, <1>3, <1>6 DEF Same, LedgersOK, PcOK, SessOK, PaidOK, FaultsOK, Goto, NoFault, faultVars, ChargeSub,
         NewUsed
  <2>4. SubWithinTotal'
    BY <1>1, <1>3, <1>4, <1>6, ConstantsAssumption
    DEF IInv, SubWithinTotal, ChargeSub, DeltaFits, NewUsed, LedgersOK, ChargeWallet, ledgers
  <2>5. Books(r)'
    BY <1>1, <1>2, <1>3, <1>4, <2>1 DEF Books, SourceBooks, NoSession, PaidOK, SessionShape, Opening, Reserving, Covers,
         InReserve, Committed, Effective, Profile, ReqOK, SessOK, SessionType, ProfileType,
         OutcomeShape, SettleRefused, FeeBooks, TokenDue, TokenBooks, NetToken, TokenHold,
         FundBooks, NetFund, Repeated, FundPaid, FundFee, FundHold
  <2>6. QED BY <2>2, <2>3, <2>4, <2>5, OneRequest
<1>7. CASE /\ Goto(r, "serving") /\ UNCHANGED <<ledgers, paid, sess>>
           /\ Fault(r)
  <2>1. /\ pc'[r] = "serving" /\ r \in hit' /\ paid'[r] = paid[r] /\ sess'[r] = sess[r]
    BY <1>1, <1>3, <1>4, <1>7 DEF LedgersOK, PcOK, SessOK, PaidOK, FaultsOK, Goto, NoFault, faultVars, Fault, ledgers
  <2>2. TypeOK'
    BY ConstantsAssumption, <1>1, <1>3, <1>4, <1>7 DEF TypeOK, LedgersOK, PcOK, ReqOK, OutcomeOK, SessOK, PaidOK, FaultsOK, Labels,
         BgLabels, SessionType, NoSession, Goto, NoFault, faultVars, Fault, ledgers
  <2>3. \A q \in Requests \ {r} : Same(q)
    BY <1>1, <1>3, <1>7 DEF Same, LedgersOK, PcOK, SessOK, PaidOK, FaultsOK, Goto, NoFault, faultVars, Fault,
         ledgers
  <2>4. SubWithinTotal'
    BY <1>1, <1>3, <1>4, <1>7, ConstantsAssumption
    DEF IInv, SubWithinTotal, ChargeSub, DeltaFits, NewUsed, LedgersOK, ChargeWallet, ledgers
  <2>5. Books(r)'
    BY <1>1, <1>2, <1>3, <1>4, <2>1 DEF Books, SourceBooks, NoSession, PaidOK, SessionShape, Opening, Reserving, Covers,
         InReserve, Committed, Effective, Profile, ReqOK, SessOK, SessionType, ProfileType,
         OutcomeShape, SettleRefused, FeeBooks, TokenDue, TokenBooks, NetToken, TokenHold,
         FundBooks, NetFund, Repeated, FundPaid, FundFee, FundHold
  <2>6. QED BY <2>2, <2>3, <2>4, <2>5, OneRequest
<1>8. QED
  BY <1>5, <1>6, <1>7 DEF ReserveRollback, plan, ChargeFunding, ChargeWallet, ChargeSub, ledgers

\* Reserved keeps the inductive invariant.
LEMMA ReservedStep ==
  ASSUME IInv, NEW r \in Requests, Reserved(r)
  PROVE  IInv'
<1>1. LedgersOK /\ PcOK /\ ReqOK /\ OutcomeOK /\ SessOK /\ PaidOK /\ FaultsOK
  BY DEF IInv, TypeOK
<1>2. /\ SourceBooks(r) /\ SessionShape(r) /\ OutcomeShape(r)
      /\ FeeBooks(r) /\ TokenBooks(r) /\ FundBooks(r)
  BY DEF IInv, BooksAgree, Books
<1>3. UNCHANGED <<wallet, token, subUsed, record, subActive, overflow, req, due, outcome, bg, tries, paid, fee, credits, faults, hit>>
  BY DEF Reserved, ledgers, plan, ghosts, faultVars
<1>4. pc[r] = "reserved" /\ outcome[r] = "none" /\ bg[r] = "none"
      /\ fee[r].wallet = 0 /\ fee[r].sub = 0 /\ fee[r].token = 0
      /\ ~Committed(r) /\ ~sess[r].refunded /\ sess[r].tokenConsumed = sess[r].preConsumed
      /\ due[r] \in Nat /\ sess[r].preConsumed \in Nat /\ sess[r].fundConsumed \in Nat
      /\ sess[r].tokenConsumed \in Nat /\ sess[r].extraReserved \in Nat
      /\ sess[r].funding \in {"wallet", "subscription"}
  BY <1>1, <1>2, <1>3 DEF Reserved, SessionShape, OutcomeShape, FeeBooks, Opening, Reserving, NoSession, ledgers,
       plan, ghosts, faultVars, SessOK, SessionType, ReqOK, Serving
<1>5. SubWithinTotal' BY <1>3 DEF IInv, SubWithinTotal
<1>6. CASE sess' = [sess EXCEPT ![r] = Grown(sess[r], due[r])] /\ Goto(r, "serving")
  <2>1. /\ pc'[r] = "serving"
        /\ sess'[r] = [sess[r] EXCEPT !.preConsumed = sess[r].preConsumed + due[r],
                    !.tokenConsumed = sess[r].tokenConsumed + due[r],
                    !.extraReserved = sess[r].extraReserved + due[r]]
    BY <1>1, <1>3, <1>4, <1>6 DEF PcOK, SessOK, Goto, Grown
  <2>2. TypeOK'
    <3>1. PcOK' BY <1>1, <1>3, <1>4, <1>6 DEF PcOK, Labels, BgLabels, Goto, Grown
    <3>2. SessOK' BY GrownType, <1>1, <1>3, <1>4, <1>6 DEF SessOK
    <3>3. QED BY <1>1, <1>3, <3>1, <3>2 DEF TypeOK, LedgersOK, ReqOK, OutcomeOK, PaidOK, FaultsOK
  <2>3. \A q \in Requests \ {r} : Same(q)
    BY <1>1, <1>3, <1>6 DEF Same, PcOK, SessOK, Goto, Grown
  <2>4. Books(r)'
    BY <1>1, <1>2, <1>3, <1>4, <2>1 DEF Books, SourceBooks, NoSession, PaidOK, SessionShape, Opening, Reserving, Covers,
         InReserve, Committed, Effective, Profile, ReqOK, SessOK, SessionType, ProfileType,
         OutcomeShape, SettleRefused, FeeBooks, TokenDue, TokenBooks, NetToken, TokenHold,
         FundBooks, NetFund, Repeated, FundPaid, FundFee, FundHold
  <2>5. QED BY <2>2, <2>3, <1>5, <2>4, OneRequest
<1>7. QED
  BY <1>6 DEF Reserved, ledgers, plan, ghosts, faultVars

\* Succeed keeps the inductive invariant.
LEMMA SucceedStep ==
  ASSUME IInv, NEW r \in Requests, Succeed(r)
  PROVE  IInv'
<1>1. LedgersOK /\ PcOK /\ ReqOK /\ OutcomeOK /\ SessOK /\ PaidOK /\ FaultsOK
  BY DEF IInv, TypeOK
<1>2. /\ SourceBooks(r) /\ SessionShape(r) /\ OutcomeShape(r)
      /\ FeeBooks(r) /\ TokenBooks(r) /\ FundBooks(r)
  BY DEF IInv, BooksAgree, Books
<1>3. UNCHANGED <<wallet, token, subUsed, record, subActive, overflow, req, sess, bg, tries, paid, fee, faults, hit, credits>>
  BY DEF Succeed, ledgers, plan, ghosts, faultVars
<1>4. pc[r] = "serving" /\ outcome[r] = "none" /\ bg[r] = "none"
      /\ fee[r].wallet = 0 /\ fee[r].sub = 0 /\ fee[r].token = 0
      /\ ~Committed(r) /\ ~sess[r].refunded /\ sess[r].tokenConsumed = sess[r].preConsumed
      /\ due[r] \in Nat /\ sess[r].preConsumed \in Nat /\ sess[r].fundConsumed \in Nat
      /\ sess[r].tokenConsumed \in Nat /\ sess[r].extraReserved \in Nat
      /\ (sess[r].funding = "none" => sess[r] = NoSession)
  BY <1>1, <1>2, <1>3 DEF Succeed, SessionShape, OutcomeShape, FeeBooks, Opening, Reserving, NoSession, ledgers,
       plan, ghosts, faultVars, SessOK, SessionType, ReqOK, Serving
<1>5. SubWithinTotal' BY <1>3 DEF IInv, SubWithinTotal
<1>6. CASE /\ sess[r].funding # "none" /\ (\E a \in Actuals : due' = [due EXCEPT ![r] = a])
           /\ Goto(r, "settle") /\ outcome' = [outcome EXCEPT ![r] = "ok"]
  <2>1. pc'[r] = "settle" /\ due'[r] \in Nat /\ outcome'[r] = "ok" /\ sess[r].funding # "none"
    BY <1>1, <1>3, <1>4, <1>6, ConstantsAssumption DEF PcOK, ReqOK, OutcomeOK, Goto
  <2>2. TypeOK'
    BY ConstantsAssumption, <1>1, <1>3, <1>4, <1>6 DEF TypeOK, LedgersOK, PcOK, ReqOK, OutcomeOK, SessOK, PaidOK, FaultsOK, Labels,
         BgLabels, ProfileType, Goto
  <2>3. \A q \in Requests \ {r} : Same(q)
    BY <1>1, <1>3, <1>6 DEF Same, PcOK, ReqOK, OutcomeOK, Goto
  <2>4. Books(r)'
    BY <1>1, <1>2, <1>3, <1>4, <2>1 DEF Books, SourceBooks, NoSession, PaidOK, SessionShape, Opening, Reserving, Covers,
         InReserve, Committed, Effective, Profile, ReqOK, SessOK, SessionType, ProfileType,
         OutcomeShape, SettleRefused, FeeBooks, TokenDue, TokenBooks, NetToken, TokenHold,
         FundBooks, NetFund, Repeated, FundPaid, FundFee, FundHold
  <2>5. QED BY <2>2, <2>3, <1>5, <2>4, OneRequest
<1>7. CASE /\ sess[r].funding = "none" /\ (\E a \in Actuals : due' = [due EXCEPT ![r] = a] /\ Goto(r, IF a = 0 THEN "ended" ELSE "postFunding"))
           /\ outcome' = [outcome EXCEPT ![r] = "ok"]
  <2>1. /\ due'[r] \in Nat /\ outcome'[r] = "ok" /\ sess[r].funding = "none"
        /\ pc'[r] = "postFunding" \/ (pc'[r] = "ended" /\ due'[r] = 0)
    BY <1>1, <1>3, <1>4, <1>7, ConstantsAssumption DEF PcOK, ReqOK, OutcomeOK, Goto
  <2>2. TypeOK'
    BY ConstantsAssumption, <1>1, <1>3, <1>4, <1>7 DEF TypeOK, LedgersOK, PcOK, ReqOK, OutcomeOK, SessOK, PaidOK, FaultsOK, Labels,
         BgLabels, ProfileType, Goto
  <2>3. \A q \in Requests \ {r} : Same(q)
    BY <1>1, <1>3, <1>7 DEF Same, PcOK, ReqOK, OutcomeOK, Goto
  <2>4. Books(r)'
    BY <1>1, <1>2, <1>3, <1>4, <2>1 DEF Books, SourceBooks, NoSession, PaidOK, SessionShape, Opening, Reserving, Covers,
         InReserve, Committed, Effective, Profile, ReqOK, SessOK, SessionType, ProfileType,
         OutcomeShape, SettleRefused, FeeBooks, TokenDue, TokenBooks, NetToken, TokenHold,
         FundBooks, NetFund, Repeated, FundPaid, FundFee, FundHold
  <2>5. QED BY <2>2, <2>3, <1>5, <2>4, OneRequest
<1>8. QED
  BY <1>6, <1>7 DEF Succeed, ledgers, plan, ghosts, faultVars

\* SettleFunding keeps the inductive invariant.
LEMMA SettleFundingStep ==
  ASSUME IInv, NEW r \in Requests, SettleFunding(r)
  PROVE  IInv'
<1>1. LedgersOK /\ PcOK /\ ReqOK /\ OutcomeOK /\ SessOK /\ PaidOK /\ FaultsOK
  BY DEF IInv, TypeOK
<1>2. /\ SourceBooks(r) /\ SessionShape(r) /\ OutcomeShape(r)
      /\ FeeBooks(r) /\ TokenBooks(r) /\ FundBooks(r)
  BY DEF IInv, BooksAgree, Books
<1>3. UNCHANGED <<token, record, subActive, overflow, req, due, outcome, bg, tries, fee, credits>>
  BY DEF SettleFunding, ledgers, ChargeFunding, ChargeWallet, ChargeSub, plan
<1>4. pc[r] = "settle" /\ outcome[r] = "ok"
      /\ (bg[r] = "none" /\ ~sess[r].refunded /\ sess[r].tokenConsumed = sess[r].preConsumed)
      /\ fee[r].wallet = 0 /\ fee[r].sub = 0 /\ fee[r].token = 0
      /\ due[r] \in Nat /\ sess[r].preConsumed \in Nat /\ sess[r].fundConsumed \in Nat
      /\ sess[r].tokenConsumed \in Nat /\ sess[r].extraReserved \in Nat
      /\ sess[r].funding \in {"wallet", "subscription"} /\ ~sess[r].settled /\ ~sess[r].fundingSettled
      /\ (sess[r].funding = "subscription" => sess[r].preConsumed = sess[r].fundConsumed + sess[r].extraReserved)
      /\ (sess[r].funding = "wallet" => Covers(r, sess[r].fundConsumed, sess[r].preConsumed))
  BY <1>1, <1>2, <1>3 DEF SettleFunding, SessionShape, OutcomeShape, FeeBooks, Opening, Reserving, NoSession,
       SessOK, SessionType, ReqOK, Serving, Committed, Covers, InReserve
<1>5. ~DeltaFits(due[r] - sess[r].preConsumed) => due[r] > sess[r].preConsumed
  BY <1>1, <1>4, RefusedIsPositive DEF IInv
<1>6. CASE /\ due[r] = sess[r].preConsumed
           /\ sess' = [sess EXCEPT ![r].settled = TRUE]
           /\ Goto(r, "ended") /\ NoFault /\ UNCHANGED <<ledgers, paid>>
  <2>1. /\ pc'[r] = "ended" /\ hit' = hit /\ due[r] = sess[r].preConsumed /\ paid'[r] = paid[r]
        /\ sess'[r] = [sess[r] EXCEPT !.settled = TRUE]
    BY <1>1, <1>3, <1>4, <1>6 DEF LedgersOK, PcOK, SessOK, PaidOK, FaultsOK, Goto, NoFault, faultVars, ledgers
  <2>2. TypeOK'
    <3>1. LedgersOK' BY ConstantsAssumption, <1>1, <1>3, <1>4, <1>6 DEF LedgersOK, Goto, NoFault, faultVars, ledgers
    <3>2. PcOK' BY <1>1, <1>3, <1>4, <1>6 DEF PcOK, Labels, BgLabels, Goto, NoFault, faultVars, ledgers
    <3>3. SessOK' BY <1>1, <1>3, <1>4, <1>6 DEF SessOK, SessionType, NoSession, Goto, NoFault, faultVars, ledgers
    <3>4. PaidOK' BY <1>1, <1>3, <1>4, <1>6 DEF PaidOK, Goto, NoFault, faultVars, ledgers
    <3>5. FaultsOK' BY <1>1, <1>3, <1>4, <1>6 DEF FaultsOK, Goto, NoFault, faultVars, ledgers
    <3>6. QED BY <1>1, <1>3, <3>1, <3>2, <3>3, <3>4, <3>5 DEF TypeOK, ReqOK, OutcomeOK
  <2>3. \A q \in Requests \ {r} : Same(q)
    BY <1>1, <1>3, <1>6 DEF Same, LedgersOK, PcOK, SessOK, PaidOK, FaultsOK, Goto, NoFault, faultVars, ledgers
  <2>4. SubWithinTotal'
    BY <1>1, <1>3, <1>4, <1>6, ConstantsAssumption
    DEF IInv, SubWithinTotal, ChargeSub, DeltaFits, NewUsed, LedgersOK, ChargeWallet, ledgers
  <2>5. Books(r)'
    BY <1>1, <1>2, <1>3, <1>4, <2>1 DEF Books, SourceBooks, NoSession, PaidOK, SessionShape, Opening, Reserving, Covers,
         InReserve, Committed, Effective, Profile, ReqOK, SessOK, SessionType, ProfileType,
         OutcomeShape, SettleRefused, FeeBooks, TokenDue, TokenBooks, NetToken, TokenHold,
         FundBooks, NetFund, Repeated, FundPaid, FundFee, FundHold
  <2>6. QED BY <2>2, <2>3, <2>4, <2>5, OneRequest
<1>7. CASE /\ sess[r].funding = "wallet" /\ ChargeWallet(r, due[r] - sess[r].preConsumed) /\ NoFault
           /\ sess' = [sess EXCEPT ![r].fundingSettled = TRUE]
           /\ Goto(r, "settleToken")
  <2>1. /\ pc'[r] = "settleToken" /\ hit' = hit /\ sess[r].funding = "wallet"
        /\ paid'[r].wallet = paid[r].wallet + (due[r] - sess[r].preConsumed) /\ paid'[r].sub = paid[r].sub /\ paid'[r].token = paid[r].token
        /\ sess'[r] = [sess[r] EXCEPT !.fundingSettled = TRUE]
    BY <1>1, <1>3, <1>4, <1>7 DEF LedgersOK, PcOK, SessOK, PaidOK, FaultsOK, Goto, NoFault, faultVars, ChargeWallet
  <2>2. TypeOK'
    <3>1. LedgersOK' BY ConstantsAssumption, <1>1, <1>3, <1>4, <1>7 DEF LedgersOK, Goto, NoFault, faultVars, ChargeWallet
    <3>2. PcOK' BY <1>1, <1>3, <1>4, <1>7 DEF PcOK, Labels, BgLabels, Goto, NoFault, faultVars, ChargeWallet
    <3>3. SessOK' BY <1>1, <1>3, <1>4, <1>7 DEF SessOK, SessionType, NoSession, Goto, NoFault, faultVars, ChargeWallet
    <3>4. PaidOK' BY <1>1, <1>3, <1>4, <1>7 DEF PaidOK, Goto, NoFault, faultVars, ChargeWallet
    <3>5. FaultsOK' BY <1>1, <1>3, <1>4, <1>7 DEF FaultsOK, Goto, NoFault, faultVars, ChargeWallet
    <3>6. QED BY <1>1, <1>3, <3>1, <3>2, <3>3, <3>4, <3>5 DEF TypeOK, ReqOK, OutcomeOK
  <2>3. \A q \in Requests \ {r} : Same(q)
    BY <1>1, <1>3, <1>7 DEF Same, LedgersOK, PcOK, SessOK, PaidOK, FaultsOK, Goto, NoFault, faultVars,
         ChargeWallet
  <2>4. SubWithinTotal'
    BY <1>1, <1>3, <1>4, <1>7, ConstantsAssumption
    DEF IInv, SubWithinTotal, ChargeSub, DeltaFits, NewUsed, LedgersOK, ChargeWallet, ledgers
  <2>5. Books(r)'
    BY <1>1, <1>2, <1>3, <1>4, <2>1 DEF Books, SourceBooks, NoSession, PaidOK, SessionShape, Opening, Reserving, Covers,
         InReserve, Committed, Effective, Profile, ReqOK, SessOK, SessionType, ProfileType,
         OutcomeShape, SettleRefused, FeeBooks, TokenDue, TokenBooks, NetToken, TokenHold,
         FundBooks, NetFund, Repeated, FundPaid, FundFee, FundHold
  <2>6. QED BY <2>2, <2>3, <2>4, <2>5, OneRequest
<1>8. CASE /\ sess[r].funding = "subscription" /\ ChargeSub(r, due[r] - sess[r].preConsumed) /\ NoFault
           /\ sess' = [sess EXCEPT ![r].fundingSettled = TRUE]
           /\ Goto(r, "settleToken")
  <2>1. /\ pc'[r] = "settleToken" /\ hit' = hit /\ sess[r].funding = "subscription"
        /\ paid'[r].wallet = paid[r].wallet /\ paid'[r].sub = paid[r].sub + (due[r] - sess[r].preConsumed) /\ paid'[r].token = paid[r].token
        /\ sess'[r] = [sess[r] EXCEPT !.fundingSettled = TRUE]
    BY <1>1, <1>3, <1>4, <1>8 DEF LedgersOK, PcOK, SessOK, PaidOK, FaultsOK, Goto, NoFault, faultVars, ChargeSub,
         NewUsed
  <2>2. TypeOK'
    <3>1. LedgersOK' BY ConstantsAssumption, <1>1, <1>3, <1>4, <1>8 DEF LedgersOK, Goto, NoFault, faultVars, ChargeSub, NewUsed
    <3>2. PcOK' BY <1>1, <1>3, <1>4, <1>8 DEF PcOK, Labels, BgLabels, Goto, NoFault, faultVars, ChargeSub, NewUsed
    <3>3. SessOK' BY <1>1, <1>3, <1>4, <1>8 DEF SessOK, SessionType, NoSession, Goto, NoFault, faultVars, ChargeSub, NewUsed
    <3>4. PaidOK' BY <1>1, <1>3, <1>4, <1>8 DEF PaidOK, Goto, NoFault, faultVars, ChargeSub, NewUsed
    <3>5. FaultsOK' BY <1>1, <1>3, <1>4, <1>8 DEF FaultsOK, Goto, NoFault, faultVars, ChargeSub, NewUsed
    <3>6. QED BY <1>1, <1>3, <3>1, <3>2, <3>3, <3>4, <3>5 DEF TypeOK, ReqOK, OutcomeOK
  <2>3. \A q \in Requests \ {r} : Same(q)
    BY <1>1, <1>3, <1>8 DEF Same, LedgersOK, PcOK, SessOK, PaidOK, FaultsOK, Goto, NoFault, faultVars, ChargeSub,
         NewUsed
  <2>4. SubWithinTotal'
    BY <1>1, <1>3, <1>4, <1>8, ConstantsAssumption
    DEF IInv, SubWithinTotal, ChargeSub, DeltaFits, NewUsed, LedgersOK, ChargeWallet, ledgers
  <2>5. Books(r)'
    BY <1>1, <1>2, <1>3, <1>4, <2>1 DEF Books, SourceBooks, NoSession, PaidOK, SessionShape, Opening, Reserving, Covers,
         InReserve, Committed, Effective, Profile, ReqOK, SessOK, SessionType, ProfileType,
         OutcomeShape, SettleRefused, FeeBooks, TokenDue, TokenBooks, NetToken, TokenHold,
         FundBooks, NetFund, Repeated, FundPaid, FundFee, FundHold
  <2>6. QED BY <2>2, <2>3, <2>4, <2>5, OneRequest
<1>9. CASE /\ Goto(r, "ended") /\ UNCHANGED <<ledgers, paid, sess>>
           /\ (sess[r].funding = "subscription" /\ due[r] > sess[r].preConsumed /\ NoFault) \/ Fault(r)
  <2>1. /\ pc'[r] = "ended" /\ (r \in hit => r \in hit') /\ paid'[r] = paid[r] /\ sess'[r] = sess[r]
        /\ r \in hit' \/ (sess[r].funding = "subscription" /\ due[r] > sess[r].preConsumed)
    BY <1>1, <1>3, <1>4, <1>9 DEF LedgersOK, PcOK, SessOK, PaidOK, FaultsOK, Goto, NoFault, faultVars, Fault, ledgers
  <2>2. TypeOK'
    BY ConstantsAssumption, <1>1, <1>3, <1>4, <1>9 DEF TypeOK, LedgersOK, PcOK, ReqOK, OutcomeOK, SessOK, PaidOK, FaultsOK, Labels,
         BgLabels, SessionType, NoSession, Goto, NoFault, faultVars, Fault, ledgers
  <2>3. \A q \in Requests \ {r} : Same(q)
    BY <1>1, <1>3, <1>9 DEF Same, LedgersOK, PcOK, SessOK, PaidOK, FaultsOK, Goto, NoFault, faultVars, Fault,
         ledgers
  <2>4. SubWithinTotal'
    BY <1>1, <1>3, <1>4, <1>9, ConstantsAssumption
    DEF IInv, SubWithinTotal, ChargeSub, DeltaFits, NewUsed, LedgersOK, ChargeWallet, ledgers
  <2>5. Books(r)'
    BY <1>1, <1>2, <1>3, <1>4, <2>1 DEF Books, SourceBooks, NoSession, PaidOK, SessionShape, Opening, Reserving, Covers,
         InReserve, Committed, Effective, Profile, ReqOK, SessOK, SessionType, ProfileType,
         OutcomeShape, SettleRefused, FeeBooks, TokenDue, TokenBooks, NetToken, TokenHold,
         FundBooks, NetFund, Repeated, FundPaid, FundFee, FundHold
  <2>6. QED BY <2>2, <2>3, <2>4, <2>5, OneRequest
<1>10. QED
  BY <1>4, <1>5, <1>6, <1>7, <1>8, <1>9 DEF SettleFunding, ledgers, ChargeFunding, ChargeWallet, ChargeSub, plan, FundingFails

\* SettleToken keeps the inductive invariant.
LEMMA SettleTokenStep ==
  ASSUME IInv, NEW r \in Requests, SettleToken(r)
  PROVE  IInv'
<1>1. LedgersOK /\ PcOK /\ ReqOK /\ OutcomeOK /\ SessOK /\ PaidOK /\ FaultsOK
  BY DEF IInv, TypeOK
<1>2. /\ SourceBooks(r) /\ SessionShape(r) /\ OutcomeShape(r)
      /\ FeeBooks(r) /\ TokenBooks(r) /\ FundBooks(r)
  BY DEF IInv, BooksAgree, Books
<1>3. UNCHANGED <<wallet, subUsed, record, subActive, overflow, req, due, outcome, bg, tries, fee, credits>>
  BY DEF SettleToken, plan, ChargeToken, ledgers
<1>4. pc[r] = "settleToken" /\ outcome[r] = "ok"
      /\ (bg[r] = "none" /\ ~sess[r].refunded /\ sess[r].tokenConsumed = sess[r].preConsumed)
      /\ fee[r].wallet = 0 /\ fee[r].sub = 0 /\ fee[r].token = 0
      /\ due[r] \in Nat /\ sess[r].preConsumed \in Nat /\ sess[r].fundConsumed \in Nat
      /\ sess[r].tokenConsumed \in Nat /\ sess[r].extraReserved \in Nat
      /\ sess[r].funding \in {"wallet", "subscription"} /\ ~sess[r].settled /\ sess[r].fundingSettled
  BY <1>1, <1>2, <1>3 DEF SettleToken, SessionShape, OutcomeShape, FeeBooks, Opening, Reserving, NoSession, plan,
       ChargeToken, ledgers, SessOK, SessionType, ReqOK, Serving
<1>5. SubWithinTotal' BY <1>3 DEF IInv, SubWithinTotal
<1>6. CASE /\ Profile(r).playground /\ NoFault /\ UNCHANGED <<ledgers, paid>>
           /\ sess' = [sess EXCEPT ![r].settled = TRUE]
           /\ Goto(r, "ended")
  <2>1. /\ pc'[r] = "ended" /\ hit' = hit /\ paid'[r] = paid[r] /\ Profile(r).playground
        /\ sess'[r] = [sess[r] EXCEPT !.settled = TRUE]
    BY <1>1, <1>3, <1>4, <1>6 DEF LedgersOK, PcOK, SessOK, PaidOK, FaultsOK, Goto, NoFault, faultVars, ledgers
  <2>2. TypeOK'
    <3>1. LedgersOK' BY ConstantsAssumption, <1>1, <1>3, <1>4, <1>6 DEF LedgersOK, Goto, NoFault, faultVars, ledgers
    <3>2. PcOK' BY <1>1, <1>3, <1>4, <1>6 DEF PcOK, Labels, BgLabels, Goto, NoFault, faultVars, ledgers
    <3>3. SessOK' BY <1>1, <1>3, <1>4, <1>6 DEF SessOK, SessionType, NoSession, Goto, NoFault, faultVars, ledgers
    <3>4. PaidOK' BY <1>1, <1>3, <1>4, <1>6 DEF PaidOK, Goto, NoFault, faultVars, ledgers
    <3>5. FaultsOK' BY <1>1, <1>3, <1>4, <1>6 DEF FaultsOK, Goto, NoFault, faultVars, ledgers
    <3>6. QED BY <1>1, <1>3, <3>1, <3>2, <3>3, <3>4, <3>5 DEF TypeOK, ReqOK, OutcomeOK
  <2>3. \A q \in Requests \ {r} : Same(q)
    BY <1>1, <1>3, <1>6 DEF Same, LedgersOK, PcOK, SessOK, PaidOK, FaultsOK, Goto, NoFault, faultVars, ledgers
  <2>4. Books(r)'
    BY <1>1, <1>2, <1>3, <1>4, <2>1 DEF Books, SourceBooks, NoSession, PaidOK, SessionShape, Opening, Reserving, Covers,
         InReserve, Committed, Effective, Profile, ReqOK, SessOK, SessionType, ProfileType,
         OutcomeShape, SettleRefused, FeeBooks, TokenDue, TokenBooks, NetToken, TokenHold,
         FundBooks, NetFund, Repeated, FundPaid, FundFee, FundHold
  <2>5. QED BY <2>2, <2>3, <1>5, <2>4, OneRequest
<1>7. CASE /\ ~Profile(r).playground /\ ChargeToken(r, due[r] - sess[r].preConsumed) /\ NoFault
           /\ sess' = [sess EXCEPT ![r].settled = TRUE]
           /\ Goto(r, "ended")
  <2>1. /\ pc'[r] = "ended" /\ hit' = hit /\ ~Profile(r).playground
        /\ paid'[r].wallet = paid[r].wallet /\ paid'[r].sub = paid[r].sub /\ paid'[r].token = paid[r].token + (due[r] - sess[r].preConsumed)
        /\ sess'[r] = [sess[r] EXCEPT !.settled = TRUE]
    BY <1>1, <1>3, <1>4, <1>7 DEF LedgersOK, PcOK, SessOK, PaidOK, FaultsOK, Goto, NoFault, faultVars, ChargeToken
  <2>2. TypeOK'
    <3>1. LedgersOK' BY ConstantsAssumption, <1>1, <1>3, <1>4, <1>7 DEF LedgersOK, Goto, NoFault, faultVars, ChargeToken
    <3>2. PcOK' BY <1>1, <1>3, <1>4, <1>7 DEF PcOK, Labels, BgLabels, Goto, NoFault, faultVars, ChargeToken
    <3>3. SessOK' BY <1>1, <1>3, <1>4, <1>7 DEF SessOK, SessionType, NoSession, Goto, NoFault, faultVars, ChargeToken
    <3>4. PaidOK' BY <1>1, <1>3, <1>4, <1>7 DEF PaidOK, Goto, NoFault, faultVars, ChargeToken
    <3>5. FaultsOK' BY <1>1, <1>3, <1>4, <1>7 DEF FaultsOK, Goto, NoFault, faultVars, ChargeToken
    <3>6. QED BY <1>1, <1>3, <3>1, <3>2, <3>3, <3>4, <3>5 DEF TypeOK, ReqOK, OutcomeOK
  <2>3. \A q \in Requests \ {r} : Same(q)
    BY <1>1, <1>3, <1>7 DEF Same, LedgersOK, PcOK, SessOK, PaidOK, FaultsOK, Goto, NoFault, faultVars,
         ChargeToken
  <2>4. Books(r)'
    BY <1>1, <1>2, <1>3, <1>4, <2>1 DEF Books, SourceBooks, NoSession, PaidOK, SessionShape, Opening, Reserving, Covers,
         InReserve, Committed, Effective, Profile, ReqOK, SessOK, SessionType, ProfileType,
         OutcomeShape, SettleRefused, FeeBooks, TokenDue, TokenBooks, NetToken, TokenHold,
         FundBooks, NetFund, Repeated, FundPaid, FundFee, FundHold
  <2>5. QED BY <2>2, <2>3, <1>5, <2>4, OneRequest
<1>8. CASE /\ ~Profile(r).playground /\ Fault(r) /\ UNCHANGED <<ledgers, paid>>
           /\ sess' = [sess EXCEPT ![r].settled = TRUE]
           /\ Goto(r, "ended")
  <2>1. /\ pc'[r] = "ended" /\ r \in hit' /\ paid'[r] = paid[r] /\ ~Profile(r).playground
        /\ sess'[r] = [sess[r] EXCEPT !.settled = TRUE]
    BY <1>1, <1>3, <1>4, <1>8 DEF LedgersOK, PcOK, SessOK, PaidOK, FaultsOK, Goto, NoFault, faultVars, ledgers, Fault
  <2>2. TypeOK'
    <3>1. LedgersOK' BY ConstantsAssumption, <1>1, <1>3, <1>4, <1>8 DEF LedgersOK, Goto, NoFault, faultVars, ledgers, Fault
    <3>2. PcOK' BY <1>1, <1>3, <1>4, <1>8 DEF PcOK, Labels, BgLabels, Goto, NoFault, faultVars, ledgers, Fault
    <3>3. SessOK' BY <1>1, <1>3, <1>4, <1>8 DEF SessOK, SessionType, NoSession, Goto, NoFault, faultVars, ledgers, Fault
    <3>4. PaidOK' BY <1>1, <1>3, <1>4, <1>8 DEF PaidOK, Goto, NoFault, faultVars, ledgers, Fault
    <3>5. FaultsOK' BY <1>1, <1>3, <1>4, <1>8 DEF FaultsOK, Goto, NoFault, faultVars, ledgers, Fault
    <3>6. QED BY <1>1, <1>3, <3>1, <3>2, <3>3, <3>4, <3>5 DEF TypeOK, ReqOK, OutcomeOK
  <2>3. \A q \in Requests \ {r} : Same(q)
    BY <1>1, <1>3, <1>8 DEF Same, LedgersOK, PcOK, SessOK, PaidOK, FaultsOK, Goto, NoFault, faultVars, ledgers,
         Fault
  <2>4. Books(r)'
    BY <1>1, <1>2, <1>3, <1>4, <2>1 DEF Books, SourceBooks, NoSession, PaidOK, SessionShape, Opening, Reserving, Covers,
         InReserve, Committed, Effective, Profile, ReqOK, SessOK, SessionType, ProfileType,
         OutcomeShape, SettleRefused, FeeBooks, TokenDue, TokenBooks, NetToken, TokenHold,
         FundBooks, NetFund, Repeated, FundPaid, FundFee, FundHold
  <2>5. QED BY <2>2, <2>3, <1>5, <2>4, OneRequest
<1>9. QED
  BY <1>6, <1>7, <1>8 DEF SettleToken, plan, ChargeToken, ledgers

\* Fail keeps the inductive invariant.
LEMMA FailStep ==
  ASSUME IInv, NEW r \in Requests, Fail(r)
  PROVE  IInv'
<1>1. LedgersOK /\ PcOK /\ ReqOK /\ OutcomeOK /\ SessOK /\ PaidOK /\ FaultsOK
  BY DEF IInv, TypeOK
<1>2. /\ SourceBooks(r) /\ SessionShape(r) /\ OutcomeShape(r)
      /\ FeeBooks(r) /\ TokenBooks(r) /\ FundBooks(r)
  BY DEF IInv, BooksAgree, Books
<1>3. UNCHANGED <<wallet, token, subUsed, record, subActive, overflow, req, tries, paid, fee, faults, hit, credits>>
  BY DEF Fail, ledgers, plan, ghosts, faultVars
<1>4. pc[r] = "serving" /\ outcome[r] = "none" /\ bg[r] = "none"
      /\ fee[r].wallet = 0 /\ fee[r].sub = 0 /\ fee[r].token = 0
      /\ ~Committed(r) /\ ~sess[r].refunded /\ sess[r].tokenConsumed = sess[r].preConsumed
      /\ due[r] \in Nat /\ sess[r].preConsumed \in Nat /\ sess[r].fundConsumed \in Nat
      /\ sess[r].tokenConsumed \in Nat /\ sess[r].extraReserved \in Nat
      /\ (sess[r].funding = "none" => sess[r] = NoSession) /\ (~NeedsRefund(sess[r]) => sess[r].preConsumed = 0)
      /\ (sess[r].funding = "subscription" => sess[r].preConsumed = sess[r].fundConsumed + sess[r].extraReserved)
      /\ (sess[r].funding = "wallet" => Covers(r, sess[r].fundConsumed, sess[r].preConsumed))
      /\ (NeedsRefund(sess[r]) => sess[r].funding # "none")
  BY <1>1, <1>2, <1>3 DEF Fail, SessionShape, OutcomeShape, FeeBooks, Opening, Reserving, NoSession, ledgers,
       plan, ghosts, faultVars, SessOK, SessionType, ReqOK, Serving, Committed, NeedsRefund,
       Covers, InReserve
<1>5. SubWithinTotal' BY <1>3 DEF IInv, SubWithinTotal
<1>6. CASE /\ NeedsRefund(sess[r]) /\ BgGoto(r, "refundFunding") /\ outcome' = [outcome EXCEPT ![r] = "error"]
           /\ sess' = [sess EXCEPT ![r].refunded = TRUE]
           /\ \E v \in Fees : due' = [due EXCEPT ![r] = v] /\ Goto(r, IF v = 0 THEN "ended" ELSE "postFunding")
  <2>1. /\ NeedsRefund(sess[r]) /\ bg'[r] = "refundFunding" /\ outcome'[r] = "error" /\ due'[r] \in Nat
        /\ pc'[r] \in {"ended", "postFunding"} /\ sess'[r] = [sess[r] EXCEPT !.refunded = TRUE]
    BY <1>1, <1>3, <1>4, <1>6, ConstantsAssumption DEF PcOK, ReqOK, OutcomeOK, SessOK, Goto, BgGoto
  <2>2. TypeOK'
    <3>1. PcOK' BY <1>1, <1>3, <1>4, <1>6 DEF PcOK, Labels, BgLabels, Goto, BgGoto
    <3>2. ReqOK' BY ConstantsAssumption, <1>1, <1>3, <1>4, <1>6 DEF ReqOK, ProfileType, Goto, BgGoto
    <3>3. OutcomeOK' BY <1>1, <1>3, <1>4, <1>6 DEF OutcomeOK, Goto, BgGoto
    <3>4. SessOK' BY <1>1, <1>3, <1>4, <1>6 DEF SessOK, SessionType, NoSession, Goto, BgGoto
    <3>5. QED BY <1>1, <1>3, <3>1, <3>2, <3>3, <3>4 DEF TypeOK, LedgersOK, PaidOK, FaultsOK
  <2>3. \A q \in Requests \ {r} : Same(q)
    BY <1>1, <1>3, <1>6 DEF Same, PcOK, ReqOK, OutcomeOK, SessOK, Goto, BgGoto
  <2>4. Books(r)'
    <3>1. SourceBooks(r)' /\ SessionShape(r)' /\ FeeBooks(r)'
      BY <1>1, <1>2, <1>3, <1>4, <2>1 DEF SourceBooks, NoSession, PaidOK, SessionShape, Opening, Reserving, Covers,
           InReserve, Committed, Effective, Profile, ReqOK, SessOK, SessionType, ProfileType, FeeBooks, TokenDue,
           OutcomeShape
    <3>2. OutcomeShape(r)'
      BY <1>1, <1>2, <1>3, <1>4, <2>1 DEF OutcomeShape, Opening, Reserving, Committed, SettleRefused,
           SessOK, SessionType, MaxAttempts
    <3>3. TokenBooks(r)' /\ FundBooks(r)'
      BY <1>1, <1>2, <1>3, <1>4, <2>1 DEF TokenBooks, NetToken, TokenHold, TokenDue, Covers, Profile, PaidOK,
           FundBooks, NetFund, Repeated, FundPaid, FundFee, FundHold, Committed, InReserve, Reserving,
           SessOK, SessionType, ReqOK, OutcomeShape, Opening
    <3>4. QED BY <3>1, <3>2, <3>3 DEF Books
  <2>5. QED BY <2>2, <2>3, <1>5, <2>4, OneRequest
<1>7. CASE /\ ~NeedsRefund(sess[r]) /\ UNCHANGED <<sess, bg>> /\ outcome' = [outcome EXCEPT ![r] = "error"]
           /\ \E v \in Fees : due' = [due EXCEPT ![r] = v] /\ Goto(r, IF v = 0 THEN "ended" ELSE "postFunding")
  <2>1. /\ ~NeedsRefund(sess[r]) /\ bg'[r] = "none" /\ outcome'[r] = "error" /\ due'[r] \in Nat
        /\ pc'[r] \in {"ended", "postFunding"} /\ sess'[r] = sess[r]
    BY <1>1, <1>3, <1>4, <1>7, ConstantsAssumption DEF PcOK, ReqOK, OutcomeOK, SessOK, Goto
  <2>2. TypeOK'
    BY ConstantsAssumption, <1>1, <1>3, <1>4, <1>7 DEF TypeOK, LedgersOK, PcOK, ReqOK, OutcomeOK, SessOK, PaidOK, FaultsOK, Labels,
         BgLabels, ProfileType, SessionType, NoSession, Goto
  <2>3. \A q \in Requests \ {r} : Same(q)
    BY <1>1, <1>3, <1>7 DEF Same, PcOK, ReqOK, OutcomeOK, SessOK, Goto
  <2>4. Books(r)'
    BY <1>1, <1>2, <1>3, <1>4, <2>1 DEF Books, SourceBooks, NoSession, PaidOK, SessionShape, Opening, Reserving, Covers,
         InReserve, Committed, Effective, Profile, ReqOK, SessOK, SessionType, ProfileType,
         OutcomeShape, SettleRefused, FeeBooks, TokenDue, TokenBooks, NetToken, TokenHold,
         FundBooks, NetFund, Repeated, FundPaid, FundFee, FundHold
  <2>5. QED BY <2>2, <2>3, <1>5, <2>4, OneRequest
<1>8. QED
  BY <1>6, <1>7 DEF Fail, ledgers, plan, ghosts, faultVars

\* PostConsumeFunding keeps the inductive invariant.
LEMMA PostConsumeFundingStep ==
  ASSUME IInv, NEW r \in Requests, PostConsumeFunding(r)
  PROVE  IInv'
<1>1. LedgersOK /\ PcOK /\ ReqOK /\ OutcomeOK /\ SessOK /\ PaidOK /\ FaultsOK
  BY DEF IInv, TypeOK
<1>2. /\ SourceBooks(r) /\ SessionShape(r) /\ OutcomeShape(r)
      /\ FeeBooks(r) /\ TokenBooks(r) /\ FundBooks(r)
  BY DEF IInv, BooksAgree, Books
<1>3. UNCHANGED <<token, record, subActive, overflow, req, sess, due, outcome, bg, tries, credits>>
  BY DEF PostConsumeFunding, plan, ChargeFunding, ChargeWallet, ChargeSub, ledgers, ghosts
<1>4. pc[r] = "postFunding" /\ outcome[r] \in {"error", "ok"} /\ due[r] \in Nat /\ (outcome[r] = "ok" => sess[r].funding = "none") /\ fee[r].wallet = 0 /\ fee[r].sub = 0 /\ fee[r].token = 0
      /\ ~Committed(r)
  BY <1>1, <1>2, <1>3 DEF PostConsumeFunding, SessionShape, OutcomeShape, FeeBooks, Opening, Reserving,
       NoSession, ReqOK
<1>5. CASE /\ sess[r].funding # "subscription" /\ ChargeWallet(r, due[r]) /\ NoFault
           /\ fee' = [fee EXCEPT ![r].wallet = @ + due[r]]
           /\ Goto(r, IF Profile(r).playground THEN "ended" ELSE "postToken")
  <2>1. /\ pc'[r] = (IF Profile(r).playground THEN "ended" ELSE "postToken") /\ hit' = hit
        /\ sess[r].funding # "subscription"
        /\ paid'[r].wallet = paid[r].wallet + due[r] /\ paid'[r].sub = paid[r].sub /\ paid'[r].token = paid[r].token
        /\ fee'[r].wallet = fee[r].wallet + due[r] /\ fee'[r].sub = fee[r].sub /\ fee'[r].token = fee[r].token
    BY <1>1, <1>3, <1>4, <1>5 DEF LedgersOK, PcOK, PaidOK, FaultsOK, Goto, NoFault, faultVars, ChargeWallet
  <2>2. TypeOK'
    BY ConstantsAssumption, <1>1, <1>3, <1>4, <1>5 DEF TypeOK, LedgersOK, PcOK, ReqOK, OutcomeOK, SessOK, PaidOK, FaultsOK, Labels,
         BgLabels, Goto, NoFault, faultVars, ChargeWallet
  <2>3. \A q \in Requests \ {r} : Same(q)
    BY <1>1, <1>3, <1>5 DEF Same, LedgersOK, PcOK, PaidOK, FaultsOK, Goto, NoFault, faultVars, ChargeWallet
  <2>4. SubWithinTotal'
    BY <1>1, <1>3, <1>4, <1>5, ConstantsAssumption
    DEF IInv, SubWithinTotal, ChargeSub, DeltaFits, NewUsed, LedgersOK, ChargeWallet, ledgers
  <2>5. Books(r)'
    BY <1>1, <1>2, <1>3, <1>4, <2>1 DEF Books, SourceBooks, NoSession, PaidOK, SessionShape, Opening, Reserving, Covers,
         InReserve, Committed, Effective, Profile, ReqOK, SessOK, SessionType, ProfileType,
         OutcomeShape, SettleRefused, FeeBooks, TokenDue, TokenBooks, NetToken, TokenHold,
         FundBooks, NetFund, Repeated, FundPaid, FundFee, FundHold
  <2>6. QED BY <2>2, <2>3, <2>4, <2>5, OneRequest
<1>6. CASE /\ sess[r].funding = "subscription" /\ ChargeSub(r, due[r]) /\ NoFault
           /\ fee' = [fee EXCEPT ![r].sub = @ + due[r]]
           /\ Goto(r, IF Profile(r).playground THEN "ended" ELSE "postToken")
  <2>1. /\ pc'[r] = (IF Profile(r).playground THEN "ended" ELSE "postToken") /\ hit' = hit
        /\ sess[r].funding = "subscription"
        /\ paid'[r].wallet = paid[r].wallet /\ paid'[r].sub = paid[r].sub + due[r] /\ paid'[r].token = paid[r].token
        /\ fee'[r].wallet = fee[r].wallet /\ fee'[r].sub = fee[r].sub + due[r] /\ fee'[r].token = fee[r].token
    BY <1>1, <1>3, <1>4, <1>6 DEF LedgersOK, PcOK, PaidOK, FaultsOK, Goto, NoFault, faultVars, ChargeSub, NewUsed
  <2>2. TypeOK'
    BY ConstantsAssumption, <1>1, <1>3, <1>4, <1>6 DEF TypeOK, LedgersOK, PcOK, ReqOK, OutcomeOK, SessOK, PaidOK, FaultsOK, Labels,
         BgLabels, Goto, NoFault, faultVars, ChargeSub, NewUsed
  <2>3. \A q \in Requests \ {r} : Same(q)
    BY <1>1, <1>3, <1>6 DEF Same, LedgersOK, PcOK, PaidOK, FaultsOK, Goto, NoFault, faultVars, ChargeSub, NewUsed
  <2>4. SubWithinTotal'
    BY <1>1, <1>3, <1>4, <1>6, ConstantsAssumption
    DEF IInv, SubWithinTotal, ChargeSub, DeltaFits, NewUsed, LedgersOK, ChargeWallet, ledgers
  <2>5. Books(r)'
    BY <1>1, <1>2, <1>3, <1>4, <2>1 DEF Books, SourceBooks, NoSession, PaidOK, SessionShape, Opening, Reserving, Covers,
         InReserve, Committed, Effective, Profile, ReqOK, SessOK, SessionType, ProfileType,
         OutcomeShape, SettleRefused, FeeBooks, TokenDue, TokenBooks, NetToken, TokenHold,
         FundBooks, NetFund, Repeated, FundPaid, FundFee, FundHold
  <2>6. QED BY <2>2, <2>3, <2>4, <2>5, OneRequest
<1>7. CASE /\ Goto(r, "ended") /\ UNCHANGED <<ledgers, ghosts>>
           /\ (sess[r].funding = "subscription" /\ NoFault) \/ Fault(r)
  <2>1. /\ pc'[r] = "ended" /\ (r \in hit => r \in hit') /\ paid'[r] = paid[r] /\ fee'[r] = fee[r]
        /\ r \in hit' \/ sess[r].funding = "subscription"
    BY <1>1, <1>3, <1>4, <1>7 DEF LedgersOK, PcOK, PaidOK, FaultsOK, Goto, NoFault, faultVars, Fault, ledgers, ghosts
  <2>2. TypeOK'
    BY ConstantsAssumption, <1>1, <1>3, <1>4, <1>7 DEF TypeOK, LedgersOK, PcOK, ReqOK, OutcomeOK, SessOK, PaidOK, FaultsOK, Labels,
         BgLabels, Goto, NoFault, faultVars, Fault, ledgers, ghosts
  <2>3. \A q \in Requests \ {r} : Same(q)
    BY <1>1, <1>3, <1>7 DEF Same, LedgersOK, PcOK, PaidOK, FaultsOK, Goto, NoFault, faultVars, Fault, ledgers,
         ghosts
  <2>4. SubWithinTotal'
    BY <1>1, <1>3, <1>4, <1>7, ConstantsAssumption
    DEF IInv, SubWithinTotal, ChargeSub, DeltaFits, NewUsed, LedgersOK, ChargeWallet, ledgers
  <2>5. Books(r)'
    BY <1>1, <1>2, <1>3, <1>4, <2>1 DEF Books, SourceBooks, NoSession, PaidOK, SessionShape, Opening, Reserving, Covers,
         InReserve, Committed, Effective, Profile, ReqOK, SessOK, SessionType, ProfileType,
         OutcomeShape, SettleRefused, FeeBooks, TokenDue, TokenBooks, NetToken, TokenHold,
         FundBooks, NetFund, Repeated, FundPaid, FundFee, FundHold
  <2>6. QED BY <2>2, <2>3, <2>4, <2>5, OneRequest
<1>8. QED
  BY <1>5, <1>6, <1>7 DEF PostConsumeFunding, plan, ChargeFunding, ChargeWallet, ChargeSub, ledgers, ghosts,
       FundingFails

\* PostConsumeToken keeps the inductive invariant.
LEMMA PostConsumeTokenStep ==
  ASSUME IInv, NEW r \in Requests, PostConsumeToken(r)
  PROVE  IInv'
<1>1. LedgersOK /\ PcOK /\ ReqOK /\ OutcomeOK /\ SessOK /\ PaidOK /\ FaultsOK
  BY DEF IInv, TypeOK
<1>2. /\ SourceBooks(r) /\ SessionShape(r) /\ OutcomeShape(r)
      /\ FeeBooks(r) /\ TokenBooks(r) /\ FundBooks(r)
  BY DEF IInv, BooksAgree, Books
<1>3. UNCHANGED <<wallet, subUsed, record, subActive, overflow, req, sess, due, outcome, bg, tries, credits>>
  BY DEF PostConsumeToken, plan, ChargeToken, ledgers, ghosts
<1>4. pc[r] = "postToken" /\ outcome[r] \in {"error", "ok"} /\ due[r] \in Nat /\ (outcome[r] = "ok" => sess[r].funding = "none") /\ ~Profile(r).playground /\ fee[r].token = 0
      /\ ~Committed(r)
  BY <1>1, <1>2, <1>3 DEF PostConsumeToken, SessionShape, OutcomeShape, FeeBooks, Opening, Reserving, NoSession,
       ReqOK
<1>5. SubWithinTotal' BY <1>3 DEF IInv, SubWithinTotal
<1>6. CASE /\ ChargeToken(r, due[r]) /\ NoFault
           /\ fee' = [fee EXCEPT ![r].token = @ + due[r]]
           /\ Goto(r, "ended")
  <2>1. /\ pc'[r] = "ended" /\ hit' = hit
        /\ paid'[r].wallet = paid[r].wallet /\ paid'[r].sub = paid[r].sub /\ paid'[r].token = paid[r].token + due[r]
        /\ fee'[r].wallet = fee[r].wallet /\ fee'[r].sub = fee[r].sub /\ fee'[r].token = fee[r].token + due[r]
    BY <1>1, <1>3, <1>4, <1>6 DEF LedgersOK, PcOK, PaidOK, FaultsOK, Goto, NoFault, faultVars, ChargeToken
  <2>2. TypeOK'
    <3>1. LedgersOK' BY ConstantsAssumption, <1>1, <1>3, <1>4, <1>6 DEF LedgersOK, Goto, NoFault, faultVars, ChargeToken
    <3>2. PcOK' BY <1>1, <1>3, <1>4, <1>6 DEF PcOK, Labels, BgLabels, Goto, NoFault, faultVars, ChargeToken
    <3>3. PaidOK' BY <1>1, <1>3, <1>4, <1>6 DEF PaidOK, Goto, NoFault, faultVars, ChargeToken
    <3>4. FaultsOK' BY <1>1, <1>3, <1>4, <1>6 DEF FaultsOK, Goto, NoFault, faultVars, ChargeToken
    <3>5. QED BY <1>1, <1>3, <3>1, <3>2, <3>3, <3>4 DEF TypeOK, ReqOK, OutcomeOK, SessOK
  <2>3. \A q \in Requests \ {r} : Same(q)
    BY <1>1, <1>3, <1>6 DEF Same, LedgersOK, PcOK, PaidOK, FaultsOK, Goto, NoFault, faultVars, ChargeToken
  <2>4. Books(r)'
    <3>1. SourceBooks(r)' /\ SessionShape(r)' /\ FeeBooks(r)'
      BY <1>1, <1>2, <1>3, <1>4, <2>1 DEF SourceBooks, NoSession, PaidOK, SessionShape, Opening, Reserving, Covers,
           InReserve, Committed, Effective, Profile, ReqOK, SessOK, SessionType, ProfileType, FeeBooks, TokenDue
    <3>2. OutcomeShape(r)'
      BY <1>1, <1>2, <1>3, <1>4, <2>1 DEF OutcomeShape, SessionShape, Opening, Reserving, Committed, SettleRefused,
           NoSession, SessOK, SessionType
    <3>3. TokenBooks(r)'
      BY <1>1, <1>2, <1>3, <1>4, <2>1 DEF TokenBooks, NetToken, TokenHold, TokenDue, Covers, Profile, PaidOK,
           SessionShape, Opening, Reserving, SessOK, SessionType, ReqOK, ProfileType
    <3>4. FundBooks(r)'
      BY <1>1, <1>2, <1>3, <1>4, <2>1 DEF FundBooks, NetFund, Repeated, FundPaid, FundFee, FundHold, Committed,
           InReserve, Reserving, Covers, PaidOK, SessOK, SessionType, ReqOK, OutcomeShape
    <3>5. QED BY <3>1, <3>2, <3>3, <3>4 DEF Books
  <2>5. QED BY <2>2, <2>3, <1>5, <2>4, OneRequest
<1>7. CASE /\ Goto(r, "ended") /\ UNCHANGED <<ledgers, ghosts>>
           /\ Fault(r)
  <2>1. /\ pc'[r] = "ended" /\ r \in hit' /\ paid'[r] = paid[r] /\ fee'[r] = fee[r]
    BY <1>1, <1>3, <1>4, <1>7 DEF LedgersOK, PcOK, PaidOK, FaultsOK, Goto, Fault, ledgers, ghosts
  <2>2. TypeOK'
    BY ConstantsAssumption, <1>1, <1>3, <1>4, <1>7 DEF TypeOK, LedgersOK, PcOK, ReqOK, OutcomeOK, SessOK, PaidOK, FaultsOK, Labels,
         BgLabels, Goto, Fault, ledgers, ghosts
  <2>3. \A q \in Requests \ {r} : Same(q)
    BY <1>1, <1>3, <1>7 DEF Same, LedgersOK, PcOK, PaidOK, FaultsOK, Goto, Fault, ledgers, ghosts
  <2>4. Books(r)'
    BY <1>1, <1>2, <1>3, <1>4, <2>1 DEF Books, SourceBooks, NoSession, PaidOK, SessionShape, Opening, Reserving, Covers,
         InReserve, Committed, Effective, Profile, ReqOK, SessOK, SessionType, ProfileType,
         OutcomeShape, SettleRefused, FeeBooks, TokenDue, TokenBooks, NetToken, TokenHold,
         FundBooks, NetFund, Repeated, FundPaid, FundFee, FundHold
  <2>5. QED BY <2>2, <2>3, <1>5, <2>4, OneRequest
<1>8. QED
  BY <1>6, <1>7 DEF PostConsumeToken, plan, ChargeToken, ledgers, ghosts

\* RefundWallet keeps the inductive invariant.
LEMMA RefundWalletStep ==
  ASSUME IInv, NEW r \in Requests, RefundWallet(r)
  PROVE  IInv'
<1>1. LedgersOK /\ PcOK /\ ReqOK /\ OutcomeOK /\ SessOK /\ PaidOK /\ FaultsOK
  BY DEF IInv, TypeOK
<1>2. /\ SourceBooks(r) /\ SessionShape(r) /\ OutcomeShape(r)
      /\ FeeBooks(r) /\ TokenBooks(r) /\ FundBooks(r)
  BY DEF IInv, BooksAgree, Books
<1>3. UNCHANGED <<token, subUsed, record, subActive, overflow, pc, req, sess, due, outcome, tries, fee, credits>>
  BY DEF RefundWallet, bgRest, plan, ledgers, ChargeWallet
<1>4. bg[r] = "refundFunding" /\ sess[r].funding = "wallet" /\ sess[r].refunded /\ outcome[r] = "error" /\ ~Committed(r) /\ sess[r].tokenConsumed \in Nat /\ sess[r].fundConsumed \in Nat
      /\ sess[r].extraReserved \in Nat /\ pc[r] \in {"postFunding", "postToken", "ended", "crashed"}
  BY <1>1, <1>2, <1>3 DEF RefundWallet, SessionShape, OutcomeShape, FeeBooks, Opening, Reserving, NoSession,
       SessOK, SessionType
<1>5. SubWithinTotal' BY <1>3 DEF IInv, SubWithinTotal
<1>6. CASE ChargeWallet(r, -sess[r].fundConsumed) /\ NoFault /\ BgGoto(r, "refundExtra")
  <2>1. /\ bg'[r] = "refundExtra" /\ hit' = hit
        /\ paid'[r].wallet = paid[r].wallet - sess[r].fundConsumed /\ paid'[r].sub = paid[r].sub /\ paid'[r].token = paid[r].token
    BY <1>1, <1>3, <1>4, <1>6 DEF LedgersOK, PcOK, PaidOK, FaultsOK, BgGoto, NoFault, faultVars, ChargeWallet
  <2>2. TypeOK'
    <3>1. LedgersOK' BY ConstantsAssumption, <1>1, <1>3, <1>4, <1>6 DEF LedgersOK, BgGoto, NoFault, faultVars, ChargeWallet
    <3>2. PcOK' BY <1>1, <1>3, <1>4, <1>6 DEF PcOK, Labels, BgLabels, BgGoto, NoFault, faultVars, ChargeWallet
    <3>3. PaidOK' BY <1>1, <1>3, <1>4, <1>6 DEF PaidOK, BgGoto, NoFault, faultVars, ChargeWallet
    <3>4. FaultsOK' BY <1>1, <1>3, <1>4, <1>6 DEF FaultsOK, BgGoto, NoFault, faultVars, ChargeWallet
    <3>5. QED BY <1>1, <1>3, <3>1, <3>2, <3>3, <3>4 DEF TypeOK, ReqOK, OutcomeOK, SessOK
  <2>3. \A q \in Requests \ {r} : Same(q)
    BY <1>1, <1>3, <1>6 DEF Same, LedgersOK, PcOK, PaidOK, FaultsOK, BgGoto, NoFault, faultVars, ChargeWallet
  <2>4. Books(r)'
    BY <1>1, <1>2, <1>3, <1>4, <2>1 DEF Books, SourceBooks, NoSession, PaidOK, SessionShape, Opening, Reserving, Covers,
         InReserve, Committed, Effective, Profile, ReqOK, SessOK, SessionType, ProfileType,
         OutcomeShape, SettleRefused, FeeBooks, TokenDue, TokenBooks, NetToken, TokenHold,
         FundBooks, NetFund, Repeated, FundPaid, FundFee, FundHold
  <2>5. QED BY <2>2, <2>3, <1>5, <2>4, OneRequest
<1>7. CASE Fault(r) /\ UNCHANGED <<ledgers, paid>> /\ BgGoto(r, "refundExtra")
  <2>1. /\ bg'[r] = "refundExtra" /\ r \in hit' /\ paid'[r] = paid[r]
    BY <1>1, <1>3, <1>4, <1>7 DEF LedgersOK, PcOK, PaidOK, FaultsOK, BgGoto, Fault, ledgers
  <2>2. TypeOK'
    BY ConstantsAssumption, <1>1, <1>3, <1>4, <1>7 DEF TypeOK, LedgersOK, PcOK, ReqOK, OutcomeOK, SessOK, PaidOK, FaultsOK, Labels,
         BgLabels, BgGoto, Fault, ledgers
  <2>3. \A q \in Requests \ {r} : Same(q)
    BY <1>1, <1>3, <1>7 DEF Same, LedgersOK, PcOK, PaidOK, FaultsOK, BgGoto, Fault, ledgers
  <2>4. Books(r)'
    BY <1>1, <1>2, <1>3, <1>4, <2>1 DEF Books, SourceBooks, NoSession, PaidOK, SessionShape, Opening, Reserving, Covers,
         InReserve, Committed, Effective, Profile, ReqOK, SessOK, SessionType, ProfileType,
         OutcomeShape, SettleRefused, FeeBooks, TokenDue, TokenBooks, NetToken, TokenHold,
         FundBooks, NetFund, Repeated, FundPaid, FundFee, FundHold
  <2>5. QED BY <2>2, <2>3, <1>5, <2>4, OneRequest
<1>8. QED
  BY <1>6, <1>7 DEF RefundWallet, bgRest, plan, ledgers, ChargeWallet

\* RefundSubCredit keeps the inductive invariant.
LEMMA RefundSubCreditStep ==
  ASSUME IInv, NEW r \in Requests, RefundSubCredit(r)
  PROVE  IInv'
<1>1. LedgersOK /\ PcOK /\ ReqOK /\ OutcomeOK /\ SessOK /\ PaidOK /\ FaultsOK
  BY DEF IInv, TypeOK
<1>2. /\ SourceBooks(r) /\ SessionShape(r) /\ OutcomeShape(r)
      /\ FeeBooks(r) /\ TokenBooks(r) /\ FundBooks(r)
  BY DEF IInv, BooksAgree, Books
<1>3. UNCHANGED <<wallet, token, record, subActive, overflow, pc, req, sess, due, outcome, fee>>
  BY DEF RefundSubCredit, bgRest, plan, ledgers, ChargeSub
<1>4. bg[r] = "refundFunding" /\ sess[r].funding = "subscription" /\ record[r] # "refunded" /\ sess[r].refunded /\ outcome[r] = "error" /\ ~Committed(r) /\ sess[r].tokenConsumed \in Nat /\ sess[r].fundConsumed \in Nat
      /\ sess[r].extraReserved \in Nat /\ pc[r] \in {"postFunding", "postToken", "ended", "crashed"}
  BY <1>1, <1>2, <1>3 DEF RefundSubCredit, SessionShape, OutcomeShape, FeeBooks, Opening, Reserving, NoSession,
       SessOK, SessionType
<1>5. InReserve(r) = 0
  BY <1>1, <1>4 DEF InReserve, Reserving
<1>9. /\ credits[r] \in {0, 1, 2} /\ credits[r] <= tries[r] /\ tries[r] \in {0, 1, 2}
      /\ credits[r] > 0 => r \in hit
  BY <1>1, <1>2, <1>4 DEF OutcomeShape, PcOK, PaidOK, MaxAttempts
<1>6. CASE /\ ChargeSub(r, -sess[r].fundConsumed) /\ NoFault /\ UNCHANGED tries
           /\ credits' = [credits EXCEPT ![r] = @ + 1] /\ BgGoto(r, "refundSave")
  <2>1. /\ bg'[r] = "refundSave" /\ hit' = hit /\ credits'[r] = credits[r] + 1 /\ tries'[r] = tries[r]
        /\ paid'[r].wallet = paid[r].wallet /\ paid'[r].sub = paid[r].sub - sess[r].fundConsumed /\ paid'[r].token = paid[r].token
    BY <1>1, <1>3, <1>4, <1>6 DEF LedgersOK, PcOK, PaidOK, FaultsOK, BgGoto, NoFault, faultVars, ChargeSub, NewUsed
  <2>2. TypeOK'
    <3>1. LedgersOK' BY ConstantsAssumption, <1>1, <1>3, <1>4, <1>6 DEF LedgersOK, ChargeSub, NewUsed
    <3>2. PcOK' BY <1>1, <1>3, <1>4, <1>6 DEF PcOK, BgLabels, BgGoto
    <3>3. PaidOK'
      <4>1. paid' \in [Requests -> [wallet : Int, sub : Int, token : Int]]
        BY <1>1, <1>4, <1>6 DEF PaidOK, ChargeSub
      <4>2. credits' \in [Requests -> 0 .. MaxAttempts]  BY <1>1, <1>6, <1>9 DEF PaidOK, MaxAttempts
      <4>3. QED BY <1>1, <1>3, <4>1, <4>2 DEF PaidOK
    <3>4. FaultsOK' BY <1>1, <1>6 DEF FaultsOK, NoFault, faultVars
    <3>5. QED BY <1>1, <1>3, <3>1, <3>2, <3>3, <3>4 DEF TypeOK, ReqOK, OutcomeOK, SessOK
  <2>3. \A q \in Requests \ {r} : Same(q)
    BY <1>1, <1>3, <1>6 DEF Same, LedgersOK, PcOK, PaidOK, FaultsOK, BgGoto, NoFault, faultVars, ChargeSub,
         NewUsed
  <2>4. SubWithinTotal'
    BY <1>1, <1>3, <1>4, <1>6, ConstantsAssumption
    DEF IInv, SubWithinTotal, ChargeSub, DeltaFits, NewUsed, LedgersOK, ChargeWallet, ledgers
  <2>5. SourceBooks(r)' /\ SessionShape(r)' /\ OutcomeShape(r)' /\ FeeBooks(r)'
    <3>1. SourceBooks(r)' /\ SessionShape(r)' /\ FeeBooks(r)'
      BY <1>1, <1>2, <1>3, <1>4, <2>1 DEF SourceBooks, NoSession, PaidOK, SessionShape, Opening, Reserving, Covers,
         InReserve, Committed, Effective, Profile, ReqOK, SessOK, SessionType, ProfileType, FeeBooks, TokenDue
    <3>2. OutcomeShape(r)'
      BY <1>1, <1>2, <1>3, <1>4, <1>9, <2>1 DEF OutcomeShape, Opening, Reserving, Committed, SettleRefused,
         MaxAttempts
    <3>3. QED BY <3>1, <3>2
  <2>6. TokenBooks(r)'
    BY <1>1, <1>2, <1>3, <1>4, <2>1 DEF TokenBooks, NetToken, TokenHold, TokenDue, NoSession, Covers, Profile, Opening,
         Reserving, Committed, Effective, ReqOK, SessOK, PaidOK, SessionType, ProfileType
  <2>7. FundBooks(r)'
    <3>1. FundPaid(r)' = FundPaid(r) - sess[r].fundConsumed /\ FundPaid(r) \in Int
          /\ FundFee(r)' = FundFee(r) /\ FundFee(r) \in Int
      BY <1>1, <1>3, <1>4, <2>1 DEF FundPaid, FundFee, PaidOK
    <3>2. FundHold(r) = sess[r].fundConsumed + sess[r].extraReserved
      BY <1>4, <1>5 DEF FundHold
    <3>3. Covers(r, NetFund(r), IF credits[r] = 0 THEN FundHold(r) ELSE sess[r].extraReserved)
      BY <1>2, <1>4 DEF FundBooks
    <3>4. /\ NetFund(r) = FundPaid(r) - FundFee(r) + Repeated(r)
          /\ NetFund(r)' = FundPaid(r)' - FundFee(r)' + Repeated(r)'
      BY DEF NetFund
    <3>5. Repeated(r)' = Repeated(r) + (IF credits[r] = 0 THEN 0 ELSE sess[r].fundConsumed)
          /\ Repeated(r) \in Int
      BY <1>3, <1>4, <1>9, <2>1 DEF Repeated
    <3>6. Covers(r, NetFund(r), sess[r].extraReserved)'
      BY <1>3, <1>4, <1>9, <2>1, <3>1, <3>2, <3>3, <3>4, <3>5 DEF Covers
    <3>7. QED BY <1>3, <1>4, <2>1, <3>6 DEF FundBooks, Committed
  <2>8. QED BY <2>2, <2>3, <2>4, <2>5, <2>6, <2>7, OneRequest DEF Books
<1>7. CASE Fault(r) /\ RetryRefund(r) /\ UNCHANGED <<ledgers, paid, credits>>
  <2>1. /\ r \in hit' /\ paid'[r] = paid[r] /\ credits'[r] = credits[r] /\ tries'[r] = tries[r] + 1
        /\ bg'[r] = (IF tries[r] + 1 < MaxAttempts THEN "refundFunding" ELSE "refundExtra")
    BY <1>1, <1>3, <1>4, <1>7 DEF LedgersOK, PcOK, PaidOK, FaultsOK, BgGoto, RetryRefund, Fault
  <2>2. TypeOK'
    <3>1. bg' \in [Requests -> BgLabels]  BY <1>1, <1>7 DEF PcOK, RetryRefund, BgGoto, BgLabels
    <3>2. tries' \in [Requests -> 0 .. MaxAttempts]
      BY <1>1, <1>7, <1>9 DEF PcOK, RetryRefund, MaxAttempts
    <3>3. FaultsOK' BY <1>1, <1>7 DEF FaultsOK, Fault
    <3>4. QED BY <1>1, <1>3, <1>7, <3>1, <3>2, <3>3 DEF TypeOK, LedgersOK, PcOK, ReqOK, OutcomeOK, SessOK, PaidOK, ledgers
  <2>3. \A q \in Requests \ {r} : Same(q)
    BY <1>1, <1>3, <1>7 DEF Same, LedgersOK, PcOK, PaidOK, FaultsOK, BgGoto, RetryRefund, Fault, ledgers
  <2>4. SubWithinTotal'  BY <1>7 DEF IInv, SubWithinTotal, ledgers
  <2>5. Books(r)'
    <3>1. SourceBooks(r)' /\ SessionShape(r)' /\ FeeBooks(r)'
      BY <1>1, <1>2, <1>3, <1>4, <2>1 DEF SourceBooks, NoSession, PaidOK, SessionShape, Opening, Reserving, Covers,
         InReserve, Committed, Effective, Profile, ReqOK, SessOK, SessionType, ProfileType, FeeBooks, TokenDue
    <3>2. OutcomeShape(r)'
      BY <1>1, <1>2, <1>3, <1>4, <1>7, <1>9, <2>1 DEF OutcomeShape, Opening, Reserving, Committed, SettleRefused,
         MaxAttempts, ledgers
    <3>3. TokenBooks(r)'
      BY <1>1, <1>2, <1>3, <1>4, <2>1 DEF TokenBooks, NetToken, TokenHold, TokenDue, Covers, Profile, PaidOK
    <3>4. FundBooks(r)'
      <4>1. NetFund(r)' = NetFund(r)  BY <1>3, <2>1 DEF NetFund, FundPaid, FundFee, Repeated
      <4>2. NetFund(r) \in Int
        BY <1>1, <1>4 DEF NetFund, FundPaid, FundFee, Repeated, PaidOK
      <4>3. FundHold(r) = sess[r].fundConsumed + sess[r].extraReserved /\ FundHold(r)' = FundHold(r)
        BY <1>3, <1>4, <1>5 DEF FundHold, InReserve
      <4>4. QED
        BY <1>2, <1>3, <1>4, <1>9, <2>1, <4>1, <4>2, <4>3 DEF FundBooks, Covers, Committed, MaxAttempts
    <3>5. QED BY <3>1, <3>2, <3>3, <3>4 DEF Books
  <2>6. QED BY <2>2, <2>3, <2>4, <2>5, OneRequest
<1>8. QED
  BY <1>4, <1>5, <1>6, <1>7 DEF RefundSubCredit, bgRest, plan, ledgers, ChargeSub

\* RefundSubSave keeps the inductive invariant.
LEMMA RefundSubSaveStep ==
  ASSUME IInv, NEW r \in Requests, RefundSubSave(r)
  PROVE  IInv'
<1>1. LedgersOK /\ PcOK /\ ReqOK /\ OutcomeOK /\ SessOK /\ PaidOK /\ FaultsOK
  BY DEF IInv, TypeOK
<1>2. /\ SourceBooks(r) /\ SessionShape(r) /\ OutcomeShape(r)
      /\ FeeBooks(r) /\ TokenBooks(r) /\ FundBooks(r)
  BY DEF IInv, BooksAgree, Books
<1>3. UNCHANGED <<wallet, token, subUsed, subActive, overflow, pc, req, sess, due, outcome, paid, fee, credits>>
  BY DEF RefundSubSave, bgRest, plan, ledgers
<1>4. bg[r] = "refundSave" /\ sess[r].funding = "subscription" /\ sess[r].refunded /\ outcome[r] = "error" /\ ~Committed(r) /\ sess[r].tokenConsumed \in Nat /\ sess[r].fundConsumed \in Nat
      /\ sess[r].extraReserved \in Nat /\ pc[r] \in {"postFunding", "postToken", "ended", "crashed"}
  BY <1>1, <1>2, <1>3 DEF RefundSubSave, SessionShape, OutcomeShape, FeeBooks, Opening, Reserving, NoSession,
       SessOK, SessionType
<1>8. /\ credits[r] \in {1, 2, 3} /\ credits[r] <= tries[r] + 1 /\ tries[r] \in {0, 1, 2}
      /\ record[r] # "refunded" /\ InReserve(r) = 0
  BY <1>1, <1>2, <1>4 DEF OutcomeShape, PcOK, PaidOK, MaxAttempts, InReserve, Reserving
<1>5. SubWithinTotal' BY <1>3 DEF IInv, SubWithinTotal
<1>6. CASE /\ record' = [record EXCEPT ![r] = "refunded"] /\ BgGoto(r, "refundExtra")
           /\ NoFault /\ UNCHANGED tries
  <2>1. bg'[r] = "refundExtra" /\ hit' = hit /\ record'[r] = "refunded"
    BY <1>1, <1>3, <1>4, <1>6 DEF LedgersOK, PcOK, FaultsOK, BgGoto, NoFault, faultVars
  <2>2. TypeOK'
    BY ConstantsAssumption, <1>1, <1>3, <1>4, <1>6 DEF TypeOK, LedgersOK, PcOK, ReqOK, OutcomeOK, SessOK, PaidOK, FaultsOK, Labels,
         BgLabels, BgGoto, NoFault, faultVars
  <2>3. \A q \in Requests \ {r} : Same(q)
    BY <1>1, <1>3, <1>6 DEF Same, LedgersOK, PcOK, FaultsOK, BgGoto, NoFault, faultVars
  <2>4. Books(r)'
    BY <1>1, <1>2, <1>3, <1>4, <2>1 DEF Books, SourceBooks, NoSession, PaidOK, SessionShape, Opening, Reserving, Covers,
         InReserve, Committed, Effective, Profile, ReqOK, SessOK, SessionType, ProfileType,
         OutcomeShape, SettleRefused, FeeBooks, TokenDue, TokenBooks, NetToken, TokenHold,
         FundBooks, NetFund, Repeated, FundPaid, FundFee, FundHold
  <2>5. QED BY <2>2, <2>3, <1>5, <2>4, OneRequest
<1>7. CASE Fault(r) /\ RetryRefund(r) /\ UNCHANGED ledgers
  <2>1. /\ r \in hit' /\ paid'[r] = paid[r] /\ credits'[r] = credits[r] /\ tries'[r] = tries[r] + 1
        /\ bg'[r] = (IF tries[r] + 1 < MaxAttempts THEN "refundFunding" ELSE "refundExtra")
    BY <1>1, <1>3, <1>4, <1>7 DEF LedgersOK, PcOK, PaidOK, FaultsOK, BgGoto, RetryRefund, Fault
  <2>2. TypeOK'
    <3>1. bg' \in [Requests -> BgLabels]  BY <1>1, <1>7 DEF PcOK, RetryRefund, BgGoto, BgLabels
    <3>2. tries' \in [Requests -> 0 .. MaxAttempts]
      BY <1>1, <1>7, <1>8 DEF PcOK, RetryRefund, MaxAttempts
    <3>3. FaultsOK' BY <1>1, <1>7 DEF FaultsOK, Fault
    <3>4. QED BY <1>1, <1>3, <1>7, <3>1, <3>2, <3>3 DEF TypeOK, LedgersOK, PcOK, ReqOK, OutcomeOK, SessOK, PaidOK, ledgers
  <2>3. \A q \in Requests \ {r} : Same(q)
    BY <1>1, <1>3, <1>7 DEF Same, LedgersOK, PcOK, PaidOK, FaultsOK, BgGoto, RetryRefund, Fault, ledgers
  <2>4. SubWithinTotal'  BY <1>7 DEF IInv, SubWithinTotal, ledgers
  <2>5. Books(r)'
    <3>1. SourceBooks(r)' /\ SessionShape(r)' /\ FeeBooks(r)'
      BY <1>1, <1>2, <1>3, <1>4, <2>1 DEF SourceBooks, NoSession, PaidOK, SessionShape, Opening, Reserving, Covers,
         InReserve, Committed, Effective, Profile, ReqOK, SessOK, SessionType, ProfileType, FeeBooks, TokenDue
    <3>2. OutcomeShape(r)'
      BY <1>1, <1>2, <1>3, <1>4, <1>7, <1>8, <2>1 DEF OutcomeShape, Opening, Reserving, Committed, SettleRefused,
         MaxAttempts, ledgers
    <3>3. TokenBooks(r)'
      BY <1>1, <1>2, <1>3, <1>4, <2>1 DEF TokenBooks, NetToken, TokenHold, TokenDue, Covers, Profile, PaidOK
    <3>4. FundBooks(r)'
      <4>1. NetFund(r)' = NetFund(r)  BY <1>3, <2>1 DEF NetFund, FundPaid, FundFee, Repeated
      <4>2. NetFund(r) \in Int
        BY <1>1, <1>4 DEF NetFund, FundPaid, FundFee, Repeated, PaidOK
      <4>3. FundHold(r) = sess[r].fundConsumed + sess[r].extraReserved /\ FundHold(r)' = FundHold(r)
        BY <1>3, <1>4, <1>8 DEF FundHold, InReserve
      <4>4. QED
        BY <1>2, <1>3, <1>4, <1>8, <2>1, <4>1, <4>2, <4>3 DEF FundBooks, Covers, Committed, MaxAttempts
    <3>5. QED BY <3>1, <3>2, <3>3, <3>4 DEF Books
  <2>6. QED BY <2>2, <2>3, <2>4, <2>5, OneRequest
<1>9. QED
  BY <1>6, <1>7 DEF RefundSubSave

\* RefundExtra keeps the inductive invariant.
LEMMA RefundExtraStep ==
  ASSUME IInv, NEW r \in Requests, RefundExtra(r)
  PROVE  IInv'
<1>1. LedgersOK /\ PcOK /\ ReqOK /\ OutcomeOK /\ SessOK /\ PaidOK /\ FaultsOK
  BY DEF IInv, TypeOK
<1>2. /\ SourceBooks(r) /\ SessionShape(r) /\ OutcomeShape(r)
      /\ FeeBooks(r) /\ TokenBooks(r) /\ FundBooks(r)
  BY DEF IInv, BooksAgree, Books
<1>3. UNCHANGED <<wallet, token, record, subActive, overflow, pc, req, sess, due, outcome, tries, fee, credits>>
  BY DEF RefundExtra, bgRest, plan, ledgers, ChargeSub
<1>4. bg[r] = "refundExtra" /\ sess[r].funding # "none" /\ sess[r].refunded /\ outcome[r] = "error" /\ ~Committed(r) /\ sess[r].tokenConsumed \in Nat /\ sess[r].fundConsumed \in Nat
      /\ sess[r].extraReserved \in Nat /\ pc[r] \in {"postFunding", "postToken", "ended", "crashed"}
  BY <1>1, <1>2, <1>3 DEF RefundExtra, SessionShape, OutcomeShape, FeeBooks, Opening, Reserving, NoSession,
       SessOK, SessionType
<1>5. CASE /\ sess[r].funding = "subscription" /\ ChargeSub(r, -sess[r].extraReserved) /\ NoFault
           /\ BgGoto(r, "refundToken")
  <2>1. /\ bg'[r] = "refundToken" /\ hit' = hit /\ sess[r].funding = "subscription"
        /\ paid'[r].wallet = paid[r].wallet /\ paid'[r].sub = paid[r].sub - sess[r].extraReserved /\ paid'[r].token = paid[r].token
    BY <1>1, <1>3, <1>4, <1>5 DEF LedgersOK, PcOK, PaidOK, FaultsOK, BgGoto, NoFault, faultVars, ChargeSub, NewUsed
  <2>2. TypeOK'
    <3>1. LedgersOK' BY ConstantsAssumption, <1>1, <1>3, <1>4, <1>5 DEF LedgersOK, BgGoto, NoFault, faultVars, ChargeSub, NewUsed
    <3>2. PcOK' BY <1>1, <1>3, <1>4, <1>5 DEF PcOK, Labels, BgLabels, BgGoto, NoFault, faultVars, ChargeSub, NewUsed
    <3>3. PaidOK' BY <1>1, <1>3, <1>4, <1>5 DEF PaidOK, BgGoto, NoFault, faultVars, ChargeSub, NewUsed
    <3>4. FaultsOK' BY <1>1, <1>3, <1>4, <1>5 DEF FaultsOK, BgGoto, NoFault, faultVars, ChargeSub, NewUsed
    <3>5. QED BY <1>1, <1>3, <3>1, <3>2, <3>3, <3>4 DEF TypeOK, ReqOK, OutcomeOK, SessOK
  <2>3. \A q \in Requests \ {r} : Same(q)
    BY <1>1, <1>3, <1>5 DEF Same, LedgersOK, PcOK, PaidOK, FaultsOK, BgGoto, NoFault, faultVars, ChargeSub,
         NewUsed
  <2>4. SubWithinTotal'
    BY <1>1, <1>3, <1>4, <1>5, ConstantsAssumption
    DEF IInv, SubWithinTotal, ChargeSub, DeltaFits, NewUsed, LedgersOK, ChargeWallet, ledgers
  <2>5. Books(r)'
    BY <1>1, <1>2, <1>3, <1>4, <2>1 DEF Books, SourceBooks, NoSession, PaidOK, SessionShape, Opening, Reserving, Covers,
         InReserve, Committed, Effective, Profile, ReqOK, SessOK, SessionType, ProfileType,
         OutcomeShape, SettleRefused, FeeBooks, TokenDue, TokenBooks, NetToken, TokenHold,
         FundBooks, NetFund, Repeated, FundPaid, FundFee, FundHold
  <2>6. QED BY <2>2, <2>3, <2>4, <2>5, OneRequest
<1>6. CASE Fault(r) /\ UNCHANGED <<ledgers, paid>> /\ BgGoto(r, "refundToken")
  <2>1. /\ bg'[r] = "refundToken" /\ r \in hit' /\ paid'[r] = paid[r]
    BY <1>1, <1>3, <1>4, <1>6 DEF LedgersOK, PcOK, PaidOK, FaultsOK, BgGoto, NoFault, faultVars, Fault, ledgers
  <2>2. TypeOK'
    BY ConstantsAssumption, <1>1, <1>3, <1>4, <1>6 DEF TypeOK, LedgersOK, PcOK, ReqOK, OutcomeOK, SessOK, PaidOK, FaultsOK, Labels,
         BgLabels, BgGoto, NoFault, faultVars, Fault, ledgers
  <2>3. \A q \in Requests \ {r} : Same(q)
    BY <1>1, <1>3, <1>6 DEF Same, LedgersOK, PcOK, PaidOK, FaultsOK, BgGoto, NoFault, faultVars, Fault, ledgers
  <2>4. SubWithinTotal'
    BY <1>1, <1>3, <1>4, <1>6, ConstantsAssumption
    DEF IInv, SubWithinTotal, ChargeSub, DeltaFits, NewUsed, LedgersOK, ChargeWallet, ledgers
  <2>5. Books(r)'
    BY <1>1, <1>2, <1>3, <1>4, <2>1 DEF Books, SourceBooks, NoSession, PaidOK, SessionShape, Opening, Reserving, Covers,
         InReserve, Committed, Effective, Profile, ReqOK, SessOK, SessionType, ProfileType,
         OutcomeShape, SettleRefused, FeeBooks, TokenDue, TokenBooks, NetToken, TokenHold,
         FundBooks, NetFund, Repeated, FundPaid, FundFee, FundHold
  <2>6. QED BY <2>2, <2>3, <2>4, <2>5, OneRequest
<1>7. CASE /\ sess[r].funding # "subscription" \/ sess[r].extraReserved = 0
           /\ NoFault /\ UNCHANGED <<ledgers, paid>> /\ BgGoto(r, "refundToken")
  <2>1. /\ bg'[r] = "refundToken" /\ hit' = hit /\ paid'[r] = paid[r]
        /\ sess[r].funding # "subscription" \/ sess[r].extraReserved = 0
    BY <1>1, <1>3, <1>4, <1>7 DEF LedgersOK, PcOK, PaidOK, FaultsOK, BgGoto, NoFault, faultVars, Fault, ledgers
  <2>2. TypeOK'
    BY ConstantsAssumption, <1>1, <1>3, <1>4, <1>7 DEF TypeOK, LedgersOK, PcOK, ReqOK, OutcomeOK, SessOK, PaidOK, FaultsOK, Labels,
         BgLabels, BgGoto, NoFault, faultVars, Fault, ledgers
  <2>3. \A q \in Requests \ {r} : Same(q)
    BY <1>1, <1>3, <1>7 DEF Same, LedgersOK, PcOK, PaidOK, FaultsOK, BgGoto, NoFault, faultVars, Fault, ledgers
  <2>4. SubWithinTotal'
    BY <1>1, <1>3, <1>4, <1>7, ConstantsAssumption
    DEF IInv, SubWithinTotal, ChargeSub, DeltaFits, NewUsed, LedgersOK, ChargeWallet, ledgers
  <2>5. Books(r)'
    BY <1>1, <1>2, <1>3, <1>4, <2>1 DEF Books, SourceBooks, NoSession, PaidOK, SessionShape, Opening, Reserving, Covers,
         InReserve, Committed, Effective, Profile, ReqOK, SessOK, SessionType, ProfileType,
         OutcomeShape, SettleRefused, FeeBooks, TokenDue, TokenBooks, NetToken, TokenHold,
         FundBooks, NetFund, Repeated, FundPaid, FundFee, FundHold
  <2>6. QED BY <2>2, <2>3, <2>4, <2>5, OneRequest
<1>8. QED
  BY <1>4, <1>5, <1>6, <1>7 DEF RefundExtra, bgRest, plan, ledgers, ChargeSub

\* RefundToken keeps the inductive invariant.
LEMMA RefundTokenStep ==
  ASSUME IInv, NEW r \in Requests, RefundToken(r)
  PROVE  IInv'
<1>1. LedgersOK /\ PcOK /\ ReqOK /\ OutcomeOK /\ SessOK /\ PaidOK /\ FaultsOK
  BY DEF IInv, TypeOK
<1>2. /\ SourceBooks(r) /\ SessionShape(r) /\ OutcomeShape(r)
      /\ FeeBooks(r) /\ TokenBooks(r) /\ FundBooks(r)
  BY DEF IInv, BooksAgree, Books
<1>3. UNCHANGED <<wallet, subUsed, record, subActive, overflow, pc, req, sess, due, outcome, tries, fee, credits>>
  BY DEF RefundToken, bgRest, plan, ledgers, ChargeToken
<1>4. bg[r] = "refundToken" /\ sess[r].refunded /\ outcome[r] = "error" /\ ~Committed(r) /\ sess[r].tokenConsumed \in Nat /\ sess[r].fundConsumed \in Nat
      /\ sess[r].extraReserved \in Nat /\ pc[r] \in {"postFunding", "postToken", "ended", "crashed"}
  BY <1>1, <1>2, <1>3 DEF RefundToken, SessionShape, OutcomeShape, FeeBooks, Opening, Reserving, NoSession,
       SessOK, SessionType
<1>5. SubWithinTotal' BY <1>3 DEF IInv, SubWithinTotal
<1>6. CASE /\ ~Profile(r).playground /\ ChargeToken(r, -sess[r].tokenConsumed) /\ NoFault
           /\ BgGoto(r, "done")
  <2>1. /\ bg'[r] = "done" /\ hit' = hit /\ ~Profile(r).playground
        /\ paid'[r].wallet = paid[r].wallet /\ paid'[r].sub = paid[r].sub /\ paid'[r].token = paid[r].token - sess[r].tokenConsumed
    BY <1>1, <1>3, <1>4, <1>6 DEF LedgersOK, PcOK, PaidOK, FaultsOK, BgGoto, NoFault, faultVars, ChargeToken
  <2>2. TypeOK'
    <3>1. LedgersOK' BY ConstantsAssumption, <1>1, <1>3, <1>4, <1>6 DEF LedgersOK, BgGoto, NoFault, faultVars, ChargeToken
    <3>2. PcOK' BY <1>1, <1>3, <1>4, <1>6 DEF PcOK, Labels, BgLabels, BgGoto, NoFault, faultVars, ChargeToken
    <3>3. PaidOK' BY <1>1, <1>3, <1>4, <1>6 DEF PaidOK, BgGoto, NoFault, faultVars, ChargeToken
    <3>4. FaultsOK' BY <1>1, <1>3, <1>4, <1>6 DEF FaultsOK, BgGoto, NoFault, faultVars, ChargeToken
    <3>5. QED BY <1>1, <1>3, <3>1, <3>2, <3>3, <3>4 DEF TypeOK, ReqOK, OutcomeOK, SessOK
  <2>3. \A q \in Requests \ {r} : Same(q)
    BY <1>1, <1>3, <1>6 DEF Same, LedgersOK, PcOK, PaidOK, FaultsOK, BgGoto, NoFault, faultVars, ChargeToken
  <2>4. Books(r)'
    BY <1>1, <1>2, <1>3, <1>4, <2>1 DEF Books, SourceBooks, NoSession, PaidOK, SessionShape, Opening, Reserving, Covers,
         InReserve, Committed, Effective, Profile, ReqOK, SessOK, SessionType, ProfileType,
         OutcomeShape, SettleRefused, FeeBooks, TokenDue, TokenBooks, NetToken, TokenHold,
         FundBooks, NetFund, Repeated, FundPaid, FundFee, FundHold
  <2>5. QED BY <2>2, <2>3, <1>5, <2>4, OneRequest
<1>7. CASE Fault(r) /\ UNCHANGED <<ledgers, paid>> /\ BgGoto(r, "done")
  <2>1. /\ bg'[r] = "done" /\ r \in hit' /\ paid'[r] = paid[r]
    BY <1>1, <1>3, <1>4, <1>7 DEF LedgersOK, PcOK, PaidOK, FaultsOK, BgGoto, NoFault, faultVars, Fault, ledgers
  <2>2. TypeOK'
    BY ConstantsAssumption, <1>1, <1>3, <1>4, <1>7 DEF TypeOK, LedgersOK, PcOK, ReqOK, OutcomeOK, SessOK, PaidOK, FaultsOK, Labels,
         BgLabels, BgGoto, NoFault, faultVars, Fault, ledgers
  <2>3. \A q \in Requests \ {r} : Same(q)
    BY <1>1, <1>3, <1>7 DEF Same, LedgersOK, PcOK, PaidOK, FaultsOK, BgGoto, NoFault, faultVars, Fault, ledgers
  <2>4. Books(r)'
    BY <1>1, <1>2, <1>3, <1>4, <2>1 DEF Books, SourceBooks, NoSession, PaidOK, SessionShape, Opening, Reserving, Covers,
         InReserve, Committed, Effective, Profile, ReqOK, SessOK, SessionType, ProfileType,
         OutcomeShape, SettleRefused, FeeBooks, TokenDue, TokenBooks, NetToken, TokenHold,
         FundBooks, NetFund, Repeated, FundPaid, FundFee, FundHold
  <2>5. QED BY <2>2, <2>3, <1>5, <2>4, OneRequest
<1>8. CASE /\ Profile(r).playground \/ sess[r].tokenConsumed = 0
           /\ NoFault /\ UNCHANGED <<ledgers, paid>> /\ BgGoto(r, "done")
  <2>1. /\ bg'[r] = "done" /\ hit' = hit /\ paid'[r] = paid[r]
        /\ Profile(r).playground \/ sess[r].tokenConsumed = 0
    BY <1>1, <1>3, <1>4, <1>8 DEF LedgersOK, PcOK, PaidOK, FaultsOK, BgGoto, NoFault, faultVars, Fault, ledgers
  <2>2. TypeOK'
    BY ConstantsAssumption, <1>1, <1>3, <1>4, <1>8 DEF TypeOK, LedgersOK, PcOK, ReqOK, OutcomeOK, SessOK, PaidOK, FaultsOK, Labels,
         BgLabels, BgGoto, NoFault, faultVars, Fault, ledgers
  <2>3. \A q \in Requests \ {r} : Same(q)
    BY <1>1, <1>3, <1>8 DEF Same, LedgersOK, PcOK, PaidOK, FaultsOK, BgGoto, NoFault, faultVars, Fault, ledgers
  <2>4. Books(r)'
    BY <1>1, <1>2, <1>3, <1>4, <2>1 DEF Books, SourceBooks, NoSession, PaidOK, SessionShape, Opening, Reserving, Covers,
         InReserve, Committed, Effective, Profile, ReqOK, SessOK, SessionType, ProfileType,
         OutcomeShape, SettleRefused, FeeBooks, TokenDue, TokenBooks, NetToken, TokenHold,
         FundBooks, NetFund, Repeated, FundPaid, FundFee, FundHold
  <2>5. QED BY <2>2, <2>3, <1>5, <2>4, OneRequest
<1>9. QED
  BY <1>4, <1>6, <1>7, <1>8 DEF RefundToken, bgRest, plan, ledgers, ChargeToken

\* The end of the subscription touches no request.
LEMMA ExpireStep ==
  ASSUME IInv, ExpireSubscription
  PROVE  IInv'
<1>1. TypeOK' BY DEF IInv, TypeOK, ExpireSubscription, ledgers, ghosts, faultVars, LedgersOK, PcOK, ReqOK,
         OutcomeOK, SessOK, PaidOK, FaultsOK
<1>2. SubWithinTotal' BY DEF IInv, SubWithinTotal, ExpireSubscription, ledgers
<1>3. ASSUME NEW q \in Requests PROVE Books(q)'
  <2>1. Same(q) BY DEF Same, ExpireSubscription, ledgers, ghosts, faultVars
  <2>2. Books(q) BY DEF IInv, BooksAgree
  <2>3. QED BY <2>1, <2>2, SameBooks
<1>4. QED BY <1>1, <1>2, <1>3 DEF IInv, BooksAgree

\* A request that is lost in a crash keeps what its books say, but for being
\* exact: its ledgers may be out what its session can no longer give back.
LEMMA LostBooks ==
  ASSUME TypeOK, NEW q \in Requests, Books(q), q \in hit',
         UNCHANGED <<req, sess, due, outcome, record, paid, fee, credits, tries>>,
         pc'[q] \in (IF pc[q] \in {"new", "ended"} THEN {pc[q]} ELSE {"crashed"}),
         bg'[q] \in (IF bg[q] \in {"none", "done"} THEN {bg[q]} ELSE {"lost"})
  PROVE  Books(q)'
<1>1. LedgersOK /\ PcOK /\ ReqOK /\ OutcomeOK /\ SessOK /\ PaidOK BY DEF TypeOK
<1>2. /\ SourceBooks(q) /\ SessionShape(q) /\ OutcomeShape(q)
      /\ FeeBooks(q) /\ TokenBooks(q) /\ FundBooks(q)
  BY DEF Books
<1>3. SourceBooks(q)' BY <1>2 DEF SourceBooks
<1>4. SessionShape(q)'
  BY <1>1, <1>2 DEF SessionShape, OutcomeShape, NoSession, Opening, Reserving, Covers, InReserve, Committed,
       Effective, Profile, ReqOK, SessOK, SessionType, PcOK, BgLabels
<1>5. OutcomeShape(q)'
  BY <1>1, <1>2 DEF OutcomeShape, Opening, Reserving, Committed, SettleRefused, PcOK, BgLabels
<1>6. FeeBooks(q)' BY <1>1, <1>2 DEF FeeBooks, TokenDue, Profile, PcOK, BgLabels
<1>7. TokenBooks(q)'
  <2>1. NetToken(q) \in Int /\ NetToken(q)' = NetToken(q) BY <1>1 DEF NetToken, PaidOK
  <2>2. due[q] \in Nat /\ sess[q].tokenConsumed \in Nat BY <1>1 DEF ReqOK, SessOK, SessionType
  <2>3. TokenHold(q) >= TokenHold(q)' /\ TokenHold(q) >= 0 /\ TokenHold(q)' \in Int /\ TokenHold(q) \in Int
    BY <2>2 DEF TokenHold, Profile
  <2>4. CASE sess[q].settled BY <1>2, <2>1, <2>4 DEF TokenBooks
  <2>5. CASE ~sess[q].settled
    <3>1. NetToken(q) >= (IF bg[q] \in {"done", "lost"} THEN 0 ELSE TokenHold(q))
      BY <1>2, <2>5 DEF TokenBooks, Covers
    <3>2. bg[q] \in {"done", "lost"} => bg'[q] \in {"done", "lost"} OBVIOUS
    <3>3. NetToken(q) >= 0 BY <3>1, <2>1, <2>3
    <3>4. bg'[q] \notin {"done", "lost"} => NetToken(q) >= TokenHold(q)'
      BY <3>1, <3>2, <2>1, <2>3
    <3>5. QED BY <3>3, <3>4, <2>1, <2>5 DEF TokenBooks, Covers
  <2>6. QED BY <2>4, <2>5
<1>8. FundBooks(q)'
  <2>1. NetFund(q) \in Int /\ NetFund(q)' = NetFund(q)
    BY <1>1 DEF NetFund, Repeated, FundPaid, FundFee, PaidOK, SessOK, SessionType
  <2>2. due[q] \in Nat /\ sess[q].fundConsumed \in Nat /\ sess[q].extraReserved \in Nat
    BY <1>1 DEF ReqOK, SessOK, SessionType
  <2>3. /\ FundHold(q) >= FundHold(q)' /\ FundHold(q) >= 0 /\ FundHold(q) \in Int
        /\ FundHold(q)' \in Int
    BY <2>2 DEF FundHold, InReserve, Reserving
  <2>4. CASE Committed(q)
    <3>1. Committed(q)' BY <2>4 DEF Committed
    <3>2. QED BY <1>2, <2>1, <2>4, <3>1 DEF FundBooks, Covers
  <2>5. CASE ~Committed(q)
    <3>1. ~Committed(q)' BY <2>5 DEF Committed
    <3>2. NetFund(q) >= (IF bg[q] \in {"none", "refundFunding"} /\ credits[q] = 0 THEN FundHold(q)
                         ELSE IF /\ bg[q] \in {"refundFunding", "refundSave", "refundExtra"}
                                 /\ sess[q].funding = "subscription"
                              THEN sess[q].extraReserved
                         ELSE 0)
      BY <1>2, <2>5 DEF FundBooks, Covers
    <3>3. NetFund(q) >= 0 BY <3>2, <2>1, <2>2, <2>3
    <3>4. bg'[q] = "none" => NetFund(q) >= FundHold(q)' BY <1>2, <3>2, <2>1, <2>3 DEF OutcomeShape
    <3>5. bg'[q] \in {"none", "done", "lost"} BY <1>1 DEF PcOK, BgLabels
    <3>6. QED BY <3>1, <3>3, <3>4, <3>5, <2>1 DEF FundBooks, Covers
  <2>6. QED BY <2>4, <2>5
<1>9. QED BY <1>3, <1>4, <1>5, <1>6, <1>7, <1>8 DEF Books

\* A crash keeps the inductive invariant.
LEMMA CrashStep ==
  ASSUME IInv, Crash
  PROVE  IInv'
<1>1. LedgersOK /\ PcOK /\ ReqOK /\ OutcomeOK /\ SessOK /\ PaidOK /\ FaultsOK
  BY DEF IInv, TypeOK
<1>2. /\ UNCHANGED <<wallet, token, subUsed, record, subActive, overflow>>
      /\ UNCHANGED <<req, sess, due, outcome, tries, paid, fee, credits>>
  BY DEF Crash, ledgers, plan, ghosts
<1>3. TypeOK'
  <2>1. PcOK' BY <1>1, <1>2 DEF Crash, PcOK, Labels, BgLabels
  <2>2. FaultsOK' BY <1>1 DEF Crash, FaultsOK
  <2>3. QED BY <1>1, <1>2, <2>1, <2>2 DEF TypeOK, LedgersOK, ReqOK, OutcomeOK, SessOK, PaidOK
<1>4. SubWithinTotal' BY <1>2 DEF IInv, SubWithinTotal
<1>5. ASSUME NEW q \in Requests PROVE Books(q)'
  <2>1. Books(q) BY DEF IInv, BooksAgree
  <2>2. /\ pc'[q] = (IF pc[q] \in {"new", "ended"} THEN pc[q] ELSE "crashed")
        /\ bg'[q] = (IF bg[q] \in {"none", "done"} THEN bg[q] ELSE "lost")
        /\ q \in hit' <=> q \in hit \/ Live(q)
    BY <1>1 DEF Crash, FaultsOK
  <2>3. CASE Live(q)
    <3>1. q \in hit' BY <2>2, <2>3
    <3>2. QED BY <1>2, <2>1, <2>2, <3>1, LostBooks DEF IInv
  <2>4. CASE ~Live(q)
    <3>1. Same(q) BY <1>2, <2>2, <2>4 DEF Same, Live
    <3>2. QED BY <2>1, <3>1, SameBooks
  <2>5. QED BY <2>3, <2>4
<1>6. QED BY <1>3, <1>4, <1>5 DEF IInv, BooksAgree

-----------------------------------------------------------------------------
(* The theorems                                                            *)

\* Every step of the system keeps the inductive invariant.
LEMMA NextInv ==
  ASSUME IInv, [Next]_vars
  PROVE  IInv'
<1>1. ASSUME NEW r \in Requests, OpenSession(r) PROVE IInv'
  BY <1>1, ArriveStep, DispatchStep, TryWalletStep, TrySubscriptionStep, PreConsumeTokenCheckStep,
     PreConsumeTokenDecreaseStep, PreConsumeFundingStep, PreConsumeRollbackStep, FallbackStep
  DEF OpenSession
<1>2. ASSUME NEW r \in Requests, ReserveMore(r) PROVE IInv'
  BY <1>2, ReserveStep, ReserveFundingStep, ReserveTokenCheckStep, ReserveTokenDecreaseStep,
     ReserveRollbackStep, ReservedStep
  DEF ReserveMore
<1>3. ASSUME NEW r \in Requests, Finish(r) PROVE IInv'
  BY <1>3, SucceedStep, SettleFundingStep, SettleTokenStep, FailStep, PostConsumeFundingStep,
     PostConsumeTokenStep
  DEF Finish
<1>4. ASSUME NEW r \in Requests, RefundGoroutine(r) PROVE IInv'
  BY <1>4, RefundWalletStep, RefundSubCreditStep, RefundSubSaveStep, RefundExtraStep, RefundTokenStep
  DEF RefundGoroutine
<1>5. CASE UNCHANGED vars
  <2>1. TypeOK' BY <1>5 DEF vars, IInv, TypeOK, LedgersOK, PcOK, ReqOK, OutcomeOK, SessOK, PaidOK, FaultsOK
  <2>2. SubWithinTotal' BY <1>5 DEF vars, IInv, SubWithinTotal
  <2>3. ASSUME NEW q \in Requests PROVE Books(q)'
    <3>1. Same(q) BY <1>5 DEF vars, Same
    <3>2. Books(q) BY DEF IInv, BooksAgree
    <3>3. QED BY <3>1, <3>2, SameBooks
  <2>4. QED BY <2>1, <2>2, <2>3 DEF IInv, BooksAgree
<1>6. QED BY <1>1, <1>2, <1>3, <1>4, <1>5, ExpireStep, CrashStep DEF Next

\* The ledgers agree with the sessions in every reachable state, whichever
\* database calls fail and wherever the process crashes.
THEOREM LedgersAgree == Spec => []IInv
<1>1. Init => IInv BY InitInv
<1>2. IInv /\ [Next]_vars => IInv' BY NextInv
<1>3. QED BY <1>1, <1>2, PTL DEF Spec

\* Every variable keeps its type; in particular a session never holds a
\* negative amount.
THEOREM TypeCorrect == Spec => []TypeOK
<1>1. IInv => TypeOK BY DEF IInv
<1>2. QED BY <1>1, LedgersAgree, PTL

\* The subscription never exceeds its total.
THEOREM TotalRespected == Spec => []SubWithinTotal
<1>1. IInv => SubWithinTotal BY DEF IInv
<1>2. QED BY <1>1, LedgersAgree, PTL

\* Facts about one request that the theorems below read off its books.
LEMMA BooksFacts ==
  ASSUME IInv, NEW r \in Requests
  PROVE  /\ paid[r].wallet \in Int /\ paid[r].sub \in Int /\ paid[r].token \in Int
         /\ fee[r].wallet \in Nat /\ fee[r].sub \in Nat /\ fee[r].token \in Nat
         /\ due[r] \in Nat /\ sess[r].fundConsumed \in Nat /\ sess[r].extraReserved \in Nat
         /\ sess[r].tokenConsumed \in Nat /\ sess[r].preConsumed \in Nat
         /\ NetFund(r) \in Int /\ NetFund(r) >= 0 /\ NetToken(r) \in Int /\ NetToken(r) >= 0
         /\ Repeated(r) \in Nat /\ (r \notin hit => Repeated(r) = 0)
         /\ (sess[r].funding # "subscription" \/ Committed(r) => Repeated(r) = 0)
<1>1. /\ paid[r].wallet \in Int /\ paid[r].sub \in Int /\ paid[r].token \in Int
      /\ fee[r].wallet \in Nat /\ fee[r].sub \in Nat /\ fee[r].token \in Nat
  BY DEF IInv, TypeOK, PaidOK
<1>2. /\ due[r] \in Nat /\ sess[r].fundConsumed \in Nat /\ sess[r].extraReserved \in Nat
      /\ sess[r].tokenConsumed \in Nat /\ sess[r].preConsumed \in Nat
  BY DEF IInv, TypeOK, ReqOK, SessOK, SessionType
<1>9. OutcomeShape(r) /\ credits[r] \in {0, 1, 2, 3}
  BY DEF IInv, BooksAgree, Books, TypeOK, PaidOK, MaxAttempts
<1>10. /\ Repeated(r) \in Nat /\ (r \notin hit => Repeated(r) = 0)
       /\ (sess[r].funding # "subscription" \/ Committed(r) => Repeated(r) = 0)
  BY <1>2, <1>9 DEF Repeated, OutcomeShape
<1>3. NetFund(r) \in Int /\ NetToken(r) \in Int
  BY <1>1, <1>10 DEF NetFund, NetToken, FundPaid, FundFee
<1>4. FundHold(r) >= 0 /\ FundHold(r) \in Int /\ TokenHold(r) >= 0 /\ TokenHold(r) \in Int
  BY <1>2 DEF FundHold, InReserve, TokenHold
<1>5. FundBooks(r) /\ TokenBooks(r) BY DEF IInv, BooksAgree, Books
<1>6. NetFund(r) >= 0 BY <1>2, <1>3, <1>4, <1>5 DEF FundBooks, Covers
<1>7. NetToken(r) >= 0 BY <1>3, <1>4, <1>5 DEF TokenBooks, Covers
<1>8. QED BY <1>1, <1>2, <1>3, <1>6, <1>7, <1>10

\* Two amounts whose difference is nothing are the same.
LEMMA Balanced ==
  ASSUME NEW a \in Int, NEW b \in Int, NEW c, c = 0, a - b + c = 0
  PROVE  a = b
OBVIOUS

\* No ledger gives a request back more than it took for it, but for a subscription that
\* repeats the credit of a pre-consumption because its record was not saved.
THEOREM NoOverRefund == Spec => []NeverOverRefunded
<1>1. IInv => NeverOverRefunded
  <2> SUFFICES ASSUME IInv, NEW r \in Requests
               PROVE  /\ paid[r].wallet >= 0 /\ paid[r].token >= 0
                      /\ paid[r].sub + Repeated(r) >= 0
                      /\ credits[r] > 1 => r \in hit /\ credits[r] <= MaxAttempts
    BY DEF NeverOverRefunded
  <2>1. SourceBooks(r) /\ OutcomeShape(r) BY DEF IInv, BooksAgree, Books
  <2>2. paid[r].wallet >= 0 /\ paid[r].token >= 0 /\ paid[r].sub + Repeated(r) >= 0
    BY <2>1, BooksFacts DEF SourceBooks, NetFund, NetToken, FundPaid, FundFee
  <2>3. credits[r] > 1 => r \in hit /\ credits[r] <= MaxAttempts
    BY <2>1 DEF OutcomeShape, IInv, TypeOK, PaidOK, MaxAttempts
  <2>4. QED BY <2>2, <2>3
<1>2. QED BY <1>1, LedgersAgree, PTL

\* No request is charged to the wallet and to the subscription.
THEOREM OneSource == Spec => []SingleSource
<1>1. IInv => SingleSource BY DEF IInv, BooksAgree, Books, SourceBooks, SingleSource
<1>2. QED BY <1>1, LedgersAgree, PTL

\* At every program counter of Settle, Reserve and Refund the ledgers are out what the fields
\* of the session say, and more only where a call failed.
THEOREM BooksBalance == Spec => []BooksAgree
<1>1. IInv => BooksAgree BY DEF IInv
<1>2. QED BY <1>1, LedgersAgree, PTL

\* A settled session is paid in full by its funding source.
THEOREM SettledPaid == Spec => []SettledIsPaid
<1>1. IInv => SettledIsPaid
  <2> SUFFICES ASSUME IInv, NEW r \in Requests, sess[r].settled
               PROVE  FundPaid(r) >= due[r]
    BY DEF SettledIsPaid
  <2>1. FundBooks(r) BY DEF IInv, BooksAgree, Books
  <2>2. NetFund(r) >= due[r] BY <2>1 DEF FundBooks, Committed, Covers
  <2>3. Repeated(r) = 0 BY BooksFacts DEF Committed
  <2>4. QED BY <2>2, <2>3, BooksFacts DEF NetFund, FundPaid, FundFee
<1>2. QED BY <1>1, LedgersAgree, PTL

\* A request none of whose calls failed is charged exactly.
THEOREM Exact == Spec => []ExactCharge
<1>1. IInv => ExactCharge
  <2> SUFFICES ASSUME IInv, NEW r \in Requests, Ended(r), r \notin hit
               PROVE  LET tokenDue == IF Profile(r).playground THEN 0 ELSE due[r] IN
                      CASE outcome[r] = "rejected" -> FundPaid(r) = 0 /\ paid[r].token = 0
                        [] outcome[r] = "error" ->
                             FundPaid(r) = FundFee(r) /\ paid[r].token = fee[r].token
                        [] outcome[r] = "ok" ->
                             \/ FundPaid(r) = due[r] /\ paid[r].token = tokenDue
                             \/ SettleRefused(r) /\ FundPaid(r) = sess[r].preConsumed
    BY DEF ExactCharge
  <2>1. /\ SourceBooks(r) /\ SessionShape(r) /\ OutcomeShape(r)
        /\ FeeBooks(r) /\ TokenBooks(r) /\ FundBooks(r)
    BY DEF IInv, BooksAgree, Books
  <2>2. pc[r] = "ended" /\ bg[r] \in {"none", "done"} BY DEF Ended
  <2>3. outcome[r] \in {"rejected", "error", "ok"}
    BY <2>1, <2>2 DEF OutcomeShape, IInv, TypeOK, OutcomeOK
  <2>4. CASE outcome[r] = "rejected"
    <3>1. /\ ~Committed(r) /\ ~sess[r].settled /\ bg[r] = "none"
          /\ FundPaid(r) = 0 /\ TokenHold(r) = 0
          /\ fee[r].token = 0
      BY <2>1, <2>2, <2>4, BooksFacts
      DEF SessionShape, FeeBooks, FundPaid, TokenHold, Committed
    <3>2. NetToken(r) = 0 BY <2>1, <3>1 DEF TokenBooks, Covers
    <3>3. QED BY <2>4, <3>1, <3>2, BooksFacts DEF NetToken
  <2>5. CASE outcome[r] = "error"
    <3>1. ~Committed(r) /\ ~sess[r].settled BY <2>1, <2>5 DEF OutcomeShape, Committed
    <3>2. bg[r] = "none" => FundHold(r) = 0 /\ TokenHold(r) = 0
      <4>1. SUFFICES ASSUME bg[r] = "none" PROVE FundHold(r) = 0 /\ TokenHold(r) = 0
        OBVIOUS
      <4>2. sess[r].preConsumed = 0 /\ sess[r].tokenConsumed = 0
        BY <2>1, <2>2, <2>5, <4>1 DEF OutcomeShape, SessionShape, Opening
      <4>3. InReserve(r) = 0 BY <2>2 DEF InReserve, Reserving
      <4>4. sess[r].funding \in {"none", "wallet", "subscription"}
        BY DEF IInv, TypeOK, SessOK, SessionType
      <4>5. sess[r].funding = "subscription" => sess[r].fundConsumed = 0 /\ sess[r].extraReserved = 0
        BY <2>1, <4>2, BooksFacts DEF SessionShape
      <4>6. sess[r].funding # "subscription" => sess[r].fundConsumed = 0
        BY <2>1, <4>2, <4>3, <4>4, BooksFacts DEF SessionShape, Covers, NoSession
      <4>7. QED BY <2>2, <4>2, <4>3, <4>5, <4>6, BooksFacts DEF FundHold, TokenHold
    <3>3. NetFund(r) = 0 /\ NetToken(r) = 0
      BY <2>1, <2>2, <3>1, <3>2 DEF FundBooks, TokenBooks, Covers
    <3>4. FundPaid(r) = FundFee(r) /\ paid[r].token = fee[r].token
      <4>1. Repeated(r) = 0 BY BooksFacts
      <4>2. /\ paid[r].wallet \in Int /\ paid[r].sub \in Int /\ paid[r].token \in Int
            /\ fee[r].wallet \in Nat /\ fee[r].sub \in Nat /\ fee[r].token \in Nat
        BY BooksFacts
      <4>3. FundPaid(r) \in Int /\ FundFee(r) \in Int BY <4>2 DEF FundPaid, FundFee
      <4>4. FundPaid(r) = FundFee(r) BY <3>3, <4>1, <4>3, Balanced, Zenon DEF NetFund
      <4>5. paid[r].token = fee[r].token BY <3>3, <4>2 DEF NetToken
      <4>6. QED BY <4>3, <4>4, <4>5
    <3>5. QED BY <2>5, <3>4
  <2>6. CASE outcome[r] = "ok"
    <3>1. bg[r] = "none" BY <2>1, <2>2, <2>6 DEF OutcomeShape
    <3>2. CASE sess[r].funding = "none"
      <4>1. fee[r].wallet = due[r] /\ fee[r].token = TokenDue(r) /\ fee[r].sub = 0 /\ paid[r].sub = 0
        BY <2>1, <2>2, <2>6, <3>2 DEF FeeBooks, SourceBooks
      <4>2. ~Committed(r) /\ ~sess[r].settled /\ sess[r].fundConsumed = 0 /\ sess[r].tokenConsumed = 0
        BY <2>1, <3>2 DEF SessionShape, NoSession, Committed
      <4>3. FundHold(r) = 0 /\ TokenHold(r) = 0 BY <2>2, <3>2, <4>2 DEF FundHold, TokenHold
      <4>4. NetFund(r) = 0 /\ NetToken(r) = 0
        BY <2>1, <3>1, <4>2, <4>3 DEF FundBooks, TokenBooks, Covers
      <4>5. QED BY <2>6, <4>1, <4>4, BooksFacts DEF NetFund, NetToken, FundPaid, FundFee, TokenDue
    <3>3. CASE sess[r].funding # "none" /\ sess[r].settled
      <4>1. fee[r].wallet = 0 /\ fee[r].token = 0 /\ fee[r].sub = 0
        BY <2>1, <2>6, <3>3 DEF FeeBooks
      <4>2. NetFund(r) = due[r] /\ NetToken(r) = TokenDue(r)
        BY <2>1, <3>3 DEF FundBooks, TokenBooks, Covers, Committed
      <4>3. QED BY <2>6, <4>1, <4>2, BooksFacts DEF NetFund, NetToken, FundPaid, FundFee, TokenDue
    <3>4. CASE sess[r].funding # "none" /\ ~sess[r].settled
      <4>1. SettleRefused(r) /\ ~Committed(r)
        BY <2>1, <2>2, <2>6, <3>4 DEF OutcomeShape, Committed
      <4>2. sess[r].funding = "subscription" BY <4>1 DEF SettleRefused
      <4>3. FundHold(r) = sess[r].preConsumed
        BY <2>1, <2>2, <4>2, BooksFacts DEF FundHold, InReserve, Reserving, SessionShape
      <4>4. NetFund(r) = sess[r].preConsumed
        BY <2>1, <3>1, <4>1, <4>3 DEF FundBooks, Covers, OutcomeShape
      <4>5. fee[r].wallet = 0 /\ fee[r].sub = 0 BY <2>1, <2>6, <3>4 DEF FeeBooks
      <4>6. FundPaid(r) = sess[r].preConsumed
        BY <4>4, <4>5, BooksFacts DEF NetFund, FundPaid, FundFee
      <4>7. QED BY <2>6, <4>1, <4>6
    <3>5. QED BY <3>2, <3>3, <3>4
  <2>7. QED BY <2>3, <2>4, <2>5, <2>6
<1>2. QED BY <1>1, LedgersAgree, PTL

\* Once committed, the funding source is not touched again for that request.
THEOREM CommitFinal == Spec => CommittedIsFinal
<1> DEFINE Kept(r) == paid'[r].wallet = paid[r].wallet /\ paid'[r].sub = paid[r].sub
           Final == \A r \in Requests : sess[r].fundingSettled \/ sess[r].settled => Kept(r)
<1>1. IInv /\ [Next]_vars => Final
  <2> SUFFICES ASSUME IInv, [Next]_vars, NEW r \in Requests, Committed(r)
               PROVE  Kept(r)
    BY DEF Committed
  <2>1. PaidOK /\ OutcomeShape(r) BY DEF IInv, TypeOK, BooksAgree, Books
  <2>2. pc[r] \in {"settleToken", "ended", "crashed"} /\ bg[r] = "none"
    BY <2>1 DEF OutcomeShape
  <2>3. ASSUME NEW q \in Requests, OpenSession(q) PROVE Kept(r)
    BY <2>1, <2>2, <2>3
    DEF OpenSession, Arrive, Dispatch, TryWallet, TrySubscription, PreConsumeTokenCheck,
        PreConsumeTokenDecrease, PreConsumeFunding, PreConsumeRollback, Fallback, ghosts,
        ChargeToken, ChargeWallet, PaidOK
  <2>4. ASSUME NEW q \in Requests, ReserveMore(q) PROVE Kept(r)
    BY <2>1, <2>2, <2>4
    DEF ReserveMore, Reserve, ReserveFunding, ReserveTokenCheck, ReserveTokenDecrease,
        ReserveRollback, Reserved, ghosts, ChargeFunding, ChargeToken, ChargeWallet, ChargeSub, PaidOK
  <2>5. ASSUME NEW q \in Requests, Finish(q) PROVE Kept(r)
    <3>1. CASE Succeed(q) \/ Fail(q) BY <3>1 DEF Succeed, Fail, ghosts
    <3>2. CASE SettleFunding(q)
      BY <2>1, <2>2, <3>2 DEF SettleFunding, ChargeFunding, ChargeWallet, ChargeSub, PaidOK
    <3>3. CASE SettleToken(q) \/ PostConsumeToken(q)
      BY <2>1, <3>3 DEF SettleToken, PostConsumeToken, ChargeToken, ghosts, PaidOK
    <3>4. CASE PostConsumeFunding(q)
      BY <2>1, <2>2, <3>4 DEF PostConsumeFunding, ChargeFunding, ChargeWallet, ChargeSub, ghosts, PaidOK
    <3>5. QED BY <2>5, <3>1, <3>2, <3>3, <3>4 DEF Finish
  <2>6. ASSUME NEW q \in Requests, RefundGoroutine(q) PROVE Kept(r)
    BY <2>1, <2>2, <2>6
    DEF RefundGoroutine, RefundWallet, RefundSubCredit, RefundSubSave, RefundExtra, RefundToken,
        ChargeToken, ChargeWallet, ChargeSub, PaidOK
  <2>7. CASE ExpireSubscription \/ Crash BY <2>7 DEF ExpireSubscription, Crash, ghosts
  <2>8. CASE UNCHANGED vars BY <2>8 DEF vars
  <2>9. QED BY <2>3, <2>4, <2>5, <2>6, <2>7, <2>8 DEF Next
<1>2. QED BY <1>1, LedgersAgree, PTL DEF Spec, CommittedIsFinal

=============================================================================
