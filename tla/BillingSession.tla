--------------------------- MODULE BillingSession ---------------------------
(***************************************************************************)
(* The billing life of relay requests of one user: pre-consumption,        *)
(* reservation, settlement and refund (service/billing_session.go,         *)
(* service/funding_source.go, service/billing.go) driven by the relay      *)
(* handler (controller/relay.go), over three shared ledgers: the user's    *)
(* wallet (users.quota), the API token (tokens.remain_quota) and one       *)
(* subscription (user_subscriptions.amount_used).                          *)
(*                                                                         *)
(* One action is one database call of one goroutine, so every interleaving *)
(* of the calls of concurrent requests is a behaviour.  A call can fail    *)
(* without effect, and the process can crash; MaxFaults bounds how often.  *)
(* Ledger reads and writes go straight to the database: the Redis cache    *)
(* and the batch updater are off, as in the default configuration.         *)
(***************************************************************************)
EXTENDS Integers

CONSTANTS
  Requests,      \* relay requests, each with its own request id
  Profiles,      \* what a request may look like: a subset of ProfileType
  Actuals,       \* the quotas a served request may turn out to cost
  Targets,       \* the targets Reserve may be called with
  Fees,          \* violation fees of a failed request; 0 is no violation
  Wallet0,       \* users.quota at the start
  Token0,        \* tokens.remain_quota at the start
  SubTotal,      \* amount_total of the subscription; 0 is unlimited
  TrustQuota,    \* common.GetTrustQuota()
  MaxFaults      \* bound on failing calls and crashes

Prefs == {"subscription_only", "wallet_only", "wallet_first", "subscription_first"}

ProfileType ==
  [pref : Prefs, quota : Nat, free : BOOLEAN, playground : BOOLEAN,
   unlimited : BOOLEAN, force : BOOLEAN]

ASSUME ConstantsAssumption ==
  /\ Profiles \subseteq ProfileType
  /\ Actuals \subseteq Nat /\ Targets \subseteq Nat
  /\ Fees \subseteq Nat
  /\ Wallet0 \in Int /\ Token0 \in Int
  /\ SubTotal \in Nat /\ TrustQuota \in Nat /\ MaxFaults \in Nat

MaxAttempts == 3   \* maxAttempts of refundWithRetry

VARIABLES
  wallet,     \* users.quota
  token,      \* tokens.remain_quota
  subUsed,    \* user_subscriptions.amount_used
  subActive,  \* whether the subscription is active
  overflow,   \* allow_wallet_overflow of the subscription
  record,     \* subscription_pre_consume_records.status, by request
  pc,         \* where the request's own goroutine is
  req,        \* the request's profile and the token quota seen at authentication
  sess,       \* the request's BillingSession and its funding source
  due,        \* actual cost being settled, reserve target, or violation fee
  outcome,    \* how the request ended
  bg,         \* where the request's refund goroutine is
  tries,      \* attempts made by refundWithRetry
  paid,       \* what each ledger is out on behalf of the request (history)
  fee,        \* the part of paid that PostConsumeQuota took (history)
  credits,    \* how often the subscription was given the pre-consumption back (history)
  faults,     \* failing calls and crashes so far
  hit         \* requests that met one (history)

vars == <<wallet, token, subUsed, subActive, overflow, record, pc, req, sess, due, outcome,
          bg, tries, paid, fee, credits, faults, hit>>

ledgers == <<wallet, token, subUsed, record>>
plan == <<subActive, overflow>>
ghosts == <<paid, fee, credits>>
faultVars == <<faults, hit>>

NoSession ==
  [funding |-> "none", preConsumed |-> 0, tokenConsumed |-> 0, extraReserved |-> 0,
   fundConsumed |-> 0, trusted |-> FALSE, fundingSettled |-> FALSE,
   settled |-> FALSE, refunded |-> FALSE]

NewSession(f) == [NoSession EXCEPT !.funding = f]

NoProfile == [pref |-> "wallet_only", quota |-> 0, free |-> FALSE, playground |-> FALSE,
              unlimited |-> FALSE, force |-> FALSE]

Init ==
  /\ wallet = Wallet0 /\ token = Token0
  /\ subUsed = 0 /\ subActive \in BOOLEAN /\ overflow \in BOOLEAN
  /\ record = [r \in Requests |-> "none"]
  /\ pc = [r \in Requests |-> "new"]
  /\ req = [r \in Requests |-> [profile |-> NoProfile, tokenQuota |-> 0]]
  /\ sess = [r \in Requests |-> NoSession]
  /\ due = [r \in Requests |-> 0]
  /\ outcome = [r \in Requests |-> "none"]
  /\ bg = [r \in Requests |-> "none"]
  /\ tries = [r \in Requests |-> 0]
  /\ paid = [r \in Requests |-> [wallet |-> 0, sub |-> 0, token |-> 0]]
  /\ fee = [r \in Requests |-> [wallet |-> 0, sub |-> 0, token |-> 0]]
  /\ credits = [r \in Requests |-> 0]
  /\ faults = 0 /\ hit = {}

-----------------------------------------------------------------------------
(* Calls: what one database call does.  Each either takes effect, or fails
   with an error and no effect.                                            *)

Goto(r, l) == pc' = [pc EXCEPT ![r] = l]
BgGoto(r, l) == bg' = [bg EXCEPT ![r] = l]
Profile(r) == req[r].profile

NoFault == UNCHANGED faultVars

\* A call made for r returns an error.
Fault(r) ==
  /\ faults < MaxFaults
  /\ faults' = faults + 1
  /\ hit' = hit \cup {r}

\* DecreaseUserQuota (n > 0) and IncreaseUserQuota (n < 0).
ChargeWallet(r, n) ==
  /\ wallet' = wallet - n
  /\ paid' = [paid EXCEPT ![r].wallet = @ + n]
  /\ UNCHANGED <<token, subUsed, record>>

\* DecreaseTokenQuota (n > 0) and IncreaseTokenQuota (n < 0).
ChargeToken(r, n) ==
  /\ token' = token - n
  /\ paid' = [paid EXCEPT ![r].token = @ + n]
  /\ UNCHANGED <<wallet, subUsed, record>>

\* PostConsumeUserSubscriptionDelta: the used amount is clamped at zero, and
\* exceeding the total is an error.
NewUsed(n) == IF subUsed + n < 0 THEN 0 ELSE subUsed + n
DeltaFits(n) == n = 0 \/ SubTotal = 0 \/ NewUsed(n) <= SubTotal

ChargeSub(r, n) ==
  /\ DeltaFits(n)
  /\ subUsed' = NewUsed(n)
  /\ paid' = [paid EXCEPT ![r].sub = @ + n]
  /\ UNCHANGED <<wallet, token, record>>

\* The funding source's Settle(n) and reserveFunding(n).
ChargeFunding(r, f, n) ==
  \/ f = "wallet" /\ ChargeWallet(r, n)
  \/ f = "subscription" /\ ChargeSub(r, n)

\* The funding source's call fails: a database error, or a subscription that
\* cannot take the amount (the latter is no fault).
FundingFails(r, f, n) ==
  \/ Fault(r)
  \/ f = "subscription" /\ ~DeltaFits(n) /\ NoFault

-----------------------------------------------------------------------------
(* A request arrives and a session is opened: NewBillingSession, preConsume *)

\* Authentication has put token_quota in the context; the price is known; a
\* free model opens no session.
Arrive(r) ==
  /\ pc[r] = "new"
  /\ \E p \in Profiles :
       /\ req' = [req EXCEPT ![r] = [profile |-> p, tokenQuota |-> token]]
       /\ Goto(r, IF p.free THEN "serving" ELSE "dispatch")
  /\ UNCHANGED <<ledgers, plan, sess, due, outcome, bg, tries, ghosts, faultVars>>

Reject(r) == Goto(r, "ended") /\ outcome' = [outcome EXCEPT ![r] = "rejected"]

\* The switch on the billing preference; subscription_first asks the database
\* whether the user has an active subscription.
SubscriptionFirst(r) ==
  \/ Profile(r).pref = "subscription_only"
  \/ Profile(r).pref = "subscription_first" /\ subActive

Dispatch(r) ==
  /\ pc[r] = "dispatch"
  /\ \/ SubscriptionFirst(r) /\ Goto(r, "trySubscription") /\ NoFault /\ UNCHANGED outcome
     \/ ~SubscriptionFirst(r) /\ Goto(r, "tryWallet") /\ NoFault /\ UNCHANGED outcome
     \/ Profile(r).pref = "subscription_first" /\ Fault(r) /\ Reject(r)
  /\ UNCHANGED <<ledgers, plan, req, sess, due, bg, tries, ghosts>>

\* shouldTrust: only a wallet session of a request that need not pre-consume.
ShouldTrust(r, userQuota) ==
  /\ ~Profile(r).force
  /\ TrustQuota > 0
  /\ Profile(r).unlimited \/ req[r].tokenQuota > TrustQuota
  /\ userQuota > TrustQuota

WalletSuffices(r) == wallet > 0 /\ wallet >= Profile(r).quota

\* tryWallet up to its first write: GetUserQuota, the balance checks and the
\* trust decision.  A trusted request, or one with nothing to pre-consume,
\* is served at once.
TryWallet(r) ==
  /\ pc[r] = "tryWallet"
  /\ \/ /\ WalletSuffices(r) /\ ShouldTrust(r, wallet)
        /\ sess' = [sess EXCEPT ![r] = [NewSession("wallet") EXCEPT !.trusted = TRUE]]
        /\ Goto(r, "serving") /\ NoFault /\ UNCHANGED outcome
     \/ /\ WalletSuffices(r) /\ ~ShouldTrust(r, wallet)
        /\ sess' = [sess EXCEPT ![r] = NewSession("wallet")]
        /\ Goto(r, IF Profile(r).quota = 0 THEN "serving" ELSE "preToken") /\ NoFault /\ UNCHANGED outcome
     \/ /\ ~WalletSuffices(r) /\ Profile(r).pref = "wallet_first"
        /\ Goto(r, "trySubscription") /\ NoFault /\ UNCHANGED <<sess, outcome>>
     \/ /\ ~WalletSuffices(r) /\ Profile(r).pref # "wallet_first"
        /\ Reject(r) /\ NoFault /\ UNCHANGED sess
     \/ Fault(r) /\ Reject(r) /\ UNCHANGED sess
  /\ UNCHANGED <<ledgers, plan, req, due, bg, tries, ghosts>>

TrySubscription(r) ==
  /\ pc[r] = "trySubscription"
  /\ sess' = [sess EXCEPT ![r] = NewSession("subscription")]
  /\ Goto(r, "preToken")
  /\ UNCHANGED <<ledgers, plan, req, due, outcome, bg, tries, ghosts, faultVars>>

\* The amount the session pre-consumes: a subscription takes at least 1.
Effective(r) ==
  IF sess[r].funding = "subscription" /\ Profile(r).quota = 0
  THEN 1 ELSE Profile(r).quota

\* PreConsumeTokenQuota, the check: the token is read, and may be changed by
\* others before it is decreased.  The playground has no token.
TokenAllows(r, n) == Profile(r).unlimited \/ token >= n

PreConsumeTokenCheck(r) ==
  /\ pc[r] = "preToken"
  /\ \/ /\ Profile(r).playground
        /\ sess' = [sess EXCEPT ![r].tokenConsumed = Effective(r)]
        /\ Goto(r, "preFund") /\ NoFault /\ UNCHANGED outcome
     \/ /\ ~Profile(r).playground /\ TokenAllows(r, Effective(r))
        /\ Goto(r, "decToken") /\ NoFault /\ UNCHANGED <<sess, outcome>>
     \/ /\ ~Profile(r).playground
        /\ \/ ~TokenAllows(r, Effective(r)) /\ NoFault
           \/ Fault(r)
        /\ Reject(r) /\ UNCHANGED sess
  /\ UNCHANGED <<ledgers, plan, req, due, bg, tries, ghosts>>

PreConsumeTokenDecrease(r) ==
  /\ pc[r] = "decToken"
  /\ \/ /\ ChargeToken(r, Effective(r))
        /\ sess' = [sess EXCEPT ![r].tokenConsumed = Effective(r)]
        /\ Goto(r, "preFund") /\ NoFault /\ UNCHANGED outcome
     \/ Fault(r) /\ Reject(r) /\ UNCHANGED <<ledgers, paid, sess>>
  /\ UNCHANGED <<plan, req, due, bg, tries, fee, credits>>

\* After funding.PreConsume fails: the token is given back first, if it was
\* decreased, then the error decides about the fallback.
AfterFundingError(r, next, rollback) ==
  \/ Profile(r).playground /\ Goto(r, next)
  \/ ~Profile(r).playground /\ Goto(r, rollback)

\* funding.PreConsume.  For a subscription it is one transaction that finds an
\* active subscription with enough left, inserts the record of the request
\* and raises the used amount.
FundingFits(r, n) ==
  \/ sess[r].funding = "wallet"
  \/ subActive /\ (SubTotal = 0 \/ SubTotal - subUsed >= n)

PreConsumeFunding(r) ==
  /\ pc[r] = "preFund"
  /\ LET n == Effective(r) IN
     \/ /\ FundingFits(r, n)
        /\ \/ sess[r].funding = "wallet" /\ ChargeWallet(r, n)
           \/ /\ sess[r].funding = "subscription"
              /\ subUsed' = subUsed + n
              /\ record' = [record EXCEPT ![r] = "consumed"]
              /\ paid' = [paid EXCEPT ![r].sub = @ + n]
              /\ UNCHANGED <<wallet, token>>
        /\ sess' = [sess EXCEPT ![r] = [@ EXCEPT !.fundConsumed = n, !.preConsumed = n]]
        /\ Goto(r, "serving") /\ NoFault
     \/ /\ \/ ~FundingFits(r, n) /\ AfterFundingError(r, "fallback", "rollbackInsufficient") /\ NoFault
           \/ Fault(r) /\ AfterFundingError(r, "reject", "rollbackError")
        /\ UNCHANGED <<ledgers, paid, sess>>
  /\ UNCHANGED <<plan, req, due, outcome, bg, tries, fee, credits>>

\* Mutant of PreConsumeRollback: the token is not given back.
PreConsumeRollbackForgotten(r) ==
  /\ pc[r] \in {"rollbackInsufficient", "rollbackError"}
  /\ sess' = [sess EXCEPT ![r].tokenConsumed = 0]
  /\ Goto(r, IF pc[r] = "rollbackInsufficient" THEN "fallback" ELSE "reject")
  /\ UNCHANGED <<ledgers, plan, req, due, outcome, bg, tries, ghosts, faultVars>>

\* The token rollback of preConsume; its own failure is only logged.
PreConsumeRollback(r) ==
  /\ pc[r] \in {"rollbackInsufficient", "rollbackError"}
  /\ \/ ChargeToken(r, -sess[r].tokenConsumed) /\ NoFault
     \/ Fault(r) /\ UNCHANGED <<ledgers, paid>>
  /\ sess' = [sess EXCEPT ![r].tokenConsumed = 0]
  /\ Goto(r, IF pc[r] = "rollbackInsufficient" THEN "fallback" ELSE "reject")
  /\ UNCHANGED <<plan, req, due, outcome, bg, tries, fee, credits>>

\* The subscription could not pay: only subscription_first may fall back to
\* the wallet, and only if no active subscription forbids the overflow.
AsksOverflow(r) == pc[r] = "fallback" /\ Profile(r).pref = "subscription_first"

Fallback(r) ==
  /\ pc[r] \in {"fallback", "reject"}
  /\ \/ /\ AsksOverflow(r) /\ (overflow \/ ~subActive)
        /\ Goto(r, "tryWallet") /\ NoFault /\ UNCHANGED outcome
     \/ /\ \/ ~AsksOverflow(r) /\ NoFault
           \/ ~overflow /\ subActive /\ NoFault
           \/ AsksOverflow(r) /\ Fault(r)
        /\ Reject(r)
  /\ sess' = [sess EXCEPT ![r] = NoSession]
  /\ UNCHANGED <<ledgers, plan, req, due, bg, tries, ghosts>>

-----------------------------------------------------------------------------
(* While the request is served                                             *)

Serving(r) == pc[r] = "serving" /\ outcome[r] = "none"

\* Reserve: raise the pre-consumed quota to a target.
Reserve(r) ==
  /\ Serving(r) /\ sess[r].funding # "none" /\ ~sess[r].trusted
  /\ \E t \in Targets :
       /\ t > sess[r].preConsumed
       /\ due' = [due EXCEPT ![r] = t - sess[r].preConsumed]
  /\ Goto(r, "reserveFunding")
  /\ UNCHANGED <<ledgers, plan, req, sess, outcome, bg, tries, ghosts, faultVars>>

ReserveFunding(r) ==
  /\ pc[r] = "reserveFunding"
  /\ LET f == sess[r].funding IN
     \/ /\ ChargeFunding(r, f, due[r]) /\ NoFault
        /\ sess' = IF f = "wallet" THEN [sess EXCEPT ![r].fundConsumed = @ + due[r]]
                                   ELSE sess
        /\ Goto(r, IF Profile(r).playground THEN "reserved" ELSE "reserveToken")
     \/ /\ FundingFails(r, f, due[r])
        /\ Goto(r, "serving") /\ UNCHANGED <<ledgers, paid, sess>>
  /\ UNCHANGED <<plan, req, due, outcome, bg, tries, fee, credits>>

\* reserveToken: the check and the decrease of PreConsumeTokenQuota.
ReserveTokenCheck(r) ==
  /\ pc[r] = "reserveToken"
  /\ \/ TokenAllows(r, due[r]) /\ NoFault /\ Goto(r, "reserveDecToken")
     \/ ~TokenAllows(r, due[r]) /\ NoFault /\ Goto(r, "reserveRollback")
     \/ Fault(r) /\ Goto(r, "reserveRollback")
  /\ UNCHANGED <<ledgers, plan, req, sess, due, outcome, bg, tries, ghosts>>

ReserveTokenDecrease(r) ==
  /\ pc[r] = "reserveDecToken"
  /\ \/ ChargeToken(r, due[r]) /\ NoFault /\ Goto(r, "reserved")
     \/ Fault(r) /\ Goto(r, "reserveRollback") /\ UNCHANGED <<ledgers, paid>>
  /\ UNCHANGED <<plan, req, sess, due, outcome, bg, tries, fee, credits>>

\* Mutant of ReserveRollback: the session still counts what the wallet got back.
ReserveRollbackKeepsCount(r) ==
  /\ pc[r] = "reserveRollback"
  /\ \/ ChargeFunding(r, sess[r].funding, -due[r]) /\ NoFault
     \/ Fault(r) /\ UNCHANGED <<ledgers, paid>>
  /\ Goto(r, "serving")
  /\ UNCHANGED <<plan, req, sess, due, outcome, bg, tries, fee, credits>>

\* rollbackFundingReserve: what the wallet gave back is no longer consumed;
\* a failure is only logged.
ReserveRollback(r) ==
  /\ pc[r] = "reserveRollback"
  /\ LET f == sess[r].funding IN
     \/ /\ ChargeFunding(r, f, -due[r]) /\ NoFault
        /\ sess' = IF f = "wallet" THEN [sess EXCEPT ![r].fundConsumed = @ - due[r]]
                                   ELSE sess
     \/ Fault(r) /\ UNCHANGED <<ledgers, paid, sess>>
  /\ Goto(r, "serving")
  /\ UNCHANGED <<plan, req, due, outcome, bg, tries, fee, credits>>

Grown(s, n) ==
  [s EXCEPT !.preConsumed = @ + n, !.tokenConsumed = @ + n, !.extraReserved = @ + n]

Reserved(r) ==
  /\ pc[r] = "reserved"
  /\ sess' = [sess EXCEPT ![r] = Grown(sess[r], due[r])]
  /\ Goto(r, "serving")
  /\ UNCHANGED <<ledgers, plan, req, due, outcome, bg, tries, ghosts, faultVars>>

-----------------------------------------------------------------------------
(* The request succeeds: SettleBilling                                     *)

\* The upstream answered and the cost is known.  Without a session (a free
\* model whose price was recomputed on a retry) the old PostConsumeQuota
\* path charges the difference to nothing pre-consumed.
Succeed(r) ==
  /\ Serving(r)
  /\ \E a \in Actuals :
       /\ due' = [due EXCEPT ![r] = a]
       /\ Goto(r, IF sess[r].funding # "none" THEN "settle"
                  ELSE IF a = 0 THEN "ended" ELSE "postFunding")
  /\ outcome' = [outcome EXCEPT ![r] = "ok"]
  /\ UNCHANGED <<ledgers, plan, req, sess, bg, tries, ghosts, faultVars>>

\* Settle, the funding source.  If it fails Settle returns, and no caller does
\* more than log the error.
SettleFunding(r) ==
  /\ pc[r] = "settle"
  /\ LET delta == due[r] - sess[r].preConsumed
         f == sess[r].funding
     IN
     \/ /\ delta = 0
        /\ sess' = [sess EXCEPT ![r].settled = TRUE]
        /\ Goto(r, "ended") /\ NoFault /\ UNCHANGED <<ledgers, paid>>
     \/ /\ delta # 0
        /\ ChargeFunding(r, f, delta) /\ NoFault
        /\ sess' = [sess EXCEPT ![r].fundingSettled = TRUE]
        /\ Goto(r, "settleToken")
     \/ /\ delta # 0
        /\ FundingFails(r, f, delta)
        /\ Goto(r, "ended") /\ UNCHANGED <<ledgers, paid, sess>>
  /\ UNCHANGED <<plan, req, due, outcome, bg, tries, fee, credits>>

\* Mutant of SettleToken: the error of the token is treated as a failed request.
SettleTokenRefunds(r) ==
  /\ pc[r] = "settleToken"
  /\ \/ ChargeToken(r, due[r] - sess[r].preConsumed) /\ NoFault /\ UNCHANGED bg
     \/ Fault(r) /\ BgGoto(r, "refundFunding") /\ UNCHANGED <<ledgers, paid>>
  /\ sess' = [sess EXCEPT ![r].settled = TRUE]
  /\ Goto(r, "ended")
  /\ UNCHANGED <<plan, req, due, outcome, tries, fee, credits>>

\* Settle, the token.  A failure is logged and the session is settled anyway.
SettleToken(r) ==
  /\ pc[r] = "settleToken"
  /\ \/ Profile(r).playground /\ NoFault /\ UNCHANGED <<ledgers, paid>>
     \/ ~Profile(r).playground /\ ChargeToken(r, due[r] - sess[r].preConsumed) /\ NoFault
     \/ ~Profile(r).playground /\ Fault(r) /\ UNCHANGED <<ledgers, paid>>
  /\ sess' = [sess EXCEPT ![r].settled = TRUE]
  /\ Goto(r, "ended")
  /\ UNCHANGED <<plan, req, due, outcome, bg, tries, fee, credits>>

-----------------------------------------------------------------------------
(* The request fails: the deferred function of Relay                       *)

\* Mutant of NeedsRefund: only a subscription is looked at.
NeedsRefundOfSubscription(s) ==
  /\ ~s.settled /\ ~s.refunded /\ ~s.fundingSettled
  /\ s.funding = "subscription" /\ s.fundConsumed > 0

NeedsRefund(s) ==
  /\ ~s.settled /\ ~s.refunded /\ ~s.fundingSettled
  /\ s.tokenConsumed > 0 \/ (s.funding = "subscription" /\ s.fundConsumed > 0)

\* Refund marks the session and starts a goroutine; the handler goes on with
\* the violation fee without waiting for it.
Fail(r) ==
  /\ Serving(r)
  /\ \E v \in Fees :
       /\ due' = [due EXCEPT ![r] = v]
       /\ Goto(r, IF v = 0 THEN "ended" ELSE "postFunding")
  /\ outcome' = [outcome EXCEPT ![r] = "error"]
  /\ \/ /\ NeedsRefund(sess[r])
        /\ sess' = [sess EXCEPT ![r].refunded = TRUE]
        /\ BgGoto(r, "refundFunding")
     \/ /\ ~NeedsRefund(sess[r])
        /\ UNCHANGED <<sess, bg>>
  /\ UNCHANGED <<ledgers, plan, req, tries, ghosts, faultVars>>

\* PostConsumeQuota, for a violation fee and for settling without a session:
\* the funding source and then the token; an error ends it.
PostConsumeFunding(r) ==
  /\ pc[r] = "postFunding"
  /\ LET f == IF sess[r].funding = "subscription" THEN "subscription" ELSE "wallet" IN
     \/ /\ ChargeFunding(r, f, due[r]) /\ NoFault
        /\ fee' = IF f = "wallet" THEN [fee EXCEPT ![r].wallet = @ + due[r]]
                                  ELSE [fee EXCEPT ![r].sub = @ + due[r]]
        /\ Goto(r, IF Profile(r).playground THEN "ended" ELSE "postToken")
     \/ /\ FundingFails(r, f, due[r])
        /\ Goto(r, "ended") /\ UNCHANGED <<ledgers, paid, fee>>
  /\ UNCHANGED <<plan, req, sess, due, outcome, bg, tries, credits>>

PostConsumeToken(r) ==
  /\ pc[r] = "postToken"
  /\ \/ ChargeToken(r, due[r]) /\ NoFault /\ fee' = [fee EXCEPT ![r].token = @ + due[r]]
     \/ Fault(r) /\ UNCHANGED <<ledgers, paid, fee>>
  /\ Goto(r, "ended")
  /\ UNCHANGED <<plan, req, sess, due, outcome, bg, tries, credits>>

-----------------------------------------------------------------------------
(* The refund goroutine                                                    *)

bgRest == <<plan, pc, req, sess, due, outcome, fee>>

\* WalletFunding.Refund: one attempt, since adding to the quota is not
\* idempotent.
RefundWallet(r) ==
  /\ bg[r] = "refundFunding" /\ sess[r].funding = "wallet"
  /\ \/ ChargeWallet(r, -sess[r].fundConsumed) /\ NoFault
     \/ Fault(r) /\ UNCHANGED <<ledgers, paid>>
  /\ BgGoto(r, "refundExtra")
  /\ UNCHANGED <<bgRest, tries, credits>>

\* An attempt of refundWithRetry failed.
RetryRefund(r) ==
  /\ tries' = [tries EXCEPT ![r] = @ + 1]
  /\ BgGoto(r, IF tries[r] + 1 < MaxAttempts THEN "refundFunding" ELSE "refundExtra")

\* RefundSubscriptionPreConsume up to the call of PostConsumeUserSubscriptionDelta,
\* which runs, and commits, in a transaction of its own.
RefundSubCredit(r) ==
  /\ bg[r] = "refundFunding" /\ sess[r].funding = "subscription"
  /\ \/ /\ record[r] = "refunded"
        /\ BgGoto(r, "refundExtra") /\ NoFault /\ UNCHANGED <<ledgers, paid, credits, tries>>
     \/ /\ record[r] # "refunded"
        /\ ChargeSub(r, -sess[r].fundConsumed)
        /\ credits' = [credits EXCEPT ![r] = @ + 1]
        /\ BgGoto(r, "refundSave") /\ NoFault /\ UNCHANGED tries
     \/ Fault(r) /\ RetryRefund(r) /\ UNCHANGED <<ledgers, paid, credits>>
  /\ UNCHANGED bgRest

\* ... and the rest of it: the record becomes refunded and the outer
\* transaction commits, or fails and is tried again, credit included.
RefundSubSave(r) ==
  /\ bg[r] = "refundSave"
  /\ \/ /\ record' = [record EXCEPT ![r] = "refunded"]
        /\ BgGoto(r, "refundExtra") /\ NoFault
        /\ UNCHANGED <<wallet, token, subUsed, tries>>
     \/ Fault(r) /\ RetryRefund(r) /\ UNCHANGED ledgers
  /\ UNCHANGED <<bgRest, paid, credits>>

\* What Reserve added to a subscription has no record and goes back by itself.
RefundExtra(r) ==
  /\ bg[r] = "refundExtra"
  /\ LET owed == sess[r].funding = "subscription" /\ sess[r].extraReserved > 0 IN
     \/ owed /\ ChargeSub(r, -sess[r].extraReserved) /\ NoFault
     \/ owed /\ Fault(r) /\ UNCHANGED <<ledgers, paid>>
     \/ ~owed /\ NoFault /\ UNCHANGED <<ledgers, paid>>
  /\ BgGoto(r, "refundToken")
  /\ UNCHANGED <<bgRest, tries, credits>>

\* Mutant of RefundToken: the playground check is dropped.
RefundTokenOfPlayground(r) ==
  /\ bg[r] = "refundToken"
  /\ ChargeToken(r, -sess[r].tokenConsumed) /\ NoFault
  /\ BgGoto(r, "done")
  /\ UNCHANGED <<bgRest, tries, credits>>

RefundToken(r) ==
  /\ bg[r] = "refundToken"
  /\ LET owed == sess[r].tokenConsumed > 0 /\ ~Profile(r).playground IN
     \/ owed /\ ChargeToken(r, -sess[r].tokenConsumed) /\ NoFault
     \/ owed /\ Fault(r) /\ UNCHANGED <<ledgers, paid>>
     \/ ~owed /\ NoFault /\ UNCHANGED <<ledgers, paid>>
  /\ BgGoto(r, "done")
  /\ UNCHANGED <<bgRest, tries, credits>>

-----------------------------------------------------------------------------
(* The environment                                                         *)

\* The subscription runs out or is cancelled.
ExpireSubscription ==
  /\ subActive /\ subActive' = FALSE
  /\ UNCHANGED <<ledgers, overflow, pc, req, sess, due, outcome, bg, tries, ghosts, faultVars>>

Live(r) == pc[r] \notin {"new", "ended", "crashed"} \/ bg[r] \notin {"none", "done", "lost"}

\* The process dies: sessions live in memory only, so every live request and
\* every refund goroutine is lost where it stands.
Crash ==
  /\ faults < MaxFaults /\ faults' = faults + 1
  /\ \E r \in Requests : Live(r)
  /\ hit' = hit \cup {r \in Requests : Live(r)}
  /\ pc' = [r \in Requests |-> IF pc[r] \in {"new", "ended"} THEN pc[r] ELSE "crashed"]
  /\ bg' = [r \in Requests |-> IF bg[r] \in {"none", "done"} THEN bg[r] ELSE "lost"]
  /\ UNCHANGED <<ledgers, plan, req, sess, due, outcome, tries, ghosts>>

OpenSession(r) ==
  \/ Arrive(r) \/ Dispatch(r) \/ TryWallet(r) \/ TrySubscription(r)
  \/ PreConsumeTokenCheck(r) \/ PreConsumeTokenDecrease(r) \/ PreConsumeFunding(r)
  \/ PreConsumeRollback(r) \/ Fallback(r)

ReserveMore(r) ==
  \/ Reserve(r) \/ ReserveFunding(r) \/ ReserveTokenCheck(r) \/ ReserveTokenDecrease(r)
  \/ ReserveRollback(r) \/ Reserved(r)

Finish(r) ==
  \/ Succeed(r) \/ SettleFunding(r) \/ SettleToken(r)
  \/ Fail(r) \/ PostConsumeFunding(r) \/ PostConsumeToken(r)

RefundGoroutine(r) ==
  \/ RefundWallet(r) \/ RefundSubCredit(r) \/ RefundSubSave(r) \/ RefundExtra(r)
  \/ RefundToken(r)

Next ==
  \/ \E r \in Requests : OpenSession(r) \/ ReserveMore(r) \/ Finish(r) \/ RefundGoroutine(r)
  \/ ExpireSubscription
  \/ Crash

Spec == Init /\ [][Next]_vars

\* A goroutine that was started is scheduled until it ends.  Nothing is assumed
\* of clients, of the upstream, or of calls that fail.
FairSpec == Spec /\ \A r \in Requests : WF_vars(RefundGoroutine(r))
                                     /\ WF_vars(PostConsumeFunding(r) \/ PostConsumeToken(r))

-----------------------------------------------------------------------------
(* Properties                                                              *)

Labels ==
  {"new", "dispatch", "tryWallet", "trySubscription", "preToken", "decToken", "preFund",
   "rollbackInsufficient", "rollbackError", "fallback", "reject", "serving",
   "reserveFunding", "reserveToken", "reserveDecToken", "reserveRollback", "reserved",
   "settle", "settleToken", "postFunding", "postToken", "ended", "crashed"}

BgLabels == {"none", "refundFunding", "refundSave", "refundExtra", "refundToken", "done", "lost"}

SessionType ==
  [funding : {"none", "wallet", "subscription"}, preConsumed : Nat, tokenConsumed : Nat,
   extraReserved : Nat, fundConsumed : Nat, trusted : BOOLEAN, fundingSettled : BOOLEAN,
   settled : BOOLEAN, refunded : BOOLEAN]

LedgersOK ==
  /\ wallet \in Int /\ token \in Int /\ subUsed \in Nat
  /\ subActive \in BOOLEAN /\ overflow \in BOOLEAN
  /\ record \in [Requests -> {"none", "consumed", "refunded"}]

PcOK == /\ pc \in [Requests -> Labels] /\ bg \in [Requests -> BgLabels]
        /\ tries \in [Requests -> 0 .. MaxAttempts]
ReqOK == req \in [Requests -> [profile : ProfileType, tokenQuota : Int]] /\ due \in [Requests -> Nat]
OutcomeOK == outcome \in [Requests -> {"none", "ok", "error", "rejected"}]
SessOK == sess \in [Requests -> SessionType]
PaidOK ==
  /\ paid \in [Requests -> [wallet : Int, sub : Int, token : Int]]
  /\ fee \in [Requests -> [wallet : Nat, sub : Nat, token : Nat]]
  /\ credits \in [Requests -> 0 .. MaxAttempts]
FaultsOK == faults \in Nat /\ hit \in SUBSET Requests

\* The type of every variable.
TypeOK == LedgersOK /\ PcOK /\ ReqOK /\ OutcomeOK /\ SessOK /\ PaidOK /\ FaultsOK

\* What the subscription gave back beyond the first refund of the pre-consumption.
Repeated(r) ==
  CASE credits[r] = 2 -> sess[r].fundConsumed
    [] credits[r] = 3 -> 2 * sess[r].fundConsumed
    [] OTHER -> 0

\* Whatever calls fail and wherever the process crashes, wallet and token never give a
\* request back more than they took for it, and a subscription does so only by
\* repeating the credit of a pre-consumption whose record was not saved, at most twice:
\* no other refund, rollback or negative settlement is applied again.  (The code calls
\* the refund idempotent, model/subscription.go:1247; after such a failing save it is not.)
NeverOverRefunded ==
  \A r \in Requests :
    /\ paid[r].wallet >= 0 /\ paid[r].token >= 0
    /\ paid[r].sub + Repeated(r) >= 0
    /\ credits[r] > 1 => r \in hit /\ credits[r] <= MaxAttempts

\* Falling back from one funding source to the other never leaves a request
\* charged to both: the first source is clean before the second is tried.
SingleSource ==
  \A r \in Requests : paid[r].wallet = 0 \/ paid[r].sub = 0

FundPaid(r) == paid[r].wallet + paid[r].sub
FundFee(r) == fee[r].wallet + fee[r].sub

\* A session Settle has completed is paid in full by its funding source, no
\* matter which calls failed on the way (a failed rollback of Reserve can only
\* make it pay more).
SettledIsPaid ==
  \A r \in Requests : sess[r].settled => FundPaid(r) >= due[r]

Ended(r) == pc[r] = "ended" /\ bg[r] \in {"none", "done"}

\* funding.Settle(delta) was refused because the subscription would exceed its
\* total: the code logs the error and keeps what was pre-consumed.
SettleRefused(r) ==
  sess[r].funding = "subscription" /\ ~sess[r].settled /\ due[r] > sess[r].preConsumed

\* A request none of whose calls failed is charged exactly: its cost, on the
\* funding source and on the token, if it succeeded; nothing but the violation
\* fee if it failed; nothing if it was rejected.
ExactCharge ==
  \A r \in Requests : Ended(r) /\ r \notin hit =>
    LET tokenDue == IF Profile(r).playground THEN 0 ELSE due[r] IN
    CASE outcome[r] = "rejected" -> FundPaid(r) = 0 /\ paid[r].token = 0
      [] outcome[r] = "error" -> FundPaid(r) = FundFee(r) /\ paid[r].token = fee[r].token
      [] outcome[r] = "ok" ->
           \/ FundPaid(r) = due[r] /\ paid[r].token = tokenDue
           \/ SettleRefused(r) /\ FundPaid(r) = sess[r].preConsumed

\* The subscription never exceeds its total, however concurrent requests
\* pre-consume, reserve, settle and refund.
SubWithinTotal == SubTotal > 0 => subUsed <= SubTotal

\* Once the funding source of a session is committed (fundingSettled, settled)
\* it is never touched again for that request: no refund follows a settlement.
CommittedIsFinal ==
  [][\A r \in Requests : sess[r].fundingSettled \/ sess[r].settled
       => paid'[r].wallet = paid[r].wallet /\ paid'[r].sub = paid[r].sub]_vars

\* A failed request is eventually made whole: it pays nothing but its violation
\* fee, unless a call failed or the process crashed.
EventuallyMadeWhole ==
  \A r \in Requests :
    outcome[r] = "error" ~> \/ r \in hit
                            \/ FundPaid(r) = FundFee(r) /\ paid[r].token = fee[r].token

-----------------------------------------------------------------------------
(* The inductive invariant: what each ledger is out for a request, apart   *)
(* from PostConsumeQuota, agrees with the fields of its session.  A failed *)
(* call can only leave the ledger out more than the session knows.         *)

NetFund(r) == FundPaid(r) - FundFee(r) + Repeated(r)
NetToken(r) == paid[r].token - fee[r].token

\* x is exactly y, unless a call made for r failed: then x may exceed it.
Covers(r, x, y) == x >= y /\ (r \notin hit => x = y)

\* Before the funding source has paid, and while a reservation is half done.
Opening == {"new", "dispatch", "tryWallet", "trySubscription", "preToken", "decToken",
            "preFund", "rollbackInsufficient", "rollbackError", "fallback", "reject"}
Reserving == {"reserveToken", "reserveDecToken", "reserveRollback", "reserved"}

Committed(r) == sess[r].fundingSettled \/ sess[r].settled

TokenDue(r) == IF Profile(r).playground THEN 0 ELSE due[r]

\* What the session thinks the token and the funding source are out.
TokenHold(r) ==
  IF Profile(r).playground THEN 0
  ELSE sess[r].tokenConsumed + (IF pc[r] = "reserved" THEN due[r] ELSE 0)

InReserve(r) == IF pc[r] \in Reserving THEN due[r] ELSE 0

FundHold(r) ==
  sess[r].fundConsumed +
    (IF sess[r].funding = "subscription" THEN sess[r].extraReserved + InReserve(r) ELSE 0)

\* Each request is charged to the source of its session, or to the wallet.
SourceBooks(r) ==
  IF sess[r].funding = "subscription"
  THEN paid[r].wallet = 0 /\ fee[r].wallet = 0
  ELSE paid[r].sub = 0 /\ fee[r].sub = 0

\* Where the goroutines may be, given the fields of the session.
SessionShape(r) ==
  LET s == sess[r] IN
  /\ pc[r] \in {"new", "dispatch", "tryWallet", "trySubscription"} => s = NoSession
  /\ pc[r] \in {"preToken", "decToken", "preFund", "rollbackInsufficient", "rollbackError",
                "reserveFunding", "settle", "settleToken"} \cup Reserving => s.funding # "none"
  /\ pc[r] \in Opening \/ outcome[r] = "rejected" =>
       /\ s.preConsumed = 0 /\ s.fundConsumed = 0 /\ s.extraReserved = 0
       /\ paid[r].wallet = 0 /\ paid[r].sub = 0
       /\ ~Committed(r) /\ ~s.refunded /\ bg[r] = "none"
  /\ pc[r] \in {"preToken", "decToken", "fallback", "reject"} \/ outcome[r] = "rejected" =>
       s.tokenConsumed = 0 \/ Profile(r).playground
  /\ pc[r] = "preFund" => s.tokenConsumed = Effective(r)
  /\ pc[r] \in {"decToken", "rollbackInsufficient", "rollbackError", "reserveToken",
                "reserveDecToken", "reserveRollback"} => ~Profile(r).playground
  /\ pc[r] \notin Opening \cup {"crashed"} /\ outcome[r] # "rejected" =>
       s.tokenConsumed = s.preConsumed
  /\ s.funding = "subscription" => s.preConsumed = s.fundConsumed + s.extraReserved
  /\ s.funding = "wallet" => Covers(r, s.fundConsumed, s.preConsumed + InReserve(r))
  /\ s.funding = "none" => s = NoSession

\* Where the goroutines may be, given how the request ended.
OutcomeShape(r) ==
  LET s == sess[r] IN
  /\ pc[r] \in Opening \cup Reserving \cup {"serving", "reserveFunding"} => outcome[r] = "none"
  /\ pc[r] \in {"settle", "settleToken"} => outcome[r] = "ok"
  /\ pc[r] = "ended" => outcome[r] # "none"
  /\ pc[r] \in {"postFunding", "postToken"} =>
       outcome[r] = "error" \/ (outcome[r] = "ok" /\ s.funding = "none")
  /\ pc[r] = "crashed" \/ bg[r] = "lost" => r \in hit
  /\ bg[r] # "none" => s.refunded
  /\ s.refunded => /\ outcome[r] = "error" /\ s.funding # "none" /\ bg[r] # "none"
                   /\ pc[r] \in {"postFunding", "postToken", "ended", "crashed"}
  /\ bg[r] = "refundSave" => s.funding = "subscription"
  /\ bg[r] = "none" => tries[r] = 0 /\ credits[r] = 0
  /\ credits[r] > 0 => s.funding = "subscription"
  /\ credits[r] > 1 => r \in hit
  /\ bg[r] = "refundFunding" => credits[r] <= tries[r] /\ tries[r] < MaxAttempts
  /\ bg[r] = "refundFunding" /\ r \notin hit => credits[r] = 0
  /\ bg[r] = "refundSave" => credits[r] \in 1 .. tries[r] + 1 /\ tries[r] < MaxAttempts
  /\ record[r] = "refunded" => bg[r] \in {"refundExtra", "refundToken", "done", "lost"}
  /\ outcome[r] = "error" /\ bg[r] = "none" => s.preConsumed = 0
  /\ Committed(r) => outcome[r] = "ok" /\ pc[r] \in {"settleToken", "ended", "crashed"}
  /\ pc[r] = "settleToken" => s.fundingSettled /\ ~s.settled
  /\ s.settled => pc[r] \in {"ended", "crashed"}
  /\ pc[r] = "ended" /\ outcome[r] = "ok" /\ s.funding # "none" /\ r \notin hit
       => s.settled \/ (SettleRefused(r) /\ ~s.fundingSettled)

\* PostConsumeQuota runs at most once, after the outcome is known.
FeeBooks(r) ==
  /\ outcome[r] \in {"none", "rejected"} \/ pc[r] = "postFunding" =>
       fee[r].wallet = 0 /\ fee[r].sub = 0 /\ fee[r].token = 0
  /\ outcome[r] = "ok" /\ sess[r].funding # "none" =>
       fee[r].wallet = 0 /\ fee[r].sub = 0 /\ fee[r].token = 0
  /\ pc[r] = "postToken" => ~Profile(r).playground /\ fee[r].token = 0
  /\ outcome[r] = "ok" /\ sess[r].funding = "none" /\ r \notin hit =>
       /\ pc[r] \in {"postToken", "ended"} => fee[r].wallet = due[r]
       /\ pc[r] = "ended" => fee[r].token = TokenDue(r)

\* What the token is out.
TokenBooks(r) ==
  IF sess[r].settled
  THEN NetToken(r) >= 0 /\ (r \notin hit => NetToken(r) = TokenDue(r))
  ELSE Covers(r, NetToken(r), IF bg[r] \in {"done", "lost"} THEN 0 ELSE TokenHold(r))

\* What the funding source is out.
FundBooks(r) ==
  Covers(r, NetFund(r),
    IF Committed(r) THEN due[r]
    ELSE IF bg[r] \in {"none", "refundFunding"} /\ credits[r] = 0 THEN FundHold(r)
    ELSE IF bg[r] \in {"refundFunding", "refundSave", "refundExtra"} /\ sess[r].funding = "subscription"
         THEN sess[r].extraReserved
    ELSE 0)

Books(r) ==
  SourceBooks(r) /\ SessionShape(r) /\ OutcomeShape(r) /\ FeeBooks(r) /\ TokenBooks(r) /\ FundBooks(r)

\* The ledgers agree with the sessions of all requests.
BooksAgree == \A r \in Requests : Books(r)

IInv == TypeOK /\ SubWithinTotal /\ BooksAgree
=============================================================================
