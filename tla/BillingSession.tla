--------------------------- MODULE BillingSession ---------------------------
(***************************************************************************)
(* The billing life cycle of relay requests (service/billing_session.go,   *)
(* service/funding_source.go, service/billing.go, service/quota.go,        *)
(* service/violation_fee.go) as driven by controller/relay.go: a session   *)
(* pre-consumes the token and then a funding source, and ends in exactly   *)
(* one of Settle and Refund; Refund runs in its own goroutine.             *)
(*                                                                         *)
(* All requests belong to one user and one token, so that they compete for *)
(* the same wallet, token quota and subscription.  Every call that reaches *)
(* the store is a step of its own: the code holds no lock across them.     *)
(* A store call named in Faults may return an error, with no effect.       *)
(***************************************************************************)
EXTENDS Integers, FiniteSets, Sums

CONSTANTS
    Requests,       \* relay requests of the user
    Pref,           \* [Requests -> Preferences]: UserSetting.BillingPreference
    Kind,           \* [Requests -> Kinds]: what the request is for
    Playground,     \* requests with relayInfo.IsPlayground
    Unlimited,      \* TRUE when the token has unlimited quota
    TrustQuota,     \* common.GetTrustQuota()
    Estimates,      \* values of priceData.QuotaToPreConsume
    Actuals,        \* values of the metered quota
    Fee,            \* calcViolationFeeQuota(...), 0 when disabled
    InitWallet, InitToken,
    SubTotal,       \* UserSubscription.AmountTotal, 0 = unlimited
    Faults          \* store calls that may fail

Preferences == {"subscription_only", "wallet_only", "wallet_first",
                "subscription_first"}

\* "relay": text, image, audio, ... (controller.Relay);
\* "task": an asynchronous task (controller.RelayTask), ForcePreConsume.
Kinds == {"relay", "task"}

\* "subSave": the outer transaction of RefundSubscriptionPreConsume fails
\* after the nested transaction that moves the quota has committed.
FaultKinds == {"wallet", "token", "sub", "subSave"}

ASSUME ConstantsAssumption ==
    /\ IsFiniteSet(Requests)
    /\ Pref \in [Requests -> Preferences]
    /\ Kind \in [Requests -> Kinds]
    /\ Playground \subseteq Requests
    /\ Unlimited \in BOOLEAN
    /\ TrustQuota \in Int
    /\ Estimates \subseteq Nat
    /\ Actuals \subseteq Nat
    /\ Fee \in Nat
    /\ InitWallet \in Int /\ InitToken \in Int
    /\ SubTotal \in Nat
    /\ Faults \subseteq FaultKinds

VARIABLES
    wallet,             \* users.quota
    token,              \* tokens.remain_quota
    subUsed,            \* user_subscriptions.amount_used
    subActive,          \* the subscription is active and not past end_time
    record,             \* [Requests]: status of SubscriptionPreConsumeRecord
    pc,                 \* [Requests]: where the request's goroutine is
    refundPc,           \* [Requests]: where the goroutine started by Refund is
    attempts,           \* [Requests]: calls made by refundWithRetry
    quota,              \* [Requests]: the argument preConsumedQuota
    tokenQuota,         \* [Requests]: "token_quota" put in the context by auth
    source,             \* [Requests]: funding.Source()
    effectiveQuota,     \* [Requests]: local of preConsume
    preConsumedQuota,   \* [Requests]: field of BillingSession
    tokenConsumed,      \* [Requests]: field of BillingSession
    consumed,           \* [Requests]: WalletFunding.consumed / preConsumed
    fundingSettled, settled, refunded,  \* sets of requests with the flag set
    actual,             \* [Requests]: actualQuota passed to Settle
    paid, paidToken,    \* history: net quota the session took for a request
    fee, feeToken,      \* history: quota taken as a violation fee
    faulty              \* history: requests one of whose store calls failed

store   == <<wallet, token, subUsed, subActive, record>>
session == <<source, effectiveQuota, preConsumedQuota, tokenConsumed, consumed>>
flags   == <<fundingSettled, settled, refunded>>
inputs  == <<quota, tokenQuota, actual>>
history == <<paid, paidToken, fee, feeToken, faulty>>
vars    == <<store, pc, refundPc, attempts, session, flags, inputs, history>>

PcValues == {"idle", "tryWallet", "trySubscription", "checkToken", "takeToken",
             "takeFunding", "rollback", "rollbackInsufficient", "serving",
             "settleToken", "fee", "feeToken", "ok", "rejected", "failed", "panicked"}

TypeOK ==
    /\ wallet \in Int /\ token \in Int
    /\ subUsed \in Nat /\ subActive \in BOOLEAN
    /\ record \in [Requests -> {"none", "consumed", "refunded"}]
    /\ pc \in [Requests -> PcValues]
    /\ refundPc \in [Requests -> {"off", "funding", "token", "end"}]
    /\ attempts \in [Requests -> 0..3]
    /\ quota \in [Requests -> Nat] /\ tokenQuota \in [Requests -> Int]
    /\ source \in [Requests -> {"none", "wallet", "subscription"}]
    /\ effectiveQuota \in [Requests -> Nat]
    /\ preConsumedQuota \in [Requests -> Nat]
    /\ tokenConsumed \in [Requests -> Nat]
    /\ consumed \in [Requests -> Nat]
    /\ fundingSettled \subseteq Requests
    /\ settled \subseteq Requests
    /\ refunded \subseteq Requests
    /\ actual \in [Requests -> Nat]
    /\ paid \in [Requests -> Int] /\ paidToken \in [Requests -> Int]
    /\ fee \in [Requests -> Int] /\ feeToken \in [Requests -> Int]
    /\ faulty \subseteq Requests

Init ==
    /\ wallet = InitWallet /\ token = InitToken
    /\ subUsed = 0 /\ subActive \in BOOLEAN
    /\ record = [r \in Requests |-> "none"]
    /\ pc = [r \in Requests |-> "idle"]
    /\ refundPc = [r \in Requests |-> "off"]
    /\ attempts = [r \in Requests |-> 0]
    /\ quota = [r \in Requests |-> 0]
    /\ tokenQuota = [r \in Requests |-> 0]
    /\ source = [r \in Requests |-> "none"]
    /\ effectiveQuota = [r \in Requests |-> 0]
    /\ preConsumedQuota = [r \in Requests |-> 0]
    /\ tokenConsumed = [r \in Requests |-> 0]
    /\ consumed = [r \in Requests |-> 0]
    /\ fundingSettled = {} /\ settled = {} /\ refunded = {}
    /\ actual = [r \in Requests |-> 0]
    /\ paid = [r \in Requests |-> 0] /\ paidToken = [r \in Requests |-> 0]
    /\ fee = [r \in Requests |-> 0] /\ feeToken = [r \in Requests |-> 0]
    /\ faulty = {}

Goto(r, l) == pc' = [pc EXCEPT ![r] = l]
Fails(k) == k \in Faults
Put(f, r, v) == [f EXCEPT ![r] = v]
Add(f, r, v) == [f EXCEPT ![r] = @ + v]
Max0(n) == IF n < 0 THEN 0 ELSE n

\* DecreaseUserQuota (n > 0) and IncreaseUserQuota (n < 0): the balance is
\* moved by n and not compared with anything.
MoveWallet_Clamped(n) == wallet' = Max0(wallet - n)
MoveWallet(n) == wallet' = wallet - n

-----------------------------------------------------------------------------
(* NewBillingSession: preference, wallet check, fall-back.                 *)

\* PreConsumeBilling is called; the default preference asks
\* HasActiveUserSubscription which source to try first.
NewBillingSession(r) ==
    /\ pc[r] = "idle"
    /\ \E q \in Estimates : quota' = Put(quota, r, q)
    /\ tokenQuota' = Put(tokenQuota, r, token)
    /\ Goto(r, IF \/ Pref[r] = "subscription_only"
                  \/ Pref[r] = "subscription_first" /\ subActive
               THEN "trySubscription" ELSE "tryWallet")
    /\ UNCHANGED <<store, refundPc, attempts, session, flags, actual, history>>

\* shouldTrust for a wallet session whose relayInfo.UserQuota is userQuota.
shouldTrust(r, userQuota) ==
    /\ Kind[r] # "task"
    /\ TrustQuota > 0
    /\ Unlimited \/ tokenQuota[r] > TrustQuota
    /\ userQuota > TrustQuota

\* The two checks of tryWallet.
Insufficient_NoEstimate(r) == wallet <= 0
Insufficient(r) == wallet <= 0 \/ wallet - quota[r] < 0

\* tryWallet with enough quota: the balance read here is used by the trust
\* check, and is not looked at again when the quota is taken.
TryWallet(r) ==
    /\ pc[r] = "tryWallet"
    /\ ~Insufficient(r)
    /\ LET eff == IF shouldTrust(r, wallet) THEN 0 ELSE quota[r] IN
         /\ effectiveQuota' = Put(effectiveQuota, r, eff)
         /\ Goto(r, IF eff > 0 THEN "checkToken" ELSE "takeFunding")
    /\ source' = Put(source, r, "wallet")
    /\ UNCHANGED <<store, refundPc, attempts, preConsumedQuota, tokenConsumed,
                   consumed, flags, inputs, history>>

\* tryWallet without enough quota: wallet_first falls back.
TryWalletInsufficient(r) ==
    /\ pc[r] = "tryWallet"
    /\ Insufficient(r)
    /\ Goto(r, IF Pref[r] = "wallet_first" THEN "trySubscription" ELSE "rejected")
    /\ UNCHANGED <<store, refundPc, attempts, session, flags, inputs, history>>

\* trySubscription: at least one unit, never the trust bypass.
TrySubscription(r) ==
    /\ pc[r] = "trySubscription"
    /\ effectiveQuota' = Put(effectiveQuota, r, IF quota[r] <= 0 THEN 1 ELSE quota[r])
    /\ source' = Put(source, r, "subscription")
    /\ Goto(r, "checkToken")
    /\ UNCHANGED <<store, refundPc, attempts, preConsumedQuota, tokenConsumed,
                   consumed, flags, inputs, history>>

-----------------------------------------------------------------------------
(* preConsume: token first, then the funding source, roll back on failure. *)

\* PreConsumeTokenQuota up to its check.  The playground has no token.
CheckToken(r) ==
    /\ pc[r] = "checkToken"
    /\ IF r \in Playground
         THEN /\ tokenConsumed' = Put(tokenConsumed, r, effectiveQuota[r])
              /\ Goto(r, "takeFunding")
         ELSE /\ Goto(r, IF Unlimited \/ token >= effectiveQuota[r]
                         THEN "takeToken" ELSE "rejected")
              /\ UNCHANGED tokenConsumed
    /\ UNCHANGED <<store, refundPc, attempts, source, effectiveQuota,
                   preConsumedQuota, consumed, flags, inputs, history>>

\* DecreaseTokenQuota of PreConsumeTokenQuota.
TakeToken(r) ==
    /\ pc[r] = "takeToken"
    /\ token' = token - effectiveQuota[r]
    /\ tokenConsumed' = Put(tokenConsumed, r, effectiveQuota[r])
    /\ paidToken' = Add(paidToken, r, effectiveQuota[r])
    /\ Goto(r, "takeFunding")
    /\ UNCHANGED <<wallet, subUsed, subActive, record, refundPc, attempts, source,
                   effectiveQuota, preConsumedQuota, consumed, flags, inputs,
                   paid, fee, feeToken, faulty>>

\* PreConsumeTokenQuota returns an error: no session is created.
TakeTokenFails(r) ==
    /\ Fails("token")
    /\ pc[r] \in {"checkToken", "takeToken"} /\ r \notin Playground
    /\ faulty' = faulty \cup {r}
    /\ Goto(r, "rejected")
    /\ UNCHANGED <<store, refundPc, attempts, session, flags, inputs, paid,
                   paidToken, fee, feeToken>>

\* WalletFunding.PreConsume.
TakeWallet(r) ==
    /\ pc[r] = "takeFunding" /\ source[r] = "wallet"
    /\ MoveWallet(effectiveQuota[r])
    /\ consumed' = Put(consumed, r, effectiveQuota[r])
    /\ preConsumedQuota' = Put(preConsumedQuota, r, effectiveQuota[r])
    /\ paid' = Add(paid, r, effectiveQuota[r])
    /\ Goto(r, "serving")
    /\ UNCHANGED <<token, subUsed, subActive, record, refundPc, attempts, source,
                   effectiveQuota, tokenConsumed, flags, inputs, paidToken,
                   fee, feeToken, faulty>>

SubscriptionCovers(amount) ==
    subActive /\ (SubTotal = 0 \/ SubTotal - subUsed >= amount)

\* SubscriptionFunding.PreConsume: one transaction creates the record of the
\* request id and moves amount_used.
TakeSubscription(r) ==
    /\ pc[r] = "takeFunding" /\ source[r] = "subscription"
    /\ SubscriptionCovers(effectiveQuota[r])
    /\ subUsed' = subUsed + effectiveQuota[r]
    /\ record' = Put(record, r, "consumed")
    /\ consumed' = Put(consumed, r, effectiveQuota[r])
    /\ preConsumedQuota' = Put(preConsumedQuota, r, effectiveQuota[r])
    /\ paid' = Add(paid, r, effectiveQuota[r])
    /\ Goto(r, "serving")
    /\ UNCHANGED <<wallet, token, subActive, refundPc, attempts, source,
                   effectiveQuota, tokenConsumed, flags, inputs, paidToken,
                   fee, feeToken, faulty>>

\* "no active subscription" or "subscription quota insufficient".
TakeSubscriptionInsufficient(r) ==
    /\ pc[r] = "takeFunding" /\ source[r] = "subscription"
    /\ ~SubscriptionCovers(effectiveQuota[r])
    /\ Goto(r, "rollbackInsufficient")
    /\ UNCHANGED <<store, refundPc, attempts, session, flags, inputs, history>>

\* Any other error of funding.PreConsume.
TakeFundingFails(r) ==
    /\ pc[r] = "takeFunding"
    /\ \/ source[r] = "wallet" /\ effectiveQuota[r] > 0 /\ Fails("wallet")
       \/ source[r] = "subscription" /\ Fails("sub")
    /\ faulty' = faulty \cup {r}
    /\ Goto(r, "rollback")
    /\ UNCHANGED <<store, refundPc, attempts, session, flags, inputs, paid,
                   paidToken, fee, feeToken>>

\* What the session gives back to the token.
TokenBack_Estimate(r) == IF r \in Playground THEN 0 ELSE quota[r]
TokenBack(r) == IF r \in Playground THEN 0 ELSE tokenConsumed[r]

\* A failed preConsume leaves no session behind: a fall-back builds a new one.
DropSession_Reuse(r) == UNCHANGED tokenConsumed
DropSession(r) == tokenConsumed' = Put(tokenConsumed, r, 0)

\* Only subscription_first goes on, and only when the quota was insufficient.
AfterRollback(r) ==
    IF pc[r] = "rollbackInsufficient" /\ Pref[r] = "subscription_first"
    THEN "tryWallet" ELSE "rejected"

\* The token quota is given back before the error is returned; the fall-back
\* of subscription_first then starts with a new session.
Rollback(r) ==
    /\ pc[r] \in {"rollback", "rollbackInsufficient"}
    /\ token' = token + TokenBack(r)
    /\ paidToken' = Add(paidToken, r, -TokenBack(r))
    /\ DropSession(r)
    /\ Goto(r, AfterRollback(r))
    /\ UNCHANGED <<wallet, subUsed, subActive, record, refundPc, attempts, source,
                   effectiveQuota, preConsumedQuota, consumed, flags, inputs,
                   paid, fee, feeToken, faulty>>

\* The roll-back itself fails: the error is logged and the session dropped.
RollbackFails(r) ==
    /\ pc[r] \in {"rollback", "rollbackInsufficient"}
    /\ Fails("token") /\ r \notin Playground /\ tokenConsumed[r] > 0
    /\ DropSession(r)
    /\ faulty' = faulty \cup {r}
    /\ Goto(r, AfterRollback(r))
    /\ UNCHANGED <<store, refundPc, attempts, source, effectiveQuota,
                   preConsumedQuota, consumed, flags, inputs, paid, paidToken,
                   fee, feeToken>>

-----------------------------------------------------------------------------
(* Settle: the funding source and the token are committed in two steps.    *)

\* What the token still owes after pre-consumption.
Delta_Whole(r) == actual[r]
Delta(r) == actual[r] - preConsumedQuota[r]

\* Settle is called with exactly the quota that was pre-consumed.
SettleEqual(r) ==
    /\ pc[r] = "serving"
    /\ preConsumedQuota[r] \in Actuals
    /\ actual' = Put(actual, r, preConsumedQuota[r])
    /\ settled' = settled \cup {r}
    /\ Goto(r, "ok")
    /\ UNCHANGED <<store, refundPc, attempts, session, fundingSettled, refunded,
                   quota, tokenQuota, history>>

\* WalletFunding.Settle.
SettleWallet(r, a) ==
    LET delta == a - preConsumedQuota[r] IN
    /\ pc[r] = "serving" /\ source[r] = "wallet" /\ delta # 0
    /\ actual' = Put(actual, r, a)
    /\ MoveWallet(delta)
    /\ paid' = Add(paid, r, delta)
    /\ fundingSettled' = fundingSettled \cup {r}
    /\ Goto(r, "settleToken")
    /\ UNCHANGED <<token, subUsed, subActive, record, refundPc, attempts, session,
                   settled, refunded, quota, tokenQuota, paidToken, fee, feeToken,
                   faulty>>

\* PostConsumeUserSubscriptionDelta refuses to pass the total.
DeltaExceeds(delta) == SubTotal > 0 /\ Max0(subUsed + delta) > SubTotal

\* SubscriptionFunding.Settle.
SettleSubscription(r, a) ==
    LET delta == a - preConsumedQuota[r] IN
    /\ pc[r] = "serving" /\ source[r] = "subscription" /\ delta # 0
    /\ ~DeltaExceeds(delta)
    /\ actual' = Put(actual, r, a)
    /\ subUsed' = Max0(subUsed + delta)
    /\ paid' = Add(paid, r, delta)
    /\ fundingSettled' = fundingSettled \cup {r}
    /\ Goto(r, "settleToken")
    /\ UNCHANGED <<wallet, token, subActive, record, refundPc, attempts, session,
                   settled, refunded, quota, tokenQuota, paidToken, fee, feeToken,
                   faulty>>

\* funding.Settle returns an error: the callers of SettleBilling only log it,
\* so the request ends with what was pre-consumed.
SettleFails(r, a) ==
    LET delta == a - preConsumedQuota[r] IN
    /\ pc[r] = "serving" /\ delta # 0
    /\ \/ source[r] = "wallet" /\ Fails("wallet")
       \/ source[r] = "subscription" /\ (Fails("sub") \/ DeltaExceeds(delta))
    /\ actual' = Put(actual, r, a)
    /\ faulty' = faulty \cup {r}
    /\ Goto(r, "ok")
    /\ UNCHANGED <<store, refundPc, attempts, session, flags, quota, tokenQuota,
                   paid, paidToken, fee, feeToken>>

\* The token half of Settle.
SettleToken(r) ==
    /\ pc[r] = "settleToken"
    /\ LET delta == IF r \in Playground THEN 0 ELSE Delta(r) IN
         /\ token' = token - delta
         /\ paidToken' = Add(paidToken, r, delta)
    /\ settled' = settled \cup {r}
    /\ Goto(r, "ok")
    /\ UNCHANGED <<wallet, subUsed, subActive, record, refundPc, attempts, session,
                   fundingSettled, refunded, inputs, paid, fee, feeToken, faulty>>

\* The token adjustment fails: logged, and the session still counts as settled.
SettleTokenFails(r) ==
    /\ pc[r] = "settleToken" /\ Fails("token") /\ r \notin Playground
    /\ settled' = settled \cup {r}
    /\ faulty' = faulty \cup {r}
    /\ Goto(r, "ok")
    /\ UNCHANGED <<store, refundPc, attempts, session, fundingSettled, refunded,
                   inputs, paid, paidToken, fee, feeToken>>

-----------------------------------------------------------------------------
(* Refund and its goroutine; the violation fee.                            *)

needsRefundLocked(r) ==
    /\ r \notin settled \cup refunded \cup fundingSettled
    /\ \/ tokenConsumed[r] > 0
       \/ source[r] = "subscription" /\ consumed[r] > 0

\* The request failed on every channel: the deferred function of Relay or
\* RelayTask calls Refund and, in Relay, ChargeViolationFeeIfNeeded.
FailRequest(r) ==
    /\ pc[r] = "serving"
    /\ IF needsRefundLocked(r)
         THEN /\ refunded' = refunded \cup {r}
              /\ refundPc' = Put(refundPc, r, "funding")
         ELSE UNCHANGED <<refunded, refundPc>>
    /\ \E violation \in BOOLEAN :
         Goto(r, IF violation /\ Kind[r] = "relay" /\ Fee > 0
                 THEN "fee" ELSE "failed")
    /\ UNCHANGED <<store, attempts, session, fundingSettled, settled, inputs,
                   history>>

\* The handler panics: newAPIError is still nil when the deferred function of
\* Relay runs, so that nothing is refunded.
PanicRequest(r) ==
    /\ pc[r] = "serving"
    /\ Goto(r, "panicked")
    /\ UNCHANGED <<store, refundPc, attempts, session, flags, inputs, history>>

\* Goroutine step 1, WalletFunding.Refund: not retried.
RefundWallet(r) ==
    /\ refundPc[r] = "funding" /\ source[r] = "wallet"
    /\ MoveWallet(-consumed[r])
    /\ paid' = Add(paid, r, -consumed[r])
    /\ refundPc' = Put(refundPc, r, "token")
    /\ UNCHANGED <<token, subUsed, subActive, record, pc, attempts, session, flags,
                   inputs, paidToken, fee, feeToken, faulty>>

RefundWalletFails(r) ==
    /\ refundPc[r] = "funding" /\ source[r] = "wallet" /\ Fails("wallet")
    /\ consumed[r] > 0
    /\ faulty' = faulty \cup {r}
    /\ refundPc' = Put(refundPc, r, "token")
    /\ UNCHANGED <<store, pc, attempts, session, flags, inputs, paid, paidToken,
                   fee, feeToken>>

\* Goroutine step 1, SubscriptionFunding.Refund: RefundSubscriptionPreConsume
\* looks the record up by request id and does nothing when it is refunded.
RefundSubscription(r) ==
    /\ refundPc[r] = "funding" /\ source[r] = "subscription"
    /\ IF record[r] = "consumed"
         THEN /\ subUsed' = Max0(subUsed - consumed[r])
              /\ paid' = Add(paid, r, -consumed[r])
              /\ record' = Put(record, r, "refunded")
         ELSE UNCHANGED <<subUsed, paid, record>>
    /\ refundPc' = Put(refundPc, r, "token")
    /\ UNCHANGED <<wallet, token, subActive, pc, attempts, session, flags, inputs,
                   paidToken, fee, feeToken, faulty>>

\* refundWithRetry: after the last failed attempt the goroutine logs the error
\* and goes on to the token.
MaxAttempts == 3
AfterAttempt(n) == IF n = MaxAttempts THEN "token" ELSE "funding"

\* One attempt of refundWithRetry fails.  PostConsumeUserSubscriptionDelta is
\* a transaction of its own, so a failure of the outer one ("subSave") leaves
\* amount_used decreased and the record "consumed".
RefundSubscriptionFails(r) ==
    /\ refundPc[r] = "funding" /\ source[r] = "subscription"
    /\ record[r] = "consumed"
    /\ \/ Fails("sub") /\ UNCHANGED <<subUsed, paid>>
       \/ /\ Fails("subSave")
          /\ subUsed' = Max0(subUsed - consumed[r])
          /\ paid' = Add(paid, r, -consumed[r])
    /\ attempts' = Add(attempts, r, 1)
    /\ refundPc' = Put(refundPc, r, AfterAttempt(attempts[r] + 1))
    /\ faulty' = faulty \cup {r}
    /\ UNCHANGED <<wallet, token, subActive, record, pc, session, flags, inputs,
                   paidToken, fee, feeToken>>

\* Goroutine step 2: the token quota.
RefundToken(r) ==
    /\ refundPc[r] = "token"
    /\ token' = token + TokenBack(r)
    /\ paidToken' = Add(paidToken, r, -TokenBack(r))
    /\ refundPc' = Put(refundPc, r, "end")
    /\ UNCHANGED <<wallet, subUsed, subActive, record, pc, attempts, session, flags,
                   inputs, paid, fee, feeToken, faulty>>

RefundTokenFails(r) ==
    /\ refundPc[r] = "token" /\ Fails("token") /\ r \notin Playground
    /\ refundPc' = Put(refundPc, r, "end")
    /\ faulty' = faulty \cup {r}
    /\ UNCHANGED <<store, pc, attempts, session, flags, inputs, paid, paidToken,
                   fee, feeToken>>

\* ChargeViolationFeeIfNeeded: PostConsumeQuota takes the fee from the funding
\* source of the request, then from the token.
ChargeFee(r) ==
    /\ pc[r] = "fee"
    /\ \/ /\ source[r] = "wallet"
          /\ MoveWallet(Fee)
          /\ UNCHANGED subUsed
       \/ /\ source[r] = "subscription" /\ ~DeltaExceeds(Fee)
          /\ subUsed' = subUsed + Fee
          /\ UNCHANGED wallet
    /\ fee' = Add(fee, r, Fee)
    /\ Goto(r, IF r \in Playground THEN "failed" ELSE "feeToken")
    /\ UNCHANGED <<token, subActive, record, refundPc, attempts, session, flags,
                   inputs, paid, paidToken, feeToken, faulty>>

ChargeFeeFails(r) ==
    /\ pc[r] = "fee"
    /\ \/ source[r] = "wallet" /\ Fails("wallet")
       \/ source[r] = "subscription" /\ (Fails("sub") \/ DeltaExceeds(Fee))
    /\ faulty' = faulty \cup {r}
    /\ Goto(r, "failed")
    /\ UNCHANGED <<store, refundPc, attempts, session, flags, inputs, paid,
                   paidToken, fee, feeToken>>

ChargeFeeToken(r) ==
    /\ pc[r] = "feeToken"
    /\ token' = token - Fee
    /\ feeToken' = Add(feeToken, r, Fee)
    /\ Goto(r, "failed")
    /\ UNCHANGED <<wallet, subUsed, subActive, record, refundPc, attempts, session,
                   flags, inputs, paid, paidToken, fee, faulty>>

ChargeFeeTokenFails(r) ==
    /\ pc[r] = "feeToken" /\ Fails("token")
    /\ faulty' = faulty \cup {r}
    /\ Goto(r, "failed")
    /\ UNCHANGED <<store, refundPc, attempts, session, flags, inputs, paid,
                   paidToken, fee, feeToken>>

-----------------------------------------------------------------------------
(* The subscription passes its end_time while requests are in flight.      *)
SubscriptionEnds ==
    /\ subActive
    /\ subActive' = FALSE
    /\ UNCHANGED <<wallet, token, subUsed, record, pc, refundPc, attempts, session,
                   flags, inputs, history>>

PreConsume(r) ==
    \/ NewBillingSession(r)
    \/ TryWallet(r) \/ TryWalletInsufficient(r) \/ TrySubscription(r)
    \/ CheckToken(r) \/ TakeToken(r) \/ TakeTokenFails(r)
    \/ TakeWallet(r) \/ TakeSubscription(r) \/ TakeSubscriptionInsufficient(r)
    \/ TakeFundingFails(r) \/ Rollback(r) \/ RollbackFails(r)

Settle(r) ==
    \/ SettleEqual(r)
    \/ \E a \in Actuals :
         SettleWallet(r, a) \/ SettleSubscription(r, a) \/ SettleFails(r, a)
    \/ SettleToken(r) \/ SettleTokenFails(r)

Refund(r) ==
    \/ FailRequest(r) \/ PanicRequest(r)
    \/ RefundWallet(r) \/ RefundWalletFails(r)
    \/ RefundSubscription(r) \/ RefundSubscriptionFails(r)
    \/ RefundToken(r) \/ RefundTokenFails(r)

ViolationFee(r) ==
    \/ ChargeFee(r) \/ ChargeFeeFails(r)
    \/ ChargeFeeToken(r) \/ ChargeFeeTokenFails(r)

Next ==
    \/ \E r \in Requests : PreConsume(r) \/ Settle(r) \/ Refund(r) \/ ViolationFee(r)
    \/ SubscriptionEnds

\* The Go scheduler runs every goroutine that can run.  Nothing is assumed of
\* the upstream: while a request is "serving" it may never be answered, and
\* a client may never send its request.
Fairness ==
    \A r \in Requests :
        /\ WF_vars(PreConsume(r) /\ pc[r] # "idle")
        /\ WF_vars(SettleToken(r) \/ SettleTokenFails(r))
        /\ WF_vars(Refund(r) /\ refundPc[r] # "off")
        /\ WF_vars(ViolationFee(r))

Spec == Init /\ [][Next]_vars /\ Fairness

-----------------------------------------------------------------------------
(* Properties.                                                             *)

\* What Settle commits is exactly the metered quota, whatever was estimated,
\* whichever source paid and however the requests interleave: the funding
\* source always, the token unless one of its updates failed.
SettledExact ==
    \A r \in settled :
        /\ paid[r] = actual[r]
        /\ r \notin faulty =>
             paidToken[r] = (IF r \in Playground THEN 0 ELSE actual[r])

\* A request that is rejected, or has failed and whose refund goroutine (if
\* Refund started one) is over, has cost nothing when no store call failed:
\* roll-back, fall-back and refund return every unit they should, and
\* needsRefundLocked skips the refund only when nothing is held.
FailedPaysNothing ==
    \A r \in Requests \ faulty :
        \/ pc[r] = "rejected"
        \/ pc[r] = "failed" /\ refundPc[r] \in {"off", "end"}
        => paid[r] = 0 /\ paidToken[r] = 0

\* No sequence of failing store calls, roll-backs, retries and refunds gives
\* a request more than it took.
NoOverRefund == \A r \in Requests : paid[r] >= 0 /\ paidToken[r] >= 0

\* A request in service holds the same amount at the token and at the funding
\* source; a task, which forbids the trust bypass, holds its whole estimate.
ServingHoldsEstimate ==
    \A r \in Requests : pc[r] = "serving" =>
        /\ paid[r] = preConsumedQuota[r]
        /\ r \notin Playground => paidToken[r] >= preConsumedQuota[r]
        /\ Kind[r] = "task" => paid[r] >= quota[r]

\* What a request has cost the wallet, the subscription and the token so far: its session
\* and its violation fee.
FromWallet(r) == IF source[r] = "wallet" THEN paid[r] + fee[r] ELSE 0
FromSubscription(r) == IF source[r] = "subscription" THEN paid[r] + fee[r] ELSE 0
FromToken(r) == paidToken[r] + feeToken[r]

\* The store agrees with what the sessions believe they took: the wallet, the
\* token and the subscription moved by exactly the sum over the requests.  In
\* particular the clamp at zero of PostConsumeUserSubscriptionDelta never bites.
BooksBalance ==
    /\ wallet = InitWallet - SumOf([r \in Requests |-> FromWallet(r)], Requests)
    /\ subUsed = SumOf([r \in Requests |-> FromSubscription(r)], Requests)
    /\ token = InitToken - SumOf([r \in Requests |-> FromToken(r)], Requests)

\* What a request took from the wallet in advance, and what Settle and the fee took
\* beyond that.
Advance(r) == IF source[r] = "wallet" THEN preConsumedQuota[r] ELSE 0
Beyond(r) == IF source[r] = "wallet" THEN Max0(paid[r] - preConsumedQuota[r]) + fee[r] ELSE 0
Advances == SumOf([r \in Requests |-> Advance(r)], Requests)

\* What the wallet owes apart from settlements above the estimate and fees.
Debt == - wallet - SumOf([r \in Requests |-> Beyond(r)], Requests)

\* tryWallet checks the balance and takes it later, so concurrent requests can
\* overdraw it, but whichever of them one leaves out, by no more than what the others
\* took in advance: it saw enough for itself when it checked.
OverdraftBound ==
    Debt > 0 => /\ \E r \in Requests : Advance(r) > 0
                /\ \A r \in Requests : Debt <= Advances - Advance(r)

\* The subscription always covers what the requests it funds still hold: a
\* refund repeated by refundWithRetry must not eat the quota of another
\* request ("RefundSubscriptionPreConsume is idempotent").
RefundIdempotent ==
    LET held(r) == IF source[r] = "subscription" THEN Max0(paid[r]) + fee[r] ELSE 0
    IN  subUsed >= SumOf([r \in Requests |-> held(r)], Requests)

\* Every pre-consumption is decided (the session opens, or the request is rejected) and
\* every refund that Refund started has ended, its retries included.
Decided ==
    \A r \in Requests : /\ pc[r] \notin {"tryWallet", "trySubscription"}
                        /\ r \in refunded => refundPc[r] = "end"

=============================================================================
