-------------------------- MODULE Settlement_proofs -------------------------
(***************************************************************************)
(* What a request and a realtime session pay. BillingSession: any set of   *)
(* requests, any preferences, estimates, metered quotas and any failing    *)
(* store calls except "subSave" (with "subSave" the statements about       *)
(* refunds are false, see the run billing_refund_retry). Realtime: any     *)
(* number of messages, of any sizes, on either side.                       *)
(***************************************************************************)
EXTENDS BillingSession, Realtime, Sums_proofs, TLAPS

-----------------------------------------------------------------------------
(***************************************************************************)
(* The billing session.                                                    *)
(***************************************************************************)

Deciding == {"idle", "tryWallet", "trySubscription", "checkToken", "takeToken",
             "takeFunding", "rollback", "rollbackInsufficient", "rejected"}
Failing  == {"failed", "fee", "feeToken"}

\* Until it is decided, a request holds no funding and no flag; its token
\* quota is held only between TakeToken and the roll-back.
DecidingInv(r) == pc[r] \in Deciding =>
    /\ paid[r] = 0 /\ consumed[r] = 0 /\ refundPc[r] = "off"
    /\ r \notin settled /\ r \notin fundingSettled /\ r \notin refunded
    /\ pc[r] \notin {"takeFunding", "rollback", "rollbackInsufficient"}
         => tokenConsumed[r] = 0
    /\ pc[r] = "takeFunding" => tokenConsumed[r] = effectiveQuota[r]
    /\ pc[r] \in {"checkToken", "takeToken", "takeFunding"} => source[r] # "none"
    /\ pc[r] \in {"checkToken", "takeToken", "takeFunding"} /\ Kind[r] = "task"
         => effectiveQuota[r] >= quota[r]
    /\ pc[r] \in {"checkToken", "takeToken"} => effectiveQuota[r] > 0
    /\ pc[r] = "takeToken" => r \notin Playground

\* A request in service holds one amount in three places.
ServingInv(r) == pc[r] = "serving" =>
    /\ paid[r] = consumed[r]
    /\ preConsumedQuota[r] = consumed[r]
    /\ tokenConsumed[r] = consumed[r]
    /\ refundPc[r] = "off"
    /\ r \notin settled /\ r \notin fundingSettled /\ r \notin refunded
    /\ source[r] = "subscription" => record[r] = "consumed"
    /\ source[r] # "none"
    /\ Kind[r] = "task" => consumed[r] >= quota[r]

\* Between the two halves of Settle, and after them.
SettlingInv(r) ==
    /\ pc[r] = "settleToken" =>
         /\ paid[r] = actual[r]
         /\ tokenConsumed[r] = preConsumedQuota[r]
         /\ refundPc[r] = "off"
         /\ r \notin settled /\ r \notin refunded
    /\ pc[r] \in {"ok", "panicked"} => refundPc[r] = "off" /\ paid[r] >= 0
    /\ r \in settled => pc[r] = "ok" /\ paid[r] = actual[r]

\* A failed request holds its quota until the goroutine has given it back.
FailingInv(r) ==
    /\ refundPc[r] # "off" => pc[r] \in Failing
    /\ pc[r] \in Failing =>
         /\ consumed[r] = tokenConsumed[r]
         /\ refundPc[r] = "off" => paid[r] = 0 /\ tokenConsumed[r] = 0
         /\ refundPc[r] = "funding" =>
              /\ paid[r] = consumed[r]
              /\ source[r] = "subscription" => record[r] = "consumed"
              /\ attempts[r] < 3
         /\ refundPc[r] \in {"token", "end"} =>
              paid[r] >= 0 /\ (r \notin faulty => paid[r] = 0)
    /\ refundPc[r] = "off" => attempts[r] = 0

\* What the token has given up for the request.
TokenInv(r) ==
    /\ r \in Playground => paidToken[r] = 0
    /\ r \notin Playground /\ r \notin settled /\ refundPc[r] # "end" =>
         /\ paidToken[r] >= tokenConsumed[r]
         /\ r \notin faulty => paidToken[r] = tokenConsumed[r]
    /\ r \notin Playground /\ refundPc[r] = "end" =>
         paidToken[r] >= 0 /\ (r \notin faulty => paidToken[r] = 0)
    /\ r \notin Playground /\ r \in settled =>
         paidToken[r] >= 0 /\ (r \notin faulty => paidToken[r] = actual[r])

RequestInv(r) ==
    DecidingInv(r) /\ ServingInv(r) /\ SettlingInv(r) /\ FailingInv(r) /\ TokenInv(r)

IInv == TypeOK /\ \A r \in Requests : RequestInv(r)

\* The steps of the relay leave every other request's session alone.
Same(q) ==
    /\ pc'[q] = pc[q] /\ refundPc'[q] = refundPc[q] /\ attempts'[q] = attempts[q]
    /\ record'[q] = record[q] /\ source'[q] = source[q] /\ quota'[q] = quota[q]
    /\ effectiveQuota'[q] = effectiveQuota[q]
    /\ preConsumedQuota'[q] = preConsumedQuota[q]
    /\ tokenConsumed'[q] = tokenConsumed[q] /\ consumed'[q] = consumed[q]
    /\ actual'[q] = actual[q] /\ paid'[q] = paid[q] /\ paidToken'[q] = paidToken[q]
    /\ (q \in settled') <=> (q \in settled)
    /\ (q \in fundingSettled') <=> (q \in fundingSettled)
    /\ (q \in refunded') <=> (q \in refunded)
    /\ (q \in faulty') <=> (q \in faulty)

USE DEF Goto, Put, Add, Fails, store, session, flags, inputs, history


\* A request none of whose own state changes keeps its invariant.
LEMMA SameKeeps ==
    ASSUME NEW q \in Requests, RequestInv(q), Same(q)
    PROVE  RequestInv(q)'
  <1>1. DecidingInv(q)'
    BY DEF RequestInv, DecidingInv, Same, Deciding
  <1>2. ServingInv(q)'
    BY DEF RequestInv, ServingInv, Same
  <1>3. SettlingInv(q)'
    BY DEF RequestInv, SettlingInv, Same
  <1>4. FailingInv(q)'
    BY DEF RequestInv, FailingInv, Same, Failing
  <1>5. TokenInv(q)'
    BY DEF RequestInv, TokenInv, Same
  <1> QED BY <1>1, <1>2, <1>3, <1>4, <1>5 DEF RequestInv


\* Enough to show for a step of request r.
LEMMA StepKeeps ==
    ASSUME IInv, NEW r \in Requests, TypeOK', RequestInv(r)',
           \A q \in Requests \ {r} : Same(q)
    PROVE  IInv'
  <1>1. ASSUME NEW q \in Requests \ {r} PROVE RequestInv(q)'
    BY <1>1, SameKeeps DEF IInv
  <1> QED BY <1>1 DEF IInv

\* The steps of NewBillingSession and preConsume preserve the inductive invariant.
LEMMA PreConsumeKeeps ==
    ASSUME IInv, NEW r \in Requests, PreConsume(r), "subSave" \notin Faults
    PROVE  IInv'
  <1>1. CASE NewBillingSession(r)
    <2>1. TypeOK'
      BY <1>1, ConstantsAssumption DEF IInv, TypeOK, PcValues, NewBillingSession
    <2>2. RequestInv(r)'
      BY <1>1, ConstantsAssumption DEF IInv, TypeOK, RequestInv, DecidingInv, ServingInv,
         SettlingInv, FailingInv, TokenInv, Deciding, Failing, NewBillingSession
    <2>3. \A q \in Requests \ {r} : Same(q)
      BY <1>1 DEF IInv, TypeOK, Same, NewBillingSession
    <2> QED BY <2>1, <2>2, <2>3, StepKeeps
  <1>2. CASE TryWallet(r)
    <2>1. TypeOK'
      BY <1>2, ConstantsAssumption DEF IInv, TypeOK, PcValues, TryWallet, shouldTrust
    <2>2. RequestInv(r)'
      BY <1>2, ConstantsAssumption DEF IInv, TypeOK, RequestInv, DecidingInv, ServingInv,
         SettlingInv, FailingInv, TokenInv, Deciding, Failing, TryWallet, shouldTrust
    <2>3. \A q \in Requests \ {r} : Same(q)
      BY <1>2 DEF IInv, TypeOK, Same, TryWallet, shouldTrust
    <2> QED BY <2>1, <2>2, <2>3, StepKeeps
  <1>3. CASE TryWalletInsufficient(r)
    <2>1. TypeOK'
      BY <1>3, ConstantsAssumption DEF IInv, TypeOK, PcValues, TryWalletInsufficient
    <2>2. RequestInv(r)'
      BY <1>3, ConstantsAssumption DEF IInv, TypeOK, RequestInv, DecidingInv, ServingInv,
         SettlingInv, FailingInv, TokenInv, Deciding, Failing, TryWalletInsufficient
    <2>3. \A q \in Requests \ {r} : Same(q)
      BY <1>3 DEF IInv, TypeOK, Same, TryWalletInsufficient
    <2> QED BY <2>1, <2>2, <2>3, StepKeeps
  <1>4. CASE TrySubscription(r)
    <2>1. TypeOK'
      BY <1>4, ConstantsAssumption DEF IInv, TypeOK, PcValues, TrySubscription
    <2>2. RequestInv(r)'
      BY <1>4, ConstantsAssumption DEF IInv, TypeOK, RequestInv, DecidingInv, ServingInv,
         SettlingInv, FailingInv, TokenInv, Deciding, Failing, TrySubscription
    <2>3. \A q \in Requests \ {r} : Same(q)
      BY <1>4 DEF IInv, TypeOK, Same, TrySubscription
    <2> QED BY <2>1, <2>2, <2>3, StepKeeps
  <1>5. CASE CheckToken(r)
    <2>1. TypeOK'
      BY <1>5, ConstantsAssumption DEF IInv, TypeOK, PcValues, CheckToken
    <2>2. RequestInv(r)'
      BY <1>5, ConstantsAssumption DEF IInv, TypeOK, RequestInv, DecidingInv, ServingInv,
         SettlingInv, FailingInv, TokenInv, Deciding, Failing, CheckToken
    <2>3. \A q \in Requests \ {r} : Same(q)
      BY <1>5 DEF IInv, TypeOK, Same, CheckToken
    <2> QED BY <2>1, <2>2, <2>3, StepKeeps
  <1>6. CASE TakeToken(r)
    <2>1. TypeOK'
      BY <1>6, ConstantsAssumption DEF IInv, TypeOK, PcValues, TakeToken
    <2>2. RequestInv(r)'
      BY <1>6, ConstantsAssumption DEF IInv, TypeOK, RequestInv, DecidingInv, ServingInv,
         SettlingInv, FailingInv, TokenInv, Deciding, Failing, TakeToken
    <2>3. \A q \in Requests \ {r} : Same(q)
      BY <1>6 DEF IInv, TypeOK, Same, TakeToken
    <2> QED BY <2>1, <2>2, <2>3, StepKeeps
  <1>7. CASE TakeTokenFails(r)
    <2>1. TypeOK'
      BY <1>7, ConstantsAssumption DEF IInv, TypeOK, PcValues, TakeTokenFails
    <2>2. RequestInv(r)'
      BY <1>7, ConstantsAssumption DEF IInv, TypeOK, RequestInv, DecidingInv, ServingInv,
         SettlingInv, FailingInv, TokenInv, Deciding, Failing, TakeTokenFails
    <2>3. \A q \in Requests \ {r} : Same(q)
      BY <1>7 DEF IInv, TypeOK, Same, TakeTokenFails
    <2> QED BY <2>1, <2>2, <2>3, StepKeeps
  <1>8. CASE TakeWallet(r)
    <2>1. TypeOK'
      BY <1>8, ConstantsAssumption DEF IInv, TypeOK, PcValues, TakeWallet, MoveWallet
    <2>2. RequestInv(r)'
      BY <1>8, ConstantsAssumption DEF IInv, TypeOK, RequestInv, DecidingInv, ServingInv,
         SettlingInv, FailingInv, TokenInv, Deciding, Failing, TakeWallet, MoveWallet
    <2>3. \A q \in Requests \ {r} : Same(q)
      BY <1>8 DEF IInv, TypeOK, Same, TakeWallet, MoveWallet
    <2> QED BY <2>1, <2>2, <2>3, StepKeeps
  <1>9. CASE TakeSubscription(r)
    <2>1. TypeOK'
      BY <1>9, ConstantsAssumption DEF IInv, TypeOK, PcValues, TakeSubscription
    <2>2. RequestInv(r)'
      BY <1>9, ConstantsAssumption DEF IInv, TypeOK, RequestInv, DecidingInv, ServingInv,
         SettlingInv, FailingInv, TokenInv, Deciding, Failing, TakeSubscription
    <2>3. \A q \in Requests \ {r} : Same(q)
      BY <1>9 DEF IInv, TypeOK, Same, TakeSubscription
    <2> QED BY <2>1, <2>2, <2>3, StepKeeps
  <1>10. CASE TakeSubscriptionInsufficient(r)
    <2>1. TypeOK'
      BY <1>10, ConstantsAssumption DEF IInv, TypeOK, PcValues, TakeSubscriptionInsufficient
    <2>2. RequestInv(r)'
      BY <1>10, ConstantsAssumption DEF IInv, TypeOK, RequestInv, DecidingInv, ServingInv,
         SettlingInv, FailingInv, TokenInv, Deciding, Failing, TakeSubscriptionInsufficient
    <2>3. \A q \in Requests \ {r} : Same(q)
      BY <1>10 DEF IInv, TypeOK, Same, TakeSubscriptionInsufficient
    <2> QED BY <2>1, <2>2, <2>3, StepKeeps
  <1>11. CASE TakeFundingFails(r)
    <2>1. TypeOK'
      BY <1>11, ConstantsAssumption DEF IInv, TypeOK, PcValues, TakeFundingFails
    <2>2. RequestInv(r)'
      BY <1>11, ConstantsAssumption DEF IInv, TypeOK, RequestInv, DecidingInv, ServingInv,
         SettlingInv, FailingInv, TokenInv, Deciding, Failing, TakeFundingFails
    <2>3. \A q \in Requests \ {r} : Same(q)
      BY <1>11 DEF IInv, TypeOK, Same, TakeFundingFails
    <2> QED BY <2>1, <2>2, <2>3, StepKeeps
  <1>12. CASE Rollback(r)
    <2>1. TypeOK'
      BY <1>12, ConstantsAssumption DEF IInv, TypeOK, PcValues, Rollback, AfterRollback, TokenBack, DropSession
    <2>2. RequestInv(r)'
      BY <1>12, ConstantsAssumption DEF IInv, TypeOK, RequestInv, DecidingInv, ServingInv,
         SettlingInv, FailingInv, TokenInv, Deciding, Failing, Rollback, AfterRollback, TokenBack, DropSession
    <2>3. \A q \in Requests \ {r} : Same(q)
      BY <1>12 DEF IInv, TypeOK, Same, Rollback, AfterRollback, TokenBack, DropSession
    <2> QED BY <2>1, <2>2, <2>3, StepKeeps
  <1>13. CASE RollbackFails(r)
    <2>1. TypeOK'
      BY <1>13, ConstantsAssumption DEF IInv, TypeOK, PcValues, RollbackFails, AfterRollback, DropSession
    <2>2. RequestInv(r)'
      BY <1>13, ConstantsAssumption DEF IInv, TypeOK, RequestInv, DecidingInv, ServingInv,
         SettlingInv, FailingInv, TokenInv, Deciding, Failing, RollbackFails, AfterRollback, DropSession
    <2>3. \A q \in Requests \ {r} : Same(q)
      BY <1>13 DEF IInv, TypeOK, Same, RollbackFails, AfterRollback, DropSession
    <2> QED BY <2>1, <2>2, <2>3, StepKeeps
  <1> QED
    BY <1>1, <1>2, <1>3, <1>4, <1>5, <1>6, <1>7, <1>8, <1>9, <1>10, <1>11, <1>12, <1>13 DEF PreConsume

\* The two halves of Settle preserve the inductive invariant.
LEMMA SettleKeeps ==
    ASSUME IInv, NEW r \in Requests, Settle(r), "subSave" \notin Faults
    PROVE  IInv'
  <1>1. CASE SettleEqual(r)
    <2>1. TypeOK'
      BY <1>1, ConstantsAssumption DEF IInv, TypeOK, PcValues, SettleEqual
    <2>2. RequestInv(r)'
      BY <1>1, ConstantsAssumption DEF IInv, TypeOK, RequestInv, DecidingInv, ServingInv,
         SettlingInv, FailingInv, TokenInv, Deciding, Failing, SettleEqual
    <2>3. \A q \in Requests \ {r} : Same(q)
      BY <1>1 DEF IInv, TypeOK, Same, SettleEqual
    <2> QED BY <2>1, <2>2, <2>3, StepKeeps
  <1>2. ASSUME NEW a \in Actuals, SettleWallet(r, a) PROVE IInv'
    <2>1. TypeOK'
      BY <1>2, ConstantsAssumption DEF IInv, TypeOK, PcValues, SettleWallet, MoveWallet
    <2>2. RequestInv(r)'
      BY <1>2, ConstantsAssumption DEF IInv, TypeOK, RequestInv, DecidingInv, ServingInv,
         SettlingInv, FailingInv, TokenInv, Deciding, Failing, SettleWallet, MoveWallet
    <2>3. \A q \in Requests \ {r} : Same(q)
      BY <1>2 DEF IInv, TypeOK, Same, SettleWallet, MoveWallet
    <2> QED BY <2>1, <2>2, <2>3, StepKeeps
  <1>3. ASSUME NEW a \in Actuals, SettleSubscription(r, a) PROVE IInv'
    <2>1. TypeOK'
      BY <1>3, ConstantsAssumption DEF IInv, TypeOK, PcValues, SettleSubscription, Max0
    <2>2. RequestInv(r)'
      BY <1>3, ConstantsAssumption DEF IInv, TypeOK, RequestInv, DecidingInv, ServingInv,
         SettlingInv, FailingInv, TokenInv, Deciding, Failing, SettleSubscription, Max0
    <2>3. \A q \in Requests \ {r} : Same(q)
      BY <1>3 DEF IInv, TypeOK, Same, SettleSubscription, Max0
    <2> QED BY <2>1, <2>2, <2>3, StepKeeps
  <1>4. ASSUME NEW a \in Actuals, SettleFails(r, a) PROVE IInv'
    <2>1. TypeOK'
      BY <1>4, ConstantsAssumption DEF IInv, TypeOK, PcValues, SettleFails
    <2>2. RequestInv(r)'
      BY <1>4, ConstantsAssumption DEF IInv, TypeOK, RequestInv, DecidingInv, ServingInv,
         SettlingInv, FailingInv, TokenInv, Deciding, Failing, SettleFails
    <2>3. \A q \in Requests \ {r} : Same(q)
      BY <1>4 DEF IInv, TypeOK, Same, SettleFails
    <2> QED BY <2>1, <2>2, <2>3, StepKeeps
  <1>5. CASE SettleToken(r)
    <2>1. TypeOK'
      BY <1>5, ConstantsAssumption DEF IInv, TypeOK, PcValues, SettleToken, Delta
    <2>2. RequestInv(r)'
      BY <1>5, ConstantsAssumption DEF IInv, TypeOK, RequestInv, DecidingInv, ServingInv,
         SettlingInv, FailingInv, TokenInv, Deciding, Failing, SettleToken, Delta
    <2>3. \A q \in Requests \ {r} : Same(q)
      BY <1>5 DEF IInv, TypeOK, Same, SettleToken, Delta
    <2> QED BY <2>1, <2>2, <2>3, StepKeeps
  <1>6. CASE SettleTokenFails(r)
    <2>1. TypeOK'
      BY <1>6, ConstantsAssumption DEF IInv, TypeOK, PcValues, SettleTokenFails
    <2>2. RequestInv(r)'
      BY <1>6, ConstantsAssumption DEF IInv, TypeOK, RequestInv, DecidingInv, ServingInv,
         SettlingInv, FailingInv, TokenInv, Deciding, Failing, SettleTokenFails
    <2>3. \A q \in Requests \ {r} : Same(q)
      BY <1>6 DEF IInv, TypeOK, Same, SettleTokenFails
    <2> QED BY <2>1, <2>2, <2>3, StepKeeps
  <1> QED
    BY <1>1, <1>2, <1>3, <1>4, <1>5, <1>6 DEF Settle

\* Refund and its goroutine preserve the inductive invariant.
LEMMA RefundKeeps ==
    ASSUME IInv, NEW r \in Requests, Refund(r), "subSave" \notin Faults
    PROVE  IInv'
  <1>1. CASE FailRequest(r)
    <2>1. TypeOK'
      BY <1>1, ConstantsAssumption DEF IInv, TypeOK, PcValues, FailRequest, needsRefundLocked
    <2>2. RequestInv(r)'
      BY <1>1, ConstantsAssumption DEF IInv, TypeOK, RequestInv, DecidingInv, ServingInv,
         SettlingInv, FailingInv, TokenInv, Deciding, Failing, FailRequest, needsRefundLocked
    <2>3. \A q \in Requests \ {r} : Same(q)
      BY <1>1 DEF IInv, TypeOK, Same, FailRequest, needsRefundLocked
    <2> QED BY <2>1, <2>2, <2>3, StepKeeps
  <1>2. CASE PanicRequest(r)
    <2>1. TypeOK'
      BY <1>2, ConstantsAssumption DEF IInv, TypeOK, PcValues, PanicRequest
    <2>2. RequestInv(r)'
      BY <1>2, ConstantsAssumption DEF IInv, TypeOK, RequestInv, DecidingInv, ServingInv,
         SettlingInv, FailingInv, TokenInv, Deciding, Failing, PanicRequest
    <2>3. \A q \in Requests \ {r} : Same(q)
      BY <1>2 DEF IInv, TypeOK, Same, PanicRequest
    <2> QED BY <2>1, <2>2, <2>3, StepKeeps
  <1>3. CASE RefundWallet(r)
    <2>1. TypeOK'
      BY <1>3, ConstantsAssumption DEF IInv, TypeOK, PcValues, RefundWallet, MoveWallet
    <2>2. RequestInv(r)'
      BY <1>3, ConstantsAssumption DEF IInv, TypeOK, RequestInv, DecidingInv, ServingInv,
         SettlingInv, FailingInv, TokenInv, Deciding, Failing, RefundWallet, MoveWallet
    <2>3. \A q \in Requests \ {r} : Same(q)
      BY <1>3 DEF IInv, TypeOK, Same, RefundWallet, MoveWallet
    <2> QED BY <2>1, <2>2, <2>3, StepKeeps
  <1>4. CASE RefundWalletFails(r)
    <2>1. TypeOK'
      BY <1>4, ConstantsAssumption DEF IInv, TypeOK, PcValues, RefundWalletFails
    <2>2. RequestInv(r)'
      BY <1>4, ConstantsAssumption DEF IInv, TypeOK, RequestInv, DecidingInv, ServingInv,
         SettlingInv, FailingInv, TokenInv, Deciding, Failing, RefundWalletFails
    <2>3. \A q \in Requests \ {r} : Same(q)
      BY <1>4 DEF IInv, TypeOK, Same, RefundWalletFails
    <2> QED BY <2>1, <2>2, <2>3, StepKeeps
  <1>5. CASE RefundSubscription(r)
    <2>1. TypeOK'
      BY <1>5, ConstantsAssumption DEF IInv, TypeOK, PcValues, RefundSubscription, Max0
    <2>2. RequestInv(r)'
      BY <1>5, ConstantsAssumption DEF IInv, TypeOK, RequestInv, DecidingInv, ServingInv,
         SettlingInv, FailingInv, TokenInv, Deciding, Failing, RefundSubscription, Max0
    <2>3. \A q \in Requests \ {r} : Same(q)
      BY <1>5 DEF IInv, TypeOK, Same, RefundSubscription, Max0
    <2> QED BY <2>1, <2>2, <2>3, StepKeeps
  <1>6. CASE RefundSubscriptionFails(r)
    <2>1. TypeOK'
      BY <1>6, ConstantsAssumption DEF IInv, TypeOK, PcValues, RefundSubscriptionFails, Max0, AfterAttempt, MaxAttempts, RequestInv, FailingInv, Failing
    <2>2. RequestInv(r)'
      BY <1>6, ConstantsAssumption DEF IInv, TypeOK, RequestInv, DecidingInv, ServingInv,
         SettlingInv, FailingInv, TokenInv, Deciding, Failing, RefundSubscriptionFails, Max0, AfterAttempt, MaxAttempts
    <2>3. \A q \in Requests \ {r} : Same(q)
      BY <1>6 DEF IInv, TypeOK, Same, RefundSubscriptionFails, Max0, AfterAttempt, MaxAttempts
    <2> QED BY <2>1, <2>2, <2>3, StepKeeps
  <1>7. CASE RefundToken(r)
    <2>1. TypeOK'
      BY <1>7, ConstantsAssumption DEF IInv, TypeOK, PcValues, RefundToken, TokenBack
    <2>2. RequestInv(r)'
      BY <1>7, ConstantsAssumption DEF IInv, TypeOK, RequestInv, DecidingInv, ServingInv,
         SettlingInv, FailingInv, TokenInv, Deciding, Failing, RefundToken, TokenBack
    <2>3. \A q \in Requests \ {r} : Same(q)
      BY <1>7 DEF IInv, TypeOK, Same, RefundToken, TokenBack
    <2> QED BY <2>1, <2>2, <2>3, StepKeeps
  <1>8. CASE RefundTokenFails(r)
    <2>1. TypeOK'
      BY <1>8, ConstantsAssumption DEF IInv, TypeOK, PcValues, RefundTokenFails
    <2>2. RequestInv(r)'
      BY <1>8, ConstantsAssumption DEF IInv, TypeOK, RequestInv, DecidingInv, ServingInv,
         SettlingInv, FailingInv, TokenInv, Deciding, Failing, RefundTokenFails
    <2>3. \A q \in Requests \ {r} : Same(q)
      BY <1>8 DEF IInv, TypeOK, Same, RefundTokenFails
    <2> QED BY <2>1, <2>2, <2>3, StepKeeps
  <1> QED
    BY <1>1, <1>2, <1>3, <1>4, <1>5, <1>6, <1>7, <1>8 DEF Refund

\* The violation fee, which moves no part of the session's own account,
\* preserves the inductive invariant.
LEMMA ViolationFeeKeeps ==
    ASSUME IInv, NEW r \in Requests, ViolationFee(r), "subSave" \notin Faults
    PROVE  IInv'
  <1>1. CASE ChargeFee(r)
    <2>1. TypeOK'
      BY <1>1, ConstantsAssumption DEF IInv, TypeOK, PcValues, ChargeFee, MoveWallet
    <2>2. RequestInv(r)'
      BY <1>1, ConstantsAssumption DEF IInv, TypeOK, RequestInv, DecidingInv, ServingInv,
         SettlingInv, FailingInv, TokenInv, Deciding, Failing, ChargeFee, MoveWallet
    <2>3. \A q \in Requests \ {r} : Same(q)
      BY <1>1 DEF IInv, TypeOK, Same, ChargeFee, MoveWallet
    <2> QED BY <2>1, <2>2, <2>3, StepKeeps
  <1>2. CASE ChargeFeeFails(r)
    <2>1. TypeOK'
      BY <1>2, ConstantsAssumption DEF IInv, TypeOK, PcValues, ChargeFeeFails
    <2>2. RequestInv(r)'
      BY <1>2, ConstantsAssumption DEF IInv, TypeOK, RequestInv, DecidingInv, ServingInv,
         SettlingInv, FailingInv, TokenInv, Deciding, Failing, ChargeFeeFails
    <2>3. \A q \in Requests \ {r} : Same(q)
      BY <1>2 DEF IInv, TypeOK, Same, ChargeFeeFails
    <2> QED BY <2>1, <2>2, <2>3, StepKeeps
  <1>3. CASE ChargeFeeToken(r)
    <2>1. TypeOK'
      BY <1>3, ConstantsAssumption DEF IInv, TypeOK, PcValues, ChargeFeeToken
    <2>2. RequestInv(r)'
      BY <1>3, ConstantsAssumption DEF IInv, TypeOK, RequestInv, DecidingInv, ServingInv,
         SettlingInv, FailingInv, TokenInv, Deciding, Failing, ChargeFeeToken
    <2>3. \A q \in Requests \ {r} : Same(q)
      BY <1>3 DEF IInv, TypeOK, Same, ChargeFeeToken
    <2> QED BY <2>1, <2>2, <2>3, StepKeeps
  <1>4. CASE ChargeFeeTokenFails(r)
    <2>1. TypeOK'
      BY <1>4, ConstantsAssumption DEF IInv, TypeOK, PcValues, ChargeFeeTokenFails
    <2>2. RequestInv(r)'
      BY <1>4, ConstantsAssumption DEF IInv, TypeOK, RequestInv, DecidingInv, ServingInv,
         SettlingInv, FailingInv, TokenInv, Deciding, Failing, ChargeFeeTokenFails
    <2>3. \A q \in Requests \ {r} : Same(q)
      BY <1>4 DEF IInv, TypeOK, Same, ChargeFeeTokenFails
    <2> QED BY <2>1, <2>2, <2>3, StepKeeps
  <1> QED
    BY <1>1, <1>2, <1>3, <1>4 DEF ViolationFee

\* Initially no request holds anything.
LEMMA InitIInv == Init => IInv
  BY ConstantsAssumption
  DEF Init, IInv, TypeOK, PcValues, RequestInv, DecidingInv, ServingInv,
      SettlingInv, FailingInv, TokenInv, Deciding, Failing

\* Every step preserves the inductive invariant.
LEMMA NextIInv ==
    ASSUME IInv, [Next]_vars, "subSave" \notin Faults
    PROVE  IInv'
  <1>1. ASSUME NEW r \in Requests,
               PreConsume(r) \/ Settle(r) \/ Refund(r) \/ ViolationFee(r)
        PROVE  IInv'
    BY <1>1, PreConsumeKeeps, SettleKeeps, RefundKeeps, ViolationFeeKeeps
  <1>2. CASE SubscriptionEnds
    <2>1. TypeOK'
      BY <1>2 DEF IInv, TypeOK, SubscriptionEnds
    <2>2. \A q \in Requests : Same(q)
      BY <1>2 DEF Same, SubscriptionEnds
    <2> QED BY <2>1, <2>2, SameKeeps DEF IInv
  <1>3. CASE UNCHANGED vars
    <2>1. TypeOK'
      BY <1>3 DEF IInv, TypeOK, vars
    <2>2. \A q \in Requests : Same(q)
      BY <1>3 DEF Same, vars
    <2> QED BY <2>1, <2>2, SameKeeps DEF IInv
  <1> QED BY <1>1, <1>2, <1>3 DEF Next

\* The properties follow from the inductive invariant.
LEMMA IInvImplies ==
    ASSUME IInv
    PROVE  /\ TypeOK /\ SettledExact /\ FailedPaysNothing /\ NoOverRefund
           /\ ServingHoldsEstimate
  <1>1. SettledExact
    BY DEF IInv, TypeOK, RequestInv, SettlingInv, TokenInv, SettledExact
  <1>2. FailedPaysNothing
    BY DEF IInv, TypeOK, RequestInv, DecidingInv, FailingInv, TokenInv, Deciding,
           Failing, SettlingInv, FailedPaysNothing
  <1>3. NoOverRefund
    BY DEF IInv, TypeOK, RequestInv, DecidingInv, ServingInv, SettlingInv,
           FailingInv, TokenInv, Deciding, Failing, NoOverRefund, PcValues
  <1>4. ServingHoldsEstimate
    BY DEF IInv, TypeOK, RequestInv, ServingInv, TokenInv, ServingHoldsEstimate
  <1> QED BY <1>1, <1>2, <1>3, <1>4 DEF IInv

\* Type correctness of the billing session, with every kind of failing call
\* but the save after a nested commit.
THEOREM TypeCorrect ==
    ASSUME "subSave" \notin Faults
    PROVE  Spec => []TypeOK
  <1>1. Init => IInv
    BY InitIInv
  <1>2. IInv /\ [Next]_vars => IInv'
    BY NextIInv
  <1>3. IInv => TypeOK
    BY IInvImplies
  <1> QED BY <1>1, <1>2, <1>3, PTL DEF Spec

\* A settled request has paid exactly the metered quota (BillingSession.Settle),
\* for any number of concurrent requests and any failing calls.
THEOREM SettledExactThm ==
    ASSUME "subSave" \notin Faults
    PROVE  Spec => []SettledExact
  <1>1. Init => IInv
    BY InitIInv
  <1>2. IInv /\ [Next]_vars => IInv'
    BY NextIInv
  <1>3. IInv => SettledExact
    BY IInvImplies
  <1> QED BY <1>1, <1>2, <1>3, PTL DEF Spec

\* A rejected or failed request ends up paying nothing unless one of its own
\* store calls failed (preConsume's roll-back, the fall-backs, Refund).
THEOREM FailedPaysNothingThm ==
    ASSUME "subSave" \notin Faults
    PROVE  Spec => []FailedPaysNothing
  <1>1. Init => IInv
    BY InitIInv
  <1>2. IInv /\ [Next]_vars => IInv'
    BY NextIInv
  <1>3. IInv => FailedPaysNothing
    BY IInvImplies
  <1> QED BY <1>1, <1>2, <1>3, PTL DEF Spec

\* No request is ever given back more than it took, whatever calls fail.
THEOREM NoOverRefundThm ==
    ASSUME "subSave" \notin Faults
    PROVE  Spec => []NoOverRefund
  <1>1. Init => IInv
    BY InitIInv
  <1>2. IInv /\ [Next]_vars => IInv'
    BY NextIInv
  <1>3. IInv => NoOverRefund
    BY IInvImplies
  <1> QED BY <1>1, <1>2, <1>3, PTL DEF Spec

\* While it is served, a request holds the same amount at the token and at the
\* funding source, and a task holds its whole estimate.
THEOREM ServingHoldsEstimateThm ==
    ASSUME "subSave" \notin Faults
    PROVE  Spec => []ServingHoldsEstimate
  <1>1. Init => IInv
    BY InitIInv
  <1>2. IInv /\ [Next]_vars => IInv'
    BY NextIInv
  <1>3. IInv => ServingHoldsEstimate
    BY IInvImplies
  <1> QED BY <1>1, <1>2, <1>3, PTL DEF Spec

-----------------------------------------------------------------------------
(***************************************************************************)
(* The books: sums over the requests. A step of a request moves the        *)
(* wallet, the subscription and the token by what it adds to its own       *)
(* account (Moved), so that the sums follow (SumChange). The clamp at zero *)
(* of the subscription never bites because the sum covers every request's  *)
(* share (SumAtLeast).                                                     *)
(*                                                                         *)
(* For the overdraft, Due(r) is what the request takes or took after it    *)
(* checked the wallet: Covered says that the debt is at most the advances  *)
(* without it. It holds when the check is made, and no later step makes it *)
(* false: an advance adds as much to the advances as to the debt, and a    *)
(* settlement or a refund adds nothing to the debt.                        *)
(***************************************************************************)

Checking == {"checkToken", "takeToken", "takeFunding"}
Due(r) == IF source[r] = "wallet" /\ pc[r] \in Checking THEN effectiveQuota[r] ELSE Advance(r)

\* What is missing of the advance: given back, or never settled.
Short(r) == FromWallet(r) - Beyond(r) - Advance(r)

RequestBooks(r) ==
    /\ fee[r] \in Nat
    /\ pc[r] \in Deciding => fee[r] = 0 /\ preConsumedQuota[r] = 0
OwnBooks == \A r \in Requests : RequestBooks(r)

Covered == Debt <= Advances /\ \A r \in Requests : Debt <= Advances - Due(r)

\* The effect of a step of r on its own account and on the store.
Moved(r) ==
    /\ wallet' = wallet - (FromWallet(r)' - FromWallet(r))
    /\ subUsed' = subUsed + (FromSubscription(r)' - FromSubscription(r))
    /\ token' = token - (FromToken(r)' - FromToken(r))
    /\ Short(r)' <= Short(r)
    /\ Due(r)' <= Due(r) \/ (wallet' = wallet /\ Due(r)' <= wallet)

\* The accounts of the other requests are left alone.
Apart(q) ==
    /\ pc'[q] = pc[q] /\ source'[q] = source[q]
    /\ effectiveQuota'[q] = effectiveQuota[q] /\ preConsumedQuota'[q] = preConsumedQuota[q]
    /\ paid'[q] = paid[q] /\ fee'[q] = fee[q]
    /\ paidToken'[q] = paidToken[q] /\ feeToken'[q] = feeToken[q]

MovesOnly(r) == Moved(r) /\ RequestBooks(r)' /\ \A q \in Requests \ {r} : Apart(q)

\* The accounts are integers, and those of the funding sources are not negative.
AccountTyped(r) ==
    /\ FromWallet(r) \in Nat /\ FromSubscription(r) \in Nat /\ FromToken(r) \in Int
    /\ Advance(r) \in Nat /\ Beyond(r) \in Nat /\ Due(r) \in Nat
    /\ paid[r] >= 0
AccountsTyped == \A r \in Requests : AccountTyped(r)

LEMMA AccountTypes == IInv /\ OwnBooks => AccountsTyped
  <1> SUFFICES ASSUME IInv, OwnBooks, NEW r \in Requests PROVE AccountTyped(r)
    BY DEF AccountsTyped
  <1>1. paid[r] >= 0 /\ paid[r] \in Int /\ fee[r] \in Nat
    BY IInvImplies DEF NoOverRefund, TypeOK, OwnBooks, RequestBooks
  <1> QED BY <1>1 DEF IInv, TypeOK, AccountTyped, FromWallet, FromSubscription, FromToken,
                      Advance, Beyond, Due, Max0

\* amount_used covers the share of every request.
LEMMA SubscriptionCoversEach ==
    ASSUME IInv, OwnBooks, BooksBalance, NEW r \in Requests
    PROVE  subUsed >= FromSubscription(r) /\ paid[r] >= 0
  <1> DEFINE f == [q \in Requests |-> FromSubscription(q)]
  <1>1. \A q \in Requests : f[q] \in Nat
    BY AccountTypes DEF AccountsTyped, AccountTyped
  <1>2. f[r] <= SumOf(f, Requests)
    BY <1>1, ConstantsAssumption, SumAtLeast
  <1>3. subUsed = SumOf(f, Requests) /\ f[r] = FromSubscription(r)
    BY DEF BooksBalance
  <1> HIDE DEF f
  <1>4. SumOf(f, Requests) \in Nat /\ f[r] \in Nat
    BY <1>1, ConstantsAssumption, SumAtLeast
  <1> QED BY <1>2, <1>3, <1>4, AccountTypes DEF AccountsTyped, AccountTyped

\* NewBillingSession and preConsume: the store moves with the session.
LEMMA PreConsumeMoves ==
    ASSUME IInv, OwnBooks, BooksBalance, NEW r \in Requests, PreConsume(r), "subSave" \notin Faults
    PROVE  MovesOnly(r)
  <1>0. fee[r] \in Nat /\ subUsed >= FromSubscription(r) /\ paid[r] >= 0
    BY SubscriptionCoversEach DEF OwnBooks, RequestBooks
  <1>1. CASE NewBillingSession(r)
    <2>1. Moved(r)
      BY <1>0, <1>1, ConstantsAssumption DEF IInv, TypeOK, OwnBooks, RequestBooks, Moved,
         FromWallet, FromSubscription, FromToken, Short, Advance, Beyond, Due, Max0, Checking,
         RequestInv, DecidingInv, ServingInv, FailingInv, Deciding, Failing, NewBillingSession
    <2>2. RequestBooks(r)'
      BY <1>1, ConstantsAssumption DEF IInv, TypeOK, OwnBooks, RequestBooks, RequestInv,
         DecidingInv, Deciding, NewBillingSession
    <2>3. \A q \in Requests \ {r} : Apart(q)
      BY <1>1 DEF IInv, TypeOK, Apart, NewBillingSession
    <2> QED BY <2>1, <2>2, <2>3 DEF MovesOnly
  <1>2. CASE TryWallet(r)
    <2>1. Moved(r)
      BY <1>0, <1>2, ConstantsAssumption DEF IInv, TypeOK, OwnBooks, RequestBooks, Moved,
         FromWallet, FromSubscription, FromToken, Short, Advance, Beyond, Due, Max0, Checking,
         RequestInv, DecidingInv, ServingInv, FailingInv, Deciding, Failing, TryWallet, shouldTrust, Insufficient
    <2>2. RequestBooks(r)'
      BY <1>2, ConstantsAssumption DEF IInv, TypeOK, OwnBooks, RequestBooks, RequestInv,
         DecidingInv, Deciding, TryWallet, shouldTrust, Insufficient
    <2>3. \A q \in Requests \ {r} : Apart(q)
      BY <1>2 DEF IInv, TypeOK, Apart, TryWallet, shouldTrust, Insufficient
    <2> QED BY <2>1, <2>2, <2>3 DEF MovesOnly
  <1>3. CASE TryWalletInsufficient(r)
    <2>1. Moved(r)
      BY <1>0, <1>3, ConstantsAssumption DEF IInv, TypeOK, OwnBooks, RequestBooks, Moved,
         FromWallet, FromSubscription, FromToken, Short, Advance, Beyond, Due, Max0, Checking,
         RequestInv, DecidingInv, ServingInv, FailingInv, Deciding, Failing, TryWalletInsufficient
    <2>2. RequestBooks(r)'
      BY <1>3, ConstantsAssumption DEF IInv, TypeOK, OwnBooks, RequestBooks, RequestInv,
         DecidingInv, Deciding, TryWalletInsufficient
    <2>3. \A q \in Requests \ {r} : Apart(q)
      BY <1>3 DEF IInv, TypeOK, Apart, TryWalletInsufficient
    <2> QED BY <2>1, <2>2, <2>3 DEF MovesOnly
  <1>4. CASE TrySubscription(r)
    <2>1. Moved(r)
      BY <1>0, <1>4, ConstantsAssumption DEF IInv, TypeOK, OwnBooks, RequestBooks, Moved,
         FromWallet, FromSubscription, FromToken, Short, Advance, Beyond, Due, Max0, Checking,
         RequestInv, DecidingInv, ServingInv, FailingInv, Deciding, Failing, TrySubscription
    <2>2. RequestBooks(r)'
      BY <1>4, ConstantsAssumption DEF IInv, TypeOK, OwnBooks, RequestBooks, RequestInv,
         DecidingInv, Deciding, TrySubscription
    <2>3. \A q \in Requests \ {r} : Apart(q)
      BY <1>4 DEF IInv, TypeOK, Apart, TrySubscription
    <2> QED BY <2>1, <2>2, <2>3 DEF MovesOnly
  <1>5. CASE CheckToken(r)
    <2>1. Moved(r)
      BY <1>0, <1>5, ConstantsAssumption DEF IInv, TypeOK, OwnBooks, RequestBooks, Moved,
         FromWallet, FromSubscription, FromToken, Short, Advance, Beyond, Due, Max0, Checking,
         RequestInv, DecidingInv, ServingInv, FailingInv, Deciding, Failing, CheckToken
    <2>2. RequestBooks(r)'
      BY <1>5, ConstantsAssumption DEF IInv, TypeOK, OwnBooks, RequestBooks, RequestInv,
         DecidingInv, Deciding, CheckToken
    <2>3. \A q \in Requests \ {r} : Apart(q)
      BY <1>5 DEF IInv, TypeOK, Apart, CheckToken
    <2> QED BY <2>1, <2>2, <2>3 DEF MovesOnly
  <1>6. CASE TakeToken(r)
    <2>1. Moved(r)
      BY <1>0, <1>6, ConstantsAssumption DEF IInv, TypeOK, OwnBooks, RequestBooks, Moved,
         FromWallet, FromSubscription, FromToken, Short, Advance, Beyond, Due, Max0, Checking,
         RequestInv, DecidingInv, ServingInv, FailingInv, Deciding, Failing, TakeToken
    <2>2. RequestBooks(r)'
      BY <1>6, ConstantsAssumption DEF IInv, TypeOK, OwnBooks, RequestBooks, RequestInv,
         DecidingInv, Deciding, TakeToken
    <2>3. \A q \in Requests \ {r} : Apart(q)
      BY <1>6 DEF IInv, TypeOK, Apart, TakeToken
    <2> QED BY <2>1, <2>2, <2>3 DEF MovesOnly
  <1>7. CASE TakeTokenFails(r)
    <2>1. Moved(r)
      BY <1>0, <1>7, ConstantsAssumption DEF IInv, TypeOK, OwnBooks, RequestBooks, Moved,
         FromWallet, FromSubscription, FromToken, Short, Advance, Beyond, Due, Max0, Checking,
         RequestInv, DecidingInv, ServingInv, FailingInv, Deciding, Failing, TakeTokenFails
    <2>2. RequestBooks(r)'
      BY <1>7, ConstantsAssumption DEF IInv, TypeOK, OwnBooks, RequestBooks, RequestInv,
         DecidingInv, Deciding, TakeTokenFails
    <2>3. \A q \in Requests \ {r} : Apart(q)
      BY <1>7 DEF IInv, TypeOK, Apart, TakeTokenFails
    <2> QED BY <2>1, <2>2, <2>3 DEF MovesOnly
  <1>8. CASE TakeWallet(r)
    <2>1. Moved(r)
      BY <1>0, <1>8, ConstantsAssumption DEF IInv, TypeOK, OwnBooks, RequestBooks, Moved,
         FromWallet, FromSubscription, FromToken, Short, Advance, Beyond, Due, Max0, Checking,
         RequestInv, DecidingInv, ServingInv, FailingInv, Deciding, Failing, TakeWallet, MoveWallet
    <2>2. RequestBooks(r)'
      BY <1>8, ConstantsAssumption DEF IInv, TypeOK, OwnBooks, RequestBooks, RequestInv,
         DecidingInv, Deciding, TakeWallet, MoveWallet
    <2>3. \A q \in Requests \ {r} : Apart(q)
      BY <1>8 DEF IInv, TypeOK, Apart, TakeWallet, MoveWallet
    <2> QED BY <2>1, <2>2, <2>3 DEF MovesOnly
  <1>9. CASE TakeSubscription(r)
    <2>1. Moved(r)
      BY <1>0, <1>9, ConstantsAssumption DEF IInv, TypeOK, OwnBooks, RequestBooks, Moved,
         FromWallet, FromSubscription, FromToken, Short, Advance, Beyond, Due, Max0, Checking,
         RequestInv, DecidingInv, ServingInv, FailingInv, Deciding, Failing, TakeSubscription
    <2>2. RequestBooks(r)'
      BY <1>9, ConstantsAssumption DEF IInv, TypeOK, OwnBooks, RequestBooks, RequestInv,
         DecidingInv, Deciding, TakeSubscription
    <2>3. \A q \in Requests \ {r} : Apart(q)
      BY <1>9 DEF IInv, TypeOK, Apart, TakeSubscription
    <2> QED BY <2>1, <2>2, <2>3 DEF MovesOnly
  <1>10. CASE TakeSubscriptionInsufficient(r)
    <2>1. Moved(r)
      BY <1>0, <1>10, ConstantsAssumption DEF IInv, TypeOK, OwnBooks, RequestBooks, Moved,
         FromWallet, FromSubscription, FromToken, Short, Advance, Beyond, Due, Max0, Checking,
         RequestInv, DecidingInv, ServingInv, FailingInv, Deciding, Failing, TakeSubscriptionInsufficient
    <2>2. RequestBooks(r)'
      BY <1>10, ConstantsAssumption DEF IInv, TypeOK, OwnBooks, RequestBooks, RequestInv,
         DecidingInv, Deciding, TakeSubscriptionInsufficient
    <2>3. \A q \in Requests \ {r} : Apart(q)
      BY <1>10 DEF IInv, TypeOK, Apart, TakeSubscriptionInsufficient
    <2> QED BY <2>1, <2>2, <2>3 DEF MovesOnly
  <1>11. CASE TakeFundingFails(r)
    <2>1. Moved(r)
      BY <1>0, <1>11, ConstantsAssumption DEF IInv, TypeOK, OwnBooks, RequestBooks, Moved,
         FromWallet, FromSubscription, FromToken, Short, Advance, Beyond, Due, Max0, Checking,
         RequestInv, DecidingInv, ServingInv, FailingInv, Deciding, Failing, TakeFundingFails
    <2>2. RequestBooks(r)'
      BY <1>11, ConstantsAssumption DEF IInv, TypeOK, OwnBooks, RequestBooks, RequestInv,
         DecidingInv, Deciding, TakeFundingFails
    <2>3. \A q \in Requests \ {r} : Apart(q)
      BY <1>11 DEF IInv, TypeOK, Apart, TakeFundingFails
    <2> QED BY <2>1, <2>2, <2>3 DEF MovesOnly
  <1>12. CASE Rollback(r)
    <2>1. Moved(r)
      <3>1. /\ wallet' = wallet /\ subUsed' = subUsed /\ source' = source /\ paid' = paid /\ fee' = fee
            /\ preConsumedQuota' = preConsumedQuota /\ feeToken' = feeToken
        BY <1>12 DEF Rollback
      <3>2. token' = token + TokenBack(r) /\ paidToken'[r] = paidToken[r] - TokenBack(r)
            /\ TokenBack(r) \in Int /\ feeToken[r] \in Int /\ paidToken[r] \in Int /\ token \in Int
        BY <1>12 DEF Rollback, TokenBack, IInv, TypeOK
      <3>3. token' = token - (FromToken(r)' - FromToken(r))
        BY <3>1, <3>2 DEF FromToken
      <3>4. FromWallet(r)' = FromWallet(r) /\ FromSubscription(r)' = FromSubscription(r)
            /\ Short(r)' = Short(r) /\ Advance(r)' = Advance(r)
        BY <3>1 DEF FromWallet, FromSubscription, Short, Advance, Beyond
      <3>5. Due(r)' = Due(r)
        BY <1>12, <3>4 DEF Due, Checking, Rollback, AfterRollback, IInv, TypeOK
      <3>6. AccountTyped(r)
        BY AccountTypes DEF AccountsTyped
      <3> QED BY <3>1, <3>3, <3>4, <3>5, <3>6 DEF Moved, AccountTyped, Short, IInv, TypeOK
    <2>2. RequestBooks(r)'
      BY <1>12, ConstantsAssumption DEF IInv, TypeOK, OwnBooks, RequestBooks, RequestInv,
         DecidingInv, Deciding, Rollback, AfterRollback, TokenBack, DropSession
    <2>3. \A q \in Requests \ {r} : Apart(q)
      BY <1>12 DEF IInv, TypeOK, Apart, Rollback, AfterRollback, TokenBack, DropSession
    <2> QED BY <2>1, <2>2, <2>3 DEF MovesOnly
  <1>13. CASE RollbackFails(r)
    <2>1. Moved(r)
      BY <1>0, <1>13, ConstantsAssumption DEF IInv, TypeOK, OwnBooks, RequestBooks, Moved,
         FromWallet, FromSubscription, FromToken, Short, Advance, Beyond, Due, Max0, Checking,
         RequestInv, DecidingInv, ServingInv, FailingInv, Deciding, Failing, RollbackFails, AfterRollback, DropSession
    <2>2. RequestBooks(r)'
      BY <1>13, ConstantsAssumption DEF IInv, TypeOK, OwnBooks, RequestBooks, RequestInv,
         DecidingInv, Deciding, RollbackFails, AfterRollback, DropSession
    <2>3. \A q \in Requests \ {r} : Apart(q)
      BY <1>13 DEF IInv, TypeOK, Apart, RollbackFails, AfterRollback, DropSession
    <2> QED BY <2>1, <2>2, <2>3 DEF MovesOnly
  <1> QED
    BY <1>1, <1>2, <1>3, <1>4, <1>5, <1>6, <1>7, <1>8, <1>9, <1>10, <1>11, <1>12, <1>13 DEF PreConsume

\* Settle: the store moves with the session.
LEMMA SettleMoves ==
    ASSUME IInv, OwnBooks, BooksBalance, NEW r \in Requests, Settle(r), "subSave" \notin Faults
    PROVE  MovesOnly(r)
  <1>0. fee[r] \in Nat /\ subUsed >= FromSubscription(r) /\ paid[r] >= 0
    BY SubscriptionCoversEach DEF OwnBooks, RequestBooks
  <1>1. CASE SettleEqual(r)
    <2>1. Moved(r)
      BY <1>0, <1>1, ConstantsAssumption DEF IInv, TypeOK, OwnBooks, RequestBooks, Moved,
         FromWallet, FromSubscription, FromToken, Short, Advance, Beyond, Due, Max0, Checking,
         RequestInv, DecidingInv, ServingInv, FailingInv, Deciding, Failing, SettleEqual
    <2>2. RequestBooks(r)'
      BY <1>1, ConstantsAssumption DEF IInv, TypeOK, OwnBooks, RequestBooks, RequestInv,
         DecidingInv, Deciding, SettleEqual
    <2>3. \A q \in Requests \ {r} : Apart(q)
      BY <1>1 DEF IInv, TypeOK, Apart, SettleEqual
    <2> QED BY <2>1, <2>2, <2>3 DEF MovesOnly
  <1>2. ASSUME NEW a \in Actuals, SettleWallet(r, a) PROVE MovesOnly(r)
    <2>1. Moved(r)
      BY <1>0, <1>2, ConstantsAssumption DEF IInv, TypeOK, OwnBooks, RequestBooks, Moved,
         FromWallet, FromSubscription, FromToken, Short, Advance, Beyond, Due, Max0, Checking,
         RequestInv, DecidingInv, ServingInv, FailingInv, Deciding, Failing, SettleWallet, MoveWallet
    <2>2. RequestBooks(r)'
      BY <1>2, ConstantsAssumption DEF IInv, TypeOK, OwnBooks, RequestBooks, RequestInv,
         DecidingInv, Deciding, SettleWallet, MoveWallet
    <2>3. \A q \in Requests \ {r} : Apart(q)
      BY <1>2 DEF IInv, TypeOK, Apart, SettleWallet, MoveWallet
    <2> QED BY <2>1, <2>2, <2>3 DEF MovesOnly
  <1>3. ASSUME NEW a \in Actuals, SettleSubscription(r, a) PROVE MovesOnly(r)
    <2>1. Moved(r)
      BY <1>0, <1>3, ConstantsAssumption DEF IInv, TypeOK, OwnBooks, RequestBooks, Moved,
         FromWallet, FromSubscription, FromToken, Short, Advance, Beyond, Due, Max0, Checking,
         RequestInv, DecidingInv, ServingInv, FailingInv, Deciding, Failing, SettleSubscription
    <2>2. RequestBooks(r)'
      BY <1>3, ConstantsAssumption DEF IInv, TypeOK, OwnBooks, RequestBooks, RequestInv,
         DecidingInv, Deciding, SettleSubscription, Max0
    <2>3. \A q \in Requests \ {r} : Apart(q)
      BY <1>3 DEF IInv, TypeOK, Apart, SettleSubscription, Max0
    <2> QED BY <2>1, <2>2, <2>3 DEF MovesOnly
  <1>4. ASSUME NEW a \in Actuals, SettleFails(r, a) PROVE MovesOnly(r)
    <2>1. Moved(r)
      BY <1>0, <1>4, ConstantsAssumption DEF IInv, TypeOK, OwnBooks, RequestBooks, Moved,
         FromWallet, FromSubscription, FromToken, Short, Advance, Beyond, Due, Max0, Checking,
         RequestInv, DecidingInv, ServingInv, FailingInv, Deciding, Failing, SettleFails
    <2>2. RequestBooks(r)'
      BY <1>4, ConstantsAssumption DEF IInv, TypeOK, OwnBooks, RequestBooks, RequestInv,
         DecidingInv, Deciding, SettleFails
    <2>3. \A q \in Requests \ {r} : Apart(q)
      BY <1>4 DEF IInv, TypeOK, Apart, SettleFails
    <2> QED BY <2>1, <2>2, <2>3 DEF MovesOnly
  <1>5. CASE SettleToken(r)
    <2>1. Moved(r)
      BY <1>0, <1>5, ConstantsAssumption DEF IInv, TypeOK, OwnBooks, RequestBooks, Moved,
         FromWallet, FromSubscription, FromToken, Short, Advance, Beyond, Due, Max0, Checking,
         RequestInv, DecidingInv, ServingInv, FailingInv, Deciding, Failing, SettleToken, Delta
    <2>2. RequestBooks(r)'
      BY <1>5, ConstantsAssumption DEF IInv, TypeOK, OwnBooks, RequestBooks, RequestInv,
         DecidingInv, Deciding, SettleToken, Delta
    <2>3. \A q \in Requests \ {r} : Apart(q)
      BY <1>5 DEF IInv, TypeOK, Apart, SettleToken, Delta
    <2> QED BY <2>1, <2>2, <2>3 DEF MovesOnly
  <1>6. CASE SettleTokenFails(r)
    <2>1. Moved(r)
      BY <1>0, <1>6, ConstantsAssumption DEF IInv, TypeOK, OwnBooks, RequestBooks, Moved,
         FromWallet, FromSubscription, FromToken, Short, Advance, Beyond, Due, Max0, Checking,
         RequestInv, DecidingInv, ServingInv, FailingInv, Deciding, Failing, SettleTokenFails
    <2>2. RequestBooks(r)'
      BY <1>6, ConstantsAssumption DEF IInv, TypeOK, OwnBooks, RequestBooks, RequestInv,
         DecidingInv, Deciding, SettleTokenFails
    <2>3. \A q \in Requests \ {r} : Apart(q)
      BY <1>6 DEF IInv, TypeOK, Apart, SettleTokenFails
    <2> QED BY <2>1, <2>2, <2>3 DEF MovesOnly
  <1> QED
    BY <1>1, <1>2, <1>3, <1>4, <1>5, <1>6 DEF Settle

\* Refund and its goroutine: the store moves with the session.
LEMMA RefundMoves ==
    ASSUME IInv, OwnBooks, BooksBalance, NEW r \in Requests, Refund(r), "subSave" \notin Faults
    PROVE  MovesOnly(r)
  <1>0. fee[r] \in Nat /\ subUsed >= FromSubscription(r) /\ paid[r] >= 0
    BY SubscriptionCoversEach DEF OwnBooks, RequestBooks
  <1>1. CASE FailRequest(r)
    <2>1. Moved(r)
      BY <1>0, <1>1, ConstantsAssumption DEF IInv, TypeOK, OwnBooks, RequestBooks, Moved,
         FromWallet, FromSubscription, FromToken, Short, Advance, Beyond, Due, Max0, Checking,
         RequestInv, DecidingInv, ServingInv, FailingInv, Deciding, Failing, FailRequest, needsRefundLocked
    <2>2. RequestBooks(r)'
      BY <1>1, ConstantsAssumption DEF IInv, TypeOK, OwnBooks, RequestBooks, RequestInv,
         DecidingInv, Deciding, FailRequest, needsRefundLocked
    <2>3. \A q \in Requests \ {r} : Apart(q)
      BY <1>1 DEF IInv, TypeOK, Apart, FailRequest, needsRefundLocked
    <2> QED BY <2>1, <2>2, <2>3 DEF MovesOnly
  <1>2. CASE PanicRequest(r)
    <2>1. Moved(r)
      BY <1>0, <1>2, ConstantsAssumption DEF IInv, TypeOK, OwnBooks, RequestBooks, Moved,
         FromWallet, FromSubscription, FromToken, Short, Advance, Beyond, Due, Max0, Checking,
         RequestInv, DecidingInv, ServingInv, FailingInv, Deciding, Failing, PanicRequest
    <2>2. RequestBooks(r)'
      BY <1>2, ConstantsAssumption DEF IInv, TypeOK, OwnBooks, RequestBooks, RequestInv,
         DecidingInv, Deciding, PanicRequest
    <2>3. \A q \in Requests \ {r} : Apart(q)
      BY <1>2 DEF IInv, TypeOK, Apart, PanicRequest
    <2> QED BY <2>1, <2>2, <2>3 DEF MovesOnly
  <1>3. CASE RefundWallet(r)
    <2>1. Moved(r)
      BY <1>0, <1>3, ConstantsAssumption DEF IInv, TypeOK, OwnBooks, RequestBooks, Moved,
         FromWallet, FromSubscription, FromToken, Short, Advance, Beyond, Due, Max0, Checking,
         RequestInv, DecidingInv, ServingInv, FailingInv, Deciding, Failing, RefundWallet, MoveWallet
    <2>2. RequestBooks(r)'
      BY <1>3, ConstantsAssumption DEF IInv, TypeOK, OwnBooks, RequestBooks, RequestInv,
         DecidingInv, Deciding, RefundWallet, MoveWallet
    <2>3. \A q \in Requests \ {r} : Apart(q)
      BY <1>3 DEF IInv, TypeOK, Apart, RefundWallet, MoveWallet
    <2> QED BY <2>1, <2>2, <2>3 DEF MovesOnly
  <1>4. CASE RefundWalletFails(r)
    <2>1. Moved(r)
      BY <1>0, <1>4, ConstantsAssumption DEF IInv, TypeOK, OwnBooks, RequestBooks, Moved,
         FromWallet, FromSubscription, FromToken, Short, Advance, Beyond, Due, Max0, Checking,
         RequestInv, DecidingInv, ServingInv, FailingInv, Deciding, Failing, RefundWalletFails
    <2>2. RequestBooks(r)'
      BY <1>4, ConstantsAssumption DEF IInv, TypeOK, OwnBooks, RequestBooks, RequestInv,
         DecidingInv, Deciding, RefundWalletFails
    <2>3. \A q \in Requests \ {r} : Apart(q)
      BY <1>4 DEF IInv, TypeOK, Apart, RefundWalletFails
    <2> QED BY <2>1, <2>2, <2>3 DEF MovesOnly
  <1>5. CASE RefundSubscription(r)
    <2>1. Moved(r)
      BY <1>0, <1>5, ConstantsAssumption DEF IInv, TypeOK, OwnBooks, RequestBooks, Moved,
         FromWallet, FromSubscription, FromToken, Short, Advance, Beyond, Due, Max0, Checking,
         RequestInv, DecidingInv, ServingInv, FailingInv, Deciding, Failing, RefundSubscription
    <2>2. RequestBooks(r)'
      BY <1>5, ConstantsAssumption DEF IInv, TypeOK, OwnBooks, RequestBooks, RequestInv,
         DecidingInv, Deciding, RefundSubscription, Max0
    <2>3. \A q \in Requests \ {r} : Apart(q)
      BY <1>5 DEF IInv, TypeOK, Apart, RefundSubscription, Max0
    <2> QED BY <2>1, <2>2, <2>3 DEF MovesOnly
  <1>6. CASE RefundSubscriptionFails(r)
    <2>1. Moved(r)
      BY <1>0, <1>6, ConstantsAssumption DEF IInv, TypeOK, OwnBooks, RequestBooks, Moved,
         FromWallet, FromSubscription, FromToken, Short, Advance, Beyond, Due, Max0, Checking,
         RequestInv, DecidingInv, ServingInv, FailingInv, Deciding, Failing, RefundSubscriptionFails, AfterAttempt, MaxAttempts
    <2>2. RequestBooks(r)'
      BY <1>6, ConstantsAssumption DEF IInv, TypeOK, OwnBooks, RequestBooks, RequestInv,
         DecidingInv, Deciding, RefundSubscriptionFails, Max0, AfterAttempt, MaxAttempts
    <2>3. \A q \in Requests \ {r} : Apart(q)
      BY <1>6 DEF IInv, TypeOK, Apart, RefundSubscriptionFails, Max0, AfterAttempt, MaxAttempts
    <2> QED BY <2>1, <2>2, <2>3 DEF MovesOnly
  <1>7. CASE RefundToken(r)
    <2>1. Moved(r)
      BY <1>0, <1>7, ConstantsAssumption DEF IInv, TypeOK, OwnBooks, RequestBooks, Moved,
         FromWallet, FromSubscription, FromToken, Short, Advance, Beyond, Due, Max0, Checking,
         RequestInv, DecidingInv, ServingInv, FailingInv, Deciding, Failing, RefundToken, TokenBack
    <2>2. RequestBooks(r)'
      BY <1>7, ConstantsAssumption DEF IInv, TypeOK, OwnBooks, RequestBooks, RequestInv,
         DecidingInv, Deciding, RefundToken, TokenBack
    <2>3. \A q \in Requests \ {r} : Apart(q)
      BY <1>7 DEF IInv, TypeOK, Apart, RefundToken, TokenBack
    <2> QED BY <2>1, <2>2, <2>3 DEF MovesOnly
  <1>8. CASE RefundTokenFails(r)
    <2>1. Moved(r)
      BY <1>0, <1>8, ConstantsAssumption DEF IInv, TypeOK, OwnBooks, RequestBooks, Moved,
         FromWallet, FromSubscription, FromToken, Short, Advance, Beyond, Due, Max0, Checking,
         RequestInv, DecidingInv, ServingInv, FailingInv, Deciding, Failing, RefundTokenFails
    <2>2. RequestBooks(r)'
      BY <1>8, ConstantsAssumption DEF IInv, TypeOK, OwnBooks, RequestBooks, RequestInv,
         DecidingInv, Deciding, RefundTokenFails
    <2>3. \A q \in Requests \ {r} : Apart(q)
      BY <1>8 DEF IInv, TypeOK, Apart, RefundTokenFails
    <2> QED BY <2>1, <2>2, <2>3 DEF MovesOnly
  <1> QED
    BY <1>1, <1>2, <1>3, <1>4, <1>5, <1>6, <1>7, <1>8 DEF Refund

\* The violation fee: the store moves with the session.
LEMMA ViolationFeeMoves ==
    ASSUME IInv, OwnBooks, BooksBalance, NEW r \in Requests, ViolationFee(r), "subSave" \notin Faults
    PROVE  MovesOnly(r)
  <1>0. fee[r] \in Nat /\ subUsed >= FromSubscription(r) /\ paid[r] >= 0
    BY SubscriptionCoversEach DEF OwnBooks, RequestBooks
  <1>1. CASE ChargeFee(r)
    <2>1. Moved(r)
      BY <1>0, <1>1, ConstantsAssumption DEF IInv, TypeOK, OwnBooks, RequestBooks, Moved,
         FromWallet, FromSubscription, FromToken, Short, Advance, Beyond, Due, Max0, Checking,
         RequestInv, DecidingInv, ServingInv, FailingInv, Deciding, Failing, ChargeFee, MoveWallet
    <2>2. RequestBooks(r)'
      BY <1>1, ConstantsAssumption DEF IInv, TypeOK, OwnBooks, RequestBooks, RequestInv,
         DecidingInv, Deciding, ChargeFee, MoveWallet
    <2>3. \A q \in Requests \ {r} : Apart(q)
      BY <1>1 DEF IInv, TypeOK, Apart, ChargeFee, MoveWallet
    <2> QED BY <2>1, <2>2, <2>3 DEF MovesOnly
  <1>2. CASE ChargeFeeFails(r)
    <2>1. Moved(r)
      BY <1>0, <1>2, ConstantsAssumption DEF IInv, TypeOK, OwnBooks, RequestBooks, Moved,
         FromWallet, FromSubscription, FromToken, Short, Advance, Beyond, Due, Max0, Checking,
         RequestInv, DecidingInv, ServingInv, FailingInv, Deciding, Failing, ChargeFeeFails
    <2>2. RequestBooks(r)'
      BY <1>2, ConstantsAssumption DEF IInv, TypeOK, OwnBooks, RequestBooks, RequestInv,
         DecidingInv, Deciding, ChargeFeeFails
    <2>3. \A q \in Requests \ {r} : Apart(q)
      BY <1>2 DEF IInv, TypeOK, Apart, ChargeFeeFails
    <2> QED BY <2>1, <2>2, <2>3 DEF MovesOnly
  <1>3. CASE ChargeFeeToken(r)
    <2>1. Moved(r)
      BY <1>0, <1>3, ConstantsAssumption DEF IInv, TypeOK, OwnBooks, RequestBooks, Moved,
         FromWallet, FromSubscription, FromToken, Short, Advance, Beyond, Due, Max0, Checking,
         RequestInv, DecidingInv, ServingInv, FailingInv, Deciding, Failing, ChargeFeeToken
    <2>2. RequestBooks(r)'
      BY <1>3, ConstantsAssumption DEF IInv, TypeOK, OwnBooks, RequestBooks, RequestInv,
         DecidingInv, Deciding, ChargeFeeToken
    <2>3. \A q \in Requests \ {r} : Apart(q)
      BY <1>3 DEF IInv, TypeOK, Apart, ChargeFeeToken
    <2> QED BY <2>1, <2>2, <2>3 DEF MovesOnly
  <1>4. CASE ChargeFeeTokenFails(r)
    <2>1. Moved(r)
      BY <1>0, <1>4, ConstantsAssumption DEF IInv, TypeOK, OwnBooks, RequestBooks, Moved,
         FromWallet, FromSubscription, FromToken, Short, Advance, Beyond, Due, Max0, Checking,
         RequestInv, DecidingInv, ServingInv, FailingInv, Deciding, Failing, ChargeFeeTokenFails
    <2>2. RequestBooks(r)'
      BY <1>4, ConstantsAssumption DEF IInv, TypeOK, OwnBooks, RequestBooks, RequestInv,
         DecidingInv, Deciding, ChargeFeeTokenFails
    <2>3. \A q \in Requests \ {r} : Apart(q)
      BY <1>4 DEF IInv, TypeOK, Apart, ChargeFeeTokenFails
    <2> QED BY <2>1, <2>2, <2>3 DEF MovesOnly
  <1> QED
    BY <1>1, <1>2, <1>3, <1>4 DEF ViolationFee

\* A step of one request moves a sum by what its own term does.
LEMMA SumsMove ==
    ASSUME IInv, OwnBooks, IInv', OwnBooks', NEW r \in Requests,
           \A q \in Requests \ {r} : Apart(q)
    PROVE  /\ SumOf([q \in Requests |-> FromWallet(q)], Requests)'
                = SumOf([q \in Requests |-> FromWallet(q)], Requests) - FromWallet(r) + FromWallet(r)'
           /\ SumOf([q \in Requests |-> FromSubscription(q)], Requests)'
                = SumOf([q \in Requests |-> FromSubscription(q)], Requests)
                    - FromSubscription(r) + FromSubscription(r)'
           /\ SumOf([q \in Requests |-> FromToken(q)], Requests)'
                = SumOf([q \in Requests |-> FromToken(q)], Requests) - FromToken(r) + FromToken(r)'
           /\ SumOf([q \in Requests |-> Beyond(q)], Requests)'
                = SumOf([q \in Requests |-> Beyond(q)], Requests) - Beyond(r) + Beyond(r)'
           /\ Advances' = Advances - Advance(r) + Advance(r)'
           /\ \A q \in Requests \ {r} : Due(q)' = Due(q)
  <1>0. \A q \in Requests : /\ FromWallet(q) \in Int /\ FromSubscription(q) \in Int
                            /\ FromToken(q) \in Int /\ Advance(q) \in Int /\ Beyond(q) \in Int
    BY AccountTypes DEF AccountsTyped, AccountTyped
  <1>1. \A q \in Requests : /\ FromWallet(q)' \in Int /\ FromSubscription(q)' \in Int
                            /\ FromToken(q)' \in Int /\ Advance(q)' \in Int /\ Beyond(q)' \in Int
    <2>1. IInv' /\ OwnBooks' => AccountsTyped'
      BY AccountTypes, PTL
    <2> QED BY <2>1 DEF AccountsTyped, AccountTyped
  <1>2. \A q \in Requests \ {r} :
          /\ FromWallet(q)' = FromWallet(q) /\ FromSubscription(q)' = FromSubscription(q)
          /\ FromToken(q)' = FromToken(q) /\ Advance(q)' = Advance(q) /\ Beyond(q)' = Beyond(q)
          /\ Due(q)' = Due(q)
    BY DEF Apart, FromWallet, FromSubscription, FromToken, Advance, Beyond, Due
  <1>3. IsFiniteSet(Requests)
    BY ConstantsAssumption
  <1>4. SumOf([q \in Requests |-> FromWallet(q)], Requests)'
          = SumOf([q \in Requests |-> FromWallet(q)], Requests) - FromWallet(r) + FromWallet(r)'
    <2>1. PICK f : f = [q \in Requests |-> FromWallet(q)]
      OBVIOUS
    <2>2. PICK g : g = [q \in Requests |-> FromWallet(q)]'
      OBVIOUS
    <2>3. IntOn(f, Requests) /\ IntOn(g, Requests) /\ \A q \in Requests \ {r} : g[q] = f[q]
      BY <1>0, <1>1, <1>2, <2>1, <2>2 DEF IntOn
    <2>4. f[r] = FromWallet(r) /\ g[r] = FromWallet(r)'
      BY <2>1, <2>2
    <2>5. SumOf(g, Requests) = SumOf(f, Requests) - f[r] + g[r]
      BY <1>3, <2>3, SumChange
    <2> QED BY <2>1, <2>2, <2>4, <2>5
  <1>5. SumOf([q \in Requests |-> FromSubscription(q)], Requests)'
          = SumOf([q \in Requests |-> FromSubscription(q)], Requests) - FromSubscription(r) + FromSubscription(r)'
    <2>1. PICK f : f = [q \in Requests |-> FromSubscription(q)]
      OBVIOUS
    <2>2. PICK g : g = [q \in Requests |-> FromSubscription(q)]'
      OBVIOUS
    <2>3. IntOn(f, Requests) /\ IntOn(g, Requests) /\ \A q \in Requests \ {r} : g[q] = f[q]
      BY <1>0, <1>1, <1>2, <2>1, <2>2 DEF IntOn
    <2>4. f[r] = FromSubscription(r) /\ g[r] = FromSubscription(r)'
      BY <2>1, <2>2
    <2>5. SumOf(g, Requests) = SumOf(f, Requests) - f[r] + g[r]
      BY <1>3, <2>3, SumChange
    <2> QED BY <2>1, <2>2, <2>4, <2>5
  <1>6. SumOf([q \in Requests |-> FromToken(q)], Requests)'
          = SumOf([q \in Requests |-> FromToken(q)], Requests) - FromToken(r) + FromToken(r)'
    <2>1. PICK f : f = [q \in Requests |-> FromToken(q)]
      OBVIOUS
    <2>2. PICK g : g = [q \in Requests |-> FromToken(q)]'
      OBVIOUS
    <2>3. IntOn(f, Requests) /\ IntOn(g, Requests) /\ \A q \in Requests \ {r} : g[q] = f[q]
      BY <1>0, <1>1, <1>2, <2>1, <2>2 DEF IntOn
    <2>4. f[r] = FromToken(r) /\ g[r] = FromToken(r)'
      BY <2>1, <2>2
    <2>5. SumOf(g, Requests) = SumOf(f, Requests) - f[r] + g[r]
      BY <1>3, <2>3, SumChange
    <2> QED BY <2>1, <2>2, <2>4, <2>5
  <1>7. SumOf([q \in Requests |-> Beyond(q)], Requests)'
          = SumOf([q \in Requests |-> Beyond(q)], Requests) - Beyond(r) + Beyond(r)'
    <2>1. PICK f : f = [q \in Requests |-> Beyond(q)]
      OBVIOUS
    <2>2. PICK g : g = [q \in Requests |-> Beyond(q)]'
      OBVIOUS
    <2>3. IntOn(f, Requests) /\ IntOn(g, Requests) /\ \A q \in Requests \ {r} : g[q] = f[q]
      BY <1>0, <1>1, <1>2, <2>1, <2>2 DEF IntOn
    <2>4. f[r] = Beyond(r) /\ g[r] = Beyond(r)'
      BY <2>1, <2>2
    <2>5. SumOf(g, Requests) = SumOf(f, Requests) - f[r] + g[r]
      BY <1>3, <2>3, SumChange
    <2> QED BY <2>1, <2>2, <2>4, <2>5
  <1>8. SumOf([q \in Requests |-> Advance(q)], Requests)'
          = SumOf([q \in Requests |-> Advance(q)], Requests) - Advance(r) + Advance(r)'
    <2>1. PICK f : f = [q \in Requests |-> Advance(q)]
      OBVIOUS
    <2>2. PICK g : g = [q \in Requests |-> Advance(q)]'
      OBVIOUS
    <2>3. IntOn(f, Requests) /\ IntOn(g, Requests) /\ \A q \in Requests \ {r} : g[q] = f[q]
      BY <1>0, <1>1, <1>2, <2>1, <2>2 DEF IntOn
    <2>4. f[r] = Advance(r) /\ g[r] = Advance(r)'
      BY <2>1, <2>2
    <2>5. SumOf(g, Requests) = SumOf(f, Requests) - f[r] + g[r]
      BY <1>3, <2>3, SumChange
    <2> QED BY <2>1, <2>2, <2>4, <2>5
  <1> QED BY <1>2, <1>4, <1>5, <1>6, <1>7, <1>8 DEF Advances

\* The sums are integers, those of the funding sources' accounts not negative.
SumsTyped ==
    /\ SumOf([q \in Requests |-> FromWallet(q)], Requests) \in Nat
    /\ SumOf([q \in Requests |-> FromSubscription(q)], Requests) \in Nat
    /\ SumOf([q \in Requests |-> FromToken(q)], Requests) \in Int
    /\ SumOf([q \in Requests |-> Beyond(q)], Requests) \in Nat
    /\ Advances \in Nat

LEMMA SumTypes == IInv /\ OwnBooks => SumsTyped
  <1> SUFFICES ASSUME IInv, OwnBooks PROVE SumsTyped
    OBVIOUS
  <1>0. IsFiniteSet(Requests)
    BY ConstantsAssumption
  <1>1. SumOf([q \in Requests |-> FromWallet(q)], Requests) \in Nat
    <2> DEFINE f == [q \in Requests |-> FromWallet(q)]
    <2>1. \A q \in Requests : f[q] \in Nat
      BY AccountTypes DEF AccountsTyped, AccountTyped
    <2> HIDE DEF f
    <2>2. SumOf(f, Requests) \in Nat
      BY <1>0, <2>1, SumAtLeast
    <2> QED BY <2>2 DEF f
  <1>2. SumOf([q \in Requests |-> FromSubscription(q)], Requests) \in Nat
    <2> DEFINE f == [q \in Requests |-> FromSubscription(q)]
    <2>1. \A q \in Requests : f[q] \in Nat
      BY AccountTypes DEF AccountsTyped, AccountTyped
    <2> HIDE DEF f
    <2>2. SumOf(f, Requests) \in Nat
      BY <1>0, <2>1, SumAtLeast
    <2> QED BY <2>2 DEF f
  <1>3. SumOf([q \in Requests |-> Beyond(q)], Requests) \in Nat
    <2> DEFINE f == [q \in Requests |-> Beyond(q)]
    <2>1. \A q \in Requests : f[q] \in Nat
      BY AccountTypes DEF AccountsTyped, AccountTyped
    <2> HIDE DEF f
    <2>2. SumOf(f, Requests) \in Nat
      BY <1>0, <2>1, SumAtLeast
    <2> QED BY <2>2 DEF f
  <1>4. SumOf([q \in Requests |-> Advance(q)], Requests) \in Nat
    <2> DEFINE f == [q \in Requests |-> Advance(q)]
    <2>1. \A q \in Requests : f[q] \in Nat
      BY AccountTypes DEF AccountsTyped, AccountTyped
    <2> HIDE DEF f
    <2>2. SumOf(f, Requests) \in Nat
      BY <1>0, <2>1, SumAtLeast
    <2> QED BY <2>2 DEF f
  <1>5. SumOf([q \in Requests |-> FromToken(q)], Requests) \in Int
    <2> DEFINE f == [q \in Requests |-> FromToken(q)]
    <2>1. IntOn(f, Requests)
      BY AccountTypes DEF AccountsTyped, AccountTyped, IntOn
    <2> HIDE DEF f
    <2>2. SumOf(f, Requests) \in Int
      BY <1>0, <2>1, SumInt
    <2> QED BY <2>2 DEF f
  <1> QED BY <1>1, <1>2, <1>3, <1>4, <1>5 DEF SumsTyped, Advances

BooksInv == IInv /\ OwnBooks /\ BooksBalance

\* A step of a request keeps the books and the cover of the wallet.
LEMMA MovesKeeps ==
    ASSUME BooksInv, IInv', NEW r \in Requests, MovesOnly(r)
    PROVE  BooksInv' /\ (Covered => Covered')
  <1>1. OwnBooks'
    BY DEF BooksInv, OwnBooks, RequestBooks, MovesOnly, Apart
  <1>2. Moved(r) /\ \A q \in Requests \ {r} : Apart(q)
    BY DEF MovesOnly
  <1> DEFINE w == SumOf([q \in Requests |-> FromWallet(q)], Requests)
             s == SumOf([q \in Requests |-> FromSubscription(q)], Requests)
             t == SumOf([q \in Requests |-> FromToken(q)], Requests)
             b == SumOf([q \in Requests |-> Beyond(q)], Requests)
  <1>3. /\ w' = w - FromWallet(r) + FromWallet(r)'
        /\ s' = s - FromSubscription(r) + FromSubscription(r)'
        /\ t' = t - FromToken(r) + FromToken(r)'
        /\ b' = b - Beyond(r) + Beyond(r)'
        /\ Advances' = Advances - Advance(r) + Advance(r)'
        /\ \A q \in Requests \ {r} : Due(q)' = Due(q)
    BY <1>1, <1>2, SumsMove DEF BooksInv
  <1>4. w \in Nat /\ s \in Nat /\ t \in Int /\ b \in Nat /\ Advances \in Nat
    BY SumTypes DEF SumsTyped, BooksInv
  <1>5. b' \in Nat /\ Advances' \in Nat
    <2>1. IInv' /\ OwnBooks' => SumsTyped'
      BY SumTypes, PTL
    <2> QED BY <1>1, <2>1 DEF SumsTyped
  <1>6. \A q \in Requests :
          /\ FromWallet(q) \in Nat /\ FromSubscription(q) \in Nat /\ FromToken(q) \in Int
          /\ Advance(q) \in Nat /\ Beyond(q) \in Nat /\ Due(q) \in Nat
    BY AccountTypes DEF AccountsTyped, AccountTyped, BooksInv
  <1>7. \A q \in Requests :
          /\ FromWallet(q)' \in Nat /\ FromSubscription(q)' \in Nat /\ FromToken(q)' \in Int
          /\ Advance(q)' \in Nat /\ Beyond(q)' \in Nat /\ Due(q)' \in Nat
    <2>1. IInv' /\ OwnBooks' => AccountsTyped'
      BY AccountTypes, PTL
    <2> QED BY <1>1, <2>1 DEF AccountsTyped, AccountTyped
  <1>8. wallet \in Int /\ InitWallet \in Int /\ InitToken \in Int
    BY ConstantsAssumption DEF BooksInv, IInv, TypeOK
  <1>9. BooksBalance'
    <2>1. wallet = InitWallet - w /\ subUsed = s /\ token = InitToken - t
      BY DEF BooksInv, BooksBalance
    <2>2. BooksBalance' <=> (wallet' = InitWallet - w' /\ subUsed' = s' /\ token' = InitToken - t')
      BY DEF BooksBalance
    <2> HIDE DEF w, s, t, b
    <2>3. wallet' = InitWallet - w'
      BY <1>2, <1>3, <1>4, <1>6, <1>7, <1>8, <2>1 DEF Moved
    <2>4. subUsed' = s'
      BY <1>2, <1>3, <1>4, <1>6, <1>7, <1>8, <2>1 DEF Moved
    <2>5. token' = InitToken - t'
      BY <1>2, <1>3, <1>4, <1>6, <1>7, <1>8, <2>1 DEF Moved
    <2> QED BY <2>2, <2>3, <2>4, <2>5
  <1>10. ASSUME Covered PROVE Covered'
    <2>1. Debt = - wallet - b /\ Debt' = - wallet' - b'
      BY DEF Debt
    <2> HIDE DEF w, s, t, b
    <2>2. Debt \in Int /\ Debt' \in Int /\ wallet' \in Int
      BY <1>2, <1>4, <1>5, <1>6, <1>7, <1>8, <2>1 DEF Moved
    <2>3. Debt' - Advances' <= Debt - Advances
      BY <1>2, <1>3, <1>4, <1>6, <1>7, <1>8, <2>1 DEF Moved, Short
    <2>4. PICK d, e, a, c : d = Debt /\ e = Debt' /\ a = Advances /\ c = Advances'
      OBVIOUS
    <2>5. d \in Int /\ e \in Int /\ a \in Int /\ c \in Int /\ e - c <= d - a /\ d <= a
      <3>1. Debt <= Advances
        BY <1>10 DEF Covered
      <3>2. d \in Int /\ e \in Int /\ a \in Int /\ c \in Int
        BY <1>4, <1>5, <2>2, <2>4
      <3> QED BY <2>3, <2>4, <3>1, <3>2
    <2>6. e <= c
      BY <2>5
    <2>7. ASSUME NEW q \in Requests \ {r} PROVE e <= c - Due(q)'
      <3>1. d <= a - Due(q) /\ Due(q)' = Due(q) /\ Due(q) \in Nat
        BY <1>3, <1>6, <1>10, <2>4, <2>7 DEF Covered
      <3> QED BY <2>5, <3>1
    <2>8. e <= c - Due(r)'
      <3>1. CASE Due(r)' <= Due(r)
        <4>1. d <= a - Due(r) /\ Due(r) \in Nat /\ Due(r)' \in Nat
          BY <1>6, <1>7, <1>10, <2>4 DEF Covered
        <4> QED BY <2>5, <3>1, <4>1
      <3>2. CASE wallet' = wallet /\ Due(r)' <= wallet
        <4>1. Due(r)' \in Nat /\ e = - wallet' - b' /\ c \in Nat
          BY <1>5, <1>7, <2>1, <2>4
        <4> QED BY <1>5, <1>8, <3>2, <4>1
      <3> QED BY <1>2, <3>1, <3>2 DEF Moved
    <2> QED BY <2>4, <2>6, <2>7, <2>8 DEF Covered
  <1> QED BY <1>1, <1>9, <1>10 DEF BooksInv

\* A step that leaves every account and the store alone.
LEMMA StillKeeps ==
    ASSUME BooksInv, IInv', wallet' = wallet, subUsed' = subUsed, token' = token,
           pc' = pc, source' = source, effectiveQuota' = effectiveQuota,
           preConsumedQuota' = preConsumedQuota, paid' = paid, fee' = fee,
           paidToken' = paidToken, feeToken' = feeToken
    PROVE  BooksInv' /\ (Covered => Covered')
  <1>1. \A q \in Requests :
          /\ FromWallet(q)' = FromWallet(q) /\ FromSubscription(q)' = FromSubscription(q)
          /\ FromToken(q)' = FromToken(q) /\ Advance(q)' = Advance(q) /\ Beyond(q)' = Beyond(q)
          /\ Due(q)' = Due(q)
    BY DEF FromWallet, FromSubscription, FromToken, Advance, Beyond, Due
  <1>2. BooksBalance'
    <2>1. /\ [q \in Requests |-> FromWallet(q)]' = [q \in Requests |-> FromWallet(q)]
          /\ [q \in Requests |-> FromSubscription(q)]' = [q \in Requests |-> FromSubscription(q)]
          /\ [q \in Requests |-> FromToken(q)]' = [q \in Requests |-> FromToken(q)]
      BY <1>1
    <2> QED BY <2>1 DEF BooksInv, BooksBalance
  <1>3. Debt' = Debt /\ Advances' = Advances
    <2>1. /\ [q \in Requests |-> Beyond(q)]' = [q \in Requests |-> Beyond(q)]
          /\ [q \in Requests |-> Advance(q)]' = [q \in Requests |-> Advance(q)]
      BY <1>1
    <2> QED BY <2>1 DEF Debt, Advances
  <1>4. OwnBooks'
    BY DEF BooksInv, OwnBooks, RequestBooks
  <1> QED BY <1>1, <1>2, <1>3, <1>4 DEF BooksInv, Covered

LEMMA InitBooks == Init => BooksInv /\ (InitWallet >= 0 => Covered)
  <1> SUFFICES ASSUME Init PROVE BooksInv /\ (InitWallet >= 0 => Covered)
    OBVIOUS
  <1>1. IInv
    BY InitIInv
  <1>2. OwnBooks
    BY DEF Init, OwnBooks, RequestBooks
  <1>3. \A q \in Requests :
          /\ FromWallet(q) = 0 /\ FromSubscription(q) = 0 /\ FromToken(q) = 0
          /\ Advance(q) = 0 /\ Beyond(q) = 0 /\ Due(q) = 0
    BY DEF Init, FromWallet, FromSubscription, FromToken, Advance, Beyond, Due
  <1>4. SumOf([q \in Requests |-> 0], Requests) = 0
    <2>1. \A q \in Requests : [p \in Requests |-> 0][q] = 0
      OBVIOUS
    <2> QED BY <2>1, ConstantsAssumption, SumZero
  <1>5. /\ [q \in Requests |-> FromWallet(q)] = [q \in Requests |-> 0]
        /\ [q \in Requests |-> FromSubscription(q)] = [q \in Requests |-> 0]
        /\ [q \in Requests |-> FromToken(q)] = [q \in Requests |-> 0]
        /\ [q \in Requests |-> Advance(q)] = [q \in Requests |-> 0]
        /\ [q \in Requests |-> Beyond(q)] = [q \in Requests |-> 0]
    BY <1>3
  <1>6. BooksBalance
    BY <1>4, <1>5, ConstantsAssumption DEF Init, BooksBalance
  <1>7. ASSUME InitWallet >= 0 PROVE Covered
    <2>1. Debt = - InitWallet - 0 /\ Advances = 0
      BY <1>4, <1>5 DEF Init, Debt, Advances
    <2> QED BY <1>3, <1>7, <2>1, ConstantsAssumption DEF Covered
  <1> QED BY <1>1, <1>2, <1>6, <1>7 DEF BooksInv

LEMMA NextBooks ==
    ASSUME BooksInv, [Next]_vars, "subSave" \notin Faults
    PROVE  BooksInv' /\ (Covered => Covered')
  <1>1. IInv'
    BY NextIInv DEF BooksInv
  <1>2. ASSUME NEW r \in Requests,
               PreConsume(r) \/ Settle(r) \/ Refund(r) \/ ViolationFee(r)
        PROVE  BooksInv' /\ (Covered => Covered')
    <2>1. MovesOnly(r)
      BY <1>2, PreConsumeMoves, SettleMoves, RefundMoves, ViolationFeeMoves DEF BooksInv
    <2> QED BY <1>1, <2>1, MovesKeeps
  <1>3. CASE SubscriptionEnds
    BY <1>1, <1>3, StillKeeps DEF SubscriptionEnds
  <1>4. CASE UNCHANGED vars
    BY <1>1, <1>4, StillKeeps DEF vars
  <1> QED BY <1>2, <1>3, <1>4 DEF Next

\* Covered is the bound on the overdraft, stated before the advance is taken as well.
LEMMA CoveredBounds ==
    ASSUME BooksInv, Covered
    PROVE  OverdraftBound
  <1>1. Debt \in Int /\ Advances \in Nat
    <2>1. SumOf([q \in Requests |-> Beyond(q)], Requests) \in Nat /\ Advances \in Nat
      BY SumTypes DEF SumsTyped, BooksInv
    <2>2. wallet \in Int
      BY DEF BooksInv, IInv, TypeOK
    <2> QED BY <2>1, <2>2 DEF Debt
  <1>2. \A q \in Requests : Advance(q) \in Nat /\ Due(q) \in Nat
    BY AccountTypes DEF AccountsTyped, AccountTyped, BooksInv
  <1>3. ASSUME NEW r \in Requests PROVE Debt <= Advances - Advance(r)
    <2>1. CASE source[r] = "wallet" /\ pc[r] \in Checking
      <3>1. Advance(r) = 0
        BY <2>1 DEF Advance, BooksInv, OwnBooks, RequestBooks, Checking, Deciding
      <3> QED BY <1>1, <3>1 DEF Covered
    <2>2. CASE ~ (source[r] = "wallet" /\ pc[r] \in Checking)
      BY <2>2 DEF Covered, Due
    <2> QED BY <2>1, <2>2
  <1>4. ASSUME Debt > 0 PROVE \E r \in Requests : Advance(r) > 0
    <2> SUFFICES ASSUME \A r \in Requests : Advance(r) = 0 PROVE FALSE
      BY <1>2
    <2> DEFINE f == [q \in Requests |-> Advance(q)]
    <2>1. \A q \in Requests : f[q] = 0
      OBVIOUS
    <2>2. Advances = SumOf(f, Requests)
      BY DEF Advances
    <2> HIDE DEF f
    <2>3. Advances = 0
      BY <2>1, <2>2, ConstantsAssumption, SumZero
    <2> QED BY <1>1, <1>4, <2>3 DEF Covered
  <1> QED BY <1>3, <1>4 DEF OverdraftBound

\* The wallet, the token and the subscription (users.quota, tokens.remain_quota,
\* user_subscriptions.amount_used) moved by exactly what the sessions of all the requests
\* took and the violation fees, whatever interleaves and whichever calls fail.
THEOREM BooksBalanceThm ==
    ASSUME "subSave" \notin Faults
    PROVE  Spec => []BooksBalance
  <1>1. Init => BooksInv
    BY InitBooks
  <1>2. BooksInv /\ [Next]_vars => BooksInv'
    BY NextBooks
  <1>3. BooksInv => BooksBalance
    BY DEF BooksInv
  <1> QED BY <1>1, <1>2, <1>3, PTL DEF Spec

\* However many requests pass the check of tryWallet before any of them has taken its
\* quota, the wallet is overdrawn by no more than what all but any one of them took.
THEOREM OverdraftBoundThm ==
    ASSUME "subSave" \notin Faults, InitWallet >= 0
    PROVE  Spec => []OverdraftBound
  <1> DEFINE I == BooksInv /\ Covered
  <1>1. Init => I
    BY InitBooks
  <1>2. I /\ [Next]_vars => I'
    BY NextBooks
  <1>3. I => OverdraftBound
    BY CoveredBounds
  <1> QED BY <1>1, <1>2, <1>3, PTL DEF Spec

-----------------------------------------------------------------------------
(***************************************************************************)
(* The realtime session. Its two readers and the handler share usage and   *)
(* localUsage without a lock, so the invariant follows every response: it  *)
(* is in usage while the upstream's reader bills it, and afterwards only   *)
(* when the user had too little for it (ResponseHeld); what a register or  *)
(* a charge under way holds was reported or counted before                 *)
(* (RegistersCounted); and the sum taken lies between what is owed for the *)
(* responses billed so far (PaidEnough) and that sum with the two charges  *)
(* the handler may make a second time (PaidAtMost).                        *)
(***************************************************************************)

RegisterTypes(x) ==
    /\ x = [left |-> x.left, n |-> x.n, val |-> x.val, gen |-> x.gen, bill |-> x.bill,
            amount |-> x.amount]
    /\ x.n \in Nat /\ x.val \in Nat /\ x.gen \in Nat /\ x.amount \in Nat
    /\ x.bill \in {"none", "usage", "local"}

RealtimeTypes ==
    /\ tpc \in {"read", "add", "check", "pay", "reset", "send", "done"}
    /\ cpc \in {"read", "add", "send", "done"}
    /\ mpc \in {"wait", "usage", "payUsage", "local", "payLocal", "post", "closed"}
    /\ RegisterTypes(client) /\ RegisterTypes(target)
    /\ local = [val |-> local.val, gen |-> local.gen] /\ local.val \in Nat /\ local.gen \in Nat
    /\ rtUsage \in Nat /\ due \in Nat
    /\ counted \in Nat /\ reported \in Nat /\ plain \in Nat /\ taken \in Nat
    /\ tpc \in {"read", "send"} => target.bill = "none"
    /\ tpc \in {"check", "pay", "reset"} => target.bill # "none"
    /\ tpc = "add" => target.bill # "usage"

\* A reported response is in usage while the upstream's reader bills it, and afterwards
\* only when the user had too little for it.
BillsResponse == tpc \in {"check", "pay", "reset"} /\ target.bill = "usage"

ResponseHeld ==
    /\ BillsResponse => rtUsage = Report
    /\ ~ BillsResponse => rtUsage = 0 \/ (rtUsage = Report /\ tpc = "done" /\ short)

\* What a register holds was counted, and what is about to be charged was reported or counted.
RegistersCounted ==
    /\ local.val <= counted /\ client.val <= counted /\ target.val <= counted
    /\ client.gen <= local.gen
    /\ mpc = "payUsage" /\ ~ usePrice => due <= Report
    /\ mpc = "payLocal" /\ ~ usePrice => due <= counted
    /\ tpc = "pay" /\ target.bill = "usage" /\ ~ usePrice => target.amount = Report
    /\ tpc \in {"add", "check"} /\ target.bill = "local" => plain >= 1

\* The reported response that is not paid yet.
Outstanding == IF tpc = "reset" /\ target.bill = "usage" THEN 0 ELSE rtUsage

PaidEnough == short \/ taken + Outstanding >= reported

\* What the session may have paid by now: the responses that are paid, the handler's second
\* charge of one, every count once, the handler's second charge of the local count, and one
\* for every response billed without usage.
Most ==
    reported - Outstanding
    + (IF mpc \in {"wait", "usage", "payUsage"} THEN 0 ELSE Report)
    + counted + (IF mpc \in {"post", "closed"} THEN counted ELSE 0)
    + plain - (IF tpc \in {"add", "check"} /\ target.bill = "local" THEN 1 ELSE 0)

\* The local count, wherever a reader has a copy of it, can still be paid.  Between the
\* payment and the reset it is the count that was just paid.
PaidAtMost ==
    /\ taken <= Most
    /\ tpc # "reset" => taken + local.val <= Most
    /\ tpc # "reset" /\ cpc = "add" /\ client.gen = local.gen => taken + client.val <= Most
    /\ tpc = "add" => taken + target.val <= Most
    /\ tpc = "pay" /\ target.bill = "local" => taken + target.amount <= Most

RealtimeInv ==
    /\ RealtimeTypes /\ ResponseHeld /\ RegistersCounted
    /\ ~ usePrice => PaidEnough /\ PaidAtMost

-----------------------------------------------------------------------------
LEMMA RealtimeStart == InitRealtime => RealtimeInv
  BY RealtimeAssumption DEF InitRealtime, RealtimeInv, RealtimeTypes, RegisterTypes, Registers,
     ResponseHeld, BillsResponse, RegistersCounted, Outstanding, PaidEnough, Most, PaidAtMost

LEMMA ClientMessageStep == ASSUME RealtimeInv, NEW n \in CountTokenRealtime, ClientMessage(n) PROVE RealtimeInv'
  <1> USE RealtimeAssumption
      DEF RealtimeInv, RealtimeTypes, RegisterTypes, Registers, books, ClientMessage, CountTokenRealtime
  <1>0. client' = [left |-> client.left - 1, n |-> n, val |-> local.val, gen |-> local.gen, bill |-> client.bill,
                   amount |-> client.amount]
    OBVIOUS
  <1>1. RealtimeTypes'
    <2>1. RegisterTypes(client)'
      <3>1. client'.n = n /\ client'.val = local.val /\ client'.gen = local.gen /\ client'.amount = client.amount
        BY <1>0
      <3>2. client'.bill = client.bill /\ client'.left = client.left - 1
        BY <1>0
      <3>3. n \in Nat
        OBVIOUS
      <3> QED BY ONLY <1>0, <3>1, <3>2, <3>3, RealtimeTypes DEF RealtimeTypes, RegisterTypes
    <2> HIDE DEF RegisterTypes
    <2> QED BY <1>0, <2>1
  <1>2. ResponseHeld'
    BY <1>0 DEF ResponseHeld, BillsResponse
  <1>3. RegistersCounted'
    BY <1>0 DEF RegistersCounted, ResponseHeld, BillsResponse
  <1>4. ~ usePrice' => PaidEnough'
    BY <1>0 DEF RegistersCounted, ResponseHeld, BillsResponse, PaidEnough, Outstanding
  <1>5. ~ usePrice' => PaidAtMost'
    BY <1>0 DEF RegistersCounted, ResponseHeld, BillsResponse, PaidAtMost, Most, Outstanding
  <1> QED BY <1>1, <1>2, <1>3, <1>4, <1>5

LEMMA ClientAddStep == ASSUME RealtimeInv, ClientAdd PROVE RealtimeInv'
  <1> USE RealtimeAssumption
      DEF RealtimeInv, RealtimeTypes, RegisterTypes, Registers, books, ClientAdd
  <1>1. RealtimeTypes'
    OBVIOUS
  <1>2. ResponseHeld'
    BY DEF ResponseHeld, BillsResponse
  <1>3. RegistersCounted'
    BY DEF RegistersCounted, ResponseHeld, BillsResponse
  <1>4. ~ usePrice' => PaidEnough'
    BY DEF RegistersCounted, ResponseHeld, BillsResponse, PaidEnough, Outstanding
  <1>5. ~ usePrice' => PaidAtMost'
    BY DEF RegistersCounted, ResponseHeld, BillsResponse, PaidAtMost, Most, Outstanding
  <1> QED BY <1>1, <1>2, <1>3, <1>4, <1>5

LEMMA ClientSendStep == ASSUME RealtimeInv, ClientSend PROVE RealtimeInv'
  <1> USE RealtimeAssumption
      DEF RealtimeInv, RealtimeTypes, RegisterTypes, Registers, books, ClientSend, Report1
  <1>1. RealtimeTypes'
    OBVIOUS
  <1>2. ResponseHeld'
    BY DEF ResponseHeld, BillsResponse
  <1>3. RegistersCounted'
    BY DEF RegistersCounted, ResponseHeld, BillsResponse
  <1>4. ~ usePrice' => PaidEnough'
    BY DEF RegistersCounted, ResponseHeld, BillsResponse, PaidEnough, Outstanding
  <1>5. ~ usePrice' => PaidAtMost'
    BY DEF RegistersCounted, ResponseHeld, BillsResponse, PaidAtMost, Most, Outstanding
  <1> QED BY <1>1, <1>2, <1>3, <1>4, <1>5

LEMMA ClientEndsStep == ASSUME RealtimeInv, ClientEnds PROVE RealtimeInv'
  <1> USE RealtimeAssumption
      DEF RealtimeInv, RealtimeTypes, RegisterTypes, Registers, books, ClientEnds, Report1
  <1>1. RealtimeTypes'
    OBVIOUS
  <1>2. ResponseHeld'
    BY DEF ResponseHeld, BillsResponse
  <1>3. RegistersCounted'
    BY DEF RegistersCounted, ResponseHeld, BillsResponse
  <1>4. ~ usePrice' => PaidEnough'
    BY DEF RegistersCounted, ResponseHeld, BillsResponse, PaidEnough, Outstanding
  <1>5. ~ usePrice' => PaidAtMost'
    BY DEF RegistersCounted, ResponseHeld, BillsResponse, PaidAtMost, Most, Outstanding
  <1> QED BY <1>1, <1>2, <1>3, <1>4, <1>5

LEMMA TargetMessageStep == ASSUME RealtimeInv, NEW n \in CountTokenRealtime, TargetMessage(n) PROVE RealtimeInv'
  <1> USE RealtimeAssumption
      DEF RealtimeInv, RealtimeTypes, RegisterTypes, Registers, books, TargetMessage, CountTokenRealtime
  <1>0. target' = [left |-> target.left - 1, n |-> n, val |-> local.val, gen |-> local.gen, bill |-> "none",
                   amount |-> target.amount]
    OBVIOUS
  <1>1. RealtimeTypes'
    <2>1. RegisterTypes(target)'
      <3>1. target'.n = n /\ target'.val = local.val /\ target'.gen = local.gen /\ target'.amount = target.amount
        BY <1>0
      <3>2. target'.bill = "none" /\ target'.left = target.left - 1
        BY <1>0
      <3>3. n \in Nat
        OBVIOUS
      <3> QED BY ONLY <1>0, <3>1, <3>2, <3>3, RealtimeTypes DEF RealtimeTypes, RegisterTypes
    <2> HIDE DEF RegisterTypes
    <2> QED BY <1>0, <2>1
  <1>2. ResponseHeld'
    BY <1>0 DEF ResponseHeld, BillsResponse
  <1>3. RegistersCounted'
    BY <1>0 DEF RegistersCounted, ResponseHeld, BillsResponse
  <1>4. ~ usePrice' => PaidEnough'
    BY <1>0 DEF RegistersCounted, ResponseHeld, BillsResponse, PaidEnough, Outstanding
  <1>5. ~ usePrice' => PaidAtMost'
    BY <1>0 DEF RegistersCounted, ResponseHeld, BillsResponse, PaidAtMost, Most, Outstanding
  <1> QED BY <1>1, <1>2, <1>3, <1>4, <1>5

LEMMA TargetDonePlainStep == ASSUME RealtimeInv, NEW n \in CountTokenRealtime, TargetDonePlain(n) PROVE RealtimeInv'
  <1> USE RealtimeAssumption
      DEF RealtimeInv, RealtimeTypes, RegisterTypes, Registers, books, TargetDonePlain, CountTokenRealtime
  <1>0. target' = [left |-> target.left - 1, n |-> n, val |-> local.val, gen |-> local.gen, bill |-> "local",
                   amount |-> target.amount]
    OBVIOUS
  <1>1. RealtimeTypes'
    <2>1. RegisterTypes(target)'
      <3>1. target'.n = n /\ target'.val = local.val /\ target'.gen = local.gen /\ target'.amount = target.amount
        BY <1>0
      <3>2. target'.bill = "local" /\ target'.left = target.left - 1
        BY <1>0
      <3>3. n \in Nat
        OBVIOUS
      <3> QED BY ONLY <1>0, <3>1, <3>2, <3>3, RealtimeTypes DEF RealtimeTypes, RegisterTypes
    <2> HIDE DEF RegisterTypes
    <2> QED BY <1>0, <2>1
  <1>2. ResponseHeld'
    BY <1>0 DEF ResponseHeld, BillsResponse
  <1>3. RegistersCounted'
    BY <1>0 DEF RegistersCounted, ResponseHeld, BillsResponse
  <1>4. ~ usePrice' => PaidEnough'
    BY <1>0 DEF RegistersCounted, ResponseHeld, BillsResponse, PaidEnough, Outstanding
  <1>5. ~ usePrice' => PaidAtMost'
    BY <1>0 DEF RegistersCounted, ResponseHeld, BillsResponse, PaidAtMost, Most, Outstanding
  <1> QED BY <1>1, <1>2, <1>3, <1>4, <1>5

LEMMA TargetDoneStep == ASSUME RealtimeInv, TargetDone PROVE RealtimeInv'
  <1> USE RealtimeAssumption
      DEF RealtimeInv, RealtimeTypes, RegisterTypes, Registers, books, TargetDone
  <1>0. target' = [left |-> target.left - 1, n |-> target.n, val |-> target.val, gen |-> target.gen, bill |-> "usage",
                   amount |-> target.amount]
    OBVIOUS
  <1>1. RealtimeTypes'
    <2>1. RegisterTypes(target)'
      BY <1>0
    <2> HIDE DEF RegisterTypes
    <2> QED BY <1>0, <2>1
  <1>2. ResponseHeld'
    BY <1>0 DEF ResponseHeld, BillsResponse
  <1>3. RegistersCounted'
    BY <1>0 DEF RegistersCounted, ResponseHeld, BillsResponse
  <1>4. ~ usePrice' => PaidEnough'
    BY <1>0 DEF RegistersCounted, ResponseHeld, BillsResponse, PaidEnough, Outstanding
  <1>5. ~ usePrice' => PaidAtMost'
    BY <1>0 DEF RegistersCounted, ResponseHeld, BillsResponse, PaidAtMost, Most, Outstanding
  <1> QED BY <1>1, <1>2, <1>3, <1>4, <1>5

LEMMA TargetAddStep == ASSUME RealtimeInv, TargetAdd PROVE RealtimeInv'
  <1> USE RealtimeAssumption
      DEF RealtimeInv, RealtimeTypes, RegisterTypes, Registers, books, TargetAdd
  <1>0. target' = [left |-> target.left, n |-> 0, val |-> 0, gen |-> 0, bill |-> target.bill, amount |-> 0]
    OBVIOUS
  <1>1. RealtimeTypes'
    <2>1. RegisterTypes(target)'
      BY <1>0
    <2>2. local' = [val |-> target.val + target.n, gen |-> local.gen]
      OBVIOUS
    <2>3. target.val + target.n \in Nat /\ counted' \in Nat
      OBVIOUS
    <2>4. target'.bill = target.bill
      BY <1>0
    <2>5. target.bill \in {"none", "usage", "local"}
      OBVIOUS
    <2> HIDE DEF RegisterTypes
    <2> QED BY <2>1, <2>2, <2>3, <2>4, <2>5
  <1>2. ResponseHeld'
    BY <1>0 DEF ResponseHeld, BillsResponse
  <1>3. RegistersCounted'
    BY <1>0 DEF RegistersCounted, ResponseHeld, BillsResponse
  <1>4. ~ usePrice' => PaidEnough'
    BY <1>0 DEF RegistersCounted, ResponseHeld, BillsResponse, PaidEnough, Outstanding
  <1>5. ~ usePrice' => PaidAtMost'
    BY <1>0 DEF RegistersCounted, ResponseHeld, BillsResponse, PaidAtMost, Most, Outstanding
  <1> QED BY <1>1, <1>2, <1>3, <1>4, <1>5

LEMMA TargetCheckStep == ASSUME RealtimeInv, TargetCheck PROVE RealtimeInv'
  <1> USE RealtimeAssumption
      DEF RealtimeInv, RealtimeTypes, RegisterTypes, Registers, books, TargetCheck, calculateAudioQuota, Report1
  <1>1. RealtimeTypes'
    OBVIOUS
  <1>2. ResponseHeld'
    BY DEF ResponseHeld, BillsResponse
  <1>3. RegistersCounted'
    BY DEF RegistersCounted, ResponseHeld, BillsResponse
  <1>4. ~ usePrice' => PaidEnough'
    BY DEF RegistersCounted, ResponseHeld, BillsResponse, PaidEnough, Outstanding
  <1>5. ~ usePrice' => PaidAtMost'
    BY DEF RegistersCounted, ResponseHeld, BillsResponse, PaidAtMost, Most, Outstanding
  <1> QED BY <1>1, <1>2, <1>3, <1>4, <1>5

LEMMA TargetPayStep == ASSUME RealtimeInv, TargetPay PROVE RealtimeInv'
  <1> USE RealtimeAssumption
      DEF RealtimeInv, RealtimeTypes, RegisterTypes, Registers, books, TargetPay
  <1>1. RealtimeTypes'
    OBVIOUS
  <1>2. ResponseHeld'
    BY DEF ResponseHeld, BillsResponse
  <1>3. RegistersCounted'
    BY DEF RegistersCounted, ResponseHeld, BillsResponse
  <1>4. ~ usePrice' => PaidEnough'
    BY DEF RegistersCounted, ResponseHeld, BillsResponse, PaidEnough, Outstanding
  <1>5. ~ usePrice' => PaidAtMost'
    <2> SUFFICES ASSUME ~ usePrice' PROVE PaidAtMost'
      OBVIOUS
    <2>1. PaidAtMost' <=> (taken <= Most)'
      BY DEF PaidAtMost
    <2>2. CASE target.bill = "usage"
      BY <2>1, <2>2 DEF RegistersCounted, ResponseHeld, BillsResponse, PaidAtMost, Most, Outstanding
    <2>3. CASE target.bill = "local"
      BY <2>1, <2>3 DEF RegistersCounted, PaidAtMost, Most, Outstanding
    <2>4. CASE target.bill = "none"
      BY <2>1, <2>4 DEF RegistersCounted, PaidAtMost, Most, Outstanding
    <2> QED BY <2>2, <2>3, <2>4
  <1> QED BY <1>1, <1>2, <1>3, <1>4, <1>5

LEMMA TargetResetStep == ASSUME RealtimeInv, TargetReset PROVE RealtimeInv'
  <1> USE RealtimeAssumption
      DEF RealtimeInv, RealtimeTypes, RegisterTypes, Registers, books, TargetReset
  <1>1. RealtimeTypes'
    OBVIOUS
  <1>2. ResponseHeld'
    BY DEF ResponseHeld, BillsResponse
  <1>3. RegistersCounted'
    BY DEF RegistersCounted, ResponseHeld, BillsResponse
  <1>4. ~ usePrice' => PaidEnough'
    BY DEF RegistersCounted, ResponseHeld, BillsResponse, PaidEnough, Outstanding
  <1>5. ~ usePrice' => PaidAtMost'
    BY DEF RegistersCounted, ResponseHeld, BillsResponse, PaidAtMost, Most, Outstanding
  <1> QED BY <1>1, <1>2, <1>3, <1>4, <1>5

LEMMA TargetSendStep == ASSUME RealtimeInv, TargetSend PROVE RealtimeInv'
  <1> USE RealtimeAssumption
      DEF RealtimeInv, RealtimeTypes, RegisterTypes, Registers, books, TargetSend, Report1
  <1>1. RealtimeTypes'
    OBVIOUS
  <1>2. ResponseHeld'
    BY DEF ResponseHeld, BillsResponse
  <1>3. RegistersCounted'
    BY DEF RegistersCounted, ResponseHeld, BillsResponse
  <1>4. ~ usePrice' => PaidEnough'
    BY DEF RegistersCounted, ResponseHeld, BillsResponse, PaidEnough, Outstanding
  <1>5. ~ usePrice' => PaidAtMost'
    BY DEF RegistersCounted, ResponseHeld, BillsResponse, PaidAtMost, Most, Outstanding
  <1> QED BY <1>1, <1>2, <1>3, <1>4, <1>5

LEMMA TargetEndsStep == ASSUME RealtimeInv, TargetEnds PROVE RealtimeInv'
  <1> USE RealtimeAssumption
      DEF RealtimeInv, RealtimeTypes, RegisterTypes, Registers, books, TargetEnds, Report1
  <1>1. RealtimeTypes'
    OBVIOUS
  <1>2. ResponseHeld'
    BY DEF ResponseHeld, BillsResponse
  <1>3. RegistersCounted'
    BY DEF RegistersCounted, ResponseHeld, BillsResponse
  <1>4. ~ usePrice' => PaidEnough'
    BY DEF RegistersCounted, ResponseHeld, BillsResponse, PaidEnough, Outstanding
  <1>5. ~ usePrice' => PaidAtMost'
    BY DEF RegistersCounted, ResponseHeld, BillsResponse, PaidAtMost, Most, Outstanding
  <1> QED BY <1>1, <1>2, <1>3, <1>4, <1>5

LEMMA WokenStep == ASSUME RealtimeInv, Woken PROVE RealtimeInv'
  <1> USE RealtimeAssumption
      DEF RealtimeInv, RealtimeTypes, RegisterTypes, Registers, books, Woken
  <1>1. RealtimeTypes'
    OBVIOUS
  <1>2. ResponseHeld'
    BY DEF ResponseHeld, BillsResponse
  <1>3. RegistersCounted'
    BY DEF RegistersCounted, ResponseHeld, BillsResponse
  <1>4. ~ usePrice' => PaidEnough'
    BY DEF RegistersCounted, ResponseHeld, BillsResponse, PaidEnough, Outstanding
  <1>5. ~ usePrice' => PaidAtMost'
    BY DEF RegistersCounted, ResponseHeld, BillsResponse, PaidAtMost, Most, Outstanding
  <1> QED BY <1>1, <1>2, <1>3, <1>4, <1>5

LEMMA ChargeUsageStep == ASSUME RealtimeInv, Charge("usage", rtUsage, "payUsage", "local") PROVE RealtimeInv'
  <1> USE RealtimeAssumption
      DEF RealtimeInv, RealtimeTypes, RegisterTypes, Registers, books, Charge, calculateAudioQuota
  <1>1. RealtimeTypes'
    OBVIOUS
  <1>2. ResponseHeld'
    BY DEF ResponseHeld, BillsResponse
  <1>3. RegistersCounted'
    BY DEF RegistersCounted, ResponseHeld, BillsResponse
  <1>4. ~ usePrice' => PaidEnough'
    BY DEF RegistersCounted, ResponseHeld, BillsResponse, PaidEnough, Outstanding
  <1>5. ~ usePrice' => PaidAtMost'
    BY DEF RegistersCounted, ResponseHeld, BillsResponse, PaidAtMost, Most, Outstanding
  <1> QED BY <1>1, <1>2, <1>3, <1>4, <1>5

LEMMA PayUsageStep == ASSUME RealtimeInv, Pay("payUsage", "local") PROVE RealtimeInv'
  <1> USE RealtimeAssumption
      DEF RealtimeInv, RealtimeTypes, RegisterTypes, Registers, books, Pay
  <1>1. RealtimeTypes'
    OBVIOUS
  <1>2. ResponseHeld'
    BY DEF ResponseHeld, BillsResponse
  <1>3. RegistersCounted'
    BY DEF RegistersCounted, ResponseHeld, BillsResponse
  <1>4. ~ usePrice' => PaidEnough'
    BY DEF RegistersCounted, ResponseHeld, BillsResponse, PaidEnough, Outstanding
  <1>5. ~ usePrice' => PaidAtMost'
    BY DEF RegistersCounted, ResponseHeld, BillsResponse, PaidAtMost, Most, Outstanding
  <1> QED BY <1>1, <1>2, <1>3, <1>4, <1>5

LEMMA ChargeLocalStep == ASSUME RealtimeInv, Charge("local", local.val, "payLocal", "post") PROVE RealtimeInv'
  <1> USE RealtimeAssumption
      DEF RealtimeInv, RealtimeTypes, RegisterTypes, Registers, books, Charge, calculateAudioQuota
  <1>1. RealtimeTypes'
    OBVIOUS
  <1>2. ResponseHeld'
    BY DEF ResponseHeld, BillsResponse
  <1>3. RegistersCounted'
    BY DEF RegistersCounted, ResponseHeld, BillsResponse
  <1>4. ~ usePrice' => PaidEnough'
    BY DEF RegistersCounted, ResponseHeld, BillsResponse, PaidEnough, Outstanding
  <1>5. ~ usePrice' => PaidAtMost'
    BY DEF RegistersCounted, ResponseHeld, BillsResponse, PaidAtMost, Most, Outstanding
  <1> QED BY <1>1, <1>2, <1>3, <1>4, <1>5

LEMMA PayLocalStep == ASSUME RealtimeInv, Pay("payLocal", "post") PROVE RealtimeInv'
  <1> USE RealtimeAssumption
      DEF RealtimeInv, RealtimeTypes, RegisterTypes, Registers, books, Pay
  <1>1. RealtimeTypes'
    OBVIOUS
  <1>2. ResponseHeld'
    BY DEF ResponseHeld, BillsResponse
  <1>3. RegistersCounted'
    BY DEF RegistersCounted, ResponseHeld, BillsResponse
  <1>4. ~ usePrice' => PaidEnough'
    BY DEF RegistersCounted, ResponseHeld, BillsResponse, PaidEnough, Outstanding
  <1>5. ~ usePrice' => PaidAtMost'
    BY DEF RegistersCounted, ResponseHeld, BillsResponse, PaidAtMost, Most, Outstanding
  <1> QED BY <1>1, <1>2, <1>3, <1>4, <1>5

LEMMA PostWssConsumeQuotaStep == ASSUME RealtimeInv, PostWssConsumeQuota PROVE RealtimeInv'
  <1> USE RealtimeAssumption
      DEF RealtimeInv, RealtimeTypes, RegisterTypes, Registers, books, PostWssConsumeQuota
  <1>1. RealtimeTypes'
    OBVIOUS
  <1>2. ResponseHeld'
    BY DEF ResponseHeld, BillsResponse
  <1>3. RegistersCounted'
    BY DEF RegistersCounted, ResponseHeld, BillsResponse
  <1>4. ~ usePrice' => PaidEnough'
    BY DEF RegistersCounted, ResponseHeld, BillsResponse, PaidEnough, Outstanding
  <1>5. ~ usePrice' => PaidAtMost'
    BY DEF RegistersCounted, ResponseHeld, BillsResponse, PaidAtMost, Most, Outstanding
  <1> QED BY <1>1, <1>2, <1>3, <1>4, <1>5

LEMMA RealtimeStep == ASSUME RealtimeInv, [NextRealtime]_rtvars PROVE RealtimeInv'
  <1>1. CASE ClientReader
    BY <1>1, ClientMessageStep, ClientAddStep, ClientSendStep, ClientEndsStep DEF ClientReader
  <1>2. CASE TargetReader
    BY <1>2, TargetMessageStep, TargetDonePlainStep, TargetDoneStep, TargetAddStep, TargetCheckStep,
       TargetPayStep, TargetResetStep, TargetSendStep, TargetEndsStep DEF TargetReader
  <1>3. CASE Handler
    BY <1>3, WokenStep, ChargeUsageStep, PayUsageStep, ChargeLocalStep, PayLocalStep,
       PostWssConsumeQuotaStep DEF Handler
  <1>4. CASE UNCHANGED rtvars
    BY <1>4 DEF rtvars, RealtimeInv, RealtimeTypes, RegisterTypes, ResponseHeld, BillsResponse,
       RegistersCounted, PaidEnough, Outstanding, PaidAtMost, Most
  <1> QED BY <1>1, <1>2, <1>3, <1>4 DEF NextRealtime

\* Once both readers are done, a response still in usage is one the user had too little for.
LEMMA RealtimePaid == RealtimeInv => ResponsesPaid
  <1> SUFFICES ASSUME RealtimeInv, Over, ~ usePrice PROVE ResponsesPaid
    BY DEF ResponsesPaid
  <1>1. short \/ taken >= reported
    BY RealtimeAssumption DEF RealtimeInv, RealtimeTypes, ResponseHeld, BillsResponse, PaidEnough, Outstanding, Over
  <1>2. taken <= reported + Report + 2 * counted + plain
    BY RealtimeAssumption DEF RealtimeInv, RealtimeTypes, ResponseHeld, BillsResponse, PaidAtMost, Most, Outstanding, Over
  <1> QED BY <1>1, <1>2 DEF ResponsesPaid

(* Of OpenaiRealtimeHandler's two readers and its own last charges, which     *)
(* share usage and localUsage without a lock: however their loads, stores     *)
(* and resets interleave, and however many messages there are, when all three *)
(* have ended every response the upstream reported has been paid unless the    *)
(* user had too little for it, and at most one response and one local count    *)
(* have been paid twice.                                                       *)
THEOREM RealtimeResponsesPaid == SpecRealtime => []ResponsesPaid
  <1>1. InitRealtime => RealtimeInv
    BY RealtimeStart
  <1>2. RealtimeInv /\ [NextRealtime]_rtvars => RealtimeInv'
    BY RealtimeStep
  <1>3. RealtimeInv => ResponsesPaid
    BY RealtimePaid
  <1> QED BY <1>1, <1>2, <1>3, PTL DEF SpecRealtime

=============================================================================
