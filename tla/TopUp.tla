-------------------------------- MODULE TopUp --------------------------------
(***************************************************************************)
(* Orders for quota (table topups) and for subscriptions (table            *)
(* subscription_orders), the requests that create them and the             *)
(* notifications of the payment providers that end them.                   *)
(*                                                                         *)
(* A handler holds LockOrder(tradeNo), a reference-counted mutex of its    *)
(* process, from before it reads the order until it returns; only the      *)
(* Waffo handler of an unsuccessful payment does not.  The database        *)
(* transactions read the order and commit in two steps, and no credit is   *)
(* taken for their row locks (FOR UPDATE): the model shows what LockOrder  *)
(* guarantees by itself in one process.                                    *)
(*                                                                         *)
(* A provider sends a notification until it is acknowledged, and may send  *)
(* it again later.  It reports an order as paid or as refused, not both.   *)
(* Prices, discounts and signatures are left out: a notification here is   *)
(* one whose signature was verified.                                       *)
(***************************************************************************)
EXTENDS Integers, FiniteSets

CONSTANTS
    Orders,         \* trade numbers
    Threads,        \* concurrent handlers of one order
    Methods,        \* payment methods offered: subset of epay, stripe, creem, waffo
    MaxFaults,      \* bound on failing statements and restarts
    None

Statuses == {"pending", "success", "failed", "expired"}

\* An order of either table: TopUp, or SubscriptionOrder when it buys a plan.
OrderRows == [method : Methods, plan : BOOLEAN, status : Statuses]

\* Finitely many handlers, and None none of the values it stands beside.
OrderConstants ==
    /\ IsFiniteSet(Threads) /\ None \notin Threads /\ None \notin OrderRows
    /\ MaxFaults \in Nat
ASSUME OrderAssumption == OrderConstants

VARIABLES
    row,        \* [Orders]: the row of the order, or None
    linked,     \* orders whose payment link the client received
    verdict,    \* [Orders]: what the provider says: open, paid or refused
    acked,      \* orders whose verdict was acknowledged to the provider
    h,          \* [Orders, Threads]: the handler running
    slot,       \* [Orders]: the mutex orderLocks maps the trade number to, or 0
    refs,       \* [Orders, Mutexes]: reference count of a mutex
    owner,      \* [Orders, Mutexes]: the thread that holds a mutex, or None
    credited,   \* history, [Orders]: number of deliveries
    manual,     \* history: orders an administrator asked to complete
    unheard,    \* history: orders whose failed handler the provider heard a success of
    faults

orderVars == <<row, linked>>
locks == <<slot, refs, owner>>
past == <<credited, manual>>
topUpVars == <<orderVars, verdict, acked, h, locks, past, unheard, faults>>

Mutexes == 1 .. Cardinality(Threads)
Idle == [pc |-> "idle", kind |-> "none", mutex |-> 0, seen |-> "none", ok |-> FALSE]

OrderInit ==
    /\ row = [o \in Orders |-> None] /\ linked = {}
    /\ verdict = [o \in Orders |-> "open"] /\ acked = {}
    /\ h = [o \in Orders |-> [t \in Threads |-> Idle]]
    /\ slot = [o \in Orders |-> 0]
    /\ refs = [o \in Orders |-> [m \in Mutexes |-> 0]]
    /\ owner = [o \in Orders |-> [m \in Mutexes |-> None]]
    /\ credited = [o \in Orders |-> 0] /\ manual = {} /\ unheard = {}
    /\ faults = 0

-----------------------------------------------------------------------------
(* Requests that create an order.                                          *)

\* Insert an order in the given state; the client gets the link when it can pay.
Create(o, m, plan, status, link) ==
    /\ row[o] = None /\ m \in Methods
    /\ row' = [row EXCEPT ![o] = [method |-> m, plan |-> plan, status |-> status]]
    /\ linked' = IF link THEN linked \cup {o} ELSE linked
    /\ UNCHANGED <<verdict, acked, h, locks, past, unheard, faults>>

\* The link is made before the row: when there is none there is no row either.
RequestEpay(o) == Create(o, "epay", FALSE, "pending", TRUE)
RequestStripePay(o) == Create(o, "stripe", FALSE, "pending", TRUE)
SubscriptionRequestStripePay(o) == Create(o, "stripe", TRUE, "pending", TRUE)

\* The request to Creem for a link fails in many ways; each leaves the client without one.
genCreemLink == BOOLEAN

\* The row is made first and stays pending when the link cannot be made.
RequestCreemPay(o) == \E link \in genCreemLink : Create(o, "creem", FALSE, "pending", link)
SubscriptionRequestCreemPay(o) ==
    \E link \in genCreemLink : Create(o, "creem", TRUE, "pending", link)

\* The row is made first and closed when the link cannot be made.
RequestWaffoPay(o) ==
    \/ Create(o, "waffo", FALSE, "pending", TRUE)
    \/ Create(o, "waffo", FALSE, "failed", FALSE)
SubscriptionRequestEpay(o) ==
    \/ Create(o, "epay", TRUE, "pending", TRUE)
    \/ Create(o, "epay", TRUE, "expired", FALSE)

\* The provider decides.  Only a client with a link can pay.
ProviderDecides(o) ==
    /\ o \in linked /\ verdict[o] = "open"
    /\ \E v \in {"paid", "refused"} : verdict' = [verdict EXCEPT ![o] = v]
    /\ UNCHANGED <<orderVars, acked, h, locks, past, unheard, faults>>

-----------------------------------------------------------------------------
(* Notifications.                                                          *)

Start(o, t, kind) ==
    h' = [h EXCEPT ![o][t] = [Idle EXCEPT
            !.pc = IF kind = "waffoNotPaid" THEN "read" ELSE "enter", !.kind = kind]]

\* A notification of provider m about the order starts a handler.
Notified(o, t, m, kinds) ==
    /\ h[o][t].pc = "idle" /\ verdict[o] # "open" /\ row[o].method = m
    /\ \E kind \in kinds : Start(o, t, kind)
    /\ UNCHANGED <<orderVars, verdict, locks, past, unheard, faults>>

\* EpayNotify answers "success" before it does anything.  What was not paid is ignored.
EpayNotify(o, t) ==
    /\ verdict[o] = "paid" /\ ~ row[o].plan
    /\ Notified(o, t, "epay", {"EpayNotify"})
    /\ acked' = acked \cup {o}

SubscriptionEpayNotify(o, t) ==
    /\ verdict[o] = "paid" /\ row[o].plan
    /\ Notified(o, t, "epay", {"SubscriptionEpayNotify"}) /\ UNCHANGED acked

\* The browser of the payer comes back with the same signed parameters.
SubscriptionEpayReturn(o, t) ==
    /\ verdict[o] = "paid" /\ row[o].plan
    /\ Notified(o, t, "epay", {"SubscriptionEpayReturn"}) /\ UNCHANGED acked

StripeWebhook(o, t) ==
    /\ Notified(o, t, "stripe", IF verdict[o] = "paid" THEN {"fulfillOrder"}
                               ELSE {"sessionAsyncPaymentFailed", "sessionExpired"})
    /\ UNCHANGED acked

CreemWebhook(o, t) ==
    /\ verdict[o] = "paid"
    /\ Notified(o, t, "creem", {"handleCheckoutCompleted"}) /\ UNCHANGED acked

WaffoWebhook(o, t) ==
    /\ Notified(o, t, "waffo", IF verdict[o] = "paid" THEN {"RechargeWaffo"}
                              ELSE {"waffoNotPaid"})
    /\ UNCHANGED acked

Notify(o, t) ==
    \/ EpayNotify(o, t) \/ SubscriptionEpayNotify(o, t) \/ SubscriptionEpayReturn(o, t)
    \/ StripeWebhook(o, t) \/ CreemWebhook(o, t) \/ WaffoWebhook(o, t)

\* AdminCompleteTopUp; it reads the table topups only.
AdminCompleteTopUp(o, t) ==
    /\ h[o][t].pc = "idle" /\ row[o] # None /\ ~ row[o].plan
    /\ Start(o, t, "ManualCompleteTopUp")
    /\ manual' = manual \cup {o}
    /\ UNCHANGED <<orderVars, verdict, acked, locks, credited, unheard, faults>>

-----------------------------------------------------------------------------
(* LockOrder and UnlockOrder.                                              *)

Goto(o, t, pc) == h' = [h EXCEPT ![o][t].pc = pc]

\* Under createLock: take the mutex of the map, or a new one, and count the reference.
LockOrder(o, t) ==
    LET m == IF slot[o] # 0 THEN slot[o] ELSE CHOOSE k \in Mutexes : refs[o][k] = 0
    IN  /\ h[o][t].pc = "enter"
        /\ slot' = [slot EXCEPT ![o] = m]
        /\ refs' = [refs EXCEPT ![o][m] = @ + 1]
        /\ h' = [h EXCEPT ![o][t].pc = "wait", ![o][t].mutex = m]
        /\ UNCHANGED <<orderVars, verdict, acked, owner, past, unheard, faults>>

\* rcm.mu.Lock()
LockWait(o, t) ==
    /\ h[o][t].pc = "wait" /\ owner[o][h[o][t].mutex] = None
    /\ owner' = [owner EXCEPT ![o][h[o][t].mutex] = t]
    /\ Goto(o, t, "read")
    /\ UNCHANGED <<orderVars, verdict, acked, slot, refs, past, unheard, faults>>

\* The mutex is dropped from the map whoever still waits for it.
UnlockCount_Always(o, m) ==
    /\ refs' = [refs EXCEPT ![o][m] = @ - 1]
    /\ slot' = [slot EXCEPT ![o] = 0]

\* Under createLock: the last user drops the mutex from the map.
UnlockCount(o, m) ==
    /\ refs' = [refs EXCEPT ![o][m] = @ - 1]
    /\ slot' = [slot EXCEPT ![o] = IF refs[o][m] = 1 THEN 0 ELSE @]

\* rcm.mu.Unlock() comes before the reference is given back.
UnlockOrder(o, t) ==
    LET m == h[o][t].mutex
    IN  \/ /\ h[o][t].pc = "unlock"
           /\ owner' = [owner EXCEPT ![o][m] = None]
           /\ Goto(o, t, "leave")
           /\ UNCHANGED <<orderVars, verdict, acked, slot, refs, past, unheard, faults>>
        \/ /\ h[o][t].pc = "leave"
           /\ UnlockCount(o, m)
           /\ h' = [h EXCEPT ![o][t] = Idle]
           /\ UNCHANGED <<orderVars, verdict, acked, owner, past, unheard, faults>>

-----------------------------------------------------------------------------
(* What a handler does with the order.                                     *)

Closes == {"sessionAsyncPaymentFailed", "sessionExpired", "waffoNotPaid"}

\* A handler goes on with the status it read.  sessionExpired logs any status but
\* pending and goes on with it; of a subscription's order it closes a pending one only.
Proceeds(kind, plan, status) ==
    IF kind = "sessionExpired" /\ ~ plan THEN TRUE ELSE status = "pending"

\* An order that needs nothing done is a success for the handlers that say so.
Harmless(kind, plan, status) ==
    \/ plan /\ status = "success"
    \/ kind \in {"RechargeWaffo", "ManualCompleteTopUp"} /\ status = "success"
    \/ kind = "handleCheckoutCompleted" /\ ~ plan

\* The acknowledgement is sent whatever happened.
Acknowledges_Always(kind, ok) == TRUE

\* Epay's handler has answered already, StripeWebhook always answers 200, the others
\* answer as they ended.
Acknowledges(kind, ok) ==
    \/ kind = "fulfillOrder" \/ kind \in Closes
    \/ kind \in {"handleCheckoutCompleted", "RechargeWaffo", "SubscriptionEpayNotify"} /\ ok

\* The handler returns.
Return(o, t, ok) ==
    LET kind == h[o][t].kind
    IN  /\ acked' = IF Acknowledges(kind, ok) THEN acked \cup {o} ELSE acked
        /\ h' = [h EXCEPT ![o][t] =
                    IF kind = "waffoNotPaid" THEN Idle
                    ELSE [@ EXCEPT !.pc = "unlock", !.ok = ok]]

\* The order is read; the transactions of the others read it too.
ReadOrder(o, t) ==
    LET x == h[o][t]
        status == row[o].status
    IN  /\ x.pc = "read" /\ UNCHANGED unheard
        /\ IF Proceeds(x.kind, row[o].plan, status)
           THEN /\ h' = [h EXCEPT ![o][t].pc = "write", ![o][t].seen = status]
                /\ UNCHANGED acked
           ELSE Return(o, t, Harmless(x.kind, row[o].plan, status) \/ x.kind \in Closes)
        /\ UNCHANGED <<orderVars, verdict, locks, past, faults>>

\* The status and the delivery, in one transaction.
Commit(o, t, kinds) ==
    /\ h[o][t].pc = "write" /\ h[o][t].kind \in kinds
    /\ row' = [row EXCEPT ![o].status = "success"]
    /\ credited' = [credited EXCEPT ![o] = @ + 1]
    /\ Return(o, t, TRUE)
    /\ UNCHANGED <<linked, verdict, locks, manual, unheard, faults>>

CompleteSubscriptionOrder(o, t) ==
    /\ h[o][t].pc = "write" /\ row[o].plan
    /\ Commit(o, t, {"SubscriptionEpayNotify", "SubscriptionEpayReturn", "fulfillOrder",
                     "handleCheckoutCompleted"})
Recharge(o, t) ==
    h[o][t].pc = "write" /\ ~ row[o].plan /\ Commit(o, t, {"fulfillOrder"})
RechargeCreem(o, t) ==
    h[o][t].pc = "write" /\ ~ row[o].plan /\ Commit(o, t, {"handleCheckoutCompleted"})
RechargeWaffo(o, t) == Commit(o, t, {"RechargeWaffo"})
ManualCompleteTopUp(o, t) == Commit(o, t, {"ManualCompleteTopUp"})

\* topUp.Update() of EpayNotify.
EpaySave(o, t) ==
    /\ h[o][t].pc = "write" /\ h[o][t].kind = "EpayNotify"
    /\ row' = [row EXCEPT ![o].status = "success"]
    /\ Goto(o, t, "credit")
    /\ UNCHANGED <<linked, verdict, acked, locks, past, unheard, faults>>

\* model.IncreaseUserQuota(topUp.UserId, quotaToAdd, true)
EpayCredit(o, t) ==
    /\ h[o][t].pc = "credit"
    /\ credited' = [credited EXCEPT ![o] = @ + 1]
    /\ Return(o, t, TRUE)
    /\ UNCHANGED <<orderVars, verdict, locks, manual, unheard, faults>>

\* The handlers that close an order save the whole row.
Close(o, t, kind, status) ==
    /\ h[o][t].pc = "write" /\ h[o][t].kind = kind
    /\ row' = [row EXCEPT ![o].status = status]
    /\ Return(o, t, TRUE)
    /\ UNCHANGED <<linked, verdict, locks, past, unheard, faults>>

sessionExpired(o, t) == Close(o, t, "sessionExpired", "expired")
sessionAsyncPaymentFailed(o, t) == Close(o, t, "sessionAsyncPaymentFailed", "failed")
waffoNotPaid(o, t) == Close(o, t, "waffoNotPaid", "failed")

\* A statement of the handler fails; a transaction is rolled back.
HandlerFails(o, t) ==
    /\ h[o][t].pc \in {"write", "credit"} /\ faults < MaxFaults
    /\ faults' = faults + 1
    /\ Return(o, t, FALSE)
    /\ unheard' = IF h[o][t].kind \in {"EpayNotify", "fulfillOrder"} THEN unheard \cup {o} ELSE unheard
    /\ UNCHANGED <<orderVars, verdict, locks, past>>

\* The process stops: the handlers and the mutexes are gone.
Restart ==
    /\ faults < MaxFaults /\ faults' = faults + 1
    /\ unheard' = unheard \cup {o \in Orders : \E t \in Threads :
                             h[o][t].kind = "EpayNotify"}
    /\ h' = [o \in Orders |-> [t \in Threads |-> Idle]]
    /\ slot' = [o \in Orders |-> 0]
    /\ refs' = [o \in Orders |-> [m \in Mutexes |-> 0]]
    /\ owner' = [o \in Orders |-> [m \in Mutexes |-> None]]
    /\ UNCHANGED <<orderVars, verdict, acked, past>>

-----------------------------------------------------------------------------
Request(o) ==
    \/ RequestEpay(o) \/ RequestStripePay(o) \/ RequestCreemPay(o) \/ RequestWaffoPay(o)
    \/ SubscriptionRequestEpay(o) \/ SubscriptionRequestStripePay(o)
    \/ SubscriptionRequestCreemPay(o)

HandlerStep(o, t) ==
    \/ LockOrder(o, t) \/ LockWait(o, t) \/ UnlockOrder(o, t)
    \/ ReadOrder(o, t) \/ EpaySave(o, t) \/ EpayCredit(o, t)
    \/ CompleteSubscriptionOrder(o, t) \/ Recharge(o, t) \/ RechargeCreem(o, t)
    \/ RechargeWaffo(o, t) \/ ManualCompleteTopUp(o, t)
    \/ sessionExpired(o, t) \/ sessionAsyncPaymentFailed(o, t) \/ waffoNotPaid(o, t)

OrderNext ==
    \/ \E o \in Orders : Request(o) \/ ProviderDecides(o)
    \/ \E o \in Orders, t \in Threads :
          Notify(o, t) \/ AdminCompleteTopUp(o, t) \/ HandlerStep(o, t) \/ HandlerFails(o, t)
    \/ Restart

OrderSpec == OrderInit /\ [][OrderNext]_topUpVars

\* Handlers that can go on do, and the provider repeats what was not acknowledged.
OrderFairness ==
    \A o \in Orders : \A t \in Threads :
        /\ WF_topUpVars(HandlerStep(o, t))
        /\ SF_topUpVars(o \notin acked /\ Notify(o, t))

-----------------------------------------------------------------------------
(* Properties.                                                             *)

\* However notifications, their repetitions, a browser's return and an administrator's
\* completion overlap in one process, an order is delivered at most once, and only when
\* it was paid or completed by hand: TopUp implements OrderLedger.
Ledger == INSTANCE OrderLedger WITH
    due <- {o \in Orders : verdict[o] = "paid"} \cup manual,
    delivered <- credited
DeliveredOnce == Ledger!Spec

\* A paid order is delivered, through faults and restarts, unless the provider was told
\* that all is well when it was not (EpayNotify answers first, StripeWebhook always
\* answers 200) or an administrator had completed it.
PaidIsDelivered ==
    \A o \in Orders : verdict[o] = "paid" ~> credited[o] > 0 \/ o \in unheard
=============================================================================
