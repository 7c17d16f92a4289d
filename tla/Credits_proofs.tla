--------------------------- MODULE Credits_proofs ---------------------------
(***************************************************************************)
(* The credits of a user: TopUp implements OrderLedger for any orders,     *)
(* methods and number of concurrent handlers, and the batch books of       *)
(* QuotaStore are kept for any number of nodes, calls and amounts, with    *)
(* failing updates and crashes; the grants of Redemption add up for any    *)
(* codes, days and concurrent requests.                                    *)
(***************************************************************************)
EXTENDS TopUp, QuotaStore, Redemption, Sums_proofs

-----------------------------------------------------------------------------
(***************************************************************************)
(* Orders. LockOrder keeps the handlers of an order apart because everyone *)
(* who has a reference uses the mutex of the map: it is dropped from the   *)
(* map only by the last reference. Under the mutex, a handler that goes on *)
(* read "pending", and an order that is pending has not been delivered.    *)
(* The handler that takes no lock (waffoNotPaid) may overwrite the status, *)
(* but never with "pending".                                               *)
(***************************************************************************)

Delivers == {"EpayNotify", "SubscriptionEpayNotify", "SubscriptionEpayReturn", "fulfillOrder",
             "handleCheckoutCompleted", "RechargeWaffo", "ManualCompleteTopUp"}
Handlers ==
    [pc : {"idle", "enter", "wait", "read", "write", "credit", "unlock", "leave"},
     kind : Delivers \cup Closes \cup {"none"}, mutex : Nat, seen : Statuses \cup {"none"},
     ok : BOOLEAN]

TopUpTypes ==
    /\ row \in [Orders -> OrderRows \cup {None}] /\ linked \subseteq Orders
    /\ verdict \in [Orders -> {"open", "paid", "refused"}] /\ acked \subseteq Orders
    /\ h \in [Orders -> [Threads -> Handlers]]
    /\ slot \in [Orders -> {0} \cup Mutexes]
    /\ refs \in [Orders -> [Mutexes -> Nat]]
    /\ owner \in [Orders -> [Mutexes -> Threads \cup {None}]]
    /\ credited \in [Orders -> Nat]
    /\ manual \subseteq Orders /\ unheard \subseteq Orders /\ faults \in 0 .. MaxFaults

\* Handlers with a reference to a mutex, and those that hold it.
Locking(x) == x.pc \in {"wait", "read", "write", "credit", "unlock", "leave"} /\ x.kind # "waffoNotPaid"
Holding(x) == x.pc \in {"read", "write", "credit", "unlock"} /\ x.kind # "waffoNotPaid"
Refd(o) == {t \in Threads : Locking(h[o][t])}

\* Everyone with a reference has the mutex of the map, and one at most holds it.
LockInv(o) ==
    /\ \A t \in Threads : h[o][t].kind = "waffoNotPaid" => h[o][t].pc \in {"read", "write"}
    /\ slot[o] = 0 => Refd(o) = {}
    /\ \A t \in Refd(o) : h[o][t].mutex = slot[o]
    /\ \A m \in Mutexes : refs[o][m] = IF m = slot[o] THEN Cardinality(Refd(o)) ELSE 0
    /\ \A t \in Threads : Holding(h[o][t]) => owner[o][slot[o]] = t

\* An order the provider or a handler knows has a row; a handler that delivers is about
\* an order that is due.
KnownInv(o) ==
    /\ o \in linked => row[o] \in OrderRows
    /\ verdict[o] # "open" => o \in linked
    /\ row[o] = None => credited[o] = 0
    /\ \A t \in Threads :
          /\ h[o][t].pc # "idle" => row[o] \in OrderRows /\ h[o][t].kind # "none"
          /\ h[o][t].kind \in Delivers => verdict[o] = "paid" \/ o \in manual

\* Nothing has been delivered of an order that is pending or is being delivered.
OnceInv(o) ==
    /\ (row[o] \in OrderRows /\ row[o].status = "pending") => credited[o] = 0
    /\ \A t \in Threads :
          /\ (h[o][t].pc = "write" /\ h[o][t].kind \in Delivers) => credited[o] = 0
          /\ h[o][t].pc = "credit" =>
                h[o][t].kind = "EpayNotify" /\ credited[o] = 0 /\ row[o].status # "pending"

OrderInv(o) == LockInv(o) /\ KnownInv(o) /\ OnceInv(o)
TopUpInv == TopUpTypes /\ \A o \in Orders : OrderInv(o)

-----------------------------------------------------------------------------
(* Frames.                                                                 *)

\* A step about one order keeps what holds of the others.
LEMMA OneOrder ==
    ASSUME TopUpInv, TopUpTypes', NEW o \in Orders, OrderInv(o)',
           \A q \in Orders \ {o} :
              /\ row'[q] = row[q] /\ verdict'[q] = verdict[q] /\ h'[q] = h[q] /\ credited'[q] = credited[q]
              /\ slot'[q] = slot[q] /\ refs'[q] = refs[q] /\ owner'[q] = owner[q]
              /\ (q \in linked' <=> q \in linked) /\ (q \in manual => q \in manual')
    PROVE  TopUpInv'
  <1>1. ASSUME NEW q \in Orders \ {o} PROVE OrderInv(q)'
    <2>1. LockInv(q) /\ KnownInv(q) /\ OnceInv(q)
      BY <1>1 DEF TopUpInv, OrderInv
    <2>2. Refd(q)' = Refd(q)
      BY <1>1 DEF Refd
    <2>3. LockInv(q)'
      BY <1>1, <2>1, <2>2 DEF LockInv
    <2>4. KnownInv(q)'
      BY <1>1, <2>1 DEF KnownInv
    <2>5. OnceInv(q)'
      BY <1>1, <2>1 DEF OnceInv
    <2> QED BY <2>3, <2>4, <2>5 DEF OrderInv
  <1> QED BY <1>1 DEF TopUpInv

LEMMA SetHandler ==
    ASSUME TopUpTypes, NEW o \in Orders, NEW t \in Threads, NEW n \in Handlers,
           h' = [h EXCEPT ![o][t] = n]
    PROVE  /\ h' \in [Orders -> [Threads -> Handlers]]
           /\ h'[o][t] = n /\ (\A u \in Threads \ {t} : h'[o][u] = h[o][u])
           /\ \A q \in Orders \ {o} : h'[q] = h[q]
  BY DEF TopUpTypes

\* Two handlers do not hold the mutex of an order at once.
LEMMA Exclusive ==
    ASSUME TopUpInv, NEW o \in Orders, NEW t \in Threads, NEW u \in Threads,
           Holding(h[o][t]), Holding(h[o][u])
    PROVE  t = u
  BY DEF TopUpInv, OrderInv, LockInv

\* A handler goes on without touching the mutex.
LEMMA MoveLocks ==
    ASSUME TopUpInv, NEW o \in Orders, NEW t \in Threads, NEW n \in Handlers,
           h' = [h EXCEPT ![o][t] = n], UNCHANGED <<slot, refs, owner>>,
           Locking(n) <=> Locking(h[o][t]), Holding(n) <=> Holding(h[o][t]),
           Locking(n) => n.mutex = h[o][t].mutex,
           n.kind = "waffoNotPaid" => n.pc \in {"read", "write"}
    PROVE  LockInv(o)'
  <1>1. h'[o][t] = n /\ \A u \in Threads \ {t} : h'[o][u] = h[o][u]
    BY SetHandler DEF TopUpInv
  <1>2. LockInv(o)
    BY DEF TopUpInv, OrderInv
  <1>3. Refd(o)' = Refd(o)
    BY <1>1 DEF Refd
  <1>4. \A u \in Threads : h'[o][u].kind = "waffoNotPaid" => h'[o][u].pc \in {"read", "write"}
    BY <1>1, <1>2 DEF LockInv
  <1>5. \A u \in Refd(o) : h'[o][u].mutex = slot[o]
    BY <1>1, <1>2 DEF LockInv, Refd
  <1>6. \A u \in Threads : Holding(h'[o][u]) => owner[o][slot[o]] = u
    BY <1>1, <1>2 DEF LockInv
  <1> QED BY <1>2, <1>3, <1>4, <1>5, <1>6 DEF LockInv

\* A handler that returns.
LEMMA Returns ==
    ASSUME TopUpInv, NEW o \in Orders, NEW t \in Threads, NEW ok \in BOOLEAN, Return(o, t, ok),
           h[o][t].pc \in {"read", "write", "credit"}, UNCHANGED <<slot, refs, owner>>
    PROVE  /\ LockInv(o)' /\ acked' \subseteq Orders
           /\ h' \in [Orders -> [Threads -> Handlers]]
           /\ h'[o][t].pc \in {"idle", "unlock"} /\ h'[o][t].kind \in {h[o][t].kind, "none"}
           /\ h'[o][t].pc = "unlock" => h'[o][t].kind = h[o][t].kind
           /\ (\A u \in Threads \ {t} : h'[o][u] = h[o][u]) /\ \A q \in Orders \ {o} : h'[q] = h[q]
  <1> DEFINE x == h[o][t]
             n == IF x.kind = "waffoNotPaid" THEN Idle ELSE [x EXCEPT !.pc = "unlock", !.ok = ok]
  <1>1. x \in Handlers /\ acked \subseteq Orders
    BY DEF TopUpInv, TopUpTypes
  <1>2. h' = [h EXCEPT ![o][t] = n] /\ acked' \subseteq Orders
    BY <1>1 DEF Return, TopUpInv, TopUpTypes
  <1>3. CASE x.kind = "waffoNotPaid"
    <2>1. n = Idle /\ Idle \in Handlers /\ Idle.pc = "idle" /\ Idle.kind = "none"
      BY <1>3 DEF Idle, Handlers
    <2>2. ~ Locking(n) /\ ~ Holding(n) /\ ~ Locking(x) /\ ~ Holding(x)
      BY <1>3, <2>1 DEF Locking, Holding
    <2> HIDE DEF n
    <2>3. LockInv(o)'
      BY <1>2, <2>1, <2>2, MoveLocks
    <2> QED BY <1>2, <2>1, <2>3, SetHandler DEF TopUpInv
  <1>4. CASE x.kind # "waffoNotPaid"
    <2>1. n \in Handlers /\ n.pc = "unlock" /\ n.kind = x.kind /\ n.mutex = x.mutex
      BY <1>1, <1>4 DEF Handlers
    <2>2. Locking(n) /\ Holding(n) /\ Locking(x) /\ Holding(x)
      BY <1>4, <2>1 DEF Locking, Holding
    <2> HIDE DEF n
    <2>3. LockInv(o)'
      BY <1>2, <1>4, <2>1, <2>2, MoveLocks
    <2> QED BY <1>2, <2>1, <2>3, SetHandler DEF TopUpInv
  <1> QED BY <1>3, <1>4

-----------------------------------------------------------------------------
(* Orders and notifications.                                               *)

LEMMA RequestStep == ASSUME TopUpInv, OrderConstants, NEW o \in Orders, Request(o) PROVE TopUpInv'
  <1>1. PICK m \in Methods, plan \in BOOLEAN, status \in Statuses, link \in BOOLEAN :
          Create(o, m, plan, status, link)
    <2> DEFINE Made(m, plan) == \E status \in Statuses, link \in BOOLEAN : Create(o, m, plan, status, link)
    <2>1. \A m, plan, status, link : Create(o, m, plan, status, link) => m \in Methods
      BY DEF Create
    <2>2. {"pending", "failed", "expired"} \subseteq Statuses
      BY DEF Statuses
    <2>3. /\ RequestEpay(o) => Made("epay", FALSE)
          /\ RequestStripePay(o) => Made("stripe", FALSE)
          /\ RequestCreemPay(o) => Made("creem", FALSE)
          /\ RequestWaffoPay(o) => Made("waffo", FALSE)
          /\ SubscriptionRequestEpay(o) => Made("epay", TRUE)
          /\ SubscriptionRequestStripePay(o) => Made("stripe", TRUE)
          /\ SubscriptionRequestCreemPay(o) => Made("creem", TRUE)
      BY <2>2 DEF RequestEpay, RequestStripePay, RequestCreemPay, RequestWaffoPay, genCreemLink,
                  SubscriptionRequestEpay, SubscriptionRequestStripePay, SubscriptionRequestCreemPay
    <2>4. \E m \in {"epay", "stripe", "creem", "waffo"}, plan \in BOOLEAN : Made(m, plan)
      <3> HIDE DEF Made
      <3> QED BY <2>3 DEF Request
    <2> QED BY <2>1, <2>4
  <1> DEFINE n == [method |-> m, plan |-> plan, status |-> status]
  <1>2. /\ row[o] = None /\ row' = [row EXCEPT ![o] = n]
        /\ linked' = (IF link THEN linked \cup {o} ELSE linked)
        /\ UNCHANGED <<verdict, acked, h, slot, refs, owner, credited, manual, unheard, faults>>
    BY <1>1 DEF Create, locks, past
  <1>3. n \in OrderRows /\ None \notin OrderRows
    BY <1>1 DEF OrderRows, OrderConstants
  <1> HIDE DEF n
  <1>4. TopUpTypes' /\ row'[o] = n /\ \A q \in Orders \ {o} : row'[q] = row[q] /\ (q \in linked' <=> q \in linked)
    BY <1>2, <1>3 DEF TopUpInv, TopUpTypes
  <1>5. LockInv(o) /\ KnownInv(o) /\ OnceInv(o)
    BY DEF TopUpInv, OrderInv
  <1>6. credited[o] = 0 /\ (\A t \in Threads : h[o][t].pc = "idle") /\ verdict[o] = "open"
    BY <1>2, <1>3, <1>5 DEF KnownInv
  <1>7. LockInv(o)'
    BY <1>2, <1>5 DEF LockInv, Refd
  <1>8. KnownInv(o)'
    BY <1>2, <1>3, <1>4, <1>5, <1>6 DEF KnownInv
  <1>9. OnceInv(o)'
    BY <1>2, <1>6 DEF OnceInv
  <1> QED BY <1>2, <1>4, <1>7, <1>8, <1>9, OneOrder DEF OrderInv

LEMMA DecideStep == ASSUME TopUpInv, NEW o \in Orders, ProviderDecides(o) PROVE TopUpInv'
  <1>1. /\ o \in linked /\ verdict[o] = "open"
        /\ UNCHANGED <<row, linked, acked, h, slot, refs, owner, credited, manual, unheard, faults>>
    BY DEF ProviderDecides, orderVars, locks, past
  <1>2. /\ verdict' \in [Orders -> {"open", "paid", "refused"}]
        /\ \A q \in Orders \ {o} : verdict'[q] = verdict[q]
    BY DEF ProviderDecides, TopUpInv, TopUpTypes
  <1>3. TopUpTypes'
    BY <1>1, <1>2 DEF TopUpInv, TopUpTypes
  <1>4. LockInv(o) /\ KnownInv(o) /\ OnceInv(o)
    BY DEF TopUpInv, OrderInv
  <1>5. LockInv(o)' /\ OnceInv(o)'
    BY <1>1, <1>4 DEF LockInv, Refd, OnceInv
  <1>6. KnownInv(o)'
    BY <1>1, <1>4 DEF KnownInv
  <1> QED BY <1>1, <1>2, <1>3, <1>5, <1>6, OneOrder DEF OrderInv

\* A notification or the administrator starts a handler.
LEMMA StartStep ==
    ASSUME TopUpInv, OrderConstants, NEW o \in Orders, NEW t \in Threads, NEW k \in Delivers \cup Closes, Start(o, t, k),
           h[o][t].pc = "idle", row[o] \in OrderRows,
           acked' \subseteq Orders, manual' \in {manual, manual \cup {o}},
           k \in Delivers => verdict[o] = "paid" \/ o \in manual',
           UNCHANGED <<row, linked, verdict, slot, refs, owner, credited, unheard, faults>>
    PROVE  TopUpInv'
  <1> DEFINE pc == IF k = "waffoNotPaid" THEN "read" ELSE "enter"
             n == [Idle EXCEPT !.pc = pc, !.kind = k]
  <1>1. n \in Handlers /\ n.pc = pc /\ n.kind = k
    BY DEF Idle, Handlers
  <1>2. h' = [h EXCEPT ![o][t] = n]
    BY DEF Start
  <1>3. ~ Locking(n) /\ ~ Holding(n) /\ ~ Locking(h[o][t]) /\ ~ Holding(h[o][t])
        /\ (n.kind = "waffoNotPaid" => n.pc \in {"read", "write"})
    BY <1>1 DEF Locking, Holding
  <1> HIDE DEF n
  <1>4. LockInv(o)'
    BY <1>1, <1>2, <1>3, MoveLocks
  <1>5. /\ h' \in [Orders -> [Threads -> Handlers]]
        /\ h'[o][t] = n /\ (\A u \in Threads \ {t} : h'[o][u] = h[o][u])
        /\ \A q \in Orders \ {o} : h'[q] = h[q]
    BY <1>1, <1>2, SetHandler DEF TopUpInv
  <1>6. TopUpTypes'
    BY <1>5 DEF TopUpInv, TopUpTypes
  <1>7. KnownInv(o) /\ OnceInv(o)
    BY DEF TopUpInv, OrderInv
  <1>8. k # "none"
    BY DEF Delivers, Closes
  <1>9. KnownInv(o)'
    BY <1>1, <1>5, <1>7, <1>8 DEF KnownInv
  <1>10. OnceInv(o)'
    BY <1>1, <1>5, <1>7 DEF OnceInv
  <1> QED BY <1>4, <1>5, <1>6, <1>9, <1>10, OneOrder DEF OrderInv

LEMMA NotifyStep ==
    ASSUME TopUpInv, OrderConstants, NEW o \in Orders, NEW t \in Threads, Notify(o, t)
    PROVE  TopUpInv'
  <1> DEFINE Paid(m, k) == verdict[o] = "paid" /\ Notified(o, t, m, {k})
             Told(m, ks) == ks \cap Delivers = {} /\ Notified(o, t, m, ks)
  <1>0. acked' \subseteq Orders
    BY DEF Notify, EpayNotify, SubscriptionEpayNotify, SubscriptionEpayReturn, StripeWebhook, CreemWebhook,
           WaffoWebhook, TopUpInv, TopUpTypes
  <1>1. PICK m \in {"epay", "stripe", "creem", "waffo"}, kinds \in SUBSET (Delivers \cup Closes) :
          Notified(o, t, m, kinds) /\ (verdict[o] = "paid" \/ kinds \cap Delivers = {})
    <2> DEFINE Stopped == {"sessionAsyncPaymentFailed", "sessionExpired"}
    <2>1. /\ EpayNotify(o, t) => Paid("epay", "EpayNotify")
          /\ SubscriptionEpayNotify(o, t) => Paid("epay", "SubscriptionEpayNotify")
          /\ SubscriptionEpayReturn(o, t) => Paid("epay", "SubscriptionEpayReturn")
          /\ CreemWebhook(o, t) => Paid("creem", "handleCheckoutCompleted")
      BY DEF EpayNotify, SubscriptionEpayNotify, SubscriptionEpayReturn, CreemWebhook
    <2>2. /\ StripeWebhook(o, t) => Paid("stripe", "fulfillOrder") \/ Told("stripe", Stopped)
          /\ WaffoWebhook(o, t) => Paid("waffo", "RechargeWaffo") \/ Told("waffo", {"waffoNotPaid"})
      BY DEF StripeWebhook, WaffoWebhook, Delivers
    <2>3. /\ \A k \in {"EpayNotify", "SubscriptionEpayNotify", "SubscriptionEpayReturn",
                      "handleCheckoutCompleted", "fulfillOrder", "RechargeWaffo"} : {k} \in SUBSET (Delivers \cup Closes)
          /\ Stopped \in SUBSET (Delivers \cup Closes) /\ {"waffoNotPaid"} \in SUBSET (Delivers \cup Closes)
      BY DEF Delivers, Closes
    <2>4. CASE \E m \in {"epay", "stripe", "creem", "waffo"},
                 k \in {"EpayNotify", "SubscriptionEpayNotify", "SubscriptionEpayReturn",
                       "handleCheckoutCompleted", "fulfillOrder", "RechargeWaffo"} : Paid(m, k)
      BY <2>3, <2>4
    <2>5. CASE Told("stripe", Stopped) \/ Told("waffo", {"waffoNotPaid"})
      <3> HIDE DEF Stopped
      <3> QED BY <2>3, <2>5
    <2> HIDE DEF Paid, Told, Stopped
    <2> QED BY <2>1, <2>2, <2>4, <2>5 DEF Notify
  <1>2. PICK k \in kinds : Start(o, t, k)
    BY <1>1 DEF Notified
  <1>3. /\ h[o][t].pc = "idle" /\ verdict[o] # "open"
        /\ UNCHANGED <<row, linked, verdict, slot, refs, owner, credited, manual, unheard, faults>>
    BY <1>1 DEF Notified, orderVars, locks, past
  <1>4. row[o] \in OrderRows
    BY <1>3 DEF TopUpInv, OrderInv, KnownInv
  <1> QED BY <1>0, <1>1, <1>2, <1>3, <1>4, StartStep

LEMMA ManualStep ==
    ASSUME TopUpInv, OrderConstants, NEW o \in Orders, NEW t \in Threads, AdminCompleteTopUp(o, t)
    PROVE  TopUpInv'
  <1>1. /\ h[o][t].pc = "idle" /\ row[o] # None /\ Start(o, t, "ManualCompleteTopUp") /\ manual' = manual \cup {o}
        /\ UNCHANGED <<row, linked, verdict, acked, slot, refs, owner, credited, unheard, faults>>
    BY DEF AdminCompleteTopUp, orderVars, locks
  <1>2. row[o] \in OrderRows /\ acked' \subseteq Orders
    BY <1>1 DEF TopUpInv, TopUpTypes
  <1>3. "ManualCompleteTopUp" \in Delivers
    BY DEF Delivers
  <1> QED BY <1>1, <1>2, <1>3, StartStep

-----------------------------------------------------------------------------
(* LockOrder and UnlockOrder.                                              *)

\* What a step of the lock leaves alone.
LEMMA LockFrame ==
    ASSUME TopUpInv, NEW o \in Orders, NEW t \in Threads, NEW n \in Handlers,
           h' = [h EXCEPT ![o][t] = n], n.pc \in {"idle", "wait", "read", "leave"},
           n.kind \in {h[o][t].kind, "none"}, n.pc # "idle" => n.kind = h[o][t].kind, h[o][t].pc # "idle",
           UNCHANGED <<row, linked, verdict, acked, credited, manual, unheard, faults>>,
           slot' \in [Orders -> {0} \cup Mutexes], refs' \in [Orders -> [Mutexes -> Nat]],
           owner' \in [Orders -> [Mutexes -> Threads \cup {None}]],
           \A q \in Orders \ {o} : slot'[q] = slot[q] /\ refs'[q] = refs[q] /\ owner'[q] = owner[q],
           LockInv(o)'
    PROVE  TopUpInv'
  <1>1. /\ h' \in [Orders -> [Threads -> Handlers]]
        /\ h'[o][t] = n /\ (\A u \in Threads \ {t} : h'[o][u] = h[o][u])
        /\ \A q \in Orders \ {o} : h'[q] = h[q]
    BY SetHandler DEF TopUpInv
  <1>2. TopUpTypes'
    BY <1>1 DEF TopUpInv, TopUpTypes
  <1>3. KnownInv(o) /\ OnceInv(o) /\ "none" \notin Delivers
    BY DEF TopUpInv, OrderInv, Delivers
  <1>4. KnownInv(o)'
    BY <1>1, <1>3 DEF KnownInv
  <1>5. OnceInv(o)'
    BY <1>1, <1>3 DEF OnceInv
  <1> QED BY <1>1, <1>2, <1>4, <1>5, OneOrder DEF OrderInv

LEMMA RefdFinite ==
    ASSUME OrderConstants, NEW o \in Orders
    PROVE  IsFiniteSet(Refd(o)) /\ Cardinality(Refd(o)) \in Nat
  <1>1. Refd(o) \subseteq Threads /\ IsFiniteSet(Threads)
    BY DEF Refd, OrderConstants
  <1> QED BY <1>1, FS_Subset, FS_CardinalityType

LEMMA HandlerFacts ==
    ASSUME TopUpInv, NEW o \in Orders, NEW t \in Threads
    PROVE  /\ TopUpTypes /\ LockInv(o) /\ h[o][t] \in Handlers
           /\ 0 \notin Mutexes /\ Mutexes \subseteq Nat
           /\ h[o][t].pc \notin {"read", "write"} => h[o][t].kind # "waffoNotPaid"
  <1>1. TopUpTypes /\ LockInv(o)
    BY DEF TopUpInv, OrderInv
  <1>2. h[o][t] \in Handlers
    BY <1>1 DEF TopUpTypes
  <1>3. 0 \notin Mutexes /\ Mutexes \subseteq Nat
    BY DEF Mutexes
  <1>4. h[o][t].pc \notin {"read", "write"} => h[o][t].kind # "waffoNotPaid"
    BY <1>1 DEF LockInv
  <1> QED BY <1>1, <1>2, <1>3, <1>4

\* The others keep the mutex they have.
LEMMA SameMutex ==
    ASSUME NEW o \in Orders, NEW t \in Threads, NEW n, LockInv(o), h'[o][t] = n, n.mutex = slot[o],
           \A u \in Threads \ {t} : h'[o][u] = h[o][u]
    PROVE  \A u \in Refd(o) : h'[o][u].mutex = slot[o]
  <1> SUFFICES ASSUME NEW u \in Refd(o) PROVE h'[o][u].mutex = slot[o]
    OBVIOUS
  <1>1. u \in Threads /\ h[o][u].mutex = slot[o]
    BY DEF LockInv, Refd
  <1> QED BY <1>1

\* A handler takes a reference to the mutex of the map, or to a new one.
LEMMA LockOrderStep ==
    ASSUME TopUpInv, OrderConstants, NEW o \in Orders, NEW t \in Threads, LockOrder(o, t)
    PROVE  TopUpInv'
  <1>1. LockInv(o) /\ h[o][t] \in Handlers /\ h[o][t].pc = "enter" /\ 0 \notin Mutexes /\ TopUpTypes
        /\ Mutexes \subseteq Nat
    BY DEF TopUpInv, OrderInv, TopUpTypes, LockOrder, Mutexes
  <1>2. PICK m \in Mutexes :
          /\ slot' = [slot EXCEPT ![o] = m] /\ refs' = [refs EXCEPT ![o][m] = @ + 1]
          /\ h' = [h EXCEPT ![o][t].pc = "wait", ![o][t].mutex = m]
          /\ slot[o] \in {0, m}
    <2> DEFINE c == CHOOSE k \in Mutexes : refs[o][k] = 0
    <2>1. CASE slot[o] # 0
      BY <1>1, <2>1 DEF LockOrder, TopUpTypes
    <2>2. CASE slot[o] = 0
      <3>1. 1 \in Mutexes
        <4>1. Cardinality(Threads) \in Nat /\ Cardinality(Threads) # 0
          BY FS_CardinalityType, FS_EmptySet DEF OrderConstants
        <4> QED BY <4>1 DEF Mutexes
      <3>2. refs[o][1] = 0
        BY <1>1, <2>2, <3>1 DEF LockInv
      <3>3. c \in Mutexes
        BY <3>1, <3>2
      <3> HIDE DEF c
      <3> QED BY <2>2, <3>3 DEF LockOrder, c
    <2> QED BY <2>1, <2>2
  <1>3. UNCHANGED <<row, linked, verdict, acked, owner, credited, manual, unheard, faults>>
    BY DEF LockOrder, orderVars, past
  <1> DEFINE n == [h[o][t] EXCEPT !.pc = "wait", !.mutex = m]
  <1>4. n \in Handlers /\ n.pc = "wait" /\ n.mutex = m /\ n.kind = h[o][t].kind
    BY <1>1 DEF Handlers
  <1>5. h' = [h EXCEPT ![o][t] = n]
    BY <1>1, <1>2 DEF TopUpTypes
  <1> HIDE DEF n
  <1>6. h'[o][t] = n /\ \A u \in Threads \ {t} : h'[o][u] = h[o][u]
    BY <1>1, <1>4, <1>5, SetHandler
  <1>7. /\ slot'[o] = m /\ slot' \in [Orders -> {0} \cup Mutexes] /\ \A q \in Orders \ {o} : slot'[q] = slot[q]
    BY <1>1, <1>2 DEF TopUpTypes
  <1>8. /\ refs' \in [Orders -> [Mutexes -> Nat]] /\ (\A q \in Orders \ {o} : refs'[q] = refs[q])
        /\ \A k \in Mutexes : refs'[o][k] = IF k = m THEN refs[o][k] + 1 ELSE refs[o][k]
    BY <1>1, <1>2 DEF TopUpTypes
  <1>9. h[o][t].kind # "waffoNotPaid" /\ t \notin Refd(o) /\ ~ Holding(n)
    BY <1>1, <1>4 DEF LockInv, Refd, Locking, Holding
  <1>10. Refd(o)' = Refd(o) \cup {t}
    BY <1>4, <1>6, <1>9 DEF Refd, Locking
  <1>11. Cardinality(Refd(o)') = Cardinality(Refd(o)) + 1
    BY <1>9, <1>10, RefdFinite, FS_AddElement
  <1>12. Cardinality(Refd(o)) \in Nat /\ (Refd(o) = {} => Cardinality(Refd(o)) = 0)
    BY RefdFinite, FS_EmptySet
  <1>13. \A k \in Mutexes : refs'[o][k] = IF k = slot'[o] THEN Cardinality(Refd(o)') ELSE 0
    <2> SUFFICES ASSUME NEW k \in Mutexes PROVE refs'[o][k] = IF k = m THEN Cardinality(Refd(o)) + 1 ELSE 0
      BY <1>7, <1>11
    <2>1. refs[o][k] = IF k = slot[o] THEN Cardinality(Refd(o)) ELSE 0
      BY <1>1 DEF LockInv
    <2>2. slot[o] = 0 => refs[o][k] = 0 /\ Cardinality(Refd(o)) = 0
      BY <1>1, <1>12, <2>1 DEF LockInv
    <2> QED BY <1>2, <1>8, <1>12, <2>1, <2>2
  <1>14. \A u \in Refd(o)' : h'[o][u].mutex = slot'[o]
    <2> SUFFICES ASSUME NEW u \in Refd(o) \cup {t} PROVE h'[o][u].mutex = m
      BY <1>7, <1>10
    <2>1. CASE u = t
      BY <1>4, <1>6, <2>1
    <2>2. CASE u # t
      <3>1. u \in Threads /\ u \in Refd(o) /\ h[o][u].mutex = slot[o] /\ slot[o] # 0
        BY <1>1, <2>2 DEF Refd, LockInv
      <3> QED BY <1>2, <1>6, <2>2, <3>1
    <2> QED BY <2>1, <2>2
  <1>15. \A u \in Threads : Holding(h'[o][u]) => owner[o][m] = u
    <2> SUFFICES ASSUME NEW u \in Threads, Holding(h'[o][u]) PROVE owner[o][m] = u
      OBVIOUS
    <2>1. u # t /\ Holding(h[o][u])
      BY <1>6, <1>9
    <2>2. u \in Refd(o) /\ slot[o] # 0
      BY <1>1, <2>1 DEF LockInv, Refd, Locking, Holding
    <2> QED BY <1>1, <1>2, <2>1, <2>2 DEF LockInv
  <1>16. \A u \in Threads : h'[o][u].kind = "waffoNotPaid" => h'[o][u].pc \in {"read", "write"}
    BY <1>1, <1>4, <1>6, <1>9 DEF LockInv
  <1>17. LockInv(o)'
    BY <1>1, <1>3, <1>7, <1>13, <1>14, <1>15, <1>16 DEF LockInv
  <1> QED BY <1>1, <1>3, <1>4, <1>5, <1>7, <1>8, <1>17, LockFrame DEF TopUpTypes

LEMMA LockWaitStep ==
    ASSUME TopUpInv, OrderConstants, NEW o \in Orders, NEW t \in Threads, LockWait(o, t)
    PROVE  TopUpInv'
  <1> DEFINE m == slot[o]
             n == [h[o][t] EXCEPT !.pc = "read"]
  <1>1. /\ LockInv(o) /\ h[o][t] \in Handlers /\ h[o][t].pc = "wait" /\ 0 \notin Mutexes /\ TopUpTypes
        /\ h[o][t].kind # "waffoNotPaid"
    <2>1. h[o][t].pc = "wait"
      BY DEF LockWait
    <2> QED BY <2>1, HandlerFacts
  <1>2. t \in Refd(o) /\ h[o][t].mutex = m /\ m \in Mutexes
    BY <1>1 DEF Refd, Locking, LockInv, TopUpTypes
  <1>3. /\ owner[o][m] = None /\ owner' = [owner EXCEPT ![o][m] = t] /\ h' = [h EXCEPT ![o][t].pc = "read"]
        /\ UNCHANGED <<row, linked, verdict, acked, slot, refs, credited, manual, unheard, faults>>
    BY <1>2 DEF LockWait, Goto, orderVars, past
  <1>4. n \in Handlers /\ n.pc = "read" /\ n.mutex = m /\ n.kind = h[o][t].kind
    BY <1>1, <1>2 DEF Handlers
  <1>5. h' = [h EXCEPT ![o][t] = n]
    BY <1>1, <1>3 DEF TopUpTypes
  <1> HIDE DEF n
  <1>6. h'[o][t] = n /\ \A u \in Threads \ {t} : h'[o][u] = h[o][u]
    BY <1>1, <1>4, <1>5, SetHandler
  <1>7. /\ owner' \in [Orders -> [Mutexes -> Threads \cup {None}]] /\ owner'[o][m] = t
        /\ \A q \in Orders \ {o} : owner'[q] = owner[q]
    BY <1>1, <1>2, <1>3 DEF TopUpTypes
  <1>8. Refd(o)' = Refd(o)
    BY <1>1, <1>2, <1>4, <1>6 DEF Refd, Locking
  <1>9. \A u \in Threads : Holding(h'[o][u]) => owner'[o][m] = u
    BY <1>1, <1>3, <1>6, <1>7 DEF LockInv, OrderConstants
  <1>10. \A u \in Refd(o) : h'[o][u].mutex = m
    BY <1>1, <1>4, <1>6, SameMutex
  <1>11. \A u \in Threads : h'[o][u].kind = "waffoNotPaid" => h'[o][u].pc \in {"read", "write"}
    BY <1>1, <1>4, <1>6 DEF LockInv
  <1>12. LockInv(o)'
    <2>1. slot' = slot /\ refs' = refs /\ slot[o] # 0
      BY <1>1, <1>2, <1>3
    <2>2. \A k \in Mutexes : refs[o][k] = IF k = slot[o] THEN Cardinality(Refd(o)) ELSE 0
      BY <1>1 DEF LockInv
    <2> QED BY <1>8, <1>9, <1>10, <1>11, <2>1, <2>2 DEF LockInv
  <1>13. slot' \in [Orders -> {0} \cup Mutexes] /\ refs' \in [Orders -> [Mutexes -> Nat]]
    BY <1>1, <1>3 DEF TopUpTypes
  <1>14. /\ n.pc \in {"idle", "wait", "read", "leave"} /\ n.kind \in {h[o][t].kind, "none"}
         /\ (n.pc # "idle" => n.kind = h[o][t].kind) /\ h[o][t].pc # "idle"
    BY <1>1, <1>4
  <1>15. /\ UNCHANGED <<row, linked, verdict, acked, credited, manual, unheard, faults>>
         /\ \A q \in Orders \ {o} : slot'[q] = slot[q] /\ refs'[q] = refs[q] /\ owner'[q] = owner[q]
    BY <1>3, <1>7
  <1> QED BY <1>4, <1>5, <1>7, <1>12, <1>13, <1>14, <1>15, LockFrame

LEMMA UnlockOrderStep ==
    ASSUME TopUpInv, OrderConstants, NEW o \in Orders, NEW t \in Threads, UnlockOrder(o, t)
    PROVE  TopUpInv'
  <1> DEFINE m == slot[o]
  <1>1. /\ LockInv(o) /\ h[o][t] \in Handlers /\ h[o][t].pc \in {"unlock", "leave"} /\ 0 \notin Mutexes
        /\ TopUpTypes /\ h[o][t].kind # "waffoNotPaid" /\ Mutexes \subseteq Nat
    <2>1. h[o][t].pc \in {"unlock", "leave"}
      BY DEF UnlockOrder
    <2> QED BY <2>1, HandlerFacts
  <1>2. t \in Refd(o) /\ h[o][t].mutex = m /\ m \in Mutexes
    BY <1>1 DEF Refd, Locking, LockInv, TopUpTypes
  <1>3. CASE h[o][t].pc = "unlock"
    <2> DEFINE n == [h[o][t] EXCEPT !.pc = "leave"]
    <2>1. /\ owner' = [owner EXCEPT ![o][m] = None] /\ h' = [h EXCEPT ![o][t].pc = "leave"]
          /\ UNCHANGED <<row, linked, verdict, acked, slot, refs, credited, manual, unheard, faults>>
      BY <1>2, <1>3 DEF UnlockOrder, Goto, orderVars, past
    <2>2. n \in Handlers /\ n.pc = "leave" /\ n.mutex = m /\ n.kind = h[o][t].kind
      BY <1>1, <1>2 DEF Handlers
    <2>3. h' = [h EXCEPT ![o][t] = n]
      BY <1>1, <2>1 DEF TopUpTypes
    <2> HIDE DEF n
    <2>4. h'[o][t] = n /\ \A u \in Threads \ {t} : h'[o][u] = h[o][u]
      BY <1>1, <2>2, <2>3, SetHandler
    <2>5. /\ owner' \in [Orders -> [Mutexes -> Threads \cup {None}]]
          /\ \A q \in Orders \ {o} : owner'[q] = owner[q]
      BY <1>1, <1>2, <2>1 DEF TopUpTypes
    <2>6. Refd(o)' = Refd(o)
      BY <1>1, <1>2, <2>2, <2>4 DEF Refd, Locking
    <2>7. Holding(h[o][t]) /\ ~ Holding(n)
      BY <1>1, <1>3, <2>2 DEF Holding
    <2>8. \A u \in Threads : ~ Holding(h'[o][u])
      BY <2>4, <2>7, Exclusive
    <2>9. \A u \in Refd(o) : h'[o][u].mutex = m
      BY <1>1, <2>2, <2>4, SameMutex
    <2>10. \A u \in Threads : h'[o][u].kind = "waffoNotPaid" => h'[o][u].pc \in {"read", "write"}
      BY <1>1, <2>2, <2>4 DEF LockInv
    <2>11. LockInv(o)'
      <3>1. slot' = slot /\ refs' = refs /\ slot[o] # 0
        BY <1>1, <1>2, <2>1
      <3>2. \A k \in Mutexes : refs[o][k] = IF k = slot[o] THEN Cardinality(Refd(o)) ELSE 0
        BY <1>1 DEF LockInv
      <3> QED BY <2>6, <2>8, <2>9, <2>10, <3>1, <3>2 DEF LockInv
    <2>12. slot' \in [Orders -> {0} \cup Mutexes] /\ refs' \in [Orders -> [Mutexes -> Nat]]
      BY <1>1, <2>1 DEF TopUpTypes
    <2>13. /\ n.pc \in {"idle", "wait", "read", "leave"} /\ n.kind \in {h[o][t].kind, "none"}
           /\ (n.pc # "idle" => n.kind = h[o][t].kind) /\ h[o][t].pc # "idle"
      BY <1>3, <2>2
    <2>14. /\ UNCHANGED <<row, linked, verdict, acked, credited, manual, unheard, faults>>
           /\ \A q \in Orders \ {o} : slot'[q] = slot[q] /\ refs'[q] = refs[q] /\ owner'[q] = owner[q]
      BY <2>1, <2>5
    <2> QED BY <2>2, <2>3, <2>5, <2>11, <2>12, <2>13, <2>14, LockFrame
  <1>4. CASE h[o][t].pc = "leave"
    <2>1. /\ refs' = [refs EXCEPT ![o][m] = @ - 1]
          /\ slot' = [slot EXCEPT ![o] = IF refs[o][m] = 1 THEN 0 ELSE @]
          /\ h' = [h EXCEPT ![o][t] = Idle]
          /\ UNCHANGED <<row, linked, verdict, acked, owner, credited, manual, unheard, faults>>
      BY <1>2, <1>4 DEF UnlockOrder, UnlockCount, orderVars, past
    <2>2. Idle \in Handlers /\ Idle.pc = "idle" /\ Idle.kind = "none"
      BY DEF Idle, Handlers
    <2>3. h'[o][t] = Idle /\ \A u \in Threads \ {t} : h'[o][u] = h[o][u]
      BY <1>1, <2>1, <2>2, SetHandler
    <2>4. Refd(o)' = Refd(o) \ {t}
      BY <2>2, <2>3 DEF Refd, Locking
    <2>5. Cardinality(Refd(o)') = Cardinality(Refd(o)) - 1 /\ Cardinality(Refd(o)) \in Nat /\ Cardinality(Refd(o)) # 0
      BY <1>2, <2>4, RefdFinite, FS_RemoveElement, FS_EmptySet
    <2>6. refs[o][m] = Cardinality(Refd(o))
      BY <1>1, <1>2 DEF LockInv
    <2>7. Cardinality(Refd(o)) = 1 => Refd(o)' = {}
      <3>1. IsFiniteSet(Refd(o)')
        BY <2>4, RefdFinite, FS_Subset
      <3> QED BY <2>5, <3>1, FS_EmptySet
    <2>8. /\ slot' \in [Orders -> {0} \cup Mutexes] /\ (\A q \in Orders \ {o} : slot'[q] = slot[q])
          /\ slot'[o] = IF Cardinality(Refd(o)) = 1 THEN 0 ELSE m
      BY <1>1, <1>2, <2>1, <2>6 DEF TopUpTypes
    <2>9. \A k \in Mutexes : refs'[o][k] = IF k = m THEN Cardinality(Refd(o)') ELSE 0
      BY <1>1, <1>2, <2>1, <2>5, <2>6 DEF LockInv, TopUpTypes
    <2>10. /\ refs' \in [Orders -> [Mutexes -> Nat]] /\ \A q \in Orders \ {o} : refs'[q] = refs[q]
      <3>1. refs[o][m] - 1 \in Nat
        BY <2>5, <2>6
      <3> QED BY <1>1, <1>2, <2>1, <3>1 DEF TopUpTypes
    <2>11. \A k \in Mutexes : refs'[o][k] = IF k = slot'[o] THEN Cardinality(Refd(o)') ELSE 0
      BY <1>1, <2>5, <2>8, <2>9
    <2>12. \A u \in Refd(o)' : h'[o][u].mutex = slot'[o]
      <3> SUFFICES ASSUME NEW u \in Refd(o)' PROVE h'[o][u].mutex = slot'[o]
        OBVIOUS
      <3>1. u \in Refd(o) /\ u # t /\ Refd(o)' # {}
        BY <2>4
      <3>2. u \in Threads /\ h[o][u].mutex = m
        BY <1>1, <3>1 DEF Refd, LockInv
      <3>3. slot'[o] = m
        BY <2>7, <2>8, <3>1
      <3> QED BY <2>3, <3>1, <3>2, <3>3
    <2>13. \A u \in Threads : Holding(h'[o][u]) => u \in Refd(o)' /\ owner[o][m] = u
      BY <1>1, <2>2, <2>3 DEF LockInv, Refd, Holding, Locking
    <2>14. \A u \in Threads : Holding(h'[o][u]) => owner[o][slot'[o]] = u
      BY <2>7, <2>8, <2>13
    <2>15. \A u \in Threads : h'[o][u].kind = "waffoNotPaid" => h'[o][u].pc \in {"read", "write"}
      BY <1>1, <2>2, <2>3 DEF LockInv
    <2>16. slot'[o] = 0 => Refd(o)' = {}
      BY <1>1, <1>2, <2>7, <2>8
    <2>17. LockInv(o)'
      BY <2>1, <2>11, <2>12, <2>14, <2>15, <2>16 DEF LockInv
    <2> QED BY <1>1, <1>4, <2>1, <2>2, <2>8, <2>10, <2>17, LockFrame DEF TopUpTypes
  <1> QED BY <1>1, <1>3, <1>4

-----------------------------------------------------------------------------
(* What a handler does with the order.                                     *)

\* The order is read.  A handler that will deliver goes on with a pending order only.
LEMMA ReadOrderStep ==
    ASSUME TopUpInv, OrderConstants, NEW o \in Orders, NEW t \in Threads, ReadOrder(o, t)
    PROVE  TopUpInv'
  <1>1. /\ h[o][t].pc = "read" /\ h[o][t] \in Handlers /\ TopUpTypes /\ KnownInv(o) /\ OnceInv(o)
        /\ UNCHANGED <<row, linked, verdict, slot, refs, owner, credited, manual, unheard, faults>>
    BY DEF ReadOrder, TopUpInv, TopUpTypes, OrderInv, orderVars, locks, past
  <1>2. row[o] \in OrderRows /\ h[o][t].kind # "none" /\ "none" \notin Delivers
    BY <1>1 DEF KnownInv, Delivers
  <1>3. CASE Proceeds(h[o][t].kind, row[o].plan, row[o].status)
    <2> DEFINE n == [h[o][t] EXCEPT !.pc = "write", !.seen = row[o].status]
    <2>1. h' = [h EXCEPT ![o][t].pc = "write", ![o][t].seen = row[o].status] /\ acked' = acked
      BY <1>3 DEF ReadOrder
    <2>2. n \in Handlers /\ n.pc = "write" /\ n.mutex = h[o][t].mutex /\ n.kind = h[o][t].kind
      BY <1>1, <1>2 DEF Handlers, OrderRows
    <2>3. h' = [h EXCEPT ![o][t] = n]
      BY <1>1, <2>1 DEF TopUpTypes
    <2> HIDE DEF n
    <2>4. /\ h' \in [Orders -> [Threads -> Handlers]]
          /\ h'[o][t] = n /\ (\A u \in Threads \ {t} : h'[o][u] = h[o][u])
          /\ \A q \in Orders \ {o} : h'[q] = h[q]
      BY <1>1, <2>2, <2>3, SetHandler
    <2>5. TopUpTypes'
      BY <1>1, <2>1, <2>4 DEF TopUpTypes
    <2>6. /\ (Locking(n) <=> Locking(h[o][t])) /\ (Holding(n) <=> Holding(h[o][t]))
          /\ n.kind = "waffoNotPaid" => n.pc \in {"read", "write"}
      BY <1>1, <2>2 DEF Locking, Holding
    <2>7. LockInv(o)'
      BY <1>1, <2>2, <2>3, <2>6, MoveLocks
    <2>8. KnownInv(o)'
      BY <1>1, <1>2, <2>2, <2>4 DEF KnownInv
    <2>9. h[o][t].kind \in Delivers => credited[o] = 0
      BY <1>1, <1>2, <1>3 DEF Proceeds, Delivers, OnceInv
    <2>10. OnceInv(o)'
      BY <1>1, <2>2, <2>4, <2>9 DEF OnceInv
    <2> QED BY <1>1, <2>4, <2>5, <2>7, <2>8, <2>10, OneOrder DEF OrderInv
  <1>4. CASE ~ Proceeds(h[o][t].kind, row[o].plan, row[o].status)
    <2> DEFINE ok == Harmless(h[o][t].kind, row[o].plan, row[o].status) \/ h[o][t].kind \in Closes
    <2>1. Return(o, t, ok) /\ ok \in BOOLEAN
      BY <1>4 DEF ReadOrder
    <2> HIDE DEF ok
    <2>2. /\ LockInv(o)' /\ acked' \subseteq Orders
          /\ h' \in [Orders -> [Threads -> Handlers]]
          /\ h'[o][t].pc \in {"idle", "unlock"} /\ h'[o][t].kind \in {h[o][t].kind, "none"}
          /\ h'[o][t].pc = "unlock" => h'[o][t].kind = h[o][t].kind
          /\ (\A u \in Threads \ {t} : h'[o][u] = h[o][u]) /\ \A q \in Orders \ {o} : h'[q] = h[q]
      BY <1>1, <2>1, Returns
    <2>3. TopUpTypes'
      BY <1>1, <2>2 DEF TopUpTypes
    <2>4. KnownInv(o)'
      BY <1>1, <1>2, <2>2 DEF KnownInv
    <2>5. OnceInv(o)'
      BY <1>1, <2>2 DEF OnceInv
    <2> QED BY <1>1, <2>2, <2>3, <2>4, <2>5, OneOrder DEF OrderInv
  <1> QED BY <1>3, <1>4

\* A handler ends: it may write a status that is not "pending", and may deliver an order
\* that is not pending any more.
LEMMA EndStep ==
    ASSUME TopUpInv, OrderConstants, NEW o \in Orders, NEW t \in Threads, NEW ok \in BOOLEAN,
           Return(o, t, ok), h[o][t].pc \in {"write", "credit"},
           NEW s \in Statuses \ {"pending"}, row' \in {row, [row EXCEPT ![o].status = s]},
           \/ credited' = credited
           \/ /\ credited' = [credited EXCEPT ![o] = @ + 1]
              /\ h[o][t].kind \in Delivers /\ row'[o].status # "pending",
           unheard' \subseteq Orders, faults' \in 0 .. MaxFaults,
           UNCHANGED <<linked, verdict, slot, refs, owner, manual>>
    PROVE  TopUpInv'
  <1>1. TopUpTypes /\ KnownInv(o) /\ OnceInv(o) /\ h[o][t] \in Handlers
    BY DEF TopUpInv, TopUpTypes, OrderInv
  <1>2. row[o] \in OrderRows /\ h[o][t].kind # "none" /\ None \notin OrderRows
    BY <1>1 DEF KnownInv, OrderConstants
  <1>3. /\ LockInv(o)' /\ acked' \subseteq Orders
        /\ h' \in [Orders -> [Threads -> Handlers]]
        /\ h'[o][t].pc \in {"idle", "unlock"} /\ h'[o][t].kind \in {h[o][t].kind, "none"}
        /\ h'[o][t].pc = "unlock" => h'[o][t].kind = h[o][t].kind
        /\ (\A u \in Threads \ {t} : h'[o][u] = h[o][u]) /\ \A q \in Orders \ {o} : h'[q] = h[q]
    BY Returns
  <1> DEFINE n == [row[o] EXCEPT !.status = s]
  <1>4. n \in OrderRows /\ n.status = s
    BY <1>2 DEF OrderRows
  <1>5. row' \in {row, [row EXCEPT ![o] = n]}
    BY <1>1 DEF TopUpTypes
  <1> HIDE DEF n
  <1>6. /\ row' \in [Orders -> OrderRows \cup {None}] /\ row'[o] \in {row[o], n}
        /\ \A q \in Orders \ {o} : row'[q] = row[q]
    BY <1>1, <1>4, <1>5 DEF TopUpTypes
  <1>7. credited' \in [Orders -> Nat] /\ \A q \in Orders \ {o} : credited'[q] = credited[q]
    <2>1. credited \in [Orders -> Nat]
      BY <1>1 DEF TopUpTypes
    <2>2. CASE credited' = credited
      BY <2>1, <2>2
    <2>3. CASE credited' = [credited EXCEPT ![o] = @ + 1]
      BY <2>1, <2>3
    <2> QED BY <2>2, <2>3
  <1>8. TopUpTypes'
    BY <1>1, <1>3, <1>6, <1>7 DEF TopUpTypes
  <1>9. row'[o] \in OrderRows /\ (row'[o].status = "pending" => row'[o] = row[o])
    BY <1>2, <1>4, <1>6
  <1>10. KnownInv(o)'
    <2>1. "none" \notin Delivers
      BY DEF Delivers
    <2> QED BY <1>1, <1>2, <1>3, <1>9, <2>1 DEF KnownInv
  <1>11. OnceInv(o)'
    <2>1. CASE credited' = credited
      BY <1>1, <1>3, <1>9, <2>1 DEF OnceInv
    <2>2. CASE h[o][t].kind \in Delivers /\ row'[o].status # "pending"
      <3>1. Holding(h[o][t])
        BY <2>2 DEF Holding, Delivers
      <3>2. \A u \in Threads \ {t} : ~ Holding(h[o][u])
        BY <3>1, Exclusive
      <3>3. \A u \in Threads : h[o][u].pc = "credit" => Holding(h[o][u])
        BY <1>1 DEF OnceInv, Holding
      <3>4. \A u \in Threads : h[o][u].pc = "write" /\ h[o][u].kind \in Delivers => Holding(h[o][u])
        BY DEF Holding, Delivers
      <3>5. \A u \in Threads : h'[o][u].pc # "credit" /\ ~ (h'[o][u].pc = "write" /\ h'[o][u].kind \in Delivers)
        BY <1>3, <3>2, <3>3, <3>4
      <3> QED BY <2>2, <3>5 DEF OnceInv
    <2> QED BY <2>1, <2>2
  <1> QED BY <1>3, <1>6, <1>7, <1>8, <1>10, <1>11, OneOrder DEF OrderInv

LEMMA CommitStep ==
    ASSUME TopUpInv, OrderConstants, NEW o \in Orders, NEW t \in Threads, NEW kinds \in SUBSET Delivers,
           Commit(o, t, kinds)
    PROVE  TopUpInv'
  <1>1. TopUpTypes /\ row[o] \in OrderRows
    BY DEF TopUpInv, OrderInv, KnownInv, Commit
  <1>2. /\ h[o][t].pc \in {"write", "credit"} /\ h[o][t].kind \in Delivers
        /\ row' = [row EXCEPT ![o].status = "success"] /\ credited' = [credited EXCEPT ![o] = @ + 1]
        /\ Return(o, t, TRUE) /\ UNCHANGED <<linked, verdict, slot, refs, owner, manual, unheard, faults>>
    BY DEF Commit, locks
  <1>3. row'[o].status = "success"
    BY <1>1, <1>2 DEF TopUpTypes, OrderRows
  <1>4. "success" \in Statuses \ {"pending"} /\ unheard' \subseteq Orders /\ faults' \in 0 .. MaxFaults
    BY <1>1, <1>2 DEF Statuses, TopUpTypes
  <1> QED BY <1>2, <1>3, <1>4, EndStep

LEMMA EpaySaveStep ==
    ASSUME TopUpInv, OrderConstants, NEW o \in Orders, NEW t \in Threads, EpaySave(o, t)
    PROVE  TopUpInv'
  <1>1. TopUpTypes /\ KnownInv(o) /\ OnceInv(o) /\ h[o][t] \in Handlers
    BY DEF TopUpInv, TopUpTypes, OrderInv
  <1>2. /\ h[o][t].pc = "write" /\ h[o][t].kind = "EpayNotify"
        /\ UNCHANGED <<linked, verdict, acked, slot, refs, owner, credited, manual, unheard, faults>>
    BY DEF EpaySave, locks, past
  <1> DEFINE n == [h[o][t] EXCEPT !.pc = "credit"]
             r == [row[o] EXCEPT !.status = "success"]
  <1>3. row[o] \in OrderRows /\ None \notin OrderRows /\ credited[o] = 0
    BY <1>1, <1>2 DEF KnownInv, OrderConstants, OnceInv, Delivers
  <1>4. n \in Handlers /\ n.pc = "credit" /\ n.mutex = h[o][t].mutex /\ n.kind = "EpayNotify"
    BY <1>1, <1>2 DEF Handlers
  <1>5. h' = [h EXCEPT ![o][t] = n]
    BY <1>1 DEF TopUpTypes, EpaySave, Goto
  <1>6. r \in OrderRows /\ r.status = "success"
    BY <1>3 DEF OrderRows, Statuses
  <1>7. row' = [row EXCEPT ![o] = r]
    BY <1>1 DEF TopUpTypes, EpaySave
  <1> HIDE DEF n, r
  <1>8. /\ h' \in [Orders -> [Threads -> Handlers]]
        /\ h'[o][t] = n /\ (\A u \in Threads \ {t} : h'[o][u] = h[o][u])
        /\ \A q \in Orders \ {o} : h'[q] = h[q]
    BY <1>1, <1>4, <1>5, SetHandler
  <1>9. /\ row' \in [Orders -> OrderRows \cup {None}] /\ row'[o] = r
        /\ \A q \in Orders \ {o} : row'[q] = row[q]
    BY <1>1, <1>6, <1>7 DEF TopUpTypes
  <1>10. TopUpTypes'
    BY <1>1, <1>2, <1>8, <1>9 DEF TopUpTypes
  <1>11. LockInv(o)'
    <2>1. /\ Locking(n) /\ Locking(h[o][t]) /\ Holding(n) /\ Holding(h[o][t]) /\ n.kind # "waffoNotPaid"
      BY <1>2, <1>4 DEF Locking, Holding
    <2> QED BY <1>2, <1>4, <1>5, <2>1, MoveLocks
  <1>12. KnownInv(o)'
    BY <1>1, <1>2, <1>3, <1>4, <1>6, <1>8, <1>9 DEF KnownInv
  <1>13. OnceInv(o)'
    BY <1>1, <1>2, <1>3, <1>4, <1>6, <1>8, <1>9 DEF OnceInv
  <1> QED BY <1>2, <1>8, <1>9, <1>10, <1>11, <1>12, <1>13, OneOrder DEF OrderInv

LEMMA EpayCreditStep ==
    ASSUME TopUpInv, OrderConstants, NEW o \in Orders, NEW t \in Threads, EpayCredit(o, t)
    PROVE  TopUpInv'
  <1>1. /\ h[o][t].pc = "credit" /\ credited' = [credited EXCEPT ![o] = @ + 1] /\ Return(o, t, TRUE)
        /\ UNCHANGED <<row, linked, verdict, slot, refs, owner, manual, unheard, faults>>
    BY DEF EpayCredit, orderVars, locks
  <1>2. h[o][t].kind \in Delivers /\ row'[o].status # "pending"
    BY <1>1 DEF TopUpInv, OrderInv, OnceInv, Delivers
  <1>3. "success" \in Statuses \ {"pending"} /\ unheard' \subseteq Orders /\ faults' \in 0 .. MaxFaults
    BY <1>1 DEF Statuses, TopUpTypes, TopUpInv
  <1> QED BY <1>1, <1>2, <1>3, EndStep

LEMMA CloseStep ==
    ASSUME TopUpInv, OrderConstants, NEW o \in Orders, NEW t \in Threads, NEW k,
           NEW s \in {"failed", "expired"}, Close(o, t, k, s)
    PROVE  TopUpInv'
  <1>1. /\ h[o][t].pc = "write" /\ row' = [row EXCEPT ![o].status = s] /\ Return(o, t, TRUE)
        /\ UNCHANGED <<linked, verdict, slot, refs, owner, credited, manual, unheard, faults>>
    BY DEF Close, locks, past
  <1>2. s \in Statuses \ {"pending"} /\ unheard' \subseteq Orders /\ faults' \in 0 .. MaxFaults
    BY <1>1 DEF Statuses, TopUpTypes, TopUpInv
  <1> QED BY <1>1, <1>2, EndStep

LEMMA HandlerFailsStep ==
    ASSUME TopUpInv, OrderConstants, NEW o \in Orders, NEW t \in Threads, HandlerFails(o, t)
    PROVE  TopUpInv'
  <1>1. /\ h[o][t].pc \in {"write", "credit"} /\ Return(o, t, FALSE)
        /\ UNCHANGED <<row, linked, verdict, slot, refs, owner, credited, manual>>
    BY DEF HandlerFails, orderVars, locks, past
  <1>2. unheard' \subseteq Orders /\ faults' \in 0 .. MaxFaults
    BY DEF HandlerFails, TopUpTypes, TopUpInv, OrderConstants
  <1>3. "success" \in Statuses \ {"pending"}
    BY DEF Statuses
  <1> QED BY <1>1, <1>2, <1>3, EndStep

\* No handler runs and no mutex is held.
LEMMA Quiet ==
    ASSUME OrderConstants, NEW o \in Orders,
           h = [q \in Orders |-> [t \in Threads |-> Idle]], slot = [q \in Orders |-> 0],
           refs = [q \in Orders |-> [m \in Mutexes |-> 0]]
    PROVE  LockInv(o) /\ \A t \in Threads : h[o][t].pc = "idle" /\ h[o][t].kind = "none"
  <1>1. \A t \in Threads : h[o][t] = Idle
    OBVIOUS
  <1>2. Idle.pc = "idle" /\ Idle.kind = "none" /\ ~ Locking(Idle) /\ ~ Holding(Idle)
    BY DEF Idle, Locking, Holding
  <1>3. Refd(o) = {} /\ Cardinality({}) = 0
    BY <1>1, <1>2, FS_EmptySet DEF Refd
  <1>4. LockInv(o)
    BY <1>1, <1>2, <1>3 DEF LockInv
  <1> QED BY <1>1, <1>2, <1>4

LEMMA RestartStep == ASSUME TopUpInv, OrderConstants, Restart PROVE TopUpInv'
  <1>1. /\ h' = [q \in Orders |-> [t \in Threads |-> Idle]] /\ slot' = [q \in Orders |-> 0]
        /\ refs' = [q \in Orders |-> [m \in Mutexes |-> 0]]
        /\ owner' = [q \in Orders |-> [m \in Mutexes |-> None]]
        /\ UNCHANGED <<row, linked, verdict, acked, credited, manual>>
        /\ unheard' \subseteq Orders /\ faults' \in 0 .. MaxFaults
    BY DEF Restart, orderVars, past, TopUpInv, TopUpTypes, OrderConstants
  <1>2. Idle \in Handlers /\ Idle.pc = "idle" /\ Idle.kind = "none" /\ ~ Locking(Idle) /\ ~ Holding(Idle)
    BY DEF Idle, Handlers, Locking, Holding
  <1>3. TopUpTypes'
    BY <1>1, <1>2 DEF TopUpInv, TopUpTypes
  <1>4. ASSUME NEW o \in Orders PROVE OrderInv(o)'
    <2>1. \A t \in Threads : h'[o][t] = Idle
      BY <1>1
    <2>2. Refd(o)' = {} /\ Cardinality({}) = 0
      BY <1>2, <2>1, FS_EmptySet DEF Refd
    <2>3. LockInv(o)'
      BY <1>1, <1>2, <2>1, <2>2 DEF LockInv
    <2>4. KnownInv(o) /\ OnceInv(o) /\ "none" \notin Delivers
      BY DEF TopUpInv, OrderInv, Delivers
    <2>5. KnownInv(o)'
      BY <1>1, <1>2, <2>1, <2>4 DEF KnownInv
    <2>6. OnceInv(o)'
      BY <1>1, <1>2, <2>1, <2>4 DEF OnceInv
    <2> QED BY <2>3, <2>5, <2>6 DEF OrderInv
  <1> QED BY <1>3, <1>4 DEF TopUpInv

LEMMA InitTopUpInv == ASSUME OrderConstants, OrderInit PROVE TopUpInv
  <1>1. Idle \in Handlers /\ "none" \notin Delivers
    BY DEF Idle, Handlers, Delivers
  <1>2. TopUpTypes
    BY <1>1 DEF OrderInit, TopUpTypes, OrderConstants
  <1>3. ASSUME NEW o \in Orders PROVE OrderInv(o)
    <2>1. LockInv(o) /\ \A t \in Threads : h[o][t].pc = "idle" /\ h[o][t].kind = "none"
      BY Quiet DEF OrderInit
    <2>2. row[o] = None /\ credited[o] = 0 /\ verdict[o] = "open" /\ o \notin linked /\ None \notin OrderRows
      BY DEF OrderInit, OrderConstants
    <2>3. KnownInv(o) /\ OnceInv(o)
      BY <1>1, <2>1, <2>2 DEF KnownInv, OnceInv
    <2> QED BY <2>1, <2>3 DEF OrderInv
  <1> QED BY <1>2, <1>3 DEF TopUpInv

\* What the actions that deliver have in common.
LEMMA Commits ==
    ASSUME NEW o, NEW t,
           \/ CompleteSubscriptionOrder(o, t) \/ Recharge(o, t) \/ RechargeCreem(o, t)
           \/ RechargeWaffo(o, t) \/ ManualCompleteTopUp(o, t)
    PROVE  \E kinds \in SUBSET Delivers : Commit(o, t, kinds)
  <1>1. /\ {"SubscriptionEpayNotify", "SubscriptionEpayReturn", "fulfillOrder",
            "handleCheckoutCompleted"} \in SUBSET Delivers
        /\ {"fulfillOrder"} \in SUBSET Delivers /\ {"handleCheckoutCompleted"} \in SUBSET Delivers
        /\ {"RechargeWaffo"} \in SUBSET Delivers /\ {"ManualCompleteTopUp"} \in SUBSET Delivers
    BY DEF Delivers
  <1>2. CASE CompleteSubscriptionOrder(o, t)
    BY <1>1, <1>2 DEF CompleteSubscriptionOrder
  <1>3. CASE Recharge(o, t)
    BY <1>1, <1>3 DEF Recharge
  <1>4. CASE RechargeCreem(o, t)
    BY <1>1, <1>4 DEF RechargeCreem
  <1>5. CASE RechargeWaffo(o, t)
    BY <1>1, <1>5 DEF RechargeWaffo
  <1>6. CASE ManualCompleteTopUp(o, t)
    BY <1>1, <1>6 DEF ManualCompleteTopUp
  <1> QED BY <1>2, <1>3, <1>4, <1>5, <1>6

LEMMA Closings ==
    ASSUME NEW o, NEW t, sessionExpired(o, t) \/ sessionAsyncPaymentFailed(o, t) \/ waffoNotPaid(o, t)
    PROVE  \E k \in Closes, s \in {"failed", "expired"} : Close(o, t, k, s)
  BY DEF sessionExpired, sessionAsyncPaymentFailed, waffoNotPaid, Closes

LEMMA HandlerStepKeeps ==
    ASSUME TopUpInv, OrderConstants, NEW o \in Orders, NEW t \in Threads, HandlerStep(o, t)
    PROVE  TopUpInv'
  <1>1. CASE LockOrder(o, t)
    BY <1>1, LockOrderStep
  <1>2. CASE LockWait(o, t)
    BY <1>2, LockWaitStep
  <1>3. CASE UnlockOrder(o, t)
    BY <1>3, UnlockOrderStep
  <1>4. CASE ReadOrder(o, t)
    BY <1>4, ReadOrderStep
  <1>5. CASE EpaySave(o, t)
    BY <1>5, EpaySaveStep
  <1>6. CASE EpayCredit(o, t)
    BY <1>6, EpayCreditStep
  <1>7. CASE \/ CompleteSubscriptionOrder(o, t) \/ Recharge(o, t) \/ RechargeCreem(o, t)
             \/ RechargeWaffo(o, t) \/ ManualCompleteTopUp(o, t)
    BY <1>7, Commits, CommitStep
  <1>8. CASE sessionExpired(o, t) \/ sessionAsyncPaymentFailed(o, t) \/ waffoNotPaid(o, t)
    BY <1>8, Closings, CloseStep
  <1> QED BY <1>1, <1>2, <1>3, <1>4, <1>5, <1>6, <1>7, <1>8 DEF HandlerStep

LEMMA NextTopUpInv == ASSUME TopUpInv, OrderConstants, [OrderNext]_topUpVars PROVE TopUpInv'
  <1>1. ASSUME NEW o \in Orders, Request(o) PROVE TopUpInv'
    BY <1>1, RequestStep
  <1>2. ASSUME NEW o \in Orders, ProviderDecides(o) PROVE TopUpInv'
    BY <1>2, DecideStep
  <1>3. ASSUME NEW o \in Orders, NEW t \in Threads, Notify(o, t) PROVE TopUpInv'
    BY <1>3, NotifyStep
  <1>4. ASSUME NEW o \in Orders, NEW t \in Threads, AdminCompleteTopUp(o, t) PROVE TopUpInv'
    BY <1>4, ManualStep
  <1>5. ASSUME NEW o \in Orders, NEW t \in Threads, HandlerStep(o, t) PROVE TopUpInv'
    BY <1>5, HandlerStepKeeps
  <1>6. ASSUME NEW o \in Orders, NEW t \in Threads, HandlerFails(o, t) PROVE TopUpInv'
    BY <1>6, HandlerFailsStep
  <1>7. CASE Restart
    BY <1>7, RestartStep
  <1>8. CASE UNCHANGED topUpVars
    <2>1. UNCHANGED <<row, linked, verdict, acked, h, slot, refs, owner, credited, manual, unheard, faults>>
      BY <1>8 DEF topUpVars, orderVars, locks, past
    <2>2. TopUpTypes'
      BY <2>1 DEF TopUpInv, TopUpTypes
    <2>3. ASSUME NEW o \in Orders PROVE OrderInv(o)'
      <3>1. LockInv(o) /\ KnownInv(o) /\ OnceInv(o) /\ Refd(o)' = Refd(o)
        BY <2>1 DEF TopUpInv, OrderInv, Refd
      <3> QED BY <2>1, <3>1 DEF OrderInv, LockInv, KnownInv, OnceInv
    <2> QED BY <2>2, <2>3 DEF TopUpInv
  <1> QED BY <1>1, <1>2, <1>3, <1>4, <1>5, <1>6, <1>7, <1>8 DEF OrderNext

-----------------------------------------------------------------------------
(* The refinement.                                                         *)

Due == {o \in Orders : verdict[o] = "paid"} \cup manual

\* A handler that delivers is the step Deliver of the ledger.
LEMMA DeliversOnce ==
    ASSUME TopUpInv, NEW o \in Orders, NEW t \in Threads,
           h[o][t].pc = "credit" \/ (h[o][t].pc = "write" /\ h[o][t].kind \in Delivers),
           credited' = [credited EXCEPT ![o] = @ + 1], UNCHANGED <<verdict, manual>>
    PROVE  Ledger!Next
  <1>1. KnownInv(o) /\ OnceInv(o) /\ credited \in [Orders -> Nat]
    BY DEF TopUpInv, OrderInv, TopUpTypes
  <1>2. credited[o] = 0 /\ h[o][t].kind \in Delivers
    BY <1>1 DEF OnceInv, Delivers
  <1>3. o \in Due /\ Due' = Due
    BY <1>1, <1>2 DEF KnownInv, Due
  <1>4. credited' = [credited EXCEPT ![o] = 1]
    BY <1>1, <1>2
  <1>5. Ledger!Deliver(o)
    BY <1>2, <1>3, <1>4 DEF Ledger!Deliver, Due
  <1> QED BY <1>5 DEF Ledger!Next

\* Any other handler step leaves the ledger alone.
LEMMA HandlerStepLedger ==
    ASSUME TopUpInv, NEW o \in Orders, NEW t \in Threads, HandlerStep(o, t)
    PROVE  Ledger!Next \/ UNCHANGED <<verdict, manual, credited>>
  <1>1. CASE LockOrder(o, t) \/ LockWait(o, t) \/ UnlockOrder(o, t)
    BY <1>1 DEF LockOrder, LockWait, UnlockOrder, past
  <1>2. CASE ReadOrder(o, t) \/ EpaySave(o, t)
    BY <1>2 DEF ReadOrder, EpaySave, past
  <1>3. CASE EpayCredit(o, t)
    <2>1. /\ h[o][t].pc = "credit" /\ credited' = [credited EXCEPT ![o] = @ + 1]
          /\ UNCHANGED <<verdict, manual>>
      BY <1>3 DEF EpayCredit
    <2>2. h[o][t].pc = "credit" \/ (h[o][t].pc = "write" /\ h[o][t].kind \in Delivers)
      BY <2>1
    <2>3. Ledger!Next
      BY <2>1, <2>2, DeliversOnce
    <2> QED BY <2>3
  <1>4. CASE \/ CompleteSubscriptionOrder(o, t) \/ Recharge(o, t) \/ RechargeCreem(o, t)
             \/ RechargeWaffo(o, t) \/ ManualCompleteTopUp(o, t)
    <2>1. PICK kinds \in SUBSET Delivers : Commit(o, t, kinds)
      BY <1>4, Commits
    <2> QED BY <2>1, DeliversOnce DEF Commit
  <1>5. CASE sessionExpired(o, t) \/ sessionAsyncPaymentFailed(o, t) \/ waffoNotPaid(o, t)
    BY <1>5 DEF sessionExpired, sessionAsyncPaymentFailed, waffoNotPaid, Close, past
  <1> QED BY <1>1, <1>2, <1>3, <1>4, <1>5 DEF HandlerStep

LEMMA NextLedger == ASSUME TopUpInv, [OrderNext]_topUpVars PROVE [Ledger!Next]_(Ledger!vars)
  <1> USE DEF Ledger!vars
  <1>1. ASSUME UNCHANGED <<verdict, manual, credited>> PROVE UNCHANGED Ledger!vars
    BY <1>1
  <1>2. ASSUME NEW o \in Orders, Due' = Due \cup {o}, credited' = credited PROVE Ledger!Next
    BY <1>2 DEF Ledger!Next, Ledger!Become, Due
  <1>3. ASSUME NEW o \in Orders, Request(o) PROVE UNCHANGED <<verdict, manual, credited>>
    BY <1>3 DEF Request, RequestEpay, RequestStripePay, RequestCreemPay, RequestWaffoPay, SubscriptionRequestEpay,
                SubscriptionRequestStripePay, SubscriptionRequestCreemPay, Create, past
  <1>4. ASSUME NEW o \in Orders, ProviderDecides(o) PROVE [Ledger!Next]_(Ledger!vars)
    <2>1. PICK v \in {"paid", "refused"} : verdict' = [verdict EXCEPT ![o] = v]
      BY <1>4 DEF ProviderDecides
    <2>2. verdict[o] = "open" /\ credited' = credited /\ manual' = manual /\ verdict \in [Orders -> {"open", "paid", "refused"}]
      BY <1>4 DEF ProviderDecides, past, TopUpInv, TopUpTypes
    <2>3. CASE v = "paid"
      <3>1. Due' = Due \cup {o}
        BY <2>1, <2>2, <2>3 DEF Due
      <3> QED BY <1>2, <2>2, <3>1
    <2>4. CASE v = "refused"
      <3>1. Due' = Due
        BY <2>1, <2>2, <2>4 DEF Due
      <3> QED BY <2>2, <3>1 DEF Due
    <2> QED BY <2>3, <2>4
  <1>5. ASSUME NEW o \in Orders, NEW t \in Threads, Notify(o, t) PROVE UNCHANGED <<verdict, manual, credited>>
    BY <1>5 DEF Notify, EpayNotify, SubscriptionEpayNotify, SubscriptionEpayReturn, StripeWebhook, CreemWebhook,
                WaffoWebhook, Notified, past
  <1>6. ASSUME NEW o \in Orders, NEW t \in Threads, AdminCompleteTopUp(o, t) PROVE Ledger!Next
    <2>1. Due' = Due \cup {o} /\ credited' = credited
      BY <1>6 DEF AdminCompleteTopUp, Due
    <2> QED BY <1>2, <2>1
  <1>7. ASSUME NEW o \in Orders, NEW t \in Threads, HandlerFails(o, t) PROVE UNCHANGED <<verdict, manual, credited>>
    BY <1>7 DEF HandlerFails, past
  <1>8. CASE Restart
    BY <1>1, <1>8 DEF Restart, past
  <1>9. CASE UNCHANGED topUpVars
    BY <1>1, <1>9 DEF topUpVars, past
  <1> HIDE DEF Ledger!vars
  <1> QED BY <1>1, <1>3, <1>4, <1>5, <1>6, <1>7, <1>8, <1>9, HandlerStepLedger DEF OrderNext

\* The inductive invariant holds in every state the payment code reaches.
THEOREM TopUpInvariant == OrderSpec => []TopUpInv
  <1>1. OrderInit => TopUpInv
    BY InitTopUpInv, OrderAssumption
  <1>2. TopUpInv /\ [OrderNext]_topUpVars => TopUpInv'
    BY NextTopUpInv, OrderAssumption
  <1> QED BY <1>1, <1>2, PTL DEF OrderSpec

\* However the notifications, their repetitions, the browser's return and an
\* administrator's completion overlap in one process, through failing statements and
\* restarts, an order is delivered at most once, and only when it was paid or completed
\* by hand: the payment code implements OrderLedger.
THEOREM TopUpImplementsLedger == OrderSpec => DeliveredOnce
  <1>1. OrderInit => Ledger!Init
    BY DEF OrderInit, Ledger!Init
  <1>2. TopUpInv /\ [OrderNext]_topUpVars => [Ledger!Next]_(Ledger!vars)
    BY NextLedger
  <1>3. OrderSpec => []TopUpInv
    BY TopUpInvariant
  <1> QED BY <1>1, <1>2, <1>3, PTL DEF OrderSpec, DeliveredOnce, Ledger!Spec

-----------------------------------------------------------------------------
(***************************************************************************)
(* The batch books. The type invariant and the books are inductive         *)
(* together.                                                               *)
(***************************************************************************)

USE DEF Put, Add, hash, calls, reads

\* The type invariant and the books are inductive together.
BooksInv == TypeOK /\ BatchBooks

LEMMA InitBooks == Init => BooksInv
  BY StoreAssumption DEF Init, BooksInv, TypeOK, BatchBooks

\* A quota change: the map or the row of the caller's node.
LEMMA ChangeKeeps ==
    ASSUME BooksInv, NEW c \in Calls, NEW d \in Deltas,
           addNewRecord(c, d) \/ UpdateRow(c, d) \/ UpdateRowFails(c, d)
    PROVE  BooksInv'
  <1> d \in Int
    BY StoreAssumption
  <1>1. CASE addNewRecord(c, d)
    BY <1>1 DEF BooksInv, TypeOK, BatchBooks, addNewRecord, Spawn
  <1>2. CASE UpdateRow(c, d)
    BY <1>2 DEF BooksInv, TypeOK, BatchBooks, UpdateRow, Spawn
  <1>3. CASE UpdateRowFails(c, d)
    BY <1>3 DEF BooksInv, TypeOK, BatchBooks, UpdateRowFails, Spawn
  <1> QED BY <1>1, <1>2, <1>3

\* The hash and its goroutines move none of the books.
LEMMA CacheKeeps ==
    ASSUME BooksInv,
           Goroutines \/ ExpireCache \/ \E x \in Readers : ReadRow(x)
    PROVE  BooksInv'
  <1>1. ASSUME NEW c \in Calls, CacheTTL(c) PROVE BooksInv'
    BY <1>1 DEF BooksInv, TypeOK, BatchBooks, CacheTTL
  <1>2. ASSUME NEW c \in Calls, CacheIncr(c) PROVE BooksInv'
    BY <1>2 DEF BooksInv, TypeOK, BatchBooks, CacheIncr
  <1>3. ASSUME NEW x \in Readers, FillCache(x) PROVE BooksInv'
    BY <1>3 DEF BooksInv, TypeOK, BatchBooks, FillCache
  <1>4. ASSUME NEW x \in Readers, ReadRow(x) PROVE BooksInv'
    BY <1>4 DEF BooksInv, TypeOK, BatchBooks, ReadRow
  <1>5. CASE ExpireCache
    BY <1>5 DEF BooksInv, TypeOK, BatchBooks, ExpireCache
  <1> QED BY <1>1, <1>2, <1>3, <1>4, <1>5 DEF Goroutines

\* The batch loop moves a value from the map to the row, in two steps; a crash
\* or a failed update moves it to lost.
LEMMA BatcherKeeps ==
    ASSUME BooksInv, NEW n \in Nodes, Batcher(n) \/ Crash(n)
    PROVE  BooksInv'
  <1>1. CASE BatchSwap(n)
    BY <1>1 DEF BooksInv, TypeOK, BatchBooks, BatchSwap
  <1>2. CASE BatchApply(n)
    BY <1>2 DEF BooksInv, TypeOK, BatchBooks, BatchApply
  <1>3. CASE BatchApplyFails(n)
    BY <1>3 DEF BooksInv, TypeOK, BatchBooks, BatchApplyFails
  <1>4. CASE Crash(n)
    <2>1. TypeOK'
      BY <1>4 DEF BooksInv, TypeOK, Crash
    <2>2. BatchBooks'
      BY <1>4 DEF BooksInv, TypeOK, BatchBooks, Crash
    <2> QED BY <2>1, <2>2 DEF BooksInv
  <1> QED BY <1>1, <1>2, <1>3, <1>4 DEF Batcher

LEMMA NextBooks == BooksInv /\ [Next]_vars => BooksInv'
  <1> SUFFICES ASSUME BooksInv, [Next]_vars PROVE BooksInv'
    OBVIOUS
  <1>1. CASE Next
    BY <1>1, ChangeKeeps, CacheKeeps, BatcherKeeps DEF Next
  <1>2. CASE UNCHANGED vars
    BY <1>2 DEF BooksInv, TypeOK, BatchBooks, vars
  <1> QED BY <1>1, <1>2

\* addNewRecord, batchUpdate's swap and its unlocked application neither lose
\* nor duplicate a quota change on any node.
THEOREM BatchBooksThm == Spec => []BatchBooks
  <1>1. BooksInv => BatchBooks
    BY DEF BooksInv
  <1> QED BY <1>1, InitBooks, NextBooks, PTL DEF Spec

\* Type correctness of the three copies of a quota counter.
THEOREM StoreTypeCorrect == Spec => []TypeOK
  <1>1. BooksInv => TypeOK
    BY DEF BooksInv
  <1> QED BY <1>1, InitBooks, NextBooks, PTL DEF Spec

-----------------------------------------------------------------------------
(***************************************************************************)
(* Grants without a payment provider.  A redemption is about a code that   *)
(* stays enabled while its row is locked; a check-in that has written its  *)
(* row and not yet its award is the only one of its day; a transfer writes *)
(* back the quota it read, which nobody moved while the user's row was     *)
(* locked.  So each redemption, award and transfer adds exactly its amount *)
(* to the sums.                                                            *)
(***************************************************************************)

CodeRows == [status : {"enabled", "used", "disabled"}, expiry : Nat]
GrantCalls ==
    [pc : {"idle", "redeem", "checkin", "award", "transfer"}, code : Codes \cup {Nothing},
     day : Nat, amount : Nat, read : Int]

GrantTypes ==
    /\ now \in Days
    /\ code \in [Codes -> CodeRows \cup {Nothing}] /\ codeLock \in [Codes -> Callers \cup {Nothing}]
    /\ quota \in Int /\ aff \in Int /\ moved \in Int
    /\ checkins \subseteq Days /\ call \in [Callers -> GrantCalls]
    /\ edit \in [code : Codes, row : CodeRows] \cup {Nothing}
    /\ redeemed \in [Codes -> Nat] /\ awards \in [Days -> Nat]

\* A code being redeemed is enabled; one that was redeemed is used or gone, unless an
\* edit revived it.
CodesKept ==
    /\ \A x \in Callers : call[x].pc = "redeem" => call[x].code \in Codes /\ codeLock[call[x].code] = x
    /\ \A c \in Codes : codeLock[c] # Nothing => code[c] # Nothing /\ code[c].status = "enabled"
    /\ \A c \in Codes \ revived :
          /\ redeemed[c] <= 1
          /\ redeemed[c] = 1 /\ code[c] # Nothing => code[c].status = "used"

\* A day with its award on the way has its row and no award, and one call is about it.
DaysKept ==
    /\ \A x \in Callers : call[x].pc = "award" => call[x].day \in checkins /\ awards[call[x].day] = 0
    /\ \A x \in Callers, y \in Callers :
          call[x].pc = "award" /\ call[y].pc = "award" /\ call[x].day = call[y].day => x = y
    /\ \A d \in Days : awards[d] <= 1 /\ (awards[d] = 1 => d \in checkins)

\* What a transfer read is still so.
TransfersKept ==
    \A x \in Callers : call[x].pc = "transfer" =>
        userLock = x /\ call[x].read = quota /\ call[x].amount <= aff

WalletKept ==
    /\ quota = Value * SumOf(redeemed, Codes) + Award * SumOf(awards, Days) + moved
    /\ aff = InitAff - moved /\ aff >= 0

GrantInv == GrantTypes /\ CodesKept /\ DaysKept /\ TransfersKept /\ WalletKept

\* A request that is not running, and one that starts.
LEMMA NoCallIdle == NoCall \in GrantCalls /\ NoCall.pc = "idle"
  BY DEF NoCall, GrantCalls

LEMMA RedeemCall ==
    ASSUME NEW c \in Codes, NEW k, k = [NoCall EXCEPT !.pc = "redeem", !.code = c]
    PROVE  k \in GrantCalls /\ k.pc = "redeem" /\ k.code = c
  <1>1. k = [pc |-> "redeem", code |-> c, day |-> 0, amount |-> 0, read |-> 0]
    BY DEF NoCall
  <1> QED BY <1>1 DEF GrantCalls

LEMMA CheckinCall ==
    ASSUME NEW k, k = [NoCall EXCEPT !.pc = "checkin"]
    PROVE  k \in GrantCalls /\ k.pc = "checkin"
  BY DEF NoCall, GrantCalls

LEMMA TransferCall ==
    \A a \in Nat, q \in Int : [NoCall EXCEPT !.pc = "transfer", !.amount = a, !.read = q]
                = [pc |-> "transfer", code |-> Nothing, day |-> 0, amount |-> a, read |-> q]
  <1> TAKE a \in Nat, q \in Int
  <1>1. PICK k : k = [NoCall EXCEPT !.pc = "transfer", !.amount = a, !.read = q]
    OBVIOUS
  <1>2. k = [pc |-> "transfer", code |-> Nothing, day |-> 0, amount |-> a, read |-> q]
    BY <1>1 DEF NoCall
  <1> QED BY <1>1, <1>2, Zenon

\* The caller x goes on to k and the others stay where they are.
Moves(x, k) == k \in GrantCalls /\ \A y \in Callers : call'[y] = IF y = x THEN k ELSE call[y]

LEMMA CallsMove ==
    ASSUME GrantTypes, NEW x \in Callers, NEW k \in GrantCalls, call' = [call EXCEPT ![x] = k]
    PROVE  Moves(x, k) /\ call' \in [Callers -> GrantCalls]
  BY DEF GrantTypes, Moves

\* The wallet is a sum of what is not changed.
LEMMA WalletSame ==
    ASSUME WalletKept, UNCHANGED <<quota, aff, moved, redeemed, awards>>
    PROVE  WalletKept'
  BY DEF WalletKept

\* The administrator's calls and the clock touch neither the wallet nor the requests.
LEMMA AdminGrants ==
    ASSUME GrantInv, UNCHANGED <<quota, aff, userLock, checkins, call, redeemed, awards, moved, codeLock>>,
           GrantTypes', \A c \in Codes : codeLock[c] # Nothing => code'[c] = code[c],
           \A c \in Codes \ revived' : c \notin revived /\
              (code'[c] \in {code[c], Nothing} \/ redeemed[c] = 0)
    PROVE  GrantInv'
  <1>1. CodesKept'
    BY DEF GrantInv, GrantTypes, CodesKept
  <1>2. DaysKept'
    BY DEF GrantInv, DaysKept
  <1>3. TransfersKept'
    BY DEF GrantInv, TransfersKept
  <1>4. WalletKept'
    BY WalletSame DEF GrantInv
  <1> QED BY <1>1, <1>2, <1>3, <1>4 DEF GrantInv

LEMMA TickGrants == ASSUME GrantInv, Tick PROVE GrantInv'
  <1>1. now' \in Days
    BY GrantAssumption DEF GrantInv, GrantTypes, Days, Tick
  <1>2. GrantTypes'
    BY <1>1 DEF GrantInv, GrantTypes, Tick, userRow, history
  <1> QED BY <1>2, AdminGrants DEF Tick, userRow, history

LEMMA AddGrants == ASSUME GrantInv, NEW c \in Codes, NEW e \in {0} \cup Days, AddRedemption(c, e) PROVE GrantInv'
  <1>1. code' = [code EXCEPT ![c] = [status |-> "enabled", expiry |-> e]] /\ e \in Nat
    BY GrantAssumption DEF AddRedemption, Days
  <1>2. GrantTypes'
    BY <1>1 DEF GrantInv, GrantTypes, CodeRows, AddRedemption, userRow, history
  <1>3. \A d \in Codes \ {c} : code'[d] = code[d]
    BY <1>1 DEF GrantInv, GrantTypes
  <1>4. codeLock[c] = Nothing /\ redeemed[c] = 0
    BY DEF GrantInv, CodesKept, AddRedemption
  <1> QED BY <1>2, <1>3, <1>4, AdminGrants DEF AddRedemption, userRow, history

LEMMA EditReadGrants == ASSUME GrantInv, NEW c \in Codes, EditRead(c) PROVE GrantInv'
  <1>1. code[c] \in CodeRows
    BY DEF GrantInv, GrantTypes, EditRead
  <1>2. edit' \in [code : Codes, row : CodeRows]
    BY <1>1 DEF EditRead
  <1>3. GrantTypes'
    BY <1>2 DEF GrantInv, GrantTypes, EditRead, userRow, history
  <1> QED BY <1>3, AdminGrants DEF EditRead, userRow, history

LEMMA EditWriteGrants == ASSUME GrantInv, EditWrite PROVE GrantInv'
  <1> DEFINE c == edit.code
  <1>1. c \in Codes /\ edit.row \in CodeRows
    BY DEF GrantInv, GrantTypes, EditWrite
  <1>2. PICK n \in CodeRows : code' = [code EXCEPT ![c] = n]
    <2>1. ASSUME NEW s \in {"enabled", "disabled"} PROVE [edit.row EXCEPT !.status = s] \in CodeRows
      BY <1>1 DEF CodeRows
    <2>2. ASSUME NEW e \in {0} \cup now .. MaxTime PROVE [edit.row EXCEPT !.expiry = e] \in CodeRows
      <3>1. e \in Nat
        BY GrantAssumption DEF GrantInv, GrantTypes, Days
      <3> QED BY <1>1, <3>1 DEF CodeRows
    <2> QED BY <2>1, <2>2 DEF EditWrite
  <1>3. GrantTypes'
    BY <1>1, <1>2 DEF GrantInv, GrantTypes, EditWrite, userRow
  <1>4. \A d \in Codes \ {c} : code'[d] = code[d]
    BY <1>1, <1>2 DEF GrantInv, GrantTypes
  <1>5. codeLock[c] = Nothing /\ code[c] # Nothing
    BY DEF EditWrite
  <1>6. revived' = IF code[c].status = "used" THEN revived \cup {c} ELSE revived
    BY DEF EditWrite
  <1>7. ASSUME c \notin revived' PROVE redeemed[c] = 0
    <2>1. c \in Codes \ revived /\ code[c].status # "used"
      BY <1>1, <1>6, <1>7
    <2>2. redeemed[c] \in Nat /\ redeemed[c] <= 1 /\ redeemed[c] # 1
      BY <1>5, <2>1 DEF GrantInv, GrantTypes, CodesKept
    <2> QED BY <2>2
  <1>8. \A d \in Codes \ revived' : d \notin revived /\ (code'[d] \in {code[d], Nothing} \/ redeemed[d] = 0)
    BY <1>4, <1>6, <1>7
  <1> QED BY <1>3, <1>4, <1>5, <1>8, AdminGrants DEF EditWrite, userRow

LEMMA EditGoneGrants == ASSUME GrantInv, EditGone PROVE GrantInv'
  <1>1. GrantTypes'
    BY DEF GrantInv, GrantTypes, EditGone, userRow, history
  <1> QED BY <1>1, AdminGrants DEF EditGone, userRow, history

LEMMA DeleteGrants == ASSUME GrantInv, NEW S, Delete(S) PROVE GrantInv'
  <1>1. code' = [c \in Codes |-> IF c \in S THEN Nothing ELSE code[c]]
    BY DEF Delete
  <1>2. GrantTypes'
    BY <1>1 DEF GrantInv, GrantTypes, Delete, userRow, history
  <1>3. \A c \in Codes : codeLock[c] # Nothing => code'[c] = code[c]
    BY <1>1 DEF Delete
  <1>4. \A c \in Codes : code'[c] \in {code[c], Nothing}
    BY <1>1
  <1> QED BY <1>2, <1>3, <1>4, AdminGrants DEF Delete, userRow, history

-----------------------------------------------------------------------------
(* The user's requests.                                                    *)

LEMMA RedeemBeginGrants == ASSUME GrantInv, NEW x \in Callers, NEW c \in Codes, RedeemBegin(x, c) PROVE GrantInv'
  <1> DEFINE k == [NoCall EXCEPT !.pc = "redeem", !.code = c]
  <1>1. k \in GrantCalls /\ k.pc = "redeem" /\ k.code = c
    BY RedeemCall
  <1>2. call' = [call EXCEPT ![x] = k] /\ codeLock' = [codeLock EXCEPT ![c] = x]
    BY DEF RedeemBegin
  <1> HIDE DEF k
  <1>3. Moves(x, k) /\ call' \in [Callers -> GrantCalls]
    BY <1>1, <1>2, CallsMove DEF GrantInv
  <1>4. GrantTypes'
    BY <1>2, <1>3 DEF GrantInv, GrantTypes, RedeemBegin, userRow, history
  <1>5. \A d \in Codes : codeLock'[d] = IF d = c THEN x ELSE codeLock[d]
    BY <1>2 DEF GrantInv, GrantTypes
  <1>6. code[c] # Nothing /\ codeLock[c] = Nothing /\ code[c].status = "enabled" /\ UNCHANGED <<code, redeemed, revived>>
    BY DEF RedeemBegin, Redeemable, history
  <1>7. CodesKept'
    <2>1. ASSUME NEW y \in Callers, call'[y].pc = "redeem"
          PROVE  call'[y].code \in Codes /\ codeLock'[call'[y].code] = y
      <3>1. CASE y = x
        BY <1>1, <1>3, <1>5, <3>1 DEF Moves
      <3>2. CASE y # x
        <4>1. call[y].code \in Codes /\ codeLock[call[y].code] = y /\ call'[y] = call[y]
          BY <1>3, <2>1, <3>2 DEF Moves, GrantInv, CodesKept
        <4> QED BY <1>5, <1>6, <4>1, GrantAssumption
      <3> QED BY <3>1, <3>2
    <2> QED BY <1>5, <1>6, <2>1 DEF GrantInv, CodesKept
  <1>8. DaysKept'
    BY <1>1, <1>3 DEF GrantInv, DaysKept, Moves, RedeemBegin, history
  <1>9. TransfersKept'
    BY <1>1, <1>3 DEF GrantInv, TransfersKept, Moves, RedeemBegin, userRow
  <1>10. WalletKept'
    BY WalletSame DEF GrantInv, RedeemBegin, userRow, history
  <1> QED BY <1>4, <1>7, <1>8, <1>9, <1>10 DEF GrantInv

\* One more of a count that is summed.
LEMMA CountOne ==
    ASSUME NEW S, IsFiniteSet(S), NEW f, NEW g, NEW s \in S, \A t \in S : f[t] \in Nat,
           \A t \in S : g[t] = IF t = s THEN f[s] + 1 ELSE f[t]
    PROVE  SumOf(f, S) \in Int /\ SumOf(g, S) = SumOf(f, S) + 1
  <1>1. IntOn(f, S) /\ IntOn(g, S)
    BY DEF IntOn
  <1>2. \A t \in S \ {s} : g[t] = f[t]
    OBVIOUS
  <1>3. SumOf(g, S) = SumOf(f, S) - f[s] + g[s]
    BY <1>1, <1>2, SumChange
  <1>4. SumOf(f, S) \in Int
    BY <1>1, SumInt
  <1>5. f[s] \in Int /\ g[s] = f[s] + 1
    OBVIOUS
  <1> QED BY <1>3, <1>4, <1>5

LEMMA OneTimesMore == \A v \in Nat, n \in Int : v * (n + 1) = v * n + v /\ v * n \in Int
  OBVIOUS

\* The sums of the counts are integers.
LEMMA CountsTyped ==
    ASSUME GrantTypes
    PROVE  /\ IsFiniteSet(Codes) /\ IsFiniteSet(Days)
           /\ SumOf(redeemed, Codes) \in Int /\ SumOf(awards, Days) \in Int
           /\ Value * SumOf(redeemed, Codes) \in Int /\ Award * SumOf(awards, Days) \in Int
  <1>1. IsFiniteSet(Codes) /\ IsFiniteSet(Days)
    BY GrantAssumption, FS_Interval DEF Days
  <1>2. IntOn(redeemed, Codes) /\ IntOn(awards, Days)
    BY DEF GrantTypes, IntOn
  <1>3. SumOf(redeemed, Codes) \in Int /\ SumOf(awards, Days) \in Int
    BY <1>1, <1>2, SumInt
  <1> QED BY <1>1, <1>3, GrantAssumption, OneTimesMore

LEMMA RedeemCommitGrants == ASSUME GrantInv, NEW x \in Callers, RedeemCommit(x) PROVE GrantInv'
  <1> DEFINE c == call[x].code
  <1>1. /\ c \in Codes /\ codeLock[c] = x /\ code[c] # Nothing /\ code[c].status = "enabled"
        /\ code[c] \in CodeRows
    BY GrantAssumption DEF GrantInv, CodesKept, RedeemCommit, GrantTypes
  <1> DEFINE n == [code[c] EXCEPT !.status = "used"]
  <1>2. n \in CodeRows /\ n.status = "used"
    BY <1>1 DEF CodeRows
  <1>3. /\ code' = [code EXCEPT ![c] = n] /\ codeLock' = [codeLock EXCEPT ![c] = Nothing]
        /\ redeemed' = [redeemed EXCEPT ![c] = redeemed[c] + 1] /\ call' = [call EXCEPT ![x] = NoCall]
        /\ quota' = quota + Value /\ userLock = Nothing
        /\ UNCHANGED <<now, aff, userLock, checkins, edit, revived, awards, moved>>
    BY <1>1 DEF RedeemCommit, UserFree
  <1> HIDE DEF n
  <1>4. Moves(x, NoCall) /\ call' \in [Callers -> GrantCalls]
    BY <1>3, NoCallIdle, CallsMove DEF GrantInv
  <1>5. GrantTypes'
    <2>1. redeemed' \in [Codes -> Nat] /\ quota' \in Int
      BY <1>1, <1>3, GrantAssumption DEF GrantInv, GrantTypes
    <2> QED BY <1>1, <1>2, <1>3, <1>4, <2>1 DEF GrantInv, GrantTypes
  <1>6. \A d \in Codes : /\ code'[d] = IF d = c THEN n ELSE code[d]
                         /\ codeLock'[d] = IF d = c THEN Nothing ELSE codeLock[d]
                         /\ redeemed'[d] = IF d = c THEN redeemed[c] + 1 ELSE redeemed[d]
    BY <1>1, <1>3 DEF GrantInv, GrantTypes
  <1>7. CodesKept'
    <2>1. ASSUME NEW y \in Callers, call'[y].pc = "redeem"
          PROVE  call'[y].code \in Codes /\ codeLock'[call'[y].code] = y
      <3>1. y # x /\ call'[y] = call[y]
        BY <1>4, <2>1, NoCallIdle DEF Moves
      <3>2. call[y].code \in Codes /\ codeLock[call[y].code] = y
        BY <2>1, <3>1 DEF GrantInv, CodesKept
      <3> QED BY <1>1, <1>6, <3>1, <3>2
    <2>2. \A d \in Codes : codeLock'[d] # Nothing => code'[d] # Nothing /\ code'[d].status = "enabled"
      BY <1>6 DEF GrantInv, CodesKept
    <2>3. ASSUME NEW d \in Codes \ revived
          PROVE  redeemed'[d] <= 1 /\ (redeemed'[d] = 1 /\ code'[d] # Nothing => code'[d].status = "used")
      <3>1. CASE d = c
        <4>1. redeemed[c] \in Nat /\ redeemed[c] <= 1 /\ redeemed[c] # 1
          BY <1>1, <2>3, <3>1 DEF GrantInv, CodesKept, GrantTypes
        <4> QED BY <1>2, <1>6, <3>1, <4>1
      <3>2. CASE d # c
        BY <1>6, <2>3, <3>2 DEF GrantInv, CodesKept
      <3> QED BY <3>1, <3>2
    <2> QED BY <1>3, <2>1, <2>2, <2>3 DEF CodesKept
  <1>8. DaysKept'
    BY <1>3, <1>4, NoCallIdle DEF GrantInv, DaysKept, Moves
  <1>9. TransfersKept'
    <2>1. \A y \in Callers : call[y].pc # "transfer"
      BY <1>3, GrantAssumption DEF GrantInv, TransfersKept
    <2> QED BY <1>4, <2>1, NoCallIdle DEF TransfersKept, Moves
  <1>10. WalletKept'
    <2>1. SumOf(redeemed, Codes) \in Int /\ SumOf(redeemed', Codes) = SumOf(redeemed, Codes) + 1
      <3>1. IsFiniteSet(Codes) /\ \A d \in Codes : redeemed[d] \in Nat
        BY GrantAssumption DEF GrantInv, GrantTypes
      <3> QED BY <1>1, <1>6, <3>1, CountOne
    <2>2. /\ Value * SumOf(redeemed', Codes) = Value * SumOf(redeemed, Codes) + Value
          /\ Value * SumOf(redeemed, Codes) \in Int /\ Award * SumOf(awards, Days) \in Int
      BY <2>1, GrantAssumption, OneTimesMore, CountsTyped DEF GrantInv
    <2>3. quota = Value * SumOf(redeemed, Codes) + Award * SumOf(awards, Days) + moved /\ moved \in Int /\ Value \in Int
      BY GrantAssumption DEF GrantInv, WalletKept, GrantTypes
    <2>4. quota + Value = Value * SumOf(redeemed', Codes) + Award * SumOf(awards, Days) + moved
      BY <2>2, <2>3
    <2> QED BY <1>3, <2>4 DEF GrantInv, WalletKept
  <1> QED BY <1>5, <1>7, <1>8, <1>9, <1>10 DEF GrantInv

\* A request that takes no lock and moves no quota: it goes on to k.
LEMMA PlainGrants ==
    ASSUME GrantInv, NEW x \in Callers, NEW k \in GrantCalls, call' = [call EXCEPT ![x] = k],
           k.pc \in {"idle", "checkin"},
           UNCHANGED <<now, code, codeLock, quota, aff, userLock, edit, redeemed, revived, awards, moved>>,
           checkins' \subseteq Days,
           \A d \in Days : d \in checkins => d \in checkins' \/ (call[x].pc = "award" /\ d = call[x].day)
    PROVE  GrantInv'
  <1>1. Moves(x, k) /\ call' \in [Callers -> GrantCalls]
    BY CallsMove DEF GrantInv
  <1>2. GrantTypes'
    BY <1>1 DEF GrantInv, GrantTypes
  <1>3. CodesKept'
    BY <1>1 DEF GrantInv, CodesKept, Moves
  <1>4. DaysKept'
    <2>1. ASSUME NEW y \in Callers, call'[y].pc = "award"
          PROVE  y # x /\ call'[y] = call[y] /\ call[y].day \in checkins' /\ awards[call[y].day] = 0
      <3>1. y # x /\ call'[y] = call[y]
        BY <1>1, <2>1 DEF Moves
      <3>2. call[y].day \in checkins /\ call[y].day \in Days /\ awards[call[y].day] = 0
        BY <2>1, <3>1 DEF GrantInv, DaysKept, GrantTypes
      <3>3. ~ (call[x].pc = "award" /\ call[y].day = call[x].day)
        BY <2>1, <3>1 DEF GrantInv, DaysKept
      <3> QED BY <3>1, <3>2, <3>3
    <2>2. ASSUME NEW d \in Days PROVE awards[d] <= 1 /\ (awards[d] = 1 => d \in checkins')
      <3>1. awards[d] <= 1 /\ (awards[d] = 1 => d \in checkins)
        BY DEF GrantInv, DaysKept
      <3>2. call[x].pc = "award" => awards[call[x].day] = 0
        BY DEF GrantInv, DaysKept
      <3> QED BY <3>1, <3>2
    <2>3. \A y \in Callers, z \in Callers :
             call'[y].pc = "award" /\ call'[z].pc = "award" /\ call'[y].day = call'[z].day => y = z
      BY <2>1 DEF GrantInv, DaysKept
    <2> QED BY <2>1, <2>2, <2>3 DEF DaysKept
  <1>5. TransfersKept'
    BY <1>1 DEF GrantInv, TransfersKept, Moves
  <1>6. WalletKept'
    BY WalletSame DEF GrantInv
  <1> QED BY <1>2, <1>3, <1>4, <1>5, <1>6 DEF GrantInv

LEMMA CheckinReadGrants == ASSUME GrantInv, NEW x \in Callers, CheckinRead(x) \/ CheckinRefused(x) PROVE GrantInv'
  <1> DEFINE k == [NoCall EXCEPT !.pc = "checkin"]
  <1>1. k \in GrantCalls /\ k.pc = "checkin" /\ NoCall \in GrantCalls /\ NoCall.pc = "idle"
    BY CheckinCall, NoCallIdle
  <1>2. checkins \subseteq Days
    BY DEF GrantInv, GrantTypes
  <1>3. CASE CheckinRead(x)
    <2>1. call' = [call EXCEPT ![x] = k] /\ checkins' = checkins
      BY <1>3 DEF CheckinRead
    <2> HIDE DEF k
    <2> QED BY <1>1, <1>2, <1>3, <2>1, PlainGrants DEF CheckinRead, userRow, history
  <1>4. CASE CheckinRefused(x)
    BY <1>1, <1>2, <1>4, PlainGrants DEF CheckinRefused, userRow, history
  <1> QED BY <1>3, <1>4

LEMMA CheckinUndoGrants == ASSUME GrantInv, NEW x \in Callers, CheckinUndo(x) PROVE GrantInv'
  <1>1. NoCall \in GrantCalls /\ NoCall.pc = "idle"
    BY NoCallIdle
  <1>2. checkins' = checkins \ {call[x].day} /\ checkins \subseteq Days /\ call[x].pc = "award"
    BY DEF GrantInv, GrantTypes, CheckinUndo
  <1> QED BY <1>1, <1>2, PlainGrants DEF CheckinUndo, userRow, history

LEMMA CheckinCreateGrants == ASSUME GrantInv, NEW x \in Callers, CheckinCreate(x) PROVE GrantInv'
  <1> DEFINE k == [call[x] EXCEPT !.pc = "award", !.day = now]
  <1>0. now \in Days /\ now \in Nat /\ now \notin checkins /\ checkins' = checkins \cup {now}
    BY GrantAssumption DEF GrantInv, GrantTypes, CheckinCreate, Days
  <1>1. k \in GrantCalls /\ k.pc = "award" /\ k.day = now
    BY <1>0 DEF GrantInv, GrantTypes, GrantCalls
  <1>2. call' = [call EXCEPT ![x] = k]
    BY DEF CheckinCreate, GrantInv, GrantTypes, GrantCalls
  <1> HIDE DEF k
  <1>3. Moves(x, k) /\ call' \in [Callers -> GrantCalls]
    BY <1>1, <1>2, CallsMove DEF GrantInv
  <1>4. GrantTypes'
    BY <1>0, <1>3 DEF GrantInv, GrantTypes, CheckinCreate, userRow, history
  <1>5. CodesKept'
    BY <1>1, <1>3 DEF GrantInv, CodesKept, Moves, CheckinCreate, history
  <1>6. DaysKept'
    <2>1. awards' = awards /\ awards[now] = 0
      <3>1. awards[now] \in Nat /\ awards[now] <= 1 /\ awards[now] # 1
        BY <1>0 DEF GrantInv, DaysKept, GrantTypes
      <3> QED BY <3>1 DEF CheckinCreate, history
    <2>2. ASSUME NEW y \in Callers, y # x, call'[y].pc = "award"
          PROVE  call'[y] = call[y] /\ call[y].day \in checkins /\ call[y].day # now /\ awards[call[y].day] = 0
      BY <1>0, <1>3, <2>2 DEF Moves, GrantInv, DaysKept
    <2>3. call'[x] = k
      BY <1>3 DEF Moves
    <2>4. \A y \in Callers, z \in Callers :
             call'[y].pc = "award" /\ call'[z].pc = "award" /\ call'[y].day = call'[z].day => y = z
      BY <1>1, <2>2, <2>3 DEF GrantInv, DaysKept
    <2>5. \A y \in Callers : call'[y].pc = "award" => call'[y].day \in checkins' /\ awards[call'[y].day] = 0
      BY <1>0, <1>1, <2>1, <2>2, <2>3
    <2>6. \A d \in Days : awards[d] <= 1 /\ (awards[d] = 1 => d \in checkins')
      BY <1>0 DEF GrantInv, DaysKept
    <2> QED BY <2>1, <2>4, <2>5, <2>6 DEF DaysKept
  <1>7. TransfersKept'
    BY <1>1, <1>3 DEF GrantInv, TransfersKept, Moves, CheckinCreate, userRow
  <1>8. WalletKept'
    BY WalletSame DEF GrantInv, CheckinCreate, userRow, history
  <1> QED BY <1>4, <1>5, <1>6, <1>7, <1>8 DEF GrantInv

\* The award of a day that has none yet, its row written before or with it.
LEMMA AwardGrants ==
    ASSUME GrantInv, NEW x \in Callers, NEW d \in Days, Grant(x, d), awards[d] = 0,
           checkins' = checkins \cup {d}, \A y \in Callers \ {x} : call[y].pc = "award" => call[y].day # d
    PROVE  GrantInv'
  <1>1. /\ quota' = quota + Award /\ awards' = [awards EXCEPT ![d] = awards[d] + 1]
        /\ call' = [call EXCEPT ![x] = NoCall] /\ userLock = Nothing
        /\ UNCHANGED <<now, code, codeLock, aff, userLock, edit, redeemed, revived, moved>>
    BY DEF Grant, UserFree
  <1>2. Moves(x, NoCall) /\ call' \in [Callers -> GrantCalls]
    BY <1>1, NoCallIdle, CallsMove DEF GrantInv
  <1>3. GrantTypes'
    <2>1. awards' \in [Days -> Nat] /\ quota' \in Int /\ checkins' \subseteq Days
      BY <1>1, GrantAssumption DEF GrantInv, GrantTypes
    <2> QED BY <1>1, <1>2, <2>1 DEF GrantInv, GrantTypes
  <1>4. CodesKept'
    BY <1>1, <1>2, NoCallIdle DEF GrantInv, CodesKept, Moves
  <1>5. DaysKept'
    <2>1. \A e \in Days : awards'[e] = IF e = d THEN 1 ELSE awards[e]
      BY <1>1 DEF GrantInv, GrantTypes
    <2>2. ASSUME NEW y \in Callers, call'[y].pc = "award"
          PROVE  /\ y # x /\ call'[y] = call[y] /\ call[y].day \in checkins' /\ call[y].day \in Days
                 /\ awards'[call[y].day] = 0
      <3>1. y # x /\ call'[y] = call[y]
        BY <1>2, <2>2, NoCallIdle DEF Moves
      <3>2. call[y].day \in checkins /\ call[y].day \in Days /\ awards[call[y].day] = 0 /\ call[y].day # d
        BY <2>2, <3>1 DEF GrantInv, DaysKept, GrantTypes
      <3> QED BY <2>1, <3>1, <3>2
    <2>3. \A y \in Callers, z \in Callers :
             call'[y].pc = "award" /\ call'[z].pc = "award" /\ call'[y].day = call'[z].day => y = z
      BY <2>2 DEF GrantInv, DaysKept
    <2>4. \A e \in Days : awards'[e] <= 1 /\ (awards'[e] = 1 => e \in checkins')
      BY <2>1 DEF GrantInv, DaysKept
    <2> QED BY <2>2, <2>3, <2>4 DEF DaysKept
  <1>6. TransfersKept'
    <2>1. \A y \in Callers : call[y].pc # "transfer"
      BY <1>1, GrantAssumption DEF GrantInv, TransfersKept
    <2> QED BY <1>2, <2>1, NoCallIdle DEF TransfersKept, Moves
  <1>7. WalletKept'
    <2>1. IsFiniteSet(Days)
      BY CountsTyped DEF GrantInv
    <2>2. SumOf(awards, Days) \in Int /\ SumOf(awards', Days) = SumOf(awards, Days) + 1
      <3>1. \A e \in Days : awards[e] \in Nat /\ awards'[e] = IF e = d THEN awards[d] + 1 ELSE awards[e]
        BY <1>1 DEF GrantInv, GrantTypes
      <3> QED BY <2>1, <3>1, CountOne
    <2>3. /\ Award * SumOf(awards', Days) = Award * SumOf(awards, Days) + Award
          /\ Value * SumOf(redeemed, Codes) \in Int /\ Award * SumOf(awards, Days) \in Int
      BY <2>2, GrantAssumption, OneTimesMore, CountsTyped DEF GrantInv
    <2>4. quota = Value * SumOf(redeemed, Codes) + Award * SumOf(awards, Days) + moved /\ moved \in Int /\ Award \in Int
      BY GrantAssumption DEF GrantInv, WalletKept, GrantTypes
    <2>5. quota + Award = Value * SumOf(redeemed, Codes) + Award * SumOf(awards', Days) + moved
      BY <2>3, <2>4
    <2> QED BY <1>1, <2>5 DEF GrantInv, WalletKept
  <1> QED BY <1>3, <1>4, <1>5, <1>6, <1>7 DEF GrantInv

LEMMA CheckinGrants ==
    ASSUME GrantInv, NEW x \in Callers, userCheckinWithTransaction(x) \/ CheckinAward(x)
    PROVE  GrantInv'
  <1>1. CASE userCheckinWithTransaction(x)
    <2>1. now \in Days /\ now \notin checkins /\ Grant(x, now) /\ checkins' = checkins \cup {now}
      BY <1>1 DEF userCheckinWithTransaction, GrantInv, GrantTypes
    <2>2. awards[now] \in Nat /\ awards[now] <= 1 /\ awards[now] # 1
      BY <2>1 DEF GrantInv, DaysKept, GrantTypes
    <2>3. \A y \in Callers \ {x} : call[y].pc = "award" => call[y].day # now
      BY <2>1 DEF GrantInv, DaysKept
    <2> QED BY <2>1, <2>2, <2>3, AwardGrants
  <1>2. CASE CheckinAward(x)
    <2> DEFINE d == call[x].day
    <2>1. d \in checkins /\ d \in Days /\ awards[d] = 0 /\ Grant(x, d) /\ checkins' = checkins
      BY <1>2 DEF CheckinAward, GrantInv, DaysKept, GrantTypes
    <2>2. \A y \in Callers \ {x} : call[y].pc = "award" => call[y].day # d
      BY <1>2 DEF CheckinAward, GrantInv, DaysKept
    <2>3. checkins' = checkins \cup {d}
      BY <2>1
    <2> HIDE DEF d
    <2> QED BY <2>1, <2>2, <2>3, AwardGrants
  <1> QED BY <1>1, <1>2

LEMMA TransferBeginGrants ==
    ASSUME GrantInv, NEW x \in Callers, NEW a \in 1 .. InitAff, TransferBegin(x, a)
    PROVE  GrantInv'
  <1>0. a \in Nat /\ quota \in Int
    BY GrantAssumption DEF GrantInv, GrantTypes
  <1>k. PICK k : k = [pc |-> "transfer", code |-> Nothing, day |-> 0, amount |-> a, read |-> quota]
    OBVIOUS
  <1>1. k \in GrantCalls /\ k.pc = "transfer" /\ k.amount = a /\ k.read = quota
    BY <1>0, <1>k DEF GrantCalls
  <1>2. call' = [call EXCEPT ![x] = k]
    <2>1. [NoCall EXCEPT !.pc = "transfer", !.amount = a, !.read = quota] = k
      BY <1>0, <1>k, TransferCall, Zenon
    <2> QED BY <2>1, Zenon DEF TransferBegin
  <1>3. Moves(x, k) /\ call' \in [Callers -> GrantCalls]
    BY <1>1, <1>2, CallsMove DEF GrantInv
  <1>4. GrantTypes'
    BY <1>3 DEF GrantInv, GrantTypes, TransferBegin, history
  <1>5. CodesKept'
    BY <1>1, <1>3 DEF GrantInv, CodesKept, Moves, TransferBegin, history
  <1>6. DaysKept'
    BY <1>1, <1>3 DEF GrantInv, DaysKept, Moves, TransferBegin, history
  <1>7. TransfersKept'
    <2>1. \A y \in Callers : call[y].pc # "transfer"
      BY GrantAssumption DEF GrantInv, TransfersKept, TransferBegin, UserFree
    <2>2. userLock' = x /\ quota' = quota /\ aff' = aff /\ a <= aff
      BY <1>0 DEF TransferBegin, GrantInv, GrantTypes
    <2> QED BY <1>1, <1>3, <2>1, <2>2 DEF TransfersKept, Moves
  <1>8. WalletKept'
    BY WalletSame DEF GrantInv, TransferBegin, history
  <1> QED BY <1>4, <1>5, <1>6, <1>7, <1>8 DEF GrantInv

LEMMA TransferCommitGrants == ASSUME GrantInv, NEW x \in Callers, TransferCommit(x) PROVE GrantInv'
  <1> DEFINE a == call[x].amount
  <1>1. /\ quota' = call[x].read + a /\ aff' = aff - a /\ moved' = moved + a
        /\ call' = [call EXCEPT ![x] = NoCall] /\ call[x].pc = "transfer"
        /\ UNCHANGED <<now, code, codeLock, checkins, edit, redeemed, revived, awards>>
    BY DEF TransferCommit
  <1>2. userLock = x /\ call[x].read = quota /\ a <= aff /\ a \in Nat /\ quota \in Int /\ aff \in Int /\ moved \in Int
    BY <1>1 DEF GrantInv, TransfersKept, GrantTypes, GrantCalls
  <1> HIDE DEF a
  <1>3. Moves(x, NoCall) /\ call' \in [Callers -> GrantCalls]
    BY <1>1, NoCallIdle, CallsMove DEF GrantInv
  <1>4. GrantTypes'
    <2>1. quota' \in Int /\ aff' \in Int /\ moved' \in Int
      BY <1>1, <1>2
    <2> QED BY <1>1, <1>3, <2>1 DEF GrantInv, GrantTypes
  <1>5. CodesKept'
    BY <1>1, <1>3, NoCallIdle DEF GrantInv, CodesKept, Moves
  <1>6. DaysKept'
    BY <1>1, <1>3, NoCallIdle DEF GrantInv, DaysKept, Moves
  <1>7. TransfersKept'
    <2>1. \A y \in Callers \ {x} : call[y].pc # "transfer"
      BY <1>2 DEF GrantInv, TransfersKept
    <2> QED BY <1>3, <2>1, NoCallIdle DEF TransfersKept, Moves
  <1>8. WalletKept'
    <2>1. /\ Value * SumOf(redeemed, Codes) \in Int /\ Award * SumOf(awards, Days) \in Int
          /\ quota = Value * SumOf(redeemed, Codes) + Award * SumOf(awards, Days) + moved
          /\ aff = InitAff - moved /\ InitAff \in Int
      BY CountsTyped, GrantAssumption DEF GrantInv, WalletKept
    <2>2. quota + a = Value * SumOf(redeemed, Codes) + Award * SumOf(awards, Days) + (moved + a)
      BY <1>2, <2>1
    <2>3. aff - a = InitAff - (moved + a) /\ aff - a >= 0
      BY <1>2, <2>1
    <2> QED BY <1>1, <1>2, <2>2, <2>3 DEF WalletKept
  <1> QED BY <1>4, <1>5, <1>6, <1>7, <1>8 DEF GrantInv

LEMMA GrantStart == GrantInit => GrantInv
  <1> SUFFICES ASSUME GrantInit PROVE GrantInv
    OBVIOUS
  <1>0. \A x \in Callers : call[x].pc = "idle"
    BY NoCallIdle DEF GrantInit
  <1>1. GrantTypes
    <2>1. now \in Days /\ quota \in Int /\ aff \in Int /\ moved \in Int
      BY GrantAssumption DEF GrantInit, Days
    <2> QED BY <2>1, NoCallIdle DEF GrantInit, GrantTypes
  <1>2. CodesKept /\ DaysKept /\ TransfersKept
    <2>1. CodesKept
      BY <1>0 DEF GrantInit, CodesKept
    <2>2. DaysKept
      BY <1>0 DEF GrantInit, DaysKept
    <2>3. TransfersKept
      BY <1>0 DEF TransfersKept
    <2> QED BY <2>1, <2>2, <2>3
  <1>3. WalletKept
    <2>1. IsFiniteSet(Codes) /\ IsFiniteSet(Days)
      BY <1>1, CountsTyped
    <2>2. SumOf(redeemed, Codes) = 0
      <3>1. \A c \in Codes : redeemed[c] = 0
        BY DEF GrantInit
      <3> QED BY <2>1, <3>1, SumZero
    <2>3. SumOf(awards, Days) = 0
      <3>1. \A d \in Days : awards[d] = 0
        BY DEF GrantInit
      <3> QED BY <2>1, <3>1, SumZero
    <2> QED BY <2>2, <2>3, GrantAssumption DEF GrantInit, WalletKept
  <1> QED BY <1>1, <1>2, <1>3 DEF GrantInv

LEMMA UserGrants == ASSUME GrantInv, NEW x \in Callers, UserStep(x) PROVE GrantInv'
  BY RedeemBeginGrants, RedeemCommitGrants, CheckinReadGrants, CheckinGrants, CheckinCreateGrants,
     CheckinUndoGrants, TransferBeginGrants, TransferCommitGrants DEF UserStep

LEMMA AdminCallGrants == ASSUME GrantInv, AdminStep PROVE GrantInv'
  BY AddGrants, EditReadGrants, EditWriteGrants, EditGoneGrants, DeleteGrants
     DEF AdminStep, DeleteRedemption, DeleteInvalidRedemptions

LEMMA GrantStep == GrantInv /\ [GrantNext]_grantVars => GrantInv'
  <1> SUFFICES ASSUME GrantInv, [GrantNext]_grantVars PROVE GrantInv'
    OBVIOUS
  <1>1. CASE GrantNext
    BY <1>1, TickGrants, AdminCallGrants, UserGrants DEF GrantNext
  <1>2. CASE UNCHANGED grantVars
    BY <1>2, AdminGrants DEF grantVars, userRow, history, GrantInv, GrantTypes
  <1> QED BY <1>1, <1>2

\* However redemptions, check-ins (in one transaction, or on SQLite in two statements
\* with the compensating delete), transfers of invitation quota and the administrator's
\* edits overlap, the wallet holds the sum of what was granted, a day is awarded at most
\* once, and a code is redeemed once unless an edit wrote its status back.
THEOREM GrantsAddUp == GrantSpec => []GrantsAdd
  <1>1. GrantInv => GrantsAdd
    BY DEF GrantInv, CodesKept, DaysKept, WalletKept, GrantsAdd
  <1> QED BY <1>1, GrantStart, GrantStep, PTL DEF GrantSpec

=============================================================================
