---------------------------- MODULE Subscription ----------------------------
(***************************************************************************)
(* The subscriptions of one user (model/subscription.go) and the loop that *)
(* maintains them (service/subscription_reset_task.go): orders that become *)
(* subscriptions, the group a subscription upgrades the user to and takes  *)
(* away again, the quota of a period, its reset by the loop and by the     *)
(* first request after it, and the record that makes pre-consumption       *)
(* idempotent.                                                             *)
(*                                                                         *)
(* A transaction that locks the row it changes (FOR UPDATE) is one action; *)
(* the payment callbacks also hold LockOrder while they complete an order. *)
(* The creation of a subscription reads rows it does not lock (the user's  *)
(* subscriptions of the plan, the user's group) and is two: what it read   *)
(* may be out of date when it commits.  The clock is the database's; time  *)
(* starts at 1 because 0 stands for "never" in the next_reset_time column. *)
(* Plans are not edited.  The copy of the group in the user's Redis hash,  *)
(* written after each commit, is left out: nothing here reads it.          *)
(***************************************************************************)
EXTENDS Integers, Sequences, FiniteSets, Sums

CONSTANTS
    Plans, Groups, BaseGroup,
    Upgrade,        \* [Plans]: upgrade_group, or NoGroup
    Duration,       \* [Plans]: lifetime of a subscription
    Period,         \* [Plans]: quota reset period, 0 for never
    Aligned,        \* plans whose resets fall on calendar boundaries
    Total,          \* [Plans]: quota of a period, 0 for unlimited
    MaxPurchase,    \* [Plans]: max_purchase_per_user, 0 for unlimited
    Orders, OrderPlan,
    Bind,           \* the administrator's AdminBindSubscription
    Requests, Amounts, Actuals,
    RecordAge,      \* age at which idempotency records are removed
    NoGroup, None,
    MaxTime, MaxSubs, MaxAdmin     \* bounds on the clock, rows, administrator's calls

ASSUME SubscriptionAssumption ==
    /\ BaseGroup \in Groups /\ NoGroup \notin Groups
    /\ Upgrade \in [Plans -> Groups \cup {NoGroup}]
    /\ Duration \in [Plans -> Nat \ {0}] /\ Period \in [Plans -> Nat]
    /\ Total \in [Plans -> Nat] /\ MaxPurchase \in [Plans -> Nat]
    /\ Aligned \subseteq Plans /\ OrderPlan \in [Orders -> Plans] /\ Bind \notin Orders
    /\ Amounts \subseteq Nat \ {0} /\ Actuals \subseteq Nat
    /\ RecordAge \in Nat \ {0} /\ IsFiniteSet(Requests)
    /\ None \notin [sub : Nat \ {0}, amount : Nat, epoch : Nat, open : BOOLEAN]
    /\ MaxTime \in Nat \ {0} /\ MaxSubs \in Nat /\ MaxAdmin \in Nat

Creators == Orders \cup {Bind}

VARIABLES
    now,        \* GetDBTimestamp
    subs,       \* table user_subscriptions, by id; a deleted row keeps its place
    group,      \* users.group
    orders,     \* [Orders]: subscription_orders.status
    txn,        \* [Creators]: what an open CreateUserSubscriptionFromPlanTx has read
    record,     \* [Requests]: subscription_pre_consume_records
    held,       \* [Requests]: history: what the request used, of which row and period
    maint,      \* the maintenance loop: where it is, its "now", rows it found due
    admin       \* number of the administrator's calls

vars == <<now, subs, group, orders, txn, record, held, maint, admin>>
useVars == <<record, held>>

Rows == [plan : Plans, source : Creators, used : Nat, start : Nat, end : Nat,
         status : {"active", "expired", "cancelled", "deleted"},
         last : Nat, next : Nat, upgrade : Groups \cup {NoGroup},
         prev : Groups \cup {NoGroup},
         epoch : Nat,           \* history: number of resets
         crossed : BOOLEAN,     \* history: charged or refunded for an earlier period
         stale : BOOLEAN]       \* history: the group changed between read and insert

TypeOK ==
    /\ now \in 1 .. MaxTime
    /\ subs \in Seq(Rows) /\ Len(subs) <= MaxSubs
    /\ group \in Groups
    /\ orders \in [Orders -> {"pending", "success", "expired"}]
    /\ txn \in [Creators -> [plan : Plans, read : Groups, at : Nat] \cup {None}]
    /\ record \in [Requests -> [status : {"consumed", "refunded"}, sub : Nat \ {0},
                                amount : Nat, at : Nat] \cup {None}]
    /\ held \in [Requests -> [sub : Nat \ {0}, amount : Nat, epoch : Nat, open : BOOLEAN]
                             \cup {None}]
    /\ maint \in [pc : {"idle", "expire", "reset"}, now : Nat, due : SUBSET Nat]
    /\ admin \in 0 .. MaxAdmin

Init ==
    /\ now = 1 /\ subs = << >> /\ group = BaseGroup
    /\ orders = [o \in Orders |-> "pending"]
    /\ txn = [c \in Creators |-> None]
    /\ record = [r \in Requests |-> None] /\ held = [r \in Requests |-> None]
    /\ maint = [pc |-> "idle", now |-> 0, due |-> {}]
    /\ admin = 0

Tick == now < MaxTime /\ now' = now + 1
        /\ UNCHANGED <<subs, group, orders, txn, useVars, maint, admin>>

-----------------------------------------------------------------------------
(* Times.                                                                  *)

\* The first reset after base, or 0 when the plan has none before the end.
calcNextResetTime(p, base, end) ==
    LET n == IF p \in Aligned THEN (base \div Period[p] + 1) * Period[p] ELSE base + Period[p]
    IN  IF Period[p] = 0 \/ n > end THEN 0 ELSE n

\* The resets the loop of maybeResetUserSubscriptionWithPlanTx walks over.
ResetsDue(p, base, end, t) ==
    {b \in (base + 1) .. t :
        /\ b <= end
        /\ IF p \in Aligned THEN b % Period[p] = 0 ELSE (b - base) % Period[p] = 0}

Latest(S) == CHOOSE b \in S : \A a \in S : a <= b

\* The quota is reset whenever next_reset_time has been reached, also when the
\* row's next_reset_time was left behind by the loop (maybeResetUserSubscriptionWithPlanTx).
maybeReset(s, t) ==
    LET base == IF s.last > 0 THEN s.last ELSE s.start
        due  == IF Period[s.plan] = 0 THEN {} ELSE ResetsDue(s.plan, base, s.end, t)
        next == calcNextResetTime(s.plan, base, s.end)
    IN  IF s.next > t \/ Period[s.plan] = 0 THEN s
        ELSE IF due = {}
             THEN IF s.next = 0 /\ next > 0 THEN [s EXCEPT !.next = next, !.last = base] ELSE s
             ELSE [s EXCEPT !.used = 0, !.last = Latest(due), !.epoch = @ + 1,
                            !.next = calcNextResetTime(s.plan, Latest(due), s.end)]

Active(i, t) == subs[i].status = "active" /\ subs[i].end > t
Upgrades(i) == subs[i].upgrade # NoGroup

-----------------------------------------------------------------------------
(* Buying: CompleteSubscriptionOrder (a payment notification, which may    *)
(* come again) and AdminBindSubscription run                               *)
(* CreateUserSubscriptionFromPlanTx.                                       *)

Bought(p) == {i \in DOMAIN subs : subs[i].plan = p /\ subs[i].status # "deleted"}
LimitReached(p) == MaxPurchase[p] > 0 /\ Cardinality(Bought(p)) >= MaxPurchase[p]

\* The reads.  A creation over the purchase limit fails and leaves the order pending.
Begin(c, p) ==
    /\ txn[c] = None /\ Len(subs) < MaxSubs
    /\ ~ LimitReached(p)
    /\ txn' = [txn EXCEPT ![c] = [plan |-> p, read |-> group, at |-> now]]
    /\ UNCHANGED <<now, subs, group, orders, useVars, maint>>

\* The order is completed whatever its status.
CanComplete_Any(o) == orders[o] # "expired"

\* A completed order is left alone, an expired one is refused.
CanComplete(o) == orders[o] = "pending"

CompleteBegin(o) == CanComplete(o) /\ Begin(o, OrderPlan[o]) /\ UNCHANGED admin

BindBegin(p) == admin < MaxAdmin /\ admin' = admin + 1 /\ Begin(Bind, p)

\* The group is changed when the plan upgrades to another one than was read.
Changes(t) == Upgrade[t.plan] \notin {NoGroup, t.read}

NewRow(c, t) ==
    LET end  == t.at + Duration[t.plan]
        next == calcNextResetTime(t.plan, t.at, end)
    IN  [plan |-> t.plan, source |-> c, used |-> 0, start |-> t.at, end |-> end,
         status |-> "active", last |-> IF next > 0 THEN t.at ELSE 0, next |-> next,
         upgrade |-> Upgrade[t.plan], prev |-> IF Changes(t) THEN t.read ELSE NoGroup,
         epoch |-> 0, crossed |-> FALSE, stale |-> t.read # group]

\* The commit.
Commit(c) ==
    LET t == txn[c]
    IN  /\ t # None /\ Len(subs) < MaxSubs
        /\ subs' = Append(subs, NewRow(c, t))
        /\ group' = IF Changes(t) THEN Upgrade[t.plan] ELSE group
        /\ txn' = [txn EXCEPT ![c] = None]
        /\ UNCHANGED <<now, useVars, maint, admin>>

\* The history row of upsertSubscriptionTopUpTx and the status of the order are
\* written in the transaction of the insert.
CompleteCommit(o) == Commit(o) /\ orders' = [orders EXCEPT ![o] = "success"]

BindCommit == Commit(Bind) /\ UNCHANGED orders

\* ExpireSubscriptionOrder waits for the lock a completion holds on the order.
ExpireOrder(o) ==
    /\ orders[o] = "pending" /\ txn[o] = None
    /\ orders' = [orders EXCEPT ![o] = "expired"]
    /\ UNCHANGED <<now, subs, group, txn, useVars, maint, admin>>

-----------------------------------------------------------------------------
(* The user's group.                                                       *)

\* Another active subscription that upgrades the user keeps the group as it is.
KeepsGroup(i, t) == \E j \in DOMAIN subs \ {i} : Active(j, t) /\ Upgrades(j)

\* downgradeUserGroupForSubscriptionTx
Downgraded(i, t) ==
    IF subs[i].upgrade = group /\ ~ KeepsGroup(i, t) /\ subs[i].prev # NoGroup
    THEN subs[i].prev ELSE group

Downgrade(i) ==
    /\ group' = Downgraded(i, now)
    /\ admin < MaxAdmin /\ admin' = admin + 1
    /\ UNCHANGED <<now, orders, txn, useVars, maint>>

AdminInvalidateUserSubscription(i) ==
    /\ subs[i].status # "deleted"
    /\ subs' = [subs EXCEPT ![i].status = "cancelled", ![i].end = now]
    /\ Downgrade(i)

AdminDeleteUserSubscription(i) ==
    /\ subs[i].status # "deleted"
    /\ subs' = [subs EXCEPT ![i].status = "deleted"]
    /\ Downgrade(i)

-----------------------------------------------------------------------------
(* runSubscriptionQuotaResetOnce: expire, reset, clean up.  The rows due   *)
(* are read before the transactions that change them.                      *)

ResetDue(t) == {i \in DOMAIN subs : subs[i].status = "active" /\ subs[i].next \in 1 .. t}

LastOf(S) == CHOOSE i \in S : \A j \in S : subs[j].end < subs[i].end
                                           \/ (subs[j].end = subs[i].end /\ j <= i)

\* Only the subscriptions that upgrade the user are looked for.
ExpireDue_Upgrading(t) ==
    {i \in DOMAIN subs : subs[i].status = "active" /\ subs[i].end <= t /\ Upgrades(i)}

ExpireDue(t) == {i \in DOMAIN subs : subs[i].status = "active" /\ subs[i].end <= t}

\* The rows whose end has come are looked for.
MaintStart ==
    /\ maint.pc = "idle"
    /\ maint' = [pc |-> "expire", now |-> now, due |-> ExpireDue(now)]
    /\ UNCHANGED <<now, subs, group, orders, txn, useVars, admin>>

\* The transaction of ExpireDueSubscriptions, run when some were found, and the read
\* of ResetDueSubscriptions.
MaintExpire ==
    LET t       == maint.now
        due     == IF maint.due = {} THEN {} ELSE ExpireDue(t)
        expired == {i \in DOMAIN subs : Upgrades(i) /\ (subs[i].status = "expired" \/ i \in due)}
        last    == LastOf(expired)
    IN  /\ maint.pc = "expire"
        /\ subs' = [i \in DOMAIN subs |->
                      IF i \in due THEN [subs[i] EXCEPT !.status = "expired"] ELSE subs[i]]
        /\ group' = IF /\ maint.due # {} /\ expired # {}
                       /\ ~ KeepsGroup(0, t)
                       /\ subs[last].prev # NoGroup /\ subs[last].upgrade = group
                    THEN subs[last].prev ELSE group
        /\ maint' = [pc |-> "reset", now |-> now, due |-> ResetDue(now) \ due]
        /\ UNCHANGED <<now, orders, txn, useVars, admin>>

\* One row of ResetDueSubscriptions; the row is read again under its lock.
MaintReset(i) ==
    /\ maint.pc = "reset" /\ i \in maint.due
    /\ subs' = IF subs[i].status # "deleted" /\ subs[i].next \in 1 .. maint.now
               THEN [subs EXCEPT ![i] = maybeReset(@, maint.now)] ELSE subs
    /\ maint' = [maint EXCEPT !.due = @ \ {i}]
    /\ UNCHANGED <<now, group, orders, txn, useVars, admin>>

\* CleanupSubscriptionPreConsumeRecords
MaintCleanup ==
    /\ maint.pc = "reset" /\ maint.due = {}
    /\ record' = [r \in Requests |->
                    IF record[r] # None /\ record[r].at + RecordAge < now THEN None ELSE record[r]]
    /\ maint' = [maint EXCEPT !.pc = "idle", !.now = 0]
    /\ UNCHANGED <<now, subs, group, orders, txn, held, admin>>

-----------------------------------------------------------------------------
(* Using: PreConsumeUserSubscription, PostConsumeUserSubscriptionDelta and *)
(* RefundSubscriptionPreConsume.                                           *)

Remains(s, amount) == Total[s.plan] > 0 => Total[s.plan] - s.used >= amount

\* Order("end_time asc, id asc")
Before(i, j) == subs[i].end < subs[j].end \/ (subs[i].end = subs[j].end /\ i < j)

\* The record is not looked up.
FirstCall_Always(r) == TRUE

\* A call for a request that has a record changes nothing.
FirstCall(r) == record[r] = None

\* A session calls once, and may repeat the call while the record is there.
CallsPreConsume(r) == held[r] = None \/ (record[r] # None /\ held[r].open)

\* The rows are tried in the order in which they end; the resets of the rows that
\* were passed over are saved as well.
PreConsume(r, amount, i) ==
    LET fresh(j) == maybeReset(subs[j], now)
    IN  /\ FirstCall(r) /\ CallsPreConsume(r)
        /\ Active(i, now) /\ Remains(fresh(i), amount)
        /\ \A j \in DOMAIN subs : (Active(j, now) /\ Before(j, i)) => ~ Remains(fresh(j), amount)
        /\ subs' = [j \in DOMAIN subs |->
                      IF j = i THEN [fresh(i) EXCEPT !.used = @ + amount]
                      ELSE IF Active(j, now) /\ Before(j, i) THEN fresh(j) ELSE subs[j]]
        /\ record' = [record EXCEPT ![r] = [status |-> "consumed", sub |-> i,
                                            amount |-> amount, at |-> now]]
        /\ held' = [held EXCEPT ![r] = [sub |-> i, amount |-> amount,
                                        epoch |-> fresh(i).epoch, open |-> TRUE]]
        /\ UNCHANGED <<now, group, orders, txn, maint, admin>>

Positive(n) == IF n < 0 THEN 0 ELSE n

\* The total is not looked at again.
Overdrawn_Never(i, delta) == FALSE

Overdrawn(i, delta) ==
    LET p == subs[i].plan
    IN  Total[p] > 0 /\ Positive(subs[i].used + delta) > Total[p]

\* PostConsumeUserSubscriptionDelta, for a row that is there.
PostConsume(r, delta) ==
    LET i == held[r].sub
    IN  subs' = [subs EXCEPT ![i].used = Positive(@ + delta),
                             ![i].crossed = @ \/ (delta # 0 /\ held[r].epoch # subs[i].epoch)]

\* A delta the row cannot take, or a row that is gone, is an error: the request
\* keeps what it took before.
Settle(r, actual) ==
    LET delta == actual - held[r].amount
        fails == delta # 0 /\ (subs[held[r].sub].status = "deleted" \/ Overdrawn(held[r].sub, delta))
    IN  /\ held[r] # None /\ held[r].open
        /\ IF fails THEN UNCHANGED subs ELSE PostConsume(r, delta)
        /\ held' = [held EXCEPT ![r].open = FALSE, ![r].amount = IF fails THEN @ ELSE actual]
        /\ UNCHANGED <<now, group, orders, txn, record, maint, admin>>

Marked(rec) == [rec EXCEPT !.status = "refunded"]

\* The refund needs the record and the row; without them nothing is given back.  It
\* may be called again.
Refund(r) ==
    LET i == held[r].sub
    IN  /\ held[r] # None
        /\ held[r].open \/ (record[r] # None /\ record[r].status = "refunded")
        /\ IF record[r] # None /\ record[r].status = "consumed" /\ subs[i].status # "deleted"
           THEN /\ PostConsume(r, - record[r].amount)
                /\ record' = [record EXCEPT ![r] = Marked(@)]
                /\ held' = [held EXCEPT ![r].open = FALSE, ![r].amount = 0]
           ELSE /\ held' = [held EXCEPT ![r].open = FALSE]
                /\ UNCHANGED <<subs, record>>
        /\ UNCHANGED <<now, group, orders, txn, maint, admin>>

-----------------------------------------------------------------------------
Maint == MaintStart \/ MaintExpire \/ MaintCleanup \/ \E i \in maint.due : MaintReset(i)

Next ==
    \/ Tick
    \/ \E o \in Orders : CompleteBegin(o) \/ CompleteCommit(o) \/ ExpireOrder(o)
    \/ \E p \in Plans : BindBegin(p)
    \/ BindCommit
    \/ \E i \in DOMAIN subs : AdminInvalidateUserSubscription(i) \/ AdminDeleteUserSubscription(i)
    \/ Maint
    \/ \E r \in Requests, a \in Amounts, i \in DOMAIN subs : PreConsume(r, a, i)
    \/ \E r \in Requests, a \in Actuals : Settle(r, a)
    \/ \E r \in Requests : Refund(r)

Spec == Init /\ [][Next]_vars

\* The clock goes on and the loop's ticker does not stop.
FairSpec ==
    /\ Spec
    /\ WF_vars(Tick) /\ WF_vars(Maint)

-----------------------------------------------------------------------------
(* Properties.                                                             *)

\* A period's usage never exceeds the plan's quota and is never negative, whatever
\* resets, settlements and refunds come between.
UsedWithinTotal ==
    \A i \in DOMAIN subs :
        subs[i].used >= 0 /\ (Total[subs[i].plan] > 0 => subs[i].used <= Total[subs[i].plan])

\* What a request used of the current period of row i.
Share(r, i) ==
    IF held[r] # None /\ held[r].sub = i /\ held[r].epoch = subs[i].epoch
    THEN held[r].amount ELSE 0

\* While no request is charged or refunded for an earlier period, the usage of a
\* subscription is what the requests of the current period used: no call counted
\* twice, none forgotten, whether the loop or a request made the reset.
PeriodBooks ==
    \A i \in DOMAIN subs :
        ~ subs[i].crossed => subs[i].used = SumOf([r \in Requests |-> Share(r, i)], Requests)

\* A paid order is delivered exactly once, however often the provider notifies.
OrderDeliversOnce ==
    \A o \in Orders :
        Cardinality({i \in DOMAIN subs : subs[i].source = o})
            = IF orders[o] = "success" THEN 1 ELSE 0

\* A user with an active subscription that upgrades is not put back in the group
\* the user had before, by no expiry, cancellation or deletion of another one.  (A
\* creation that read the group before a downgrade and committed after it does lose
\* its upgrade: the group is read without a lock.)
UpgradeKept ==
    (\E i \in DOMAIN subs : Active(i, now) /\ Upgrades(i) /\ ~ subs[i].stale)
    => group # BaseGroup

(* What a paid order buys is delivered once and not taken back while it lasts. *)
OrdersKept == OrderDeliversOnce /\ UpgradeKept

\* An active subscription whose end has come.
Overdue(n) == n \in DOMAIN subs /\ subs[n].end <= now /\ subs[n].status = "active"

\* Every subscription whose end has come is marked by the loop.
DueExpires == \A n \in 1 .. MaxSubs : Overdue(n) ~> ~ Overdue(n)

\* "ExpireDueSubscriptions marks expired subscriptions and handles group downgrade":
\* with no subscription left, the user is back in the group of before.
GroupReturned ==
    (\A i \in DOMAIN subs : subs[i].status \in {"expired", "cancelled", "deleted"})
    => group = BaseGroup

=============================================================================
