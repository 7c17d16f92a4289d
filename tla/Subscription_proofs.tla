------------------------ MODULE Subscription_proofs -------------------------
(***************************************************************************)
(* Quotas, orders and groups of Subscription for any plans, orders,        *)
(* requests and amounts.                                                   *)
(*                                                                         *)
(* Usage stays within the plan because every transaction that adds to it   *)
(* looks at the total under the row lock, and the others clamp at zero.    *)
(* Orders are delivered once because a creation under way keeps its order  *)
(* pending (the row lock of the order), which the inductive invariant says *)
(* together with which rows an order has.  The group is kept because       *)
(* everything that lowers it looks at the other active rows first; the     *)
(* loop does that with a time that is not ahead of the clock.              *)
(***************************************************************************)
EXTENDS Subscription, Sums_proofs, FiniteSetTheorems, SequenceTheorems, WellFoundedInduction, TLAPS

\* The rows an order or the administrator made.
RowsOf(c) == {i \in DOMAIN subs : subs[i].source = c}

\* An order under way is pending, a completed one has one row and the others none.
Delivered ==
    /\ \A o \in Orders : txn[o] # None => orders[o] = "pending"
    /\ \A o \in Orders : IF orders[o] = "success" THEN \E n : RowsOf(o) = {n} ELSE RowsOf(o) = {}

LoopNotAhead == maint.now <= now

SubInv == TypeOK /\ UsedWithinTotal /\ Delivered /\ LoopNotAhead

\* No plan upgrades the user to the group the user has anyway.
RealUpgrades == \A p \in Plans : Upgrade[p] # BaseGroup

-----------------------------------------------------------------------------
(* Operators.                                                              *)

\* Every inhabited set of natural numbers has a least element.
LEMMA LeastElement ==
    ASSUME NEW T \in SUBSET Nat, T # {}
    PROVE  \E m \in T : \A n \in T : m <= n
  <1>1. \E x \in T : \A y \in T : ~ (<<y, x>> \in OpToRel(<, Nat))
    BY WFMin, NatLessThanWellFounded
  <1>2. \A x, y \in Nat : <<y, x>> \in OpToRel(<, Nat) <=> y < x
    BY DEF OpToRel
  <1>3. PICK x \in T : \A y \in T : ~ (<<y, x>> \in OpToRel(<, Nat))
    BY <1>1
  <1>4. \A y \in T : ~ (y < x)
    BY <1>2, <1>3
  <1>5. \A y \in T : x <= y
    BY <1>4
  <1> QED BY <1>5

\* The latest of the resets that are due is one of them.
LEMMA LatestIsDue ==
    ASSUME NEW t \in Nat, NEW S \in SUBSET (1 .. t), S # {}
    PROVE  Latest(S) \in S /\ \A a \in S : a <= Latest(S)
  <1> DEFINE T == {t - a : a \in S}
  <1>0. \A a \in S : a \in Nat /\ a <= t /\ t - a \in Nat
    OBVIOUS
  <1>1. T \in SUBSET Nat /\ T # {}
    BY <1>0
  <1>2. PICK m \in T : \A n \in T : m <= n
    BY <1>1, LeastElement
  <1>3. PICK b \in S : m = t - b
    BY <1>2
  <1>4. \A a \in S : a <= b
    <2> SUFFICES ASSUME NEW a \in S PROVE a <= b
      OBVIOUS
    <2>1. t - a \in T
      OBVIOUS
    <2>2. t - b <= t - a
      BY <1>2, <1>3, <2>1
    <2> QED BY <1>0, <2>2
  <1> QED BY <1>3, <1>4 DEF Latest

LEMMA NextResetType ==
    ASSUME NEW p \in Plans, NEW b \in Nat, NEW e \in Nat
    PROVE  calcNextResetTime(p, b, e) \in Nat
  <1>1. Period[p] \in Nat
    BY SubscriptionAssumption
  <1>2. CASE Period[p] = 0
    BY <1>2 DEF calcNextResetTime
  <1>3. CASE Period[p] # 0
    <2>1. b \div Period[p] \in Nat
      BY <1>1, <1>3
    <2>2. (b \div Period[p] + 1) * Period[p] \in Nat
      BY <1>1, <2>1
    <2> QED BY <1>1, <1>3, <2>2 DEF calcNextResetTime
  <1> QED BY <1>2, <1>3

\* A reset empties the usage and moves the times of the row, and nothing else of it.
LEMMA ResetRow ==
    ASSUME NEW s \in Rows, NEW t \in Nat
    PROVE  LET n == maybeReset(s, t)
           IN  /\ n \in Rows /\ n.used \in {0, s.used}
               /\ n.plan = s.plan /\ n.source = s.source /\ n.upgrade = s.upgrade
               /\ n.stale = s.stale /\ n.status = s.status /\ n.end = s.end
               /\ n.crossed = s.crossed
               /\ \/ n.used = s.used /\ n.epoch = s.epoch
                  \/ n.used = 0 /\ n.epoch = s.epoch + 1
  <1> DEFINE base == IF s.last > 0 THEN s.last ELSE s.start
             due == ResetsDue(s.plan, base, s.end, t)
             next == calcNextResetTime(s.plan, base, s.end)
  <1>1. s.plan \in Plans /\ base \in Nat /\ s.end \in Nat /\ next \in Nat
    BY NextResetType DEF Rows
  <1>2. due # {} => Latest(due) \in Nat /\ calcNextResetTime(s.plan, Latest(due), s.end) \in Nat
    <2>1. due \in SUBSET (1 .. t)
      BY <1>1 DEF ResetsDue
    <2> SUFFICES ASSUME due # {} PROVE Latest(due) \in Nat /\ calcNextResetTime(s.plan, Latest(due), s.end) \in Nat
      OBVIOUS
    <2>2. Latest(due) \in due
      BY <2>1, LatestIsDue
    <2>3. Latest(due) \in Nat
      BY <2>1, <2>2
    <2> QED BY <1>1, <2>3, NextResetType
  <1> HIDE DEF due, next
  <1>3. CASE s.next > t \/ Period[s.plan] = 0
    BY <1>3 DEF maybeReset
  <1>4. CASE ~ (s.next > t \/ Period[s.plan] = 0) /\ due = {}
    <2>1. maybeReset(s, t) = IF s.next = 0 /\ next > 0 THEN [s EXCEPT !.next = next, !.last = base] ELSE s
      BY <1>4 DEF maybeReset, due, next
    <2> QED BY <1>1, <2>1 DEF Rows
  <1>5. CASE ~ (s.next > t \/ Period[s.plan] = 0) /\ due # {}
    <2>1. maybeReset(s, t) = [s EXCEPT !.used = 0, !.last = Latest(due), !.epoch = @ + 1,
                                       !.next = calcNextResetTime(s.plan, Latest(due), s.end)]
      BY <1>5 DEF maybeReset, due
    <2> DEFINE l == Latest(due)
               x == calcNextResetTime(s.plan, l, s.end)
    <2>2. l \in Nat /\ x \in Nat /\ s.epoch + 1 \in Nat
      BY <1>2, <1>5 DEF Rows
    <2>3. maybeReset(s, t) = [s EXCEPT !.used = 0, !.last = l, !.epoch = s.epoch + 1, !.next = x]
      BY <2>1 DEF Rows
    <2> HIDE DEF l, x
    <2>4. maybeReset(s, t) \in Rows
      <3>1. [s EXCEPT !.used = 0, !.last = l] \in Rows
        BY <2>2 DEF Rows
      <3>2. [s EXCEPT !.used = 0, !.last = l, !.epoch = s.epoch + 1] \in Rows
        BY <2>2, <3>1 DEF Rows
      <3> QED BY <2>2, <2>3, <3>2 DEF Rows
    <2>5. maybeReset(s, t).used = 0
      BY <2>3 DEF Rows
    <2>6. \A f \in {"plan", "source", "upgrade", "stale", "status", "end", "crossed"} : maybeReset(s, t)[f] = s[f]
      BY <2>3 DEF Rows
    <2>7. maybeReset(s, t).epoch = s.epoch + 1
      BY <2>3 DEF Rows
    <2> QED BY <2>4, <2>5, <2>6, <2>7
  <1> QED BY <1>3, <1>4, <1>5

\* The table is a sequence of rows; so is what rewrites it row by row.
LEMMA RowsInTable ==
    ASSUME TypeOK
    PROVE  /\ Len(subs) \in Nat /\ DOMAIN subs = 1 .. Len(subs) /\ subs \in [1 .. Len(subs) -> Rows]
           /\ \A i \in DOMAIN subs : subs[i] \in Rows /\ i \in Nat \ {0}
  <1>1. subs \in Seq(Rows)
    BY DEF TypeOK
  <1> QED BY <1>1, LenProperties

LEMMA TableOfRows ==
    ASSUME NEW n \in Nat, NEW f \in [1 .. n -> Rows]
    PROVE  f \in Seq(Rows) /\ Len(f) = n /\ DOMAIN f = 1 .. n
  <1>1. f \in Seq(Rows)
    BY SeqDef
  <1>2. DOMAIN f = 1 .. n /\ DOMAIN f = 1 .. Len(f) /\ Len(f) \in Nat
    BY <1>1, LenProperties
  <1> QED BY <1>1, <1>2

-----------------------------------------------------------------------------
(* Steps that make no row.                                                 *)

\* A row keeps what it was bought for, and what is active was active.
RowKept(i) ==
    /\ subs'[i].plan = subs[i].plan /\ subs'[i].source = subs[i].source
    /\ subs'[i].upgrade = subs[i].upgrade /\ subs'[i].stale = subs[i].stale
    /\ subs'[i].status = "active" => subs[i].status = "active" /\ subs'[i].end = subs[i].end

SameRows ==
    /\ subs' \in Seq(Rows) /\ Len(subs') = Len(subs) /\ DOMAIN subs' = DOMAIN subs
    /\ \A i \in DOMAIN subs : RowKept(i)

LEMMA SameRowsUnchanged ==
    ASSUME TypeOK, UNCHANGED subs
    PROVE  SameRows
  BY DEF TypeOK, SameRows, RowKept

\* The rows of the orders stay where they are.
LEMMA SameDelivered ==
    ASSUME SubInv, SameRows, UNCHANGED <<orders, txn>>
    PROVE  Delivered'
  <1>1. \A o \in Orders : RowsOf(o)' = RowsOf(o)
    BY DEF SameRows, RowKept, RowsOf
  <1> QED BY <1>1 DEF SubInv, Delivered

\* One row is replaced by one with the same origin.
LEMMA OneRow ==
    ASSUME TypeOK, NEW i, NEW n \in Rows, subs' = [subs EXCEPT ![i] = n],
           i \in DOMAIN subs =>
             /\ n.plan = subs[i].plan /\ n.source = subs[i].source
             /\ n.upgrade = subs[i].upgrade /\ n.stale = subs[i].stale
             /\ n.status = "active" => subs[i].status = "active" /\ n.end = subs[i].end
    PROVE  SameRows /\ \A j \in DOMAIN subs : subs'[j] = IF j = i THEN n ELSE subs[j]
  <1>1. /\ Len(subs) \in Nat /\ DOMAIN subs = 1 .. Len(subs) /\ subs \in [1 .. Len(subs) -> Rows]
    BY RowsInTable
  <1>2. subs' \in [1 .. Len(subs) -> Rows] /\ \A j \in DOMAIN subs : subs'[j] = IF j = i THEN n ELSE subs[j]
    BY <1>1
  <1>3. subs' \in Seq(Rows) /\ Len(subs') = Len(subs) /\ DOMAIN subs' = DOMAIN subs
    BY <1>1, <1>2, TableOfRows
  <1> QED BY <1>2, <1>3 DEF SameRows, RowKept

\* Of some rows one ends last: the one with the fewest rows after it.
LEMMA LastOfIsOne ==
    ASSUME TypeOK, NEW S \in SUBSET DOMAIN subs, S # {}
    PROVE  LastOf(S) \in S
  <1> DEFINE After(i) == {j \in S : Before(i, j)}
             T == {Cardinality(After(i)) : i \in S}
  <1>1. /\ Len(subs) \in Nat /\ DOMAIN subs = 1 .. Len(subs)
        /\ \A i \in S : i \in Nat /\ subs[i].end \in Nat
    BY RowsInTable DEF Rows
  <1>2. IsFiniteSet(S)
    <2>1. IsFiniteSet(1 .. Len(subs))
      BY <1>1, FS_Interval
    <2> QED BY <1>1, <2>1, FS_Subset
  <1>3. \A i \in S : IsFiniteSet(After(i)) /\ Cardinality(After(i)) \in Nat
    BY <1>2, FS_Subset, FS_CardinalityType
  <1>4. PICK i \in S : \A j \in S : Cardinality(After(i)) <= Cardinality(After(j))
    <2>1. T \in SUBSET Nat /\ T # {}
      BY <1>3
    <2>2. PICK m \in T : \A n \in T : m <= n
      BY <2>1, LeastElement
    <2> QED BY <2>2
  <1>5. After(i) = {}
    <2> SUFFICES ASSUME NEW j \in After(i) PROVE FALSE
      OBVIOUS
    <2>1. After(j) \subseteq After(i) /\ j \notin After(j) /\ j \in After(i) /\ j \in S
      BY <1>1 DEF Before
    <2>2. Cardinality(After(j)) <= Cardinality(After(i))
          /\ (Cardinality(After(i)) = Cardinality(After(j)) => After(i) = After(j))
      BY <1>3, <2>1, FS_Subset
    <2> HIDE DEF After
    <2> QED BY <1>3, <1>4, <2>1, <2>2
  <1>6. \A j \in S : subs[j].end < subs[i].end \/ (subs[j].end = subs[i].end /\ j <= i)
    BY <1>1, <1>5 DEF Before
  <1> QED BY <1>6 DEF LastOf

\* The group is lowered only when no active row that upgrades is left.
GroupSafe ==
    \/ group' = group
    \/ \A i \in DOMAIN subs :
          (subs'[i].status = "active" /\ subs[i].upgrade # NoGroup) => subs'[i].end <= now'

\* What every step that makes no row does.
Keeps ==
    /\ TypeOK' /\ UsedWithinTotal' /\ LoopNotAhead' /\ SameRows /\ GroupSafe
    /\ now' \in {now, now + 1}

LEMMA TickKeeps == ASSUME SubInv, Tick PROVE Keeps
  <1>1. UNCHANGED <<subs, group, orders, txn, record, held, maint, admin>> /\ now < MaxTime /\ now' = now + 1
    BY DEF Tick, useVars
  <1>2. TypeOK'
    BY <1>1, SubscriptionAssumption DEF SubInv, TypeOK
  <1>3. LoopNotAhead'
    BY <1>1, SubscriptionAssumption DEF SubInv, TypeOK, LoopNotAhead
  <1>4. UsedWithinTotal' /\ SameRows /\ GroupSafe
    BY <1>1, SameRowsUnchanged DEF SubInv, UsedWithinTotal, GroupSafe
  <1> QED BY <1>1, <1>2, <1>3, <1>4 DEF Keeps

\* The administrator ends or deletes a row and takes the group back.
LEMMA AdminKeeps ==
    ASSUME SubInv, NEW i \in DOMAIN subs,
           AdminInvalidateUserSubscription(i) \/ AdminDeleteUserSubscription(i)
    PROVE  Keeps /\ UNCHANGED <<orders, txn>>
  <1>1. TypeOK /\ subs[i] \in Rows /\ now \in Nat /\ now <= MaxTime
    BY RowsInTable, SubscriptionAssumption DEF SubInv, TypeOK
  <1>2. PICK n \in Rows : /\ subs' = [subs EXCEPT ![i] = n] /\ n.status # "active" /\ n.used = subs[i].used
                          /\ n.plan = subs[i].plan /\ n.source = subs[i].source
                          /\ n.upgrade = subs[i].upgrade /\ n.stale = subs[i].stale
    <2>1. CASE AdminInvalidateUserSubscription(i)
      <3> DEFINE n == [subs[i] EXCEPT !.status = "cancelled", !.end = now]
      <3>1. subs' = [subs EXCEPT ![i] = n]
        BY <2>1 DEF AdminInvalidateUserSubscription
      <3>2. n \in Rows /\ n.status # "active" /\ n.used = subs[i].used /\ n.plan = subs[i].plan
            /\ n.source = subs[i].source /\ n.upgrade = subs[i].upgrade /\ n.stale = subs[i].stale
        BY <1>1 DEF Rows
      <3> HIDE DEF n
      <3> QED BY <3>1, <3>2
    <2>2. CASE AdminDeleteUserSubscription(i)
      <3> DEFINE n == [subs[i] EXCEPT !.status = "deleted"]
      <3>1. subs' = [subs EXCEPT ![i] = n]
        BY <2>2 DEF AdminDeleteUserSubscription
      <3>2. n \in Rows /\ n.status # "active" /\ n.used = subs[i].used /\ n.plan = subs[i].plan
            /\ n.source = subs[i].source /\ n.upgrade = subs[i].upgrade /\ n.stale = subs[i].stale
        BY <1>1 DEF Rows
      <3> HIDE DEF n
      <3> QED BY <3>1, <3>2
    <2> QED BY <2>1, <2>2
  <1>3. /\ group' = Downgraded(i, now) /\ admin < MaxAdmin /\ admin' = admin + 1
        /\ UNCHANGED <<now, orders, txn, record, held, maint>>
    BY DEF AdminInvalidateUserSubscription, AdminDeleteUserSubscription, Downgrade, useVars
  <1>4. SameRows /\ \A j \in DOMAIN subs : subs'[j] = IF j = i THEN n ELSE subs[j]
    BY <1>1, <1>2, OneRow
  <1>5. group' \in Groups
    BY <1>1, <1>3 DEF SubInv, TypeOK, Downgraded, Rows
  <1>6. admin' \in 0 .. MaxAdmin
    BY <1>3, SubscriptionAssumption DEF SubInv, TypeOK
  <1>7. TypeOK'
    BY <1>3, <1>4, <1>5, <1>6 DEF SubInv, TypeOK, SameRows
  <1>8. UsedWithinTotal'
    BY <1>2, <1>4 DEF SubInv, UsedWithinTotal, SameRows
  <1>9. GroupSafe
    <2> SUFFICES ASSUME group' # group, NEW j \in DOMAIN subs, subs'[j].status = "active", subs[j].upgrade # NoGroup
                 PROVE  subs'[j].end <= now'
      BY DEF GroupSafe
    <2>1. j # i /\ subs'[j] = subs[j]
      BY <1>2, <1>4
    <2>2. ~ (subs[j].end > now)
      BY <1>3, <2>1 DEF Downgraded, KeepsGroup, Active, Upgrades
    <2>3. subs[j].end \in Nat
      BY <1>1, RowsInTable DEF Rows
    <2> QED BY <1>1, <1>3, <2>1, <2>2, <2>3
  <1> QED BY <1>3, <1>4, <1>7, <1>8, <1>9 DEF Keeps, SubInv, LoopNotAhead

\* The maintenance loop.
LEMMA MaintStartKeeps == ASSUME SubInv, MaintStart PROVE Keeps /\ UNCHANGED <<orders, txn>>
  <1>1. /\ maint' = [pc |-> "expire", now |-> now, due |-> ExpireDue(now)]
        /\ UNCHANGED <<now, subs, group, orders, txn, record, held, admin>>
    BY DEF MaintStart, useVars
  <1>2. ExpireDue(now) \in SUBSET Nat /\ now \in Nat
    BY RowsInTable, SubscriptionAssumption DEF SubInv, TypeOK, ExpireDue
  <1>3. maint' \in [pc : {"idle", "expire", "reset"}, now : Nat, due : SUBSET Nat] /\ maint'.now = now
    BY <1>1, <1>2
  <1>4. TypeOK'
    BY <1>1, <1>3 DEF SubInv, TypeOK
  <1>5. UsedWithinTotal' /\ SameRows /\ GroupSafe /\ LoopNotAhead'
    BY <1>1, <1>2, <1>3, SameRowsUnchanged DEF SubInv, UsedWithinTotal, GroupSafe, LoopNotAhead
  <1> QED BY <1>1, <1>4, <1>5 DEF Keeps

LEMMA MaintExpireKeeps == ASSUME SubInv, MaintExpire PROVE Keeps /\ UNCHANGED <<orders, txn>>
  <1> DEFINE t == maint.now
             due == IF maint.due = {} THEN {} ELSE ExpireDue(t)
             expired == {i \in DOMAIN subs : Upgrades(i) /\ (subs[i].status = "expired" \/ i \in due)}
             n == [i \in DOMAIN subs |->
                      IF i \in due THEN [subs[i] EXCEPT !.status = "expired"] ELSE subs[i]]
  <1>1. /\ subs' = n
        /\ group' = IF /\ maint.due # {} /\ expired # {} /\ ~ KeepsGroup(0, t)
                       /\ subs[LastOf(expired)].prev # NoGroup /\ subs[LastOf(expired)].upgrade = group
                    THEN subs[LastOf(expired)].prev ELSE group
        /\ maint' = [pc |-> "reset", now |-> now, due |-> ResetDue(now) \ due]
        /\ UNCHANGED <<now, orders, txn, record, held, admin>>
    BY DEF MaintExpire, useVars
  <1>2. /\ Len(subs) \in Nat /\ DOMAIN subs = 1 .. Len(subs) /\ now \in Nat /\ t \in Nat /\ t <= now
        /\ \A i \in DOMAIN subs : subs[i] \in Rows /\ i \in Nat \ {0}
    BY RowsInTable, SubscriptionAssumption DEF SubInv, TypeOK, LoopNotAhead
  <1>3. \A i \in DOMAIN subs :
          /\ n[i] \in Rows /\ n[i].used = subs[i].used
          /\ n[i].plan = subs[i].plan /\ n[i].source = subs[i].source
          /\ n[i].upgrade = subs[i].upgrade /\ n[i].stale = subs[i].stale
          /\ n[i].status = "active" => subs[i].status = "active" /\ n[i].end = subs[i].end
    BY <1>2 DEF Rows
  <1>4. n \in [1 .. Len(subs) -> Rows]
    BY <1>2, <1>3
  <1>5. SameRows
    BY <1>1, <1>2, <1>3, <1>4, TableOfRows DEF SameRows, RowKept
  <1>6. group' \in Groups
    <2>1. expired # {} => LastOf(expired) \in DOMAIN subs
      BY LastOfIsOne DEF SubInv
    <2> HIDE DEF expired
    <2> QED BY <1>1, <1>2, <2>1 DEF SubInv, TypeOK, Rows
  <1>7. maint' \in [pc : {"idle", "expire", "reset"}, now : Nat, due : SUBSET Nat] /\ maint'.now = now
    <2>1. ResetDue(now) \ due \in SUBSET Nat
      BY <1>2 DEF ResetDue
    <2> QED BY <1>1, <1>2, <2>1
  <1>8. TypeOK'
    BY <1>1, <1>5, <1>6, <1>7 DEF SubInv, TypeOK, SameRows
  <1>9. UsedWithinTotal'
    BY <1>1, <1>3, <1>5 DEF SubInv, UsedWithinTotal, SameRows
  <1>10. GroupSafe
    <2> SUFFICES ASSUME group' # group, NEW j \in DOMAIN subs, subs'[j].status = "active", subs[j].upgrade # NoGroup
                 PROVE  subs'[j].end <= now'
      BY DEF GroupSafe
    <2>1. ~ KeepsGroup(0, t) /\ j # 0
      BY <1>1, <1>2
    <2>2. subs[j].status = "active" /\ subs'[j].end = subs[j].end
      BY <1>1, <1>3
    <2>3. ~ (subs[j].end > t) /\ subs[j].end \in Nat
      BY <1>2, <2>1, <2>2 DEF KeepsGroup, Active, Upgrades, Rows
    <2> QED BY <1>1, <1>2, <2>2, <2>3
  <1>11. LoopNotAhead'
    BY <1>1, <1>2, <1>7 DEF LoopNotAhead
  <1> QED BY <1>1, <1>5, <1>8, <1>9, <1>10, <1>11 DEF Keeps

LEMMA MaintResetKeeps ==
    ASSUME SubInv, NEW i \in maint.due, MaintReset(i)
    PROVE  Keeps /\ UNCHANGED <<orders, txn>>
  <1>1. /\ maint' = [maint EXCEPT !.due = @ \ {i}]
        /\ UNCHANGED <<now, group, orders, txn, record, held, admin>>
    BY DEF MaintReset, useVars
  <1>2. /\ maint' \in [pc : {"idle", "expire", "reset"}, now : Nat, due : SUBSET Nat] /\ maint'.now = maint.now
        /\ maint.now \in Nat
    BY <1>1 DEF SubInv, TypeOK
  <1>3. SameRows /\ UsedWithinTotal'
    <2>1. CASE UNCHANGED subs
      BY <2>1, SameRowsUnchanged DEF SubInv, UsedWithinTotal
    <2>2. CASE subs' = [subs EXCEPT ![i] = maybeReset(subs[i], maint.now)] /\ i \in DOMAIN subs
      <3> DEFINE n == maybeReset(subs[i], maint.now)
      <3>1. subs[i] \in Rows
        BY <2>2, RowsInTable DEF SubInv
      <3>2. /\ n \in Rows /\ n.used \in {0, subs[i].used}
            /\ n.plan = subs[i].plan /\ n.source = subs[i].source /\ n.upgrade = subs[i].upgrade
            /\ n.stale = subs[i].stale /\ n.status = subs[i].status /\ n.end = subs[i].end
        BY <1>2, <3>1, ResetRow
      <3> HIDE DEF n
      <3>3. subs' = [subs EXCEPT ![i] = n]
        BY <2>2 DEF n
      <3>4. SameRows /\ \A j \in DOMAIN subs : subs'[j] = IF j = i THEN n ELSE subs[j]
        BY <3>2, <3>3, OneRow DEF SubInv
      <3>5. Total[n.plan] \in Nat
        BY <3>2, SubscriptionAssumption DEF Rows
      <3> QED BY <2>2, <3>2, <3>4, <3>5 DEF SubInv, UsedWithinTotal, SameRows
    <2>3. CASE subs' = [subs EXCEPT ![i] = maybeReset(subs[i], maint.now)] /\ i \notin DOMAIN subs
      <3>1. subs' = subs
        BY <2>3, RowsInTable DEF SubInv
      <3> QED BY <2>1, <3>1
    <2> QED BY <2>1, <2>2, <2>3 DEF MaintReset
  <1>4. TypeOK'
    BY <1>1, <1>2, <1>3 DEF SubInv, TypeOK, SameRows
  <1> QED BY <1>1, <1>2, <1>3, <1>4 DEF Keeps, GroupSafe, SubInv, LoopNotAhead

LEMMA MaintCleanupKeeps == ASSUME SubInv, MaintCleanup PROVE Keeps /\ UNCHANGED <<orders, txn>>
  <1>1. /\ maint' = [maint EXCEPT !.pc = "idle", !.now = 0]
        /\ UNCHANGED <<now, subs, group, orders, txn, held, admin>>
    BY DEF MaintCleanup
  <1>2. record' \in [Requests -> [status : {"consumed", "refunded"}, sub : Nat \ {0},
                                  amount : Nat, at : Nat] \cup {None}]
    BY DEF SubInv, TypeOK, MaintCleanup
  <1>3. maint' \in [pc : {"idle", "expire", "reset"}, now : Nat, due : SUBSET Nat] /\ maint'.now = 0
    BY <1>1 DEF SubInv, TypeOK
  <1>4. TypeOK'
    BY <1>1, <1>2, <1>3 DEF SubInv, TypeOK
  <1>5. LoopNotAhead'
    BY <1>1, <1>3, SubscriptionAssumption DEF SubInv, TypeOK, LoopNotAhead
  <1> QED BY <1>1, <1>4, <1>5, SameRowsUnchanged DEF Keeps, GroupSafe, SubInv, UsedWithinTotal

-----------------------------------------------------------------------------
(* Using a subscription.                                                   *)

LEMMA PreConsumeKeeps ==
    ASSUME SubInv, NEW r \in Requests, NEW a \in Amounts, NEW i \in DOMAIN subs, PreConsume(r, a, i)
    PROVE  Keeps /\ UNCHANGED <<orders, txn>>
  <1> DEFINE fresh(j) == maybeReset(subs[j], now)
             n == [j \in DOMAIN subs |->
                      IF j = i THEN [fresh(i) EXCEPT !.used = @ + a]
                      ELSE IF Active(j, now) /\ Before(j, i) THEN fresh(j) ELSE subs[j]]
  <1>1. /\ Remains(fresh(i), a) /\ subs' = n
        /\ record' = [record EXCEPT ![r] = [status |-> "consumed", sub |-> i, amount |-> a, at |-> now]]
        /\ held' = [held EXCEPT ![r] = [sub |-> i, amount |-> a, epoch |-> fresh(i).epoch, open |-> TRUE]]
        /\ UNCHANGED <<now, group, orders, txn, maint, admin>>
    BY DEF PreConsume
  <1>2. /\ Len(subs) \in Nat /\ DOMAIN subs = 1 .. Len(subs) /\ now \in Nat /\ a \in Nat
        /\ \A j \in DOMAIN subs : subs[j] \in Rows /\ j \in Nat \ {0}
    BY RowsInTable, SubscriptionAssumption DEF SubInv, TypeOK
  <1>3. \A j \in DOMAIN subs :
          /\ fresh(j) \in Rows /\ fresh(j).used \in {0, subs[j].used}
          /\ fresh(j).plan = subs[j].plan /\ fresh(j).source = subs[j].source
          /\ fresh(j).upgrade = subs[j].upgrade /\ fresh(j).stale = subs[j].stale
          /\ fresh(j).status = subs[j].status /\ fresh(j).end = subs[j].end
    BY <1>2, ResetRow
  <1> HIDE DEF fresh
  <1>4. \A j \in DOMAIN subs : n[j] = IF j = i THEN [fresh(i) EXCEPT !.used = fresh(i).used + a]
                                      ELSE IF Active(j, now) /\ Before(j, i) THEN fresh(j) ELSE subs[j]
    BY <1>2, <1>3 DEF Rows
  <1> HIDE DEF n
  <1>5. /\ n[i] \in Rows /\ n[i].used = fresh(i).used + a
        /\ n[i].plan = subs[i].plan /\ n[i].source = subs[i].source
        /\ n[i].upgrade = subs[i].upgrade /\ n[i].stale = subs[i].stale
        /\ n[i].status = subs[i].status /\ n[i].end = subs[i].end
    <2> DEFINE u == fresh(i).used + a
    <2>1. u \in Nat /\ fresh(i) \in Rows
      BY <1>2, <1>3 DEF Rows
    <2>2. n[i] = [fresh(i) EXCEPT !.used = u]
      BY <1>4
    <2> HIDE DEF u
    <2>3. n[i] \in Rows
      BY <2>1, <2>2 DEF Rows
    <2>4. n[i].used = u
      BY <2>1, <2>2 DEF Rows
    <2>5. \A f \in {"plan", "source", "upgrade", "stale", "status", "end"} : n[i][f] = fresh(i)[f]
      BY <2>1, <2>2 DEF Rows
    <2> QED BY <1>3, <2>3, <2>4, <2>5 DEF u
  <1>6. \A j \in DOMAIN subs \ {i} :
          /\ n[j] \in Rows /\ n[j].used \in {0, subs[j].used}
          /\ n[j].plan = subs[j].plan /\ n[j].source = subs[j].source
          /\ n[j].upgrade = subs[j].upgrade /\ n[j].stale = subs[j].stale
          /\ n[j].status = subs[j].status /\ n[j].end = subs[j].end
    BY <1>2, <1>3, <1>4
  <1>7. n \in [1 .. Len(subs) -> Rows]
    BY <1>2, <1>5, <1>6 DEF n
  <1>8. SameRows
    BY <1>1, <1>2, <1>5, <1>6, <1>7, TableOfRows DEF SameRows, RowKept
  <1>9. \A j \in DOMAIN subs : subs[j].used \in Nat /\ Total[subs[j].plan] \in Nat
    BY <1>2, SubscriptionAssumption DEF Rows
  <1>10. UsedWithinTotal'
    <2>1. n[i].used >= 0 /\ (Total[n[i].plan] > 0 => n[i].used <= Total[n[i].plan])
      BY <1>1, <1>2, <1>3, <1>5, <1>9 DEF Remains
    <2>2. \A j \in DOMAIN subs \ {i} :
            n[j].used >= 0 /\ (Total[n[j].plan] > 0 => n[j].used <= Total[n[j].plan])
      BY <1>6, <1>9 DEF SubInv, UsedWithinTotal
    <2> QED BY <1>1, <1>8, <2>1, <2>2 DEF UsedWithinTotal, SameRows
  <1>11. fresh(i).epoch \in Nat
    BY <1>3 DEF Rows
  <1>12. TypeOK'
    <2>1. record' \in [Requests -> [status : {"consumed", "refunded"}, sub : Nat \ {0},
                                    amount : Nat, at : Nat] \cup {None}]
      BY <1>1, <1>2 DEF SubInv, TypeOK
    <2>2. held' \in [Requests -> [sub : Nat \ {0}, amount : Nat, epoch : Nat, open : BOOLEAN] \cup {None}]
      BY <1>1, <1>2, <1>11 DEF SubInv, TypeOK
    <2> QED BY <1>1, <1>8, <2>1, <2>2 DEF SubInv, TypeOK, SameRows
  <1> QED BY <1>1, <1>8, <1>10, <1>12 DEF Keeps, GroupSafe, SubInv, LoopNotAhead

\* A delta that the plan can take, or that is not positive, leaves the usage within it.
LEMMA PostConsumeKeeps ==
    ASSUME SubInv, NEW r \in Requests, held[r] # None, NEW d \in Int, PostConsume(r, d),
           d <= 0 \/ ~ Overdrawn(held[r].sub, d)
    PROVE  SameRows /\ UsedWithinTotal'
  <1> DEFINE i == held[r].sub
             n == [subs[i] EXCEPT !.used = Positive(subs[i].used + d),
                                  !.crossed = @ \/ (d # 0 /\ held[r].epoch # subs[i].epoch)]
  <1>1. CASE i \in DOMAIN subs
    <2>1. subs[i] \in Rows /\ subs[i].used \in Nat /\ Total[subs[i].plan] \in Nat /\ DOMAIN subs = 1 .. Len(subs)
      BY <1>1, RowsInTable, SubscriptionAssumption DEF SubInv, Rows
    <2>2. Positive(subs[i].used + d) \in Nat
      BY <2>1 DEF Positive
    <2>3. subs' = [subs EXCEPT ![i] = n]
      BY <1>1, <2>1 DEF PostConsume, Rows
    <2>4. n \in Rows
      BY <2>1, <2>2 DEF Rows
    <2>5. n.used = Positive(subs[i].used + d)
      BY <2>1 DEF Rows
    <2>6. \A f \in {"plan", "source", "upgrade", "stale", "status", "end"} : n[f] = subs[i][f]
      BY <2>1 DEF Rows
    <2> HIDE DEF n
    <2>7. SameRows /\ \A j \in DOMAIN subs : subs'[j] = IF j = i THEN n ELSE subs[j]
      BY <2>3, <2>4, <2>6, OneRow DEF SubInv
    <2>8. n.used >= 0 /\ (Total[n.plan] > 0 => n.used <= Total[n.plan])
      BY <1>1, <2>1, <2>2, <2>5, <2>6 DEF SubInv, UsedWithinTotal, Overdrawn, Positive
    <2> QED BY <2>7, <2>8 DEF SubInv, UsedWithinTotal, SameRows
  <1>2. CASE i \notin DOMAIN subs
    <2>1. UNCHANGED subs
      BY <1>2, RowsInTable DEF SubInv, PostConsume
    <2> QED BY <2>1, SameRowsUnchanged DEF SubInv, UsedWithinTotal
  <1> QED BY <1>1, <1>2

LEMMA SettleKeeps ==
    ASSUME SubInv, NEW r \in Requests, NEW a \in Actuals, Settle(r, a)
    PROVE  Keeps /\ UNCHANGED <<orders, txn>>
  <1> DEFINE d == a - held[r].amount
             fails == d # 0 /\ (subs[held[r].sub].status = "deleted" \/ Overdrawn(held[r].sub, d))
  <1>1. /\ held[r] # None /\ (IF fails THEN UNCHANGED subs ELSE PostConsume(r, d))
        /\ held' = [held EXCEPT ![r].open = FALSE, ![r].amount = IF fails THEN @ ELSE a]
        /\ UNCHANGED <<now, group, orders, txn, record, maint, admin>>
    BY DEF Settle
  <1>2. /\ held[r] \in [sub : Nat \ {0}, amount : Nat, epoch : Nat, open : BOOLEAN]
        /\ a \in Nat /\ d \in Int
    BY <1>1, SubscriptionAssumption DEF SubInv, TypeOK
  <1>3. SameRows /\ UsedWithinTotal'
    <2>1. CASE fails
      BY <1>1, <2>1, SameRowsUnchanged DEF SubInv, UsedWithinTotal
    <2>2. CASE ~ fails
      <3>1. PostConsume(r, d) /\ (d <= 0 \/ ~ Overdrawn(held[r].sub, d))
        BY <1>1, <1>2, <2>2
      <3> HIDE DEF d
      <3> QED BY <1>1, <1>2, <3>1, PostConsumeKeeps
    <2> QED BY <2>1, <2>2
  <1>4. held' \in [Requests -> [sub : Nat \ {0}, amount : Nat, epoch : Nat, open : BOOLEAN] \cup {None}]
    <2> HIDE DEF fails
    <2> QED BY <1>1, <1>2 DEF SubInv, TypeOK
  <1>5. TypeOK'
    BY <1>1, <1>3, <1>4 DEF SubInv, TypeOK, SameRows
  <1> QED BY <1>1, <1>3, <1>5 DEF Keeps, GroupSafe, SubInv, LoopNotAhead

LEMMA RefundKeeps ==
    ASSUME SubInv, NEW r \in Requests, Refund(r)
    PROVE  Keeps /\ UNCHANGED <<orders, txn>>
  <1> DEFINE Held == [sub : Nat \ {0}, amount : Nat, epoch : Nat, open : BOOLEAN]
             Recs == [status : {"consumed", "refunded"}, sub : Nat \ {0}, amount : Nat, at : Nat]
             gives == record[r] # None /\ record[r].status = "consumed" /\ subs[held[r].sub].status # "deleted"
  <1>1. /\ held[r] \in Held /\ held[r] # None
        /\ held \in [Requests -> Held \cup {None}] /\ record \in [Requests -> Recs \cup {None}]
        /\ UNCHANGED <<now, group, orders, txn, maint, admin>>
    BY DEF SubInv, TypeOK, Refund
  <1>2. /\ held' \in [Requests -> Held \cup {None}] /\ record' \in [Requests -> Recs \cup {None}]
        /\ SameRows /\ UsedWithinTotal'
    <2>1. CASE gives
      <3>1. /\ PostConsume(r, - record[r].amount) /\ record' = [record EXCEPT ![r] = Marked(record[r])]
            /\ held' = [held EXCEPT ![r].open = FALSE, ![r].amount = 0]
        BY <2>1 DEF Refund
      <3>2. record[r] \in Recs
        BY <1>1, <2>1
      <3>3. Marked(record[r]) \in Recs
        BY <3>2 DEF Marked
      <3>4. record' \in [Requests -> Recs \cup {None}]
        <4> HIDE DEF Recs
        <4> QED BY <1>1, <3>1, <3>3
      <3>5. [held[r] EXCEPT !.open = FALSE, !.amount = 0] \in Held
        BY <1>1
      <3>6. held' = [held EXCEPT ![r] = [held[r] EXCEPT !.open = FALSE, !.amount = 0]]
        BY <1>1, <3>1
      <3>7. held' \in [Requests -> Held \cup {None}]
        <4> HIDE DEF Held
        <4> QED BY <1>1, <3>5, <3>6
      <3>8. - record[r].amount \in Int /\ - record[r].amount <= 0
        BY <3>2
      <3>9. SameRows /\ UsedWithinTotal'
        BY <1>1, <3>1, <3>8, PostConsumeKeeps
      <3> QED BY <3>4, <3>7, <3>9
    <2>2. CASE ~ gives
      <3>1. held' = [held EXCEPT ![r].open = FALSE] /\ UNCHANGED <<subs, record>>
        BY <2>2 DEF Refund
      <3>2. [held[r] EXCEPT !.open = FALSE] \in Held
        BY <1>1
      <3>3. held' = [held EXCEPT ![r] = [held[r] EXCEPT !.open = FALSE]]
        BY <1>1, <3>1
      <3>4. held' \in [Requests -> Held \cup {None}]
        <4> HIDE DEF Held
        <4> QED BY <1>1, <3>2, <3>3
      <3>5. SameRows /\ UsedWithinTotal'
        BY <3>1, SameRowsUnchanged DEF SubInv, UsedWithinTotal
      <3> QED BY <1>1, <3>1, <3>4, <3>5
    <2> QED BY <2>1, <2>2
  <1>3. TypeOK'
    BY <1>1, <1>2 DEF SubInv, TypeOK, SameRows
  <1> QED BY <1>1, <1>2, <1>3 DEF Keeps, GroupSafe, SubInv, LoopNotAhead

-----------------------------------------------------------------------------
(* Buying.                                                                 *)

\* A creation reads; its order, if it has one, is pending and stays so.
LEMMA BeginKeeps ==
    ASSUME SubInv, (\E o \in Orders : CompleteBegin(o)) \/ (\E p \in Plans : BindBegin(p))
    PROVE  Keeps /\ Delivered'
  <1>1. PICK c \in Creators, p \in Plans :
          /\ Begin(c, p) /\ admin' \in 0 .. MaxAdmin /\ (c \in Orders => orders[c] = "pending")
    <2>1. CASE \E o \in Orders : CompleteBegin(o)
      <3>1. PICK o \in Orders : CompleteBegin(o)
        BY <2>1
      <3>2. OrderPlan[o] \in Plans /\ o \in Creators
        BY SubscriptionAssumption DEF Creators
      <3> QED BY <3>1, <3>2 DEF CompleteBegin, CanComplete, SubInv, TypeOK
    <2>2. CASE \E p \in Plans : BindBegin(p)
      <3>1. PICK p \in Plans : BindBegin(p)
        BY <2>2
      <3>2. Bind \in Creators /\ Bind \notin Orders /\ admin' \in 0 .. MaxAdmin
        BY <3>1, SubscriptionAssumption DEF Creators, BindBegin, SubInv, TypeOK
      <3> QED BY <3>1, <3>2 DEF BindBegin
    <2> QED BY <2>1, <2>2
  <1> DEFINE t == [plan |-> p, read |-> group, at |-> now]
  <1>2. txn' = [txn EXCEPT ![c] = t] /\ UNCHANGED <<now, subs, group, orders, record, held, maint>>
    BY <1>1 DEF Begin, useVars
  <1>3. t \in [plan : Plans, read : Groups, at : Nat]
    BY <1>1, SubscriptionAssumption DEF SubInv, TypeOK
  <1> HIDE DEF t
  <1>4. TypeOK'
    BY <1>1, <1>2, <1>3 DEF SubInv, TypeOK
  <1>5. Keeps
    BY <1>2, <1>4, SameRowsUnchanged DEF Keeps, GroupSafe, SubInv, LoopNotAhead, UsedWithinTotal
  <1>6. \A o \in Orders : txn'[o] # None => orders'[o] = "pending"
    BY <1>1, <1>2 DEF SubInv, TypeOK, Delivered, Creators
  <1>7. \A o \in Orders : RowsOf(o)' = RowsOf(o)
    BY <1>2 DEF RowsOf
  <1> QED BY <1>2, <1>5, <1>6, <1>7 DEF SubInv, Delivered

LEMMA ExpireOrderKeeps ==
    ASSUME SubInv, NEW o \in Orders, ExpireOrder(o)
    PROVE  Keeps /\ Delivered'
  <1>1. /\ orders[o] = "pending" /\ txn[o] = None /\ orders' = [orders EXCEPT ![o] = "expired"]
        /\ UNCHANGED <<now, subs, group, txn, record, held, maint, admin>>
    BY DEF ExpireOrder, useVars
  <1>2. TypeOK'
    BY <1>1 DEF SubInv, TypeOK
  <1>3. Keeps
    BY <1>1, <1>2, SameRowsUnchanged DEF Keeps, GroupSafe, SubInv, LoopNotAhead, UsedWithinTotal
  <1>4. \A q \in Orders : RowsOf(q)' = RowsOf(q)
    BY <1>1 DEF RowsOf
  <1>5. \A q \in Orders : orders'[q] = IF q = o THEN "expired" ELSE orders[q]
    BY <1>1 DEF SubInv, TypeOK
  <1>6. \A q \in Orders : txn'[q] # None => orders'[q] = "pending"
    BY <1>1, <1>5 DEF SubInv, Delivered
  <1>7. \A q \in Orders : IF orders'[q] = "success" THEN \E n : RowsOf(q)' = {n} ELSE RowsOf(q)' = {}
    <2> SUFFICES ASSUME NEW q \in Orders
                 PROVE  IF orders'[q] = "success" THEN \E n : RowsOf(q)' = {n} ELSE RowsOf(q)' = {}
      OBVIOUS
    <2>1. RowsOf(q)' = RowsOf(q) /\ (orders'[q] = "success" <=> orders[q] = "success")
      BY <1>1, <1>4, <1>5
    <2>2. IF orders[q] = "success" THEN \E n : RowsOf(q) = {n} ELSE RowsOf(q) = {}
      BY DEF SubInv, Delivered
    <2> QED BY <2>1, <2>2
  <1> QED BY <1>3, <1>6, <1>7 DEF Delivered

LEMMA NewRowType ==
    ASSUME SubInv, NEW c \in Creators, txn[c] # None
    PROVE  /\ NewRow(c, txn[c]) \in Rows /\ NewRow(c, txn[c]).used = 0
           /\ NewRow(c, txn[c]).source = c /\ NewRow(c, txn[c]).upgrade = Upgrade[txn[c].plan]
           /\ NewRow(c, txn[c]).stale = (txn[c].read # group)
           /\ txn[c] \in [plan : Plans, read : Groups, at : Nat]
  <1> DEFINE t == txn[c]
             e == t.at + Duration[t.plan]
             x == calcNextResetTime(t.plan, t.at, e)
  <1>1. /\ t \in [plan : Plans, read : Groups, at : Nat] /\ e \in Nat
        /\ Upgrade[t.plan] \in Groups \cup {NoGroup}
    BY SubscriptionAssumption DEF SubInv, TypeOK
  <1>2. x \in Nat
    BY <1>1, NextResetType
  <1> DEFINE l == IF x > 0 THEN t.at ELSE 0
             v == IF Changes(t) THEN t.read ELSE NoGroup
             w == t.read # group
  <1>3. l \in Nat /\ v \in Groups \cup {NoGroup} /\ w \in BOOLEAN
    BY <1>1
  <1>4. NewRow(c, t) = [plan |-> t.plan, source |-> c, used |-> 0, start |-> t.at, end |-> e,
                        status |-> "active", last |-> l, next |-> x,
                        upgrade |-> Upgrade[t.plan], prev |-> v,
                        epoch |-> 0, crossed |-> FALSE, stale |-> w]
    BY DEF NewRow
  <1> HIDE DEF e, x, l, v, w
  <1>5. NewRow(c, t) \in Rows
    BY <1>1, <1>2, <1>3, <1>4 DEF Rows
  <1> QED BY <1>1, <1>4, <1>5 DEF w

\* The commit of a creation adds one row, of its order.
LEMMA CommitAdds ==
    ASSUME SubInv, NEW c \in Creators, Commit(c), orders' \in [Orders -> {"pending", "success", "expired"}]
    PROVE  /\ TypeOK' /\ UsedWithinTotal' /\ LoopNotAhead'
           /\ DOMAIN subs' = DOMAIN subs \cup {Len(subs) + 1} /\ Len(subs) + 1 \notin DOMAIN subs
           /\ \A i \in DOMAIN subs : subs'[i] = subs[i]
           /\ subs'[Len(subs) + 1] = NewRow(c, txn[c])
  <1> DEFINE n == NewRow(c, txn[c])
  <1>1. /\ txn[c] # None /\ Len(subs) < MaxSubs /\ subs' = Append(subs, n)
        /\ group' = IF Changes(txn[c]) THEN Upgrade[txn[c].plan] ELSE group
        /\ txn' = [txn EXCEPT ![c] = None]
        /\ UNCHANGED <<now, record, held, maint, admin>>
    BY DEF Commit, useVars
  <1>2. n \in Rows /\ n.used = 0 /\ txn[c] \in [plan : Plans, read : Groups, at : Nat]
    BY <1>1, NewRowType
  <1>3. subs \in Seq(Rows) /\ Len(subs) \in Nat /\ DOMAIN subs = 1 .. Len(subs)
    BY RowsInTable DEF SubInv, TypeOK
  <1> HIDE DEF n
  <1>4. /\ subs' \in Seq(Rows) /\ Len(subs') = Len(subs) + 1 /\ DOMAIN subs' = 1 .. Len(subs) + 1
        /\ \A i \in 1 .. Len(subs) : subs'[i] = subs[i]
        /\ subs'[Len(subs) + 1] = n
    BY <1>1, <1>2, <1>3, AppendProperties, LenProperties
  <1>5. group' \in Groups
    BY <1>1, <1>2, SubscriptionAssumption DEF SubInv, TypeOK, Changes
  <1>6. TypeOK'
    BY <1>1, <1>3, <1>4, <1>5, SubscriptionAssumption DEF SubInv, TypeOK
  <1>7. DOMAIN subs' = DOMAIN subs \cup {Len(subs) + 1} /\ Len(subs) + 1 \notin DOMAIN subs
    BY <1>3, <1>4
  <1>8. Total[n.plan] \in Nat
    BY <1>2, SubscriptionAssumption DEF Rows
  <1>9. UsedWithinTotal'
    BY <1>2, <1>3, <1>4, <1>7, <1>8 DEF SubInv, UsedWithinTotal
  <1>10. LoopNotAhead'
    BY <1>1 DEF SubInv, LoopNotAhead
  <1> QED BY <1>3, <1>4, <1>6, <1>7, <1>9, <1>10 DEF n

LEMMA CommitDelivers ==
    ASSUME SubInv, (\E o \in Orders : CompleteCommit(o)) \/ BindCommit
    PROVE  SubInv' /\ \E c \in Creators : Commit(c)
  <1>1. PICK c \in Creators :
          /\ Commit(c)
          /\ IF c \in Orders THEN orders' = [orders EXCEPT ![c] = "success"] ELSE UNCHANGED orders
    BY SubscriptionAssumption DEF CompleteCommit, BindCommit, Creators
  <1>2. orders' \in [Orders -> {"pending", "success", "expired"}]
        /\ \A o \in Orders : orders'[o] = IF o = c THEN "success" ELSE orders[o]
    BY <1>1 DEF SubInv, TypeOK
  <1>3. /\ TypeOK' /\ UsedWithinTotal' /\ LoopNotAhead'
        /\ DOMAIN subs' = DOMAIN subs \cup {Len(subs) + 1} /\ Len(subs) + 1 \notin DOMAIN subs
        /\ \A i \in DOMAIN subs : subs'[i] = subs[i]
        /\ subs'[Len(subs) + 1] = NewRow(c, txn[c])
    BY <1>1, <1>2, CommitAdds
  <1>4. NewRow(c, txn[c]).source = c
    BY <1>1, NewRowType DEF Commit
  <1>5. \A o \in Orders : RowsOf(o)' = RowsOf(o) \cup (IF o = c THEN {Len(subs) + 1} ELSE {})
    BY <1>3, <1>4 DEF RowsOf
  <1>6. \A o \in Orders : txn'[o] # None => orders'[o] = "pending"
    <2>1. txn' = [txn EXCEPT ![c] = None]
      BY <1>1 DEF Commit
    <2> QED BY <1>2, <2>1 DEF SubInv, TypeOK, Delivered, Creators
  <1>7. \A o \in Orders : IF orders'[o] = "success" THEN \E n : RowsOf(o)' = {n} ELSE RowsOf(o)' = {}
    <2>1. c \in Orders => RowsOf(c) = {}
      BY <1>1 DEF SubInv, Delivered, Commit
    <2> SUFFICES ASSUME NEW o \in Orders
                 PROVE  IF orders'[o] = "success" THEN \E n : RowsOf(o)' = {n} ELSE RowsOf(o)' = {}
      OBVIOUS
    <2>2. CASE o = c
      BY <1>2, <1>5, <2>1, <2>2
    <2>3. CASE o # c
      <3>1. RowsOf(o)' = RowsOf(o) /\ orders'[o] = orders[o]
        BY <1>2, <1>5, <2>3
      <3> QED BY <3>1 DEF SubInv, Delivered
    <2> QED BY <2>2, <2>3
  <1> QED BY <1>1, <1>3, <1>6, <1>7 DEF SubInv, Delivered

-----------------------------------------------------------------------------
(* The invariants.                                                         *)

LEMMA InitSubInv == ASSUME Init PROVE SubInv
  <1>1. subs = << >> /\ DOMAIN subs = {} /\ subs \in Seq(Rows) /\ Len(subs) = 0
    BY EmptySeq DEF Init
  <1>2. TypeOK
    BY <1>1, SubscriptionAssumption DEF Init, TypeOK
  <1>3. UsedWithinTotal /\ LoopNotAhead
    BY <1>1 DEF Init, UsedWithinTotal, LoopNotAhead
  <1>4. \A o \in Orders : RowsOf(o) = {} /\ orders[o] = "pending" /\ txn[o] = None
    BY <1>1 DEF Init, RowsOf, Creators
  <1> QED BY <1>2, <1>3, <1>4 DEF SubInv, Delivered

\* A step leaves the rows as they are, or it is the commit of a creation.
LEMMA StepKinds ==
    ASSUME SubInv, [Next]_vars
    PROVE  SubInv' /\ (Keeps \/ \E c \in Creators : Commit(c))
  <1>1. ASSUME Keeps, UNCHANGED <<orders, txn>> PROVE SubInv'
    BY <1>1, SameDelivered DEF Keeps, SubInv
  <1>2. CASE Tick
    BY <1>1, <1>2, TickKeeps DEF Tick
  <1>3. CASE \E o \in Orders : CompleteBegin(o)
    BY <1>3, BeginKeeps DEF Keeps, SubInv
  <1>4. CASE \E p \in Plans : BindBegin(p)
    BY <1>4, BeginKeeps DEF Keeps, SubInv
  <1>5. CASE \E o \in Orders : ExpireOrder(o)
    BY <1>5, ExpireOrderKeeps DEF Keeps, SubInv
  <1>6. CASE (\E o \in Orders : CompleteCommit(o)) \/ BindCommit
    BY <1>6, CommitDelivers
  <1>7. CASE \E i \in DOMAIN subs : AdminInvalidateUserSubscription(i) \/ AdminDeleteUserSubscription(i)
    BY <1>1, <1>7, AdminKeeps
  <1>8. CASE Maint
    BY <1>1, <1>8, MaintStartKeeps, MaintExpireKeeps, MaintResetKeeps, MaintCleanupKeeps DEF Maint
  <1>9. CASE \E r \in Requests, a \in Amounts, i \in DOMAIN subs : PreConsume(r, a, i)
    BY <1>1, <1>9, PreConsumeKeeps
  <1>10. CASE \E r \in Requests, a \in Actuals : Settle(r, a)
    BY <1>1, <1>10, SettleKeeps
  <1>11. CASE \E r \in Requests : Refund(r)
    BY <1>1, <1>11, RefundKeeps
  <1>12. CASE UNCHANGED vars
    <2>1. UNCHANGED <<now, subs, group, orders, txn, record, held, maint, admin>>
      BY <1>12 DEF vars
    <2>2. Keeps
      BY <2>1, SameRowsUnchanged DEF Keeps, GroupSafe, SubInv, TypeOK, LoopNotAhead, UsedWithinTotal
    <2> QED BY <1>1, <2>1, <2>2
  <1> QED BY <1>2, <1>3, <1>4, <1>5, <1>6, <1>7, <1>8, <1>9, <1>10, <1>11, <1>12 DEF Next

\* The group the rows upgrade to is not lost.
LEMMA StepUpgradeKept ==
    ASSUME SubInv, UpgradeKept, [Next]_vars, RealUpgrades
    PROVE  UpgradeKept'
  <1>1. SubInv' /\ (Keeps \/ \E c \in Creators : Commit(c))
    BY StepKinds
  <1>2. CASE Keeps
    <2> SUFFICES ASSUME NEW i \in DOMAIN subs', Active(i, now)', Upgrades(i)', ~ subs'[i].stale
                 PROVE  group' # BaseGroup
      BY DEF UpgradeKept
    <2>1. /\ i \in DOMAIN subs /\ subs'[i].status = "active" /\ subs'[i].end > now' /\ subs'[i].upgrade # NoGroup
          /\ subs[i].status = "active" /\ subs[i].end = subs'[i].end /\ subs[i].upgrade # NoGroup
          /\ ~ subs[i].stale
      BY <1>2 DEF Keeps, SameRows, RowKept, Active, Upgrades
    <2>2. now \in Nat /\ now' \in {now, now + 1} /\ subs[i].end \in Nat
      <3>1. now \in Nat /\ now' \in {now, now + 1}
        BY <1>2, SubscriptionAssumption DEF Keeps, SubInv, TypeOK
      <3>2. subs[i] \in Rows
        BY <2>1, RowsInTable DEF SubInv
      <3> QED BY <3>1, <3>2 DEF Rows
    <2>3. subs[i].end > now /\ ~ (subs'[i].end <= now')
      BY <2>1, <2>2
    <2>4. group # BaseGroup
      BY <2>1, <2>3 DEF UpgradeKept, Active, Upgrades
    <2> QED BY <1>2, <2>1, <2>3, <2>4 DEF Keeps, GroupSafe
  <1>3. ASSUME NEW c \in Creators, Commit(c) PROVE UpgradeKept'
    <2> DEFINE t == txn[c]
    <2>1. /\ t # None /\ group' = (IF Changes(t) THEN Upgrade[t.plan] ELSE group) /\ now' = now
      BY <1>3 DEF Commit
    <2>2. /\ t \in [plan : Plans, read : Groups, at : Nat]
          /\ NewRow(c, t).upgrade = Upgrade[t.plan] /\ NewRow(c, t).stale = (t.read # group)
      BY <2>1, NewRowType
    <2>3. orders' \in [Orders -> {"pending", "success", "expired"}]
      BY <1>1 DEF SubInv, TypeOK
    <2>4. /\ DOMAIN subs' = DOMAIN subs \cup {Len(subs) + 1}
          /\ \A i \in DOMAIN subs : subs'[i] = subs[i]
          /\ subs'[Len(subs) + 1] = NewRow(c, t)
      BY <1>3, <2>3, CommitAdds
    <2>5. CASE Changes(t)
      BY <2>1, <2>2, <2>5 DEF UpgradeKept, RealUpgrades
    <2>6. CASE ~ Changes(t)
      <3> SUFFICES ASSUME NEW i \in DOMAIN subs', Active(i, now)', Upgrades(i)', ~ subs'[i].stale
                   PROVE  group' # BaseGroup
        BY DEF UpgradeKept
      <3>1. CASE i \in DOMAIN subs
        BY <2>1, <2>4, <2>6, <3>1 DEF UpgradeKept, Active, Upgrades
      <3>2. CASE i = Len(subs) + 1
        <4>1. t.read = group /\ Upgrade[t.plan] # NoGroup
          BY <2>2, <2>4, <3>2 DEF Upgrades
        <4>2. group = Upgrade[t.plan]
          BY <2>6, <4>1 DEF Changes
        <4> QED BY <2>1, <2>2, <2>6, <4>2 DEF RealUpgrades
      <3> QED BY <2>4, <3>1, <3>2
    <2> QED BY <2>5, <2>6
  <1> QED BY <1>1, <1>2, <1>3

\* What Delivered says of the rows of an order, as a number.
LEMMA DeliveredCount == ASSUME Delivered PROVE OrderDeliversOnce
  <1> SUFFICES ASSUME NEW o \in Orders
               PROVE  Cardinality(RowsOf(o)) = IF orders[o] = "success" THEN 1 ELSE 0
    BY DEF OrderDeliversOnce, RowsOf
  <1>1. CASE orders[o] = "success"
    <2>1. PICK n : RowsOf(o) = {n}
      BY <1>1 DEF Delivered
    <2> QED BY <1>1, <2>1, FS_Singleton
  <1>2. CASE orders[o] # "success"
    <2>1. RowsOf(o) = {}
      BY <1>2 DEF Delivered
    <2> QED BY <1>2, <2>1, FS_EmptySet
  <1> QED BY <1>1, <1>2

-----------------------------------------------------------------------------
(***************************************************************************)
(* The books of a period. A request refers to a row and to one of its      *)
(* periods that has begun, and what its record says is what it holds while *)
(* its session is open (HeldInv). So a reset leaves no share of the new    *)
(* period, a refund gives back what was taken, and a sum over the requests *)
(* changes by one term with the usage of the row.                          *)
(***************************************************************************)

HeldInv(r) ==
    held[r] # None =>
        /\ held[r].sub \in DOMAIN subs /\ held[r].epoch <= subs[held[r].sub].epoch
        /\ held[r].open /\ record[r] # None => record[r].amount = held[r].amount

RowBooks(i) ==
    ~ subs[i].crossed => subs[i].used = SumOf([r \in Requests |-> Share(r, i)], Requests)

PeriodInv == (\A r \in Requests : HeldInv(r)) /\ \A i \in DOMAIN subs : RowBooks(i)

Holds(r, i) == held[r] # None /\ held[r].sub = i

\* The row is left alone, or reset.
Counts(i) ==
    /\ subs'[i].crossed = subs[i].crossed
    /\ \/ subs'[i].used = subs[i].used /\ subs'[i].epoch = subs[i].epoch
       \/ subs'[i].used = 0 /\ subs'[i].epoch = subs[i].epoch + 1

\* What the requests hold of row i is left alone.
SameHolders(i) ==
    \A r \in Requests :
        /\ Holds(r, i)' <=> Holds(r, i)
        /\ Holds(r, i) => held'[r].epoch = held[r].epoch /\ held'[r].amount = held[r].amount

LEMMA HeldTypes ==
    ASSUME SubInv, NEW r \in Requests, held[r] # None
    PROVE  /\ held[r] \in [sub : Nat \ {0}, amount : Nat, epoch : Nat, open : BOOLEAN]
           /\ held[r].amount \in Nat /\ held[r].epoch \in Nat
  BY DEF SubInv, TypeOK

SharesTyped == \A r \in Requests, i \in DOMAIN subs : Share(r, i) \in Nat

\* What a request used is a quantity, never negative.
LEMMA ShareTypes == SubInv => SharesTyped
  BY HeldTypes DEF Share, SharesTyped

\* The sum of the shares, when every one is left alone and when there is none.
LEMMA SharesSame ==
    ASSUME NEW i, \A r \in Requests : Share(r, i)' = Share(r, i)
    PROVE  SumOf([r \in Requests |-> Share(r, i)], Requests)'
             = SumOf([r \in Requests |-> Share(r, i)], Requests)
  <1>1. [r \in Requests |-> Share(r, i)]' = [r \in Requests |-> Share(r, i)]
    OBVIOUS
  <1> QED BY <1>1

LEMMA SharesNone ==
    ASSUME NEW i, \A r \in Requests : Share(r, i)' = 0
    PROVE  SumOf([r \in Requests |-> Share(r, i)], Requests)' = 0
  <1>1. PICK f : f = [r \in Requests |-> Share(r, i)]'
    OBVIOUS
  <1>2. \A r \in Requests : f[r] = 0
    BY <1>1
  <1>3. SumOf(f, Requests) = 0
    BY <1>2, SubscriptionAssumption, SumZero
  <1> QED BY <1>1, <1>3

\* A row that no request's step is about.
LEMMA QuietRow ==
    ASSUME SubInv, PeriodInv, NEW i \in DOMAIN subs, Counts(i), SameHolders(i)
    PROVE  RowBooks(i)'
  <1>0. RowBooks(i) /\ subs[i].epoch \in Nat
    BY RowsInTable DEF SubInv, PeriodInv, Rows
  <1>1. CASE subs'[i].used = subs[i].used /\ subs'[i].epoch = subs[i].epoch
    <2>1. \A r \in Requests : Share(r, i)' = Share(r, i)
      BY <1>1 DEF Share, SameHolders, Holds
    <2> QED BY <1>0, <1>1, <2>1, SharesSame DEF RowBooks, Counts
  <1>2. CASE subs'[i].used = 0 /\ subs'[i].epoch = subs[i].epoch + 1
    <2>1. ASSUME NEW r \in Requests PROVE Share(r, i)' = 0
      <3>1. CASE Holds(r, i)
        <4>1. held[r].epoch <= subs[i].epoch /\ held[r].epoch \in Nat
          BY <3>1, HeldTypes DEF Holds, PeriodInv, HeldInv
        <4>2. held'[r].epoch # subs'[i].epoch
          BY <1>0, <1>2, <3>1, <4>1 DEF SameHolders
        <4> QED BY <4>2 DEF Share
      <3>2. CASE ~ Holds(r, i)
        BY <3>2 DEF Share, SameHolders, Holds
      <3> QED BY <3>1, <3>2
    <2> QED BY <1>2, <2>1, SharesNone DEF RowBooks
  <1> QED BY <1>1, <1>2 DEF Counts

\* A row that a step of r takes d from, or gives back.
LEMMA MovedRow ==
    ASSUME SubInv, SubInv', PeriodInv, NEW i \in DOMAIN subs, i \in DOMAIN subs', NEW r \in Requests,
           NEW d \in Int, subs'[i].used = Positive(subs[i].used + d), subs'[i].epoch = subs[i].epoch,
           Share(r, i)' = Share(r, i) + d, ~ subs[i].crossed,
           \A q \in Requests \ {r} : Share(q, i)' = Share(q, i)
    PROVE  RowBooks(i)'
  <1>1. PICK f : f = [q \in Requests |-> Share(q, i)]
    OBVIOUS
  <1>2. PICK g : g = [q \in Requests |-> Share(q, i)]'
    OBVIOUS
  <1>3. \A q \in Requests : f[q] \in Nat
    BY <1>1, ShareTypes DEF SharesTyped
  <1>4. \A q \in Requests : g[q] \in Nat
    <2>1. SubInv' => SharesTyped'
      BY ShareTypes, PTL
    <2> QED BY <1>2, <2>1 DEF SharesTyped
  <1>5. g[r] = f[r] + d /\ \A q \in Requests \ {r} : g[q] = f[q]
    BY <1>1, <1>2
  <1>6. IsFiniteSet(Requests) /\ IntOn(f, Requests) /\ IntOn(g, Requests)
    BY <1>3, <1>4, SubscriptionAssumption DEF IntOn
  <1>7. SumOf(g, Requests) = SumOf(f, Requests) - f[r] + g[r]
    <2>1. \A q \in Requests \ {r} : g[q] = f[q]
      BY <1>5
    <2> QED BY <1>6, <2>1, SumChange
  <1>8. SumOf(f, Requests) \in Nat /\ f[r] <= SumOf(f, Requests)
    BY <1>3, <1>6, SumAtLeast
  <1>9. subs[i].used = SumOf(f, Requests)
    BY <1>1 DEF PeriodInv, RowBooks
  <1>10. subs'[i].used = SumOf(g, Requests)
    <2>1. f[r] \in Nat /\ g[r] \in Nat
      BY <1>3, <1>4
    <2>2. SumOf(g, Requests) = SumOf(f, Requests) + d /\ SumOf(f, Requests) + d >= 0
      BY <1>5, <1>7, <1>8, <2>1
    <2> QED BY <1>8, <1>9, <2>2 DEF Positive
  <1> QED BY <1>2, <1>10 DEF RowBooks

\* A step that gives no request more or less of any row.
LEMMA QuietStep ==
    ASSUME SubInv, SubInv', PeriodInv, UNCHANGED held,
           \A r \in Requests : record'[r] \in {record[r], None},
           DOMAIN subs \subseteq DOMAIN subs', \A i \in DOMAIN subs : Counts(i),
           \A i \in DOMAIN subs' \ DOMAIN subs : subs'[i].used = 0
    PROVE  PeriodInv'
  <1>1. ASSUME NEW r \in Requests PROVE HeldInv(r)'
    <2> SUFFICES ASSUME held[r] # None
                 PROVE  /\ held[r].sub \in DOMAIN subs' /\ held[r].epoch <= subs'[held[r].sub].epoch
                        /\ held[r].open /\ record'[r] # None => record'[r].amount = held[r].amount
      BY DEF HeldInv
    <2> DEFINE i == held[r].sub
    <2>1. /\ i \in DOMAIN subs /\ held[r].epoch <= subs[i].epoch /\ held[r].epoch \in Nat
          /\ held[r].open /\ record[r] # None => record[r].amount = held[r].amount
      BY HeldTypes DEF PeriodInv, HeldInv
    <2>2. subs[i].epoch \in Nat
      BY <2>1, RowsInTable DEF SubInv, Rows
    <2>3. held[r].epoch <= subs'[i].epoch
      BY <2>1, <2>2 DEF Counts
    <2> QED BY <2>1, <2>3
  <1>2. ASSUME NEW i \in DOMAIN subs' PROVE RowBooks(i)'
    <2>1. CASE i \in DOMAIN subs
      <3>1. SameHolders(i) /\ Counts(i)
        BY <2>1 DEF SameHolders, Holds
      <3> QED BY <2>1, <3>1, QuietRow
    <2>2. CASE i \notin DOMAIN subs
      <3>1. \A r \in Requests : Share(r, i)' = 0
        BY <2>2 DEF Share, PeriodInv, HeldInv
      <3> QED BY <1>2, <2>2, <3>1, SharesNone DEF RowBooks
    <2> QED BY <2>1, <2>2
  <1> QED BY <1>1, <1>2 DEF PeriodInv

\* The row a request takes its quota from, and the rows passed over.
LEMMA PreConsumePeriod ==
    ASSUME SubInv, SubInv', PeriodInv, NEW r \in Requests, NEW a \in Amounts, NEW i \in DOMAIN subs,
           PreConsume(r, a, i)
    PROVE  PeriodInv'
  <1> DEFINE fresh(j) == maybeReset(subs[j], now)
             h == [sub |-> i, amount |-> a, epoch |-> fresh(i).epoch, open |-> TRUE]
  <1>1. /\ held[r] = None
        /\ subs' = [j \in DOMAIN subs |->
                      IF j = i THEN [fresh(i) EXCEPT !.used = @ + a]
                      ELSE IF Active(j, now) /\ Before(j, i) THEN fresh(j) ELSE subs[j]]
        /\ record' = [record EXCEPT ![r] = [status |-> "consumed", sub |-> i, amount |-> a, at |-> now]]
        /\ held' = [held EXCEPT ![r] = h]
    BY DEF PreConsume, FirstCall, CallsPreConsume
  <1>2. /\ now \in Nat /\ a \in Nat /\ \A j \in DOMAIN subs : subs[j] \in Rows /\ j \in Nat \ {0}
        /\ held \in [Requests -> [sub : Nat \ {0}, amount : Nat, epoch : Nat, open : BOOLEAN] \cup {None}]
        /\ DOMAIN record = Requests
    <2>1. TypeOK
      BY DEF SubInv
    <2>2. \A j \in DOMAIN subs : subs[j] \in Rows /\ j \in Nat \ {0}
      BY <2>1, RowsInTable
    <2>3. now \in Nat /\ a \in Nat
      BY <2>1, SubscriptionAssumption DEF TypeOK
    <2>4. /\ held \in [Requests -> [sub : Nat \ {0}, amount : Nat, epoch : Nat, open : BOOLEAN] \cup {None}]
          /\ DOMAIN record = Requests
      BY <2>1 DEF TypeOK
    <2> QED BY <2>2, <2>3, <2>4
  <1>3. \A j \in DOMAIN subs :
          /\ fresh(j) \in Rows /\ fresh(j).crossed = subs[j].crossed
          /\ \/ fresh(j).used = subs[j].used /\ fresh(j).epoch = subs[j].epoch
             \/ fresh(j).used = 0 /\ fresh(j).epoch = subs[j].epoch + 1
    BY <1>2, ResetRow
  <1> HIDE DEF fresh
  <1>4. fresh(i).epoch \in Nat /\ fresh(i).used \in Nat /\ subs[i].epoch \in Nat
    BY <1>2, <1>3 DEF Rows
  <1>5. h # None /\ h.sub = i /\ h.amount = a /\ h.epoch = fresh(i).epoch
    <2>1. i \in Nat \ {0} /\ a \in Nat
      BY <1>2
    <2>2. h \in [sub : Nat \ {0}, amount : Nat, epoch : Nat, open : BOOLEAN]
      BY <1>4, <2>1
    <2>3. h # None
      BY <2>2, SubscriptionAssumption
    <2> QED BY <2>3
  <1> HIDE DEF h
  <1>6. \A q \in Requests : held'[q] = IF q = r THEN h ELSE held[q]
    BY <1>1, <1>2
  <1>7. \A j \in DOMAIN subs \ {i} : Counts(j)
    BY <1>1, <1>3 DEF Counts
  <1>8. /\ subs'[i].used = fresh(i).used + a /\ subs'[i].epoch = fresh(i).epoch
        /\ subs'[i].crossed = subs[i].crossed /\ DOMAIN subs' = DOMAIN subs
    <2>1. subs'[i] = [fresh(i) EXCEPT !.used = fresh(i).used + a] /\ DOMAIN subs' = DOMAIN subs
      BY <1>1, <1>3 DEF Rows
    <2> QED BY <1>3, <2>1 DEF Rows
  <1>9. ASSUME NEW j \in DOMAIN subs \ {i} PROVE RowBooks(j)'
    <2>1. SameHolders(j)
      BY <1>1, <1>5, <1>6 DEF SameHolders, Holds
    <2> QED BY <1>7, <2>1, QuietRow
  <1>10. RowBooks(i)'
    <2>1. Share(r, i)' = a
      BY <1>5, <1>6, <1>8 DEF Share
    <2>2. CASE subs[i].crossed
      BY <1>8, <2>2 DEF RowBooks
    <2>3. CASE ~ subs[i].crossed /\ fresh(i).used = subs[i].used /\ fresh(i).epoch = subs[i].epoch
      <3>1. Share(r, i) = 0 /\ \A q \in Requests \ {r} : Share(q, i)' = Share(q, i)
        BY <1>1, <1>6, <1>8, <2>3 DEF Share
      <3>2. subs'[i].used = Positive(subs[i].used + a)
        BY <1>2, <1>4, <1>8, <2>3 DEF Positive
      <3> QED BY <1>2, <1>8, <2>1, <2>3, <3>1, <3>2, MovedRow
    <2>4. CASE ~ subs[i].crossed /\ fresh(i).used = 0 /\ fresh(i).epoch = subs[i].epoch + 1
      <3>1. ASSUME NEW q \in Requests \ {r} PROVE Share(q, i)' = 0
        <4>1. CASE Holds(q, i)
          <5>1. held[q].epoch <= subs[i].epoch /\ held[q].epoch \in Nat
            BY <4>1, HeldTypes DEF Holds, PeriodInv, HeldInv
          <5>2. held'[q].epoch # subs'[i].epoch
            BY <1>4, <1>6, <1>8, <2>4, <5>1
          <5> QED BY <5>2 DEF Share
        <4>2. CASE ~ Holds(q, i)
          BY <1>6, <4>2 DEF Share, Holds
        <4> QED BY <4>1, <4>2
      <3>2. PICK z : z = [q \in Requests |-> 0]
        OBVIOUS
      <3>3. PICK g : g = [q \in Requests |-> Share(q, i)]'
        OBVIOUS
      <3>4. g[r] = a /\ z[r] = 0 /\ \A q \in Requests \ {r} : g[q] = z[q]
        BY <2>1, <3>1, <3>2, <3>3
      <3>5. IsFiniteSet(Requests) /\ IntOn(z, Requests) /\ IntOn(g, Requests)
        BY <1>2, <3>2, <3>4, SubscriptionAssumption DEF IntOn
      <3>6. SumOf(g, Requests) = SumOf(z, Requests) - z[r] + g[r]
        BY <3>4, <3>5, SumChange
      <3>7. SumOf(z, Requests) = 0
        BY <3>2, <3>5, SumZero
      <3>8. SumOf(g, Requests) = a /\ subs'[i].used = a
        BY <1>2, <1>8, <2>4, <3>4, <3>6, <3>7
      <3> QED BY <3>3, <3>8 DEF RowBooks
    <2> QED BY <1>3, <2>2, <2>3, <2>4
  <1>11. ASSUME NEW q \in Requests PROVE HeldInv(q)'
    <2>1. CASE q = r
      <3>1. record'[r].amount = a /\ held'[r] = h
        BY <1>1, <1>2, <1>6
      <3>2. fresh(i).epoch <= fresh(i).epoch
        BY <1>4
      <3> QED BY <1>5, <1>8, <2>1, <3>1, <3>2 DEF HeldInv
    <2>2. CASE q # r
      <3> SUFFICES ASSUME held[q] # None
                   PROVE  /\ held[q].sub \in DOMAIN subs /\ held[q].epoch <= subs'[held[q].sub].epoch
                          /\ held[q].open /\ record[q] # None => record[q].amount = held[q].amount
        BY <1>1, <1>2, <1>6, <1>8, <2>2 DEF HeldInv
      <3> DEFINE j == held[q].sub
      <3>1. /\ j \in DOMAIN subs /\ held[q].epoch <= subs[j].epoch /\ held[q].epoch \in Nat
            /\ held[q].open /\ record[q] # None => record[q].amount = held[q].amount
        BY HeldTypes DEF PeriodInv, HeldInv
      <3>2. subs[j].epoch \in Nat
        BY <1>2, <3>1 DEF Rows
      <3>3. subs'[j].epoch \in {subs[j].epoch, subs[j].epoch + 1}
        <4>1. CASE j = i
          BY <1>3, <1>8, <4>1
        <4>2. CASE j # i
          BY <1>7, <3>1, <4>2 DEF Counts
        <4> QED BY <4>1, <4>2
      <3> QED BY <3>1, <3>2, <3>3
    <2> QED BY <2>1, <2>2
  <1> QED BY <1>8, <1>9, <1>10, <1>11 DEF PeriodInv

\* A request that settles or is given back its quota: its row is charged what its share grows by.
LEMMA PostConsumePeriod ==
    ASSUME SubInv, SubInv', PeriodInv, NEW r \in Requests, held[r] # None, NEW d \in Int,
           PostConsume(r, d), NEW h \in [sub : Nat \ {0}, amount : Nat, epoch : Nat, open : BOOLEAN],
           held' = [held EXCEPT ![r] = h], h.sub = held[r].sub, h.epoch = held[r].epoch,
           h.amount = held[r].amount + d, ~ h.open, \A q \in Requests \ {r} : record'[q] = record[q]
    PROVE  PeriodInv'
  <1> DEFINE i == held[r].sub
             c == subs[i].crossed \/ (d # 0 /\ held[r].epoch # subs[i].epoch)
             n == [subs[i] EXCEPT !.used = Positive(subs[i].used + d), !.crossed = c]
  <1>1. /\ i \in DOMAIN subs /\ held[r].amount \in Nat
        /\ \A j \in DOMAIN subs : subs[j] \in Rows
        /\ held \in [Requests -> [sub : Nat \ {0}, amount : Nat, epoch : Nat, open : BOOLEAN] \cup {None}]
    BY HeldTypes, RowsInTable DEF PeriodInv, HeldInv, SubInv, TypeOK
  <1>2. subs' = [subs EXCEPT ![i] = n]
    BY <1>1 DEF PostConsume, Rows
  <1>3. n.used = Positive(subs[i].used + d) /\ n.crossed = c /\ n.epoch = subs[i].epoch
    BY <1>1 DEF Rows
  <1> HIDE DEF n
  <1>4. DOMAIN subs' = DOMAIN subs /\ \A j \in DOMAIN subs : subs'[j] = IF j = i THEN n ELSE subs[j]
    BY <1>1, <1>2
  <1>5. h # None /\ \A q \in Requests : held'[q] = IF q = r THEN h ELSE held[q]
    BY <1>1, SubscriptionAssumption
  <1>6. ASSUME NEW j \in DOMAIN subs \ {i} PROVE RowBooks(j)'
    <2>1. SameHolders(j)
      BY <1>5 DEF SameHolders, Holds
    <2>2. Counts(j)
      BY <1>4 DEF Counts
    <2> QED BY <2>1, <2>2, QuietRow
  <1>7. RowBooks(i)'
    <2>1. \A q \in Requests \ {r} : Share(q, i)' = Share(q, i)
      BY <1>1, <1>3, <1>4, <1>5 DEF Share
    <2>2. CASE c
      BY <1>1, <1>3, <1>4, <2>2 DEF RowBooks
    <2>3. CASE ~ c
      <3>1. Share(r, i)' = Share(r, i) + d
        BY <1>1, <1>3, <1>4, <1>5, <2>3 DEF Share
      <3>2. subs'[i].used = Positive(subs[i].used + d) /\ subs'[i].epoch = subs[i].epoch
        BY <1>1, <1>3, <1>4
      <3> QED BY <1>1, <1>4, <2>1, <2>3, <3>1, <3>2, MovedRow
    <2> QED BY <2>2, <2>3
  <1>8. ASSUME NEW q \in Requests PROVE HeldInv(q)'
    <2>1. \A j \in DOMAIN subs : subs'[j].epoch = subs[j].epoch
      BY <1>3, <1>4
    <2>2. CASE q = r
      BY <1>1, <1>4, <1>5, <2>1, <2>2 DEF PeriodInv, HeldInv
    <2>3. CASE q # r
      BY <1>4, <1>5, <2>1, <2>3 DEF PeriodInv, HeldInv
    <2> QED BY <2>2, <2>3
  <1> QED BY <1>4, <1>6, <1>7, <1>8 DEF PeriodInv

\* The session of a request is closed, with nothing moved.
LEMMA ClosePeriod ==
    ASSUME SubInv, PeriodInv, NEW r \in Requests, held[r] # None, UNCHANGED <<subs, record>>,
           NEW h \in [sub : Nat \ {0}, amount : Nat, epoch : Nat, open : BOOLEAN],
           held' = [held EXCEPT ![r] = h], h.sub = held[r].sub, h.epoch = held[r].epoch,
           h.amount = held[r].amount, ~ h.open
    PROVE  PeriodInv'
  <1>1. held \in [Requests -> [sub : Nat \ {0}, amount : Nat, epoch : Nat, open : BOOLEAN] \cup {None}]
    BY DEF SubInv, TypeOK
  <1>2. h # None /\ \A q \in Requests : held'[q] = IF q = r THEN h ELSE held[q]
    BY <1>1, SubscriptionAssumption
  <1>3. ASSUME NEW j \in DOMAIN subs PROVE RowBooks(j)'
    <2>1. SameHolders(j) /\ Counts(j)
      BY <1>2 DEF SameHolders, Holds, Counts
    <2> QED BY <2>1, QuietRow
  <1>4. \A q \in Requests : HeldInv(q)'
    BY <1>2 DEF PeriodInv, HeldInv
  <1> QED BY <1>3, <1>4 DEF PeriodInv

LEMMA SettlePeriod ==
    ASSUME SubInv, SubInv', PeriodInv, NEW r \in Requests, NEW a \in Actuals, Settle(r, a)
    PROVE  PeriodInv'
  <1> DEFINE d == a - held[r].amount
             fails == d # 0 /\ (subs[held[r].sub].status = "deleted" \/ Overdrawn(held[r].sub, d))
  <1>1. /\ held[r] # None /\ (IF fails THEN UNCHANGED subs ELSE PostConsume(r, d))
        /\ held' = [held EXCEPT ![r].open = FALSE, ![r].amount = IF fails THEN @ ELSE a]
        /\ UNCHANGED record
    BY DEF Settle
  <1>2. /\ held[r] \in [sub : Nat \ {0}, amount : Nat, epoch : Nat, open : BOOLEAN]
        /\ a \in Nat /\ d \in Int /\ held[r].amount + d = a
    BY <1>1, HeldTypes, SubscriptionAssumption
  <1> HIDE DEF d, fails
  <1>3. PICK h : h = [held[r] EXCEPT !.open = FALSE, !.amount = IF fails THEN held[r].amount ELSE a]
    OBVIOUS
  <1>4. /\ h \in [sub : Nat \ {0}, amount : Nat, epoch : Nat, open : BOOLEAN]
        /\ h.sub = held[r].sub /\ h.epoch = held[r].epoch /\ ~ h.open
        /\ h.amount = IF fails THEN held[r].amount ELSE a
    BY <1>2, <1>3
  <1>5. held' = [held EXCEPT ![r] = h]
    BY <1>1, <1>2, <1>3
  <1>6. CASE fails
    BY <1>1, <1>4, <1>5, <1>6, ClosePeriod
  <1>7. CASE ~ fails
    BY <1>1, <1>2, <1>4, <1>5, <1>7, PostConsumePeriod
  <1> QED BY <1>6, <1>7

LEMMA RefundPeriod ==
    ASSUME SubInv, SubInv', PeriodInv, NEW r \in Requests, Refund(r)
    PROVE  PeriodInv'
  <1> DEFINE gives == record[r] # None /\ record[r].status = "consumed" /\ subs[held[r].sub].status # "deleted"
  <1>1. held[r] # None /\ (held[r].open \/ (record[r] # None /\ record[r].status = "refunded"))
    BY DEF Refund
  <1>2. /\ held[r] \in [sub : Nat \ {0}, amount : Nat, epoch : Nat, open : BOOLEAN]
        /\ DOMAIN record = Requests
    BY <1>1, HeldTypes DEF SubInv, TypeOK
  <1>3. CASE gives
    <2>1. /\ PostConsume(r, - record[r].amount) /\ record' = [record EXCEPT ![r] = Marked(@)]
          /\ held' = [held EXCEPT ![r].open = FALSE, ![r].amount = 0]
      BY <1>3 DEF Refund
    <2>2. record[r].amount = held[r].amount
      BY <1>1, <1>3 DEF PeriodInv, HeldInv
    <2>3. PICK d : d = - held[r].amount
      OBVIOUS
    <2>4. d \in Int /\ held[r].amount + d = 0 /\ PostConsume(r, d)
      BY <1>2, <2>1, <2>2, <2>3
    <2>5. PICK h : h = [held[r] EXCEPT !.open = FALSE, !.amount = 0]
      OBVIOUS
    <2>6. /\ h \in [sub : Nat \ {0}, amount : Nat, epoch : Nat, open : BOOLEAN]
          /\ h.sub = held[r].sub /\ h.epoch = held[r].epoch /\ ~ h.open /\ h.amount = 0
      BY <1>2, <2>5
    <2>7. held' = [held EXCEPT ![r] = h]
      BY <1>2, <2>1, <2>5
    <2>8. \A q \in Requests \ {r} : record'[q] = record[q]
      BY <1>2, <2>1
    <2> QED BY <1>1, <2>4, <2>6, <2>7, <2>8, PostConsumePeriod
  <1>4. CASE ~ gives
    <2>1. held' = [held EXCEPT ![r].open = FALSE] /\ UNCHANGED <<subs, record>>
      BY <1>4 DEF Refund
    <2>2. PICK h : h = [held[r] EXCEPT !.open = FALSE]
      OBVIOUS
    <2>3. /\ h \in [sub : Nat \ {0}, amount : Nat, epoch : Nat, open : BOOLEAN]
          /\ h.sub = held[r].sub /\ h.epoch = held[r].epoch /\ ~ h.open /\ h.amount = held[r].amount
      BY <1>2, <2>2
    <2>4. held' = [held EXCEPT ![r] = h]
      BY <1>2, <2>1, <2>2
    <2> QED BY <1>1, <2>1, <2>3, <2>4, ClosePeriod
  <1> QED BY <1>3, <1>4

\* The loop, the administrator and the creations: rows are reset, ended or added.
LEMMA OtherPeriod ==
    ASSUME SubInv, SubInv', PeriodInv,
           \/ Tick \/ Maint \/ BindCommit \/ UNCHANGED vars
           \/ \E o \in Orders : CompleteBegin(o) \/ CompleteCommit(o) \/ ExpireOrder(o)
           \/ \E p \in Plans : BindBegin(p)
           \/ \E i \in DOMAIN subs : AdminInvalidateUserSubscription(i) \/ AdminDeleteUserSubscription(i)
    PROVE  PeriodInv'
  <1>0. /\ \A i \in DOMAIN subs : subs[i] \in Rows
        /\ DOMAIN subs = 1 .. Len(subs) /\ subs \in [1 .. Len(subs) -> Rows] /\ Len(subs) \in Nat
    BY RowsInTable DEF SubInv
  <1>1. ASSUME UNCHANGED <<subs, held>>, \A r \in Requests : record'[r] \in {record[r], None} PROVE PeriodInv'
    BY <1>1, QuietStep DEF Counts
  <1>2. ASSUME UNCHANGED <<held, record>>, DOMAIN subs' = DOMAIN subs, \A i \in DOMAIN subs : Counts(i)
        PROVE  PeriodInv'
    BY <1>2, QuietStep
  <1>3. CASE Tick
    BY <1>1, <1>3 DEF Tick, useVars
  <1>4. CASE \E o \in Orders : CompleteBegin(o)
    BY <1>1, <1>4 DEF CompleteBegin, Begin, useVars
  <1>5. CASE \E p \in Plans : BindBegin(p)
    BY <1>1, <1>5 DEF BindBegin, Begin, useVars
  <1>6. CASE \E o \in Orders : ExpireOrder(o)
    BY <1>1, <1>6 DEF ExpireOrder, useVars
  <1>7. CASE MaintStart
    BY <1>1, <1>7 DEF MaintStart, useVars
  <1>8. CASE MaintCleanup
    <2>1. UNCHANGED <<subs, held>> /\ \A r \in Requests : record'[r] \in {record[r], None}
      BY <1>8 DEF MaintCleanup
    <2> QED BY <1>1, <2>1
  <1>9. CASE UNCHANGED vars
    BY <1>1, <1>9 DEF vars
  <1>10. CASE MaintExpire
    <2> DEFINE due == IF maint.due = {} THEN {} ELSE ExpireDue(maint.now)
    <2>1. /\ subs' = [i \in DOMAIN subs |->
                        IF i \in due THEN [subs[i] EXCEPT !.status = "expired"] ELSE subs[i]]
          /\ UNCHANGED <<held, record>>
      BY <1>10 DEF MaintExpire, useVars
    <2> HIDE DEF due
    <2>2. DOMAIN subs' = DOMAIN subs /\ \A i \in DOMAIN subs : Counts(i)
      BY <1>0, <2>1 DEF Counts, Rows
    <2> QED BY <1>2, <2>1, <2>2
  <1>11. ASSUME NEW i \in maint.due, MaintReset(i) PROVE PeriodInv'
    <2>1. CASE UNCHANGED subs
      BY <1>1, <1>11, <2>1 DEF MaintReset, useVars
    <2>2. CASE subs' = [subs EXCEPT ![i] = maybeReset(subs[i], maint.now)]
      <3>1. maint.now \in Nat /\ UNCHANGED <<held, record>> /\ DOMAIN subs' = DOMAIN subs
        BY <1>11, <2>2 DEF MaintReset, useVars, SubInv, TypeOK
      <3>2. ASSUME NEW j \in DOMAIN subs PROVE Counts(j)
        <4>1. CASE j = i
          <5> DEFINE n == maybeReset(subs[i], maint.now)
          <5>1. /\ n.crossed = subs[i].crossed
                /\ \/ n.used = subs[i].used /\ n.epoch = subs[i].epoch
                   \/ n.used = 0 /\ n.epoch = subs[i].epoch + 1
            BY <1>0, <3>1, <4>1, ResetRow
          <5>2. subs'[i] = n
            BY <2>2, <4>1
          <5> HIDE DEF n
          <5> QED BY <4>1, <5>1, <5>2 DEF Counts
        <4>2. CASE j # i
          BY <2>2, <4>2 DEF Counts
        <4> QED BY <4>1, <4>2
      <3> QED BY <1>2, <3>1, <3>2
    <2> QED BY <1>11, <2>1, <2>2 DEF MaintReset
  <1>12. ASSUME NEW i \in DOMAIN subs, AdminInvalidateUserSubscription(i) \/ AdminDeleteUserSubscription(i)
         PROVE  PeriodInv'
    <2>1. UNCHANGED <<held, record>>
      BY <1>12 DEF AdminInvalidateUserSubscription, AdminDeleteUserSubscription, Downgrade, useVars
    <2>2. PICK n : /\ subs' = [subs EXCEPT ![i] = n] /\ n.used = subs[i].used
                   /\ n.epoch = subs[i].epoch /\ n.crossed = subs[i].crossed
      <3>1. CASE AdminInvalidateUserSubscription(i)
        <4> DEFINE n == [subs[i] EXCEPT !.status = "cancelled", !.end = now]
        <4>1. subs' = [subs EXCEPT ![i] = n]
          BY <3>1 DEF AdminInvalidateUserSubscription
        <4>2. n.used = subs[i].used /\ n.epoch = subs[i].epoch /\ n.crossed = subs[i].crossed
          BY <1>0 DEF Rows
        <4> HIDE DEF n
        <4> QED BY <4>1, <4>2
      <3>2. CASE AdminDeleteUserSubscription(i)
        <4> DEFINE n == [subs[i] EXCEPT !.status = "deleted"]
        <4>1. subs' = [subs EXCEPT ![i] = n]
          BY <3>2 DEF AdminDeleteUserSubscription
        <4>2. n.used = subs[i].used /\ n.epoch = subs[i].epoch /\ n.crossed = subs[i].crossed
          BY <1>0 DEF Rows
        <4> HIDE DEF n
        <4> QED BY <4>1, <4>2
      <3> QED BY <1>12, <3>1, <3>2
    <2>3. DOMAIN subs' = DOMAIN subs /\ \A j \in DOMAIN subs : Counts(j)
      BY <2>2 DEF Counts
    <2> QED BY <1>2, <2>1, <2>3
  <1>13. CASE (\E o \in Orders : CompleteCommit(o)) \/ BindCommit
    <2>1. PICK c \in Creators : Commit(c)
      BY <1>13, CommitDelivers
    <2>2. /\ DOMAIN subs' = DOMAIN subs \cup {Len(subs) + 1} /\ Len(subs) + 1 \notin DOMAIN subs
          /\ \A i \in DOMAIN subs : subs'[i] = subs[i]
          /\ subs'[Len(subs) + 1] = NewRow(c, txn[c])
      <3>1. orders' \in [Orders -> {"pending", "success", "expired"}]
        BY DEF SubInv, TypeOK
      <3> QED BY <2>1, <3>1, CommitAdds
    <2>3. UNCHANGED <<held, record>> /\ NewRow(c, txn[c]).used = 0
      BY <2>1, NewRowType DEF Commit, useVars
    <2>4. \A i \in DOMAIN subs : Counts(i)
      BY <2>2 DEF Counts
    <2>5. \A i \in DOMAIN subs' \ DOMAIN subs : subs'[i].used = 0
      BY <2>2, <2>3
    <2> QED BY <2>2, <2>3, <2>4, <2>5, QuietStep
  <1> QED BY <1>3, <1>4, <1>5, <1>6, <1>7, <1>8, <1>9, <1>10, <1>11, <1>12, <1>13 DEF Maint

LEMMA StepPeriod ==
    ASSUME SubInv, PeriodInv, [Next]_vars
    PROVE  PeriodInv'
  <1>1. SubInv'
    BY StepKinds
  <1>2. CASE \E r \in Requests, a \in Amounts, i \in DOMAIN subs : PreConsume(r, a, i)
    BY <1>1, <1>2, PreConsumePeriod
  <1>3. CASE \E r \in Requests, a \in Actuals : Settle(r, a)
    BY <1>1, <1>3, SettlePeriod
  <1>4. CASE \E r \in Requests : Refund(r)
    BY <1>1, <1>4, RefundPeriod
  <1> QED BY <1>1, <1>2, <1>3, <1>4, OtherPeriod DEF Next

-----------------------------------------------------------------------------
(* Theorems.                                                               *)

\* What is proved by induction: types, usage within the total, the rows of the orders
\* and a loop that is not ahead of the clock.
THEOREM SubInvariant == Spec => []SubInv
  <1>1. Init => SubInv
    BY InitSubInv
  <1>2. SubInv /\ [Next]_vars => SubInv'
    BY StepKinds
  <1> QED BY <1>1, <1>2, PTL DEF Spec

\* Every row, record and transaction stays of its type: the tables of
\* model/subscription.go never hold a value the code cannot have written.
THEOREM SubTypeCorrect == Spec => []TypeOK
  <1>1. SubInv => TypeOK
    BY DEF SubInv
  <1> QED BY <1>1, SubInvariant, PTL

\* No sequence of pre-consumptions, resets by the loop or by a request, settlements and
\* refunds takes a subscription over its plan's quota or below zero
\* (PreConsumeUserSubscription, PostConsumeUserSubscriptionDelta).
THEOREM UsedWithinTotalThm == Spec => []UsedWithinTotal
  <1>1. SubInv => UsedWithinTotal
    BY DEF SubInv
  <1> QED BY <1>1, SubInvariant, PTL

\* The usage of a row is the sum of what the requests of its current period used
\* (PreConsumeUserSubscription, PostConsumeUserSubscriptionDelta,
\* RefundSubscriptionPreConsume, maybeResetUserSubscriptionWithPlanTx), unless a request
\* of an earlier period was charged or refunded in it.
THEOREM PeriodBooksThm == Spec => []PeriodBooks
  <1>1. Init => PeriodInv
    <2>1. ASSUME Init PROVE DOMAIN subs = {}
      BY <2>1, EmptySeq DEF Init
    <2> QED BY <2>1 DEF Init, PeriodInv, HeldInv
  <1>2. SubInv /\ PeriodInv /\ [Next]_vars => PeriodInv'
    BY StepPeriod
  <1>3. PeriodInv => PeriodBooks
    BY DEF PeriodInv, RowBooks, PeriodBooks
  <1> QED BY <1>1, <1>2, <1>3, SubInvariant, PTL DEF Spec

\* A paid order has exactly one subscription and any other order none, however often
\* CompleteSubscriptionOrder is called and whatever the administrator and the loop do.
THEOREM OrderDeliversOnceThm == Spec => []OrderDeliversOnce
  <1>1. SubInv => OrderDeliversOnce
    BY DeliveredCount DEF SubInv
  <1> QED BY <1>1, SubInvariant, PTL

\* Where no plan "upgrades" the user to the base group itself, a subscription that is
\* active keeps the group it bought: no expiry, cancellation or deletion of another one
\* takes it away (downgradeUserGroupForSubscriptionTx, ExpireDueSubscriptions).
THEOREM OrdersKeptThm == RealUpgrades => (Spec => []OrdersKept)
  <1>1. Init => UpgradeKept
    <2>1. ASSUME Init PROVE DOMAIN subs = {}
      BY <2>1, EmptySeq DEF Init
    <2> QED BY <2>1 DEF UpgradeKept
  <1>2. RealUpgrades /\ SubInv /\ UpgradeKept /\ [Next]_vars => UpgradeKept'
    BY StepUpgradeKept
  <1>3. SubInv /\ UpgradeKept => OrdersKept
    BY DeliveredCount DEF SubInv, OrdersKept
  <1>4. SUFFICES ASSUME RealUpgrades PROVE Spec => []OrdersKept
    OBVIOUS
  <1>5. SubInv /\ UpgradeKept /\ [Next]_vars => UpgradeKept'
    BY <1>2, <1>4
  <1> QED BY <1>1, <1>3, <1>5, SubInvariant, PTL DEF Spec

=============================================================================
