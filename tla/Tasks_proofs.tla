---------------------------- MODULE Tasks_proofs ----------------------------
(***************************************************************************)
(* What an asynchronous task has paid when it has ended: PaidAsEnded of    *)
(* TaskBilling for any tasks, quotas and costs, and MjBilledAsEnded of     *)
(* Midjourney for any number of submissions, tasks, faults and restarts.   *)
(***************************************************************************)
EXTENDS TaskBilling, Midjourney, SequenceTheorems, NaturalsInduction, WellFoundedInduction, TLAPS

-----------------------------------------------------------------------------
(***************************************************************************)
(* Tasks. Billing follows only a conditional update that moved the row     *)
(* from a live status, and a row that was ended is not live again but by a *)
(* user's query (revived). So a task whose row is live has paid its quota  *)
(* and nothing else, a task the loop has in hand has paid what the place   *)
(* of the loop says, and an ended one keeps what it paid. A Suno task is   *)
(* refunded before its row is saved: it has only the single goroutine of   *)
(* the loop to rely on, and what it found unfinished is still unfinished.  *)
(***************************************************************************)

PaidBoth(t, n) == paid[t] = n /\ paidToken[t] = n

\* Where the loop is, what it holds and what it read.
PollShape ==
    /\ poll.task \in Tasks <=> poll.pc \notin {"idle", "sweep", "poll"}
    /\ poll.pc \in {"sweep", "poll", "save"} => poll.back = poll.pc
    /\ poll.pc \in {"cas", "settle", "settleToken"} => poll.back = "poll" /\ poll.task \notin Suno
    /\ poll.pc \in {"refund", "refundToken"} => poll.back # "idle"
    /\ (poll.back = "save" /\ poll.pc # "save") => poll.answer = "failure"
    /\ poll.back = "save" => poll.task \in Suno
    /\ \A t \in Tasks : poll.seen[t] \in Live

\* Only queries of Realtime tasks are under way; a Suno task has none.
Queries ==
    /\ \A t \in Tasks : fetch[t] # None => t \in Realtime
    /\ revived \cap Suno = {}
    /\ \A t \in poll.todo \cap Suno : poll.task # t => row[t] \in Live

\* What a task that has not been disturbed pays, from its row and the loop's place.
TaskPaid(t) ==
    (t \notin revived /\ (t \in Suno => t \notin disturbed)) =>
        /\ paid[t] \in {0, Quota[t], Quota[t] + SettleDelta(t)}
        /\ paidToken[t] \in {0, Quota[t], Quota[t] + SettleDelta(t)}
        /\ (row[t] \in Live /\ (~ InHand(t) \/ poll.pc = "cas")) => PaidBoth(t, Quota[t])
        /\ InHand(t) =>
              /\ poll.pc \in {"refund", "settle"} => PaidBoth(t, Quota[t])
              /\ poll.pc = "refundToken" => paid[t] = 0 /\ paidToken[t] = Quota[t]
              /\ poll.pc = "settleToken" => paid[t] = Quota[t] + SettleDelta(t) /\ paidToken[t] = Quota[t]
              /\ poll.pc = "save" => PaidBoth(t, IF poll.answer = "failure" THEN 0 ELSE Quota[t])
              /\ (poll.pc \in {"refund", "refundToken"} /\ poll.back # "save") =>
                    /\ row[t] = "failure" /\ by[t] \in {"poll", "sweep"}
                    /\ by[t] = "sweep" => t \notin Legacy
              /\ poll.pc \in {"settle", "settleToken"} => row[t] = "success" /\ by[t] = "poll"

\* BilledAsEnded, of one task.
Due(t) ==
    IF row[t] = "success"
    THEN IF t \in Suno THEN Quota[t] ELSE Quota[t] + SettleDelta(t)
    ELSE IF by[t] = "sweep" /\ t \in Legacy THEN Quota[t] ELSE 0

TaskBilled(t) ==
    (/\ t \notin revived \cup disturbed /\ by[t] \in {"poll", "sweep"} /\ row[t] \in Ended
     /\ ~ InHand(t) \/ poll.pc = "cas")
    => PaidBoth(t, Due(t))

TaskInv ==
    /\ TypeOK /\ PollShape /\ Queries
    /\ \A t \in Tasks : TaskPaid(t) /\ TaskBilled(t)

-----------------------------------------------------------------------------
(* Frames.                                                                 *)

PollRecords ==
    [pc : {"idle", "sweep", "poll", "cas", "settle", "settleToken", "refund", "refundToken", "save"},
     todo : SUBSET Tasks, seen : [Tasks -> Status],
     task : Tasks \cup {None}, answer : Status, back : {"idle", "sweep", "poll", "save"}]

\* Where a step leaves the loop: the tasks to do without those of d.
PollTo(pc, x, back, a, d) ==
    /\ poll' \in PollRecords
    /\ poll'.pc = pc /\ poll'.task = x /\ poll'.back = back /\ poll'.answer = a
    /\ poll'.todo = poll.todo \ d
    /\ \A u \in Tasks : poll'.seen[u] \in Live

LEMMA Amounts ==
    ASSUME NEW t \in Tasks
    PROVE  Quota[t] \in Nat /\ SettleDelta(t) \in Int /\ Quota[t] + SettleDelta(t) \in Nat
  BY TaskAssumption DEF SettleDelta

\* A step of the loop for one task, which keeps that task's part of the invariant,
\* keeps the invariant.
LEMMA TaskStep ==
    ASSUME TaskInv, NEW t \in Tasks, TypeOK', PollShape',
           poll.task \in {t, None}, poll'.task \in {t, None},
           poll'.todo \subseteq poll.todo, t \in poll'.todo => poll'.task = t,
           UNCHANGED <<fetch, revived>>, disturbed \subseteq disturbed',
           \A u \in Tasks \ {t} : /\ row'[u] = row[u] /\ by'[u] = by[u]
                                  /\ paid'[u] = paid[u] /\ paidToken'[u] = paidToken[u],
           TaskPaid(t)', TaskBilled(t)'
    PROVE  TaskInv'
  <1>1. None \notin Tasks
    BY TaskAssumption
  <1>2. Queries'
    <2>1. \A u \in poll'.todo \cap Suno : poll'.task # u => row'[u] \in Live
      <3> SUFFICES ASSUME NEW u \in poll'.todo \cap Suno, poll'.task # u PROVE row'[u] \in Live
        OBVIOUS
      <3>1. u # t /\ u \in Tasks /\ u \in poll.todo /\ poll.task # u
        BY <1>1, TaskAssumption
      <3> QED BY <3>1 DEF TaskInv, Queries
    <2>2. \A u \in Tasks : fetch'[u] # None => u \in Realtime
      BY DEF TaskInv, Queries
    <2>3. revived' \cap Suno = {}
      BY DEF TaskInv, Queries
    <2> QED BY <2>1, <2>2, <2>3 DEF Queries
  <1>3. ASSUME NEW u \in Tasks \ {t} PROVE TaskPaid(u)' /\ TaskBilled(u)'
    <2>1. ~ InHand(u) /\ ~ InHand(u)'
      BY <1>1, <1>3 DEF InHand
    <2>2. TaskPaid(u) /\ TaskBilled(u)
      BY <1>3 DEF TaskInv
    <2>3. TaskPaid(u)'
      BY <1>3, <2>1, <2>2 DEF TaskPaid, PaidBoth
    <2>4. TaskBilled(u)'
      BY <1>3, <2>1, <2>2 DEF TaskBilled, PaidBoth, Due
    <2> QED BY <2>3, <2>4
  <1> QED BY <1>2, <1>3 DEF TaskInv

\* A step that leaves the loop, the rows and the money alone.
LEMMA OutsideStep ==
    ASSUME TaskInv, TypeOK', UNCHANGED <<row, paid, paidToken, poll, by, revived, disturbed>>,
           \A t \in Tasks : fetch'[t] # None => t \in Realtime
    PROVE  TaskInv'
  <1>1. PollShape' /\ Queries'
    BY DEF TaskInv, PollShape, Queries
  <1>2. \A t \in Tasks : TaskPaid(t)' /\ TaskBilled(t)'
    BY DEF TaskInv, TaskPaid, TaskBilled, PaidBoth, Due, InHand
  <1> QED BY <1>1, <1>2 DEF TaskInv

LEMMA OnwardFields ==
    ASSUME TaskInv, NEW t \in Tasks, poll' = Onward(t)
    PROVE  PollTo(poll.back, None, poll.back, "submitted", {t})
  <1>1. poll \in PollRecords /\ \A u \in Tasks : poll.seen[u] \in Live
    BY DEF TaskInv, TypeOK, PollRecords, PollShape
  <1> DEFINE sn == [poll.seen EXCEPT ![t] = "submitted"]
             td == poll.todo \ {t}
  <1>2. sn \in [Tasks -> Status] /\ td \in SUBSET Tasks /\ \A u \in Tasks : sn[u] \in Live
    BY <1>1 DEF PollRecords, Status, Live
  <1>3. poll' = [poll EXCEPT !.todo = td, !.task = None, !.pc = poll.back,
                             !.answer = "submitted", !.seen = sn]
    BY <1>1 DEF Onward, PollRecords
  <1> HIDE DEF sn, td
  <1>4. poll' \in PollRecords
    <2>1. [poll EXCEPT !.todo = td, !.task = None, !.pc = poll.back] \in PollRecords
      BY <1>1, <1>2 DEF PollRecords
    <2> QED BY <1>2, <1>3, <2>1 DEF PollRecords, Status, Live
  <1>5. /\ poll'.pc = poll.back /\ poll'.task = None /\ poll'.back = poll.back
        /\ poll'.answer = "submitted" /\ poll'.todo = td /\ poll'.seen = sn
    BY <1>1, <1>3 DEF PollRecords
  <1> QED BY <1>2, <1>4, <1>5 DEF PollTo, td

\* The loop keeps its shape when it is done with a task or goes to another place.
LEMMA OnwardShape ==
    ASSUME TaskInv, NEW t \in Tasks, PollTo(poll.back, None, poll.back, "submitted", {t}),
           poll.back \in {"sweep", "poll"}
    PROVE  PollShape'
  BY TaskAssumption DEF PollTo, PollShape

LEMMA GotoFields ==
    ASSUME TaskInv, NEW pc \in {"cas", "settle", "settleToken", "refund", "refundToken", "save"},
           NEW x \in Tasks, NEW a \in Status, NEW b \in {"sweep", "poll", "save"},
           poll' = [poll EXCEPT !.pc = pc, !.task = x, !.answer = a, !.back = b]
    PROVE  PollTo(pc, x, b, a, {})
  <1>1. poll \in PollRecords /\ \A u \in Tasks : poll.seen[u] \in Live
    BY DEF TaskInv, TypeOK, PollRecords, PollShape
  <1>2. poll' \in PollRecords
    BY <1>1 DEF PollRecords
  <1>3. /\ poll'.pc = pc /\ poll'.task = x /\ poll'.answer = a /\ poll'.back = b
        /\ poll'.todo = poll.todo /\ poll'.seen = poll.seen
    BY <1>1 DEF PollRecords
  <1> QED BY <1>1, <1>2, <1>3 DEF PollTo

-----------------------------------------------------------------------------
(* The sweep.                                                              *)

\* The loop reads the rows that are not finished, or ends its round.
LEMMA ReadFields ==
    ASSUME NEW ts \in SUBSET Unfinished, NEW pc \in {"sweep", "poll"},
           poll' = [pc |-> pc, todo |-> ts, seen |-> Reading(ts), task |-> None,
                    answer |-> "submitted", back |-> pc]
    PROVE  /\ poll' \in PollRecords /\ poll'.task = None /\ poll'.pc = pc
           /\ poll'.back = pc /\ poll'.todo = ts /\ \A u \in Tasks : poll'.seen[u] \in Live
  <1>1. Reading(ts) \in [Tasks -> Status] /\ \A u \in Tasks : Reading(ts)[u] \in Live
    BY DEF Reading, Unfinished, Status, Live
  <1>2. ts \in SUBSET Tasks
    BY DEF Unfinished
  <1>3. "submitted" \in Status
    BY DEF Status, Live
  <1>4. poll' \in PollRecords
    BY <1>1, <1>2, <1>3 DEF PollRecords
  <1>5. poll'.task = None /\ poll'.pc = pc /\ poll'.back = pc /\ poll'.todo = ts /\ poll'.seen = Reading(ts)
    OBVIOUS
  <1> QED BY <1>1, <1>4, <1>5

LEMMA IdleFields ==
    ASSUME poll' = Idle
    PROVE  /\ poll' \in PollRecords /\ poll'.task = None /\ poll'.pc = "idle"
           /\ poll'.back = "idle" /\ poll'.todo = {} /\ \A u \in Tasks : poll'.seen[u] \in Live
  BY DEF Idle, PollRecords, Status, Live

LEMMA ReadsStep ==
    ASSUME TaskInv, SweepRead \/ PollRead \/ PollEnd
    PROVE  TaskInv'
  <1>1. /\ UNCHANGED <<row, paid, paidToken, upstream, old, gone, fetch, fetches, by, revived, disturbed, faults>>
        /\ poll.pc \in {"idle", "sweep", "poll"}
    BY DEF SweepRead, PollRead, PollEnd, money, world, query, history, failing
  <1>2. /\ poll' \in PollRecords /\ poll'.task = None /\ poll'.pc \in {"idle", "sweep", "poll"}
        /\ poll'.back = poll'.pc /\ poll'.todo \subseteq Unfinished
        /\ \A u \in Tasks : poll'.seen[u] \in Live
    <2>1. CASE SweepRead
      <3> DEFINE ts == Unfinished \cap old
      <3>1. poll' = [pc |-> "sweep", todo |-> ts, seen |-> Reading(ts), task |-> None,
                     answer |-> "submitted", back |-> "sweep"]
        BY <2>1 DEF SweepRead, Idle
      <3>2. ts \in SUBSET Unfinished
        OBVIOUS
      <3> HIDE DEF ts
      <3> QED BY <3>1, <3>2, ReadFields
    <2>2. CASE PollRead
      <3>1. poll' = [pc |-> "poll", todo |-> Unfinished, seen |-> Reading(Unfinished), task |-> None,
                     answer |-> "submitted", back |-> "poll"]
        BY <2>2 DEF PollRead, Idle
      <3> QED BY <3>1, ReadFields
    <2>3. CASE PollEnd
      BY <2>3, IdleFields DEF PollEnd
    <2> QED BY <2>1, <2>2, <2>3
  <1>3. TypeOK'
    BY <1>1, <1>2 DEF TaskInv, TypeOK, PollRecords
  <1>4. PollShape'
    BY <1>2, TaskAssumption DEF PollShape
  <1>5. Queries'
    <2>1. \A u \in poll'.todo \cap Suno : row'[u] \in Live
      BY <1>1, <1>2 DEF Unfinished
    <2> QED BY <1>1, <2>1 DEF TaskInv, Queries
  <1>6. ASSUME NEW u \in Tasks PROVE TaskPaid(u)' /\ TaskBilled(u)'
    <2>1. ~ InHand(u) /\ ~ InHand(u)'
      BY <1>1, <1>2, <1>6, TaskAssumption DEF TaskInv, PollShape, InHand
    <2>2. TaskPaid(u) /\ TaskBilled(u)
      BY <1>6 DEF TaskInv
    <2>3. TaskPaid(u)'
      BY <1>1, <2>1, <2>2 DEF TaskPaid, PaidBoth
    <2>4. TaskBilled(u)'
      BY <1>1, <2>1, <2>2 DEF TaskBilled, PaidBoth, Due
    <2> QED BY <2>3, <2>4
  <1> QED BY <1>3, <1>4, <1>5, <1>6 DEF TaskInv

\* The loop leaves a task without having written its row.
LEMMA LeaveStep ==
    ASSUME TaskInv, NEW t \in Tasks, poll' = Onward(t),
           \/ poll.pc \in {"sweep", "poll"}
           \/ poll.pc = "cas" /\ poll.task = t,
           UNCHANGED <<row, paid, paidToken, upstream, old, gone, fetch, fetches, by, revived>>,
           disturbed' \in {disturbed, disturbed \cup {t}}, faults' \in 0 .. MaxFaults
    PROVE  TaskInv'
  <1>1. poll.back \in {"sweep", "poll"} /\ poll.task \in {t, None} /\ (poll.task = t => poll.pc = "cas")
    BY TaskAssumption DEF TaskInv, TypeOK, PollShape
  <1>2. PollTo(poll.back, None, poll.back, "submitted", {t})
    BY OnwardFields
  <1>3. PollShape'
    BY <1>1, <1>2, OnwardShape
  <1>4. TypeOK'
    BY <1>2 DEF TaskInv, TypeOK, PollTo, PollRecords
  <1>5. ~ InHand(t)' /\ (InHand(t) => poll.pc = "cas") /\ TaskPaid(t) /\ TaskBilled(t)
    BY <1>1, <1>2, TaskAssumption DEF PollTo, InHand, TaskInv
  <1>6. TaskPaid(t)'
    BY <1>5 DEF TaskPaid, PaidBoth
  <1>7. TaskBilled(t)'
    BY <1>5 DEF TaskBilled, PaidBoth, Due
  <1>8. poll'.task = None /\ poll'.todo = poll.todo \ {t} /\ disturbed \subseteq disturbed'
    BY <1>2 DEF PollTo
  <1> QED BY <1>1, <1>3, <1>4, <1>6, <1>7, <1>8, TaskStep

\* An outcome of a step that met a failing statement.
LEMMA FaultType ==
    ASSUME TaskInv, NEW t \in Tasks, Fault(t)
    PROVE  disturbed' = disturbed \cup {t} /\ disturbed' \subseteq Tasks /\ faults' \in 0 .. MaxFaults
  BY TaskAssumption DEF TaskInv, TypeOK, Fault

LEMMA SweepCasStep ==
    ASSUME TaskInv, NEW t \in poll.todo, SweepCas(t)
    PROVE  TaskInv'
  <1>1. /\ poll.pc = "sweep" /\ UNCHANGED <<paid, paidToken, upstream, old, gone, fetch, fetches, revived>>
    BY DEF SweepCas, money, world, query
  <1>2. /\ t \in Tasks /\ poll.back = "sweep" /\ poll.task = None /\ None \notin Tasks /\ ~ InHand(t)
        /\ poll.seen[t] \in Live /\ poll \in PollRecords
    BY <1>1, TaskAssumption DEF TaskInv, TypeOK, PollShape, InHand, PollRecords
  <1>3. CASE poll' = Onward(t) /\ (NoFault \/ Fault(t)) /\ UNCHANGED <<row, by>>
    <2>1. disturbed' \in {disturbed, disturbed \cup {t}} /\ faults' \in 0 .. MaxFaults
      BY <1>2, <1>3, FaultType DEF NoFault, failing, TaskInv, TypeOK
    <2> QED BY <1>1, <1>2, <1>3, <2>1, LeaveStep
  <1>4. CASE /\ Wins(t, poll.seen[t]) /\ row' = [row EXCEPT ![t] = "failure"]
             /\ WrittenBy(t, "failure", "sweep") /\ NoFault
             /\ poll' = IF Refundable(t) THEN [poll EXCEPT !.pc = "refund", !.task = t] ELSE Onward(t)
    <2>1. row[t] \in Live /\ by' = [by EXCEPT ![t] = "sweep"] /\ UNCHANGED <<disturbed, faults>>
      BY <1>2, <1>4 DEF Wins, WrittenBy, Ended, NoFault, failing
    <2>2. /\ row' \in [Tasks -> Status] /\ by' \in [Tasks -> {"nobody", "sweep", "poll", "bulk", "fetch"}]
          /\ row'[t] = "failure" /\ by'[t] = "sweep"
          /\ \A u \in Tasks \ {t} : row'[u] = row[u] /\ by'[u] = by[u]
      BY <1>2, <1>4, <2>1 DEF TaskInv, TypeOK, Status, Ended
    <2>3. ASSUME t \notin revived, t \in Suno => t \notin disturbed PROVE PaidBoth(t, Quota[t])
      BY <1>2, <2>1, <2>3 DEF TaskInv, TaskPaid
    <2>4. Quota[t] \in Nat
      BY <1>2, Amounts
    <2>5. CASE Refundable(t)
      <3>1. poll' = [poll EXCEPT !.pc = "refund", !.task = t, !.answer = poll.answer, !.back = poll.back]
        BY <1>2, <1>4, <2>5 DEF PollRecords
      <3>2. PollTo("refund", t, "sweep", poll.answer, {})
        BY <1>2, <3>1, GotoFields DEF PollRecords
      <3>3. PollShape'
        BY <1>2, <3>2 DEF PollTo, PollShape
      <3>4. TypeOK'
        BY <1>1, <2>1, <2>2, <3>2 DEF TaskInv, TypeOK, PollTo, PollRecords
      <3>5. TaskPaid(t)'
        BY <1>1, <2>1, <2>2, <2>3, <2>5, <3>2 DEF PollTo, TaskPaid, PaidBoth, InHand, Refundable, Live
      <3>6. TaskBilled(t)'
        BY <3>2 DEF PollTo, TaskBilled, InHand
      <3> QED BY <1>1, <1>2, <2>1, <2>2, <3>2, <3>3, <3>4, <3>5, <3>6, TaskStep DEF PollTo
    <2>6. CASE ~ Refundable(t)
      <3>1. PollTo("sweep", None, "sweep", "submitted", {t})
        BY <1>2, <1>4, <2>6, OnwardFields
      <3>2. PollShape'
        BY <1>2, <3>1, OnwardShape
      <3>3. TypeOK'
        BY <1>1, <2>1, <2>2, <3>1 DEF TaskInv, TypeOK, PollTo, PollRecords
      <3>4. TaskPaid(t)'
        BY <1>1, <1>2, <2>1, <2>2, <2>3, <3>1 DEF PollTo, TaskPaid, PaidBoth, InHand, Live
      <3>5. TaskBilled(t)'
        BY <1>1, <2>1, <2>2, <2>3, <2>4, <2>6 DEF TaskBilled, PaidBoth, Due, Refundable
      <3> QED BY <1>1, <1>2, <2>1, <2>2, <3>1, <3>2, <3>3, <3>4, <3>5, TaskStep DEF PollTo
    <2> QED BY <2>5, <2>6
  <1> QED BY <1>3, <1>4 DEF SweepCas

-----------------------------------------------------------------------------
(* The round of polls.                                                     *)

LEMMA PollGoneStep ==
    ASSUME TaskInv, NEW t \in poll.todo, PollGone(t)
    PROVE  TaskInv'
  <1>1. /\ poll.pc = "poll" /\ poll' = Onward(t)
        /\ UNCHANGED <<paid, paidToken, upstream, old, gone, fetch, fetches, revived>>
    BY DEF PollGone, money, world, query
  <1>2. t \in Tasks /\ poll.back = "poll" /\ poll.task = None /\ None \notin Tasks /\ ~ InHand(t)
    BY <1>1, TaskAssumption DEF TaskInv, TypeOK, PollShape, InHand
  <1>3. CASE Fault(t) /\ UNCHANGED <<row, by>>
    BY <1>1, <1>2, <1>3, FaultType, LeaveStep
  <1>4. CASE row' = [row EXCEPT ![t] = "failure"] /\ WrittenBy(t, "failure", "bulk") /\ NoFault
    <2>1. /\ row' \in [Tasks -> Status] /\ by' \in [Tasks -> {"nobody", "sweep", "poll", "bulk", "fetch"}]
          /\ row'[t] = "failure" /\ by'[t] = "bulk" /\ UNCHANGED <<disturbed, faults>>
          /\ \A u \in Tasks \ {t} : row'[u] = row[u] /\ by'[u] = by[u]
      BY <1>2, <1>4 DEF TaskInv, TypeOK, Status, Ended, WrittenBy, NoFault, failing
    <2>2. PollTo("poll", None, "poll", "submitted", {t})
      BY <1>1, <1>2, OnwardFields
    <2>3. PollShape'
      BY <1>2, <2>2, OnwardShape
    <2>4. TypeOK'
      BY <1>1, <2>1, <2>2 DEF TaskInv, TypeOK, PollTo, PollRecords
    <2>5. TaskPaid(t)'
      BY <1>1, <1>2, <2>1, <2>2 DEF TaskInv, PollTo, TaskPaid, PaidBoth, InHand, Live
    <2>6. TaskBilled(t)'
      BY <2>1 DEF TaskBilled
    <2> QED BY <1>1, <1>2, <2>1, <2>2, <2>3, <2>4, <2>5, <2>6, TaskStep DEF PollTo
  <1> QED BY <1>3, <1>4 DEF PollGone

LEMMA PollNoAnswerStep ==
    ASSUME TaskInv, NEW t \in poll.todo, PollNoAnswer(t)
    PROVE  TaskInv'
  <1>1. /\ poll.pc = "poll" /\ poll' = Onward(t) /\ t \in Tasks
        /\ UNCHANGED <<row, by, paid, paidToken, upstream, old, gone, fetch, fetches, revived, disturbed>>
    BY DEF PollNoAnswer, money, world, query, history, TaskInv, TypeOK
  <1>2. faults' \in 0 .. MaxFaults
    BY TaskAssumption DEF PollNoAnswer, TaskInv, TypeOK
  <1> QED BY <1>1, <1>2, LeaveStep

LEMMA VideoAnswerStep ==
    ASSUME TaskInv, NEW t \in poll.todo, VideoAnswer(t)
    PROVE  TaskInv'
  <1>1. /\ poll.pc = "poll" /\ t \notin Suno
        /\ UNCHANGED <<row, by, paid, paidToken, upstream, old, gone, fetch, fetches, revived, disturbed, faults>>
    BY DEF VideoAnswer, money, world, query, history, failing
  <1>2. /\ t \in Tasks /\ poll.back = "poll" /\ poll.task = None /\ None \notin Tasks /\ ~ InHand(t)
        /\ poll \in PollRecords
    BY <1>1, TaskAssumption DEF TaskInv, TypeOK, PollShape, InHand, PollRecords
  <1>3. PICK a \in Status : poll' = [poll EXCEPT !.pc = "cas", !.task = t, !.answer = a]
    BY <1>2 DEF VideoAnswer, TaskInv, TypeOK, Status, Ended
  <1>4. poll' = [poll EXCEPT !.pc = "cas", !.task = t, !.answer = a, !.back = "poll"]
    BY <1>2, <1>3 DEF PollRecords
  <1>5. PollTo("cas", t, "poll", a, {})
    BY <1>2, <1>4, GotoFields
  <1>6. PollShape'
    BY <1>1, <1>2, <1>5 DEF PollTo, PollShape
  <1>7. TypeOK'
    BY <1>1, <1>5 DEF TaskInv, TypeOK, PollTo, PollRecords
  <1>8. TaskPaid(t)'
    BY <1>1, <1>2, <1>5 DEF TaskInv, PollTo, TaskPaid, PaidBoth
  <1>9. TaskBilled(t)'
    BY <1>1, <1>2, <1>5 DEF TaskInv, PollTo, TaskBilled, PaidBoth, Due
  <1> QED BY <1>1, <1>2, <1>5, <1>6, <1>7, <1>8, <1>9, TaskStep DEF PollTo

LEMMA VideoCasStep ==
    ASSUME TaskInv, VideoCas, NEW t \in Tasks, poll.task = t, NEW a \in Status, poll.answer = a
    PROVE  TaskInv'
  <1>1. poll.pc = "cas" /\ UNCHANGED <<paid, paidToken, upstream, old, gone, fetch, fetches, revived>>
    BY DEF VideoCas, money, world, query
  <1>2. /\ t \notin Suno /\ poll.back = "poll" /\ None \notin Tasks
        /\ InHand(t) /\ poll.seen[t] \in Live /\ poll \in PollRecords
    BY <1>1, TaskAssumption DEF TaskInv, TypeOK, PollShape, InHand, PollRecords
  <1>3. CASE poll' = Onward(t) /\ (NoFault \/ Fault(t)) /\ UNCHANGED <<row, by>>
    <2>1. disturbed' \in {disturbed, disturbed \cup {t}} /\ faults' \in 0 .. MaxFaults
      BY <1>2, <1>3, FaultType DEF NoFault, failing, TaskInv, TypeOK
    <2> QED BY <1>1, <1>2, <1>3, <2>1, LeaveStep
  <1>4. CASE /\ Wins(t, poll.seen[t]) /\ row' = [row EXCEPT ![t] = a]
             /\ WrittenBy(t, a, "poll") /\ poll' = AfterCas(t, a) /\ NoFault
    <2>1. row[t] \in Live /\ UNCHANGED <<disturbed, faults>>
      BY <1>2, <1>4 DEF Wins, NoFault, failing
    <2>2. /\ row' \in [Tasks -> Status] /\ by' \in [Tasks -> {"nobody", "sweep", "poll", "bulk", "fetch"}]
          /\ row'[t] = a /\ (a \in Ended => by'[t] = "poll")
          /\ \A u \in Tasks \ {t} : row'[u] = row[u] /\ by'[u] = by[u]
      BY <1>2, <1>4 DEF TaskInv, TypeOK, WrittenBy
    <2>3. ASSUME t \notin revived PROVE PaidBoth(t, Quota[t])
      BY <1>1, <1>2, <2>1, <2>3 DEF TaskInv, TaskPaid
    <2>4. Quota[t] \in Nat /\ SettleDelta(t) \in Int
      BY <1>2, Amounts
    <2>5. ASSUME NEW pc \in {"settle", "refund"}, poll' = [poll EXCEPT !.pc = pc],
                 a = IF pc = "settle" THEN "success" ELSE "failure"
          PROVE  TaskInv'
      <3>1. poll' = [poll EXCEPT !.pc = pc, !.task = t, !.answer = a, !.back = "poll"]
        BY <1>2, <2>5 DEF PollRecords
      <3>2. PollTo(pc, t, "poll", a, {})
        <4>1. pc \in {"cas", "settle", "settleToken", "refund", "refundToken", "save"}
          BY <2>5
        <4> QED BY <3>1, <4>1, GotoFields
      <3>3. PollShape'
        BY <1>2, <2>5, <3>2 DEF PollTo, PollShape
      <3>4. TypeOK'
        BY <1>1, <2>1, <2>2, <3>2 DEF TaskInv, TypeOK, PollTo, PollRecords
      <3>5. TaskPaid(t)'
        <4>1. ASSUME t \notin revived PROVE paid'[t] = Quota[t] /\ paidToken'[t] = Quota[t]
          BY <1>1, <2>3, <4>1 DEF PaidBoth
        <4>2. by'[t] = "poll" /\ row'[t] = (IF pc = "settle" THEN "success" ELSE "failure")
          BY <2>2, <2>5 DEF Ended
        <4> QED BY <1>1, <1>2, <2>5, <3>2, <4>1, <4>2 DEF PollTo, TaskPaid, PaidBoth, InHand, Live
      <3>6. TaskBilled(t)'
        BY <2>5, <3>2 DEF PollTo, TaskBilled, InHand
      <3> QED BY <1>1, <1>2, <2>1, <2>2, <3>2, <3>3, <3>4, <3>5, <3>6, TaskStep DEF PollTo, InHand
    <2>6. ASSUME poll' = Onward(t), ~ (a = "success" /\ SettleDelta(t) # 0), ~ (a = "failure" /\ Quota[t] # 0)
          PROVE  TaskInv'
      <3>1. PollTo("poll", None, "poll", "submitted", {t})
        BY <1>2, <2>6, OnwardFields
      <3>2. PollShape'
        BY <1>2, <3>1, OnwardShape
      <3>3. TypeOK'
        BY <1>1, <2>1, <2>2, <3>1 DEF TaskInv, TypeOK, PollTo, PollRecords
      <3>4. ASSUME t \notin revived PROVE paid'[t] = Quota[t] /\ paidToken'[t] = Quota[t]
        BY <1>1, <2>3, <3>4 DEF PaidBoth
      <3>5. TaskPaid(t)'
        BY <1>1, <1>2, <3>1, <3>4 DEF PollTo, TaskPaid, PaidBoth, InHand
      <3>6. TaskBilled(t)'
        BY <1>1, <1>2, <2>2, <2>4, <2>6, <3>4 DEF TaskBilled, PaidBoth, Due, Ended
      <3> QED BY <1>1, <1>2, <2>1, <2>2, <3>1, <3>2, <3>3, <3>5, <3>6, TaskStep DEF PollTo, InHand
    <2> QED BY <1>4, <2>5, <2>6 DEF AfterCas
  <1> QED BY <1>1, <1>3, <1>4 DEF VideoCas

-----------------------------------------------------------------------------
(* Suno tasks.                                                             *)

LEMMA SunoAnswerStep ==
    ASSUME TaskInv, NEW t \in poll.todo, SunoAnswer(t)
    PROVE  TaskInv'
  <1>1. /\ poll.pc = "poll" /\ t \in Suno
        /\ UNCHANGED <<row, by, paid, paidToken, upstream, old, gone, fetch, fetches, revived, disturbed, faults>>
    BY DEF SunoAnswer, money, world, query, history, failing
  <1>2. /\ t \in Tasks /\ poll.back = "poll" /\ poll.task = None /\ None \notin Tasks /\ ~ InHand(t)
        /\ poll \in PollRecords /\ faults \in 0 .. MaxFaults
    BY <1>1, TaskAssumption DEF TaskInv, TypeOK, PollShape, InHand, PollRecords
  <1>3. CASE poll' = Onward(t)
    BY <1>1, <1>2, <1>3, LeaveStep
  <1>4. CASE poll' # Onward(t)
    <2>1. PICK a \in Status, pc \in {"refund", "save"} :
            /\ poll' = [poll EXCEPT !.task = t, !.answer = a, !.back = "save", !.pc = pc]
            /\ IF a = "failure" /\ Quota[t] # 0 THEN pc = "refund" ELSE pc = "save"
      <3>1. upstream[t] \in Status
        BY <1>2 DEF TaskInv, TypeOK
      <3> QED BY <1>4, <3>1 DEF SunoAnswer
    <2>2. poll' = [poll EXCEPT !.pc = pc, !.task = t, !.answer = a, !.back = "save"]
      BY <1>2, <2>1 DEF PollRecords
    <2>3. PollTo(pc, t, "save", a, {})
      BY <1>2, <2>2, GotoFields
    <2>4. PollShape'
      BY <1>1, <1>2, <2>1, <2>3 DEF PollTo, PollShape
    <2>5. TypeOK'
      BY <1>1, <2>3 DEF TaskInv, TypeOK, PollTo, PollRecords
    <2>6. row[t] \in Live
      BY <1>1, <1>2 DEF TaskInv, Queries
    <2>7. ASSUME t \notin revived, t \notin disturbed PROVE PaidBoth(t, Quota[t])
      BY <1>2, <2>6, <2>7 DEF TaskInv, TaskPaid
    <2>8. TaskPaid(t)'
      BY <1>1, <1>2, <2>1, <2>3, <2>7 DEF PollTo, TaskPaid, PaidBoth, InHand
    <2>9. TaskBilled(t)'
      BY <2>1, <2>3 DEF PollTo, TaskBilled, InHand
    <2> QED BY <1>1, <1>2, <2>3, <2>4, <2>5, <2>8, <2>9, TaskStep DEF PollTo
  <1> QED BY <1>3, <1>4

LEMMA SunoSaveStep ==
    ASSUME TaskInv, SunoSave, NEW t \in Tasks, poll.task = t, NEW a \in Status, poll.answer = a
    PROVE  TaskInv'
  <1>1. /\ poll.pc = "save" /\ poll' = [Onward(t) EXCEPT !.pc = "poll", !.back = "poll"]
        /\ UNCHANGED <<paid, paidToken, upstream, old, gone, fetch, fetches, revived>>
    BY DEF SunoSave, money, world, query
  <1>2. poll.back = "save" /\ t \in Suno /\ InHand(t) /\ None \notin Tasks /\ poll \in PollRecords
    BY <1>1, TaskAssumption DEF TaskInv, TypeOK, PollShape, InHand, PollRecords
  <1>3. PollTo("poll", None, "poll", "submitted", {t})
    <2> DEFINE sn == [poll.seen EXCEPT ![t] = "submitted"]
               td == poll.todo \ {t}
    <2>1. sn \in [Tasks -> Status] /\ td \in SUBSET Tasks /\ \A u \in Tasks : sn[u] \in Live
      BY <1>2 DEF TaskInv, PollShape, PollRecords, Status, Live
    <2>2. poll' = [pc |-> "poll", todo |-> td, seen |-> sn, task |-> None, answer |-> "submitted", back |-> "poll"]
      BY <1>1, <1>2 DEF Onward, PollRecords
    <2> HIDE DEF sn, td
    <2>3. "submitted" \in Status
      BY DEF Status, Live
    <2>4. [pc |-> "poll", todo |-> td, seen |-> sn, task |-> None, answer |-> "submitted", back |-> "poll"]
            \in PollRecords
      BY <2>1, <2>3 DEF PollRecords
    <2>5. poll' \in PollRecords
      BY <2>2, <2>4
    <2>6. /\ poll'.pc = "poll" /\ poll'.todo = td /\ poll'.seen = sn /\ poll'.task = None
          /\ poll'.answer = "submitted" /\ poll'.back = "poll"
      BY <2>2
    <2> QED BY <2>1, <2>5, <2>6 DEF PollTo, td
  <1>4. PollShape'
    BY <1>2, <1>3 DEF PollTo, PollShape
  <1>5. CASE Fault(t) /\ UNCHANGED <<row, by>>
    <2>1. disturbed' = disturbed \cup {t} /\ disturbed' \subseteq Tasks /\ faults' \in 0 .. MaxFaults
      BY <1>5, FaultType
    <2>2. TypeOK'
      BY <1>1, <1>3, <1>5, <2>1 DEF TaskInv, TypeOK, PollTo, PollRecords
    <2>3. TaskPaid(t)' /\ TaskBilled(t)'
      BY <1>2, <2>1 DEF TaskPaid, TaskBilled
    <2> QED BY <1>1, <1>3, <1>4, <1>5, <2>1, <2>2, <2>3, TaskStep DEF PollTo
  <1>6. CASE row' = [row EXCEPT ![t] = a] /\ WrittenBy(t, a, "poll") /\ NoFault
    <2>1. /\ row' \in [Tasks -> Status] /\ by' \in [Tasks -> {"nobody", "sweep", "poll", "bulk", "fetch"}]
          /\ row'[t] = a /\ (a \in Ended => by'[t] = "poll") /\ UNCHANGED <<disturbed, faults>>
          /\ \A u \in Tasks \ {t} : row'[u] = row[u] /\ by'[u] = by[u]
      BY <1>6 DEF TaskInv, TypeOK, WrittenBy, NoFault, failing
    <2>2. TypeOK'
      BY <1>1, <1>3, <2>1 DEF TaskInv, TypeOK, PollTo, PollRecords
    <2>3. ASSUME t \notin revived, t \notin disturbed
          PROVE  LET n == IF a = "failure" THEN 0 ELSE Quota[t] IN paid'[t] = n /\ paidToken'[t] = n
      BY <1>1, <1>2, <2>3 DEF TaskInv, TaskPaid, PaidBoth
    <2>4. TaskPaid(t)'
      BY <1>1, <1>2, <1>3, <2>1, <2>3 DEF PollTo, TaskPaid, PaidBoth, InHand, Live
    <2>5. TaskBilled(t)'
      BY <1>1, <1>2, <2>1, <2>3 DEF TaskBilled, PaidBoth, Due, Ended
    <2> QED BY <1>1, <1>3, <1>4, <2>1, <2>2, <2>4, <2>5, TaskStep DEF PollTo
  <1> QED BY <1>5, <1>6 DEF SunoSave

-----------------------------------------------------------------------------
(* Refunds and settlements.                                                *)

\* The loop is done with the billing of a task: what it paid by then is in force.
LEMMA DoneStep ==
    ASSUME TaskInv, NEW t \in Tasks, poll.task = t,
           poll.pc \in {"refund", "refundToken", "settle", "settleToken"}, poll' = BillingDone,
           UNCHANGED <<row, paid, by, upstream, old, gone, fetch, fetches, revived>>,
           paidToken' \in [Tasks -> Int], \A u \in Tasks \ {t} : paidToken'[u] = paidToken[u],
           \/ Fault(t) /\ UNCHANGED paidToken
           \/ NoFault /\ poll.pc = "refundToken" /\ paidToken'[t] = paidToken[t] - Quota[t]
           \/ NoFault /\ poll.pc = "settleToken" /\ paidToken'[t] = paidToken[t] + SettleDelta(t)
    PROVE  TaskInv'
  <1>1. /\ InHand(t) /\ None \notin Tasks /\ poll \in PollRecords
        /\ poll.back \in {"sweep", "poll", "save"} /\ TaskPaid(t)
        /\ poll.pc \in {"settle", "settleToken"} => poll.back = "poll" /\ t \notin Suno
        /\ poll.back = "save" => t \in Suno /\ poll.answer = "failure"
    BY TaskAssumption DEF TaskInv, TypeOK, PollShape, InHand, PollRecords
  <1>2. Quota[t] \in Nat /\ SettleDelta(t) \in Int
    BY Amounts
  <1>3. faults' \in 0 .. MaxFaults /\ disturbed' \in {disturbed, disturbed \cup {t}} /\ disturbed' \subseteq Tasks
    BY FaultType DEF NoFault, failing, TaskInv, TypeOK
  <1>4. ASSUME t \notin revived, t \in Suno => t \notin disturbed'
        PROVE  /\ paidToken'[t] \in {0, Quota[t], Quota[t] + SettleDelta(t)}
               /\ t \notin disturbed' =>
                    \/ poll.pc = "refundToken" /\ paid'[t] = 0 /\ paidToken'[t] = 0
                    \/ /\ poll.pc = "settleToken" /\ paid'[t] = Quota[t] + SettleDelta(t)
                       /\ paidToken'[t] = Quota[t] + SettleDelta(t)
    <2>1. t \in Suno => t \notin disturbed
      BY <1>3, <1>4
    <2>2. CASE Fault(t) /\ UNCHANGED paidToken
      BY <1>1, <1>4, <2>1, <2>2 DEF TaskPaid, Fault
    <2>3. CASE NoFault /\ poll.pc = "refundToken" /\ paidToken'[t] = paidToken[t] - Quota[t]
      BY <1>1, <1>2, <1>4, <2>1, <2>3 DEF TaskPaid
    <2>4. CASE NoFault /\ poll.pc = "settleToken" /\ paidToken'[t] = paidToken[t] + SettleDelta(t)
      BY <1>1, <1>2, <1>4, <2>1, <2>4 DEF TaskPaid
    <2> QED BY <2>2, <2>3, <2>4
  <1>5. ASSUME t \notin revived, t \in Suno => t \notin disturbed'
        PROVE  paid'[t] \in {0, Quota[t], Quota[t] + SettleDelta(t)}
    BY <1>1, <1>3, <1>5 DEF TaskPaid
  <1>6. CASE poll.back = "save"
    <2>1. poll' = [poll EXCEPT !.pc = "save", !.task = t, !.answer = "failure", !.back = "save"]
      BY <1>1, <1>6 DEF BillingDone, PollRecords
    <2>2. "failure" \in Status
      BY DEF Status, Ended
    <2>3. PollTo("save", t, "save", "failure", {})
      BY <2>1, <2>2, GotoFields
    <2>4. PollShape'
      BY <1>1, <1>6, <2>3 DEF PollTo, PollShape
    <2>5. TypeOK'
      BY <1>3, <2>3 DEF TaskInv, TypeOK, PollTo, PollRecords
    <2>6. TaskPaid(t)'
      BY <1>1, <1>4, <1>5, <1>6, <2>3 DEF PollTo, TaskPaid, PaidBoth, InHand
    <2>7. TaskBilled(t)'
      BY <2>3 DEF PollTo, TaskBilled, InHand
    <2> QED BY <1>3, <2>3, <2>4, <2>5, <2>6, <2>7, TaskStep DEF PollTo
  <1>7. CASE poll.back # "save"
    <2>1. PollTo(poll.back, None, poll.back, "submitted", {t})
      BY <1>7, OnwardFields DEF BillingDone
    <2>2. PollShape'
      BY <1>1, <1>7, <2>1, OnwardShape
    <2>3. TypeOK'
      BY <1>3, <2>1 DEF TaskInv, TypeOK, PollTo, PollRecords
    <2>4. ASSUME t \notin revived, t \in Suno => t \notin disturbed'
          PROVE  /\ poll.pc \in {"refund", "refundToken"} =>
                       row'[t] = "failure" /\ by'[t] \in {"poll", "sweep"} /\ (by'[t] = "sweep" => t \notin Legacy)
                 /\ poll.pc \in {"settle", "settleToken"} => row'[t] = "success" /\ by'[t] = "poll"
      BY <1>1, <1>3, <1>7, <2>4 DEF TaskPaid
    <2>5. TaskPaid(t)'
      BY <1>1, <1>4, <1>5, <2>1, <2>4 DEF PollTo, TaskPaid, PaidBoth, InHand, Live
    <2>6. TaskBilled(t)'
      BY <1>1, <1>4, <2>4 DEF TaskBilled, PaidBoth, Due
    <2> QED BY <1>3, <2>1, <2>2, <2>3, <2>5, <2>6, TaskStep DEF PollTo
  <1> QED BY <1>6, <1>7

\* The funding source has been paid; the token follows.
LEMMA FundingStep ==
    ASSUME TaskInv, NEW t \in Tasks, poll.task = t,
           UNCHANGED <<row, paidToken, by, upstream, old, gone, fetch, fetches, revived>>, NoFault,
           \/ /\ poll.pc = "refund" /\ poll' = [poll EXCEPT !.pc = "refundToken"]
              /\ paid' = [paid EXCEPT ![t] = @ - Quota[t]]
           \/ /\ poll.pc = "settle" /\ poll' = [poll EXCEPT !.pc = "settleToken"]
              /\ paid' = [paid EXCEPT ![t] = @ + SettleDelta(t)]
    PROVE  TaskInv'
  <1>1. /\ InHand(t) /\ None \notin Tasks /\ poll \in PollRecords
        /\ poll.back \in {"sweep", "poll", "save"} /\ TaskPaid(t) /\ PollShape
    BY TaskAssumption DEF TaskInv, TypeOK, PollShape, InHand, PollRecords
  <1>2. Quota[t] \in Nat /\ SettleDelta(t) \in Int
    BY Amounts
  <1>3. PICK pc \in {"refundToken", "settleToken"} :
          poll' = [poll EXCEPT !.pc = pc] /\ poll.pc = IF pc = "refundToken" THEN "refund" ELSE "settle"
    OBVIOUS
  <1>4. PollTo(pc, t, poll.back, poll.answer, {})
    <2>1. poll' \in PollRecords
      BY <1>1, <1>3 DEF PollRecords
    <2>2. /\ poll'.pc = pc /\ poll'.task = t /\ poll'.back = poll.back /\ poll'.answer = poll.answer
          /\ poll'.todo = poll.todo /\ poll'.seen = poll.seen
      BY <1>1, <1>3 DEF PollRecords
    <2> QED BY <1>1, <2>1, <2>2 DEF PollTo, PollShape
  <1>5. PollShape'
    BY <1>1, <1>3, <1>4 DEF PollTo, PollShape
  <1>6. /\ paid' \in [Tasks -> Int] /\ \A u \in Tasks \ {t} : paid'[u] = paid[u]
        /\ paid'[t] = IF pc = "refundToken" THEN paid[t] - Quota[t] ELSE paid[t] + SettleDelta(t)
    BY <1>2, <1>3 DEF TaskInv, TypeOK
  <1>7. TypeOK'
    BY <1>4, <1>6 DEF TaskInv, TypeOK, PollTo, PollRecords, NoFault, failing
  <1>8. UNCHANGED disturbed
    BY DEF NoFault, failing
  <1>9. ASSUME t \notin revived, t \in Suno => t \notin disturbed
        PROVE  /\ paid'[t] = (IF pc = "refundToken" THEN 0 ELSE Quota[t] + SettleDelta(t))
               /\ paidToken'[t] = Quota[t]
    BY <1>1, <1>2, <1>3, <1>6, <1>9 DEF TaskPaid, PaidBoth
  <1>10. TaskPaid(t)'
    BY <1>1, <1>3, <1>4, <1>8, <1>9 DEF PollTo, TaskPaid, PaidBoth, InHand
  <1>11. TaskBilled(t)'
    BY <1>4 DEF PollTo, TaskBilled, InHand
  <1> QED BY <1>4, <1>5, <1>6, <1>7, <1>8, <1>10, <1>11, TaskStep DEF PollTo

LEMMA BillingStep ==
    ASSUME TaskInv, RefundFunding \/ RefundToken \/ SettleFunding \/ SettleToken
    PROVE  TaskInv'
  <1>1. PICK t \in Tasks : poll.task = t
    BY DEF TaskInv, PollShape, RefundFunding, RefundToken, SettleFunding, SettleToken
  <1>2. paid \in [Tasks -> Int] /\ paidToken \in [Tasks -> Int] /\ Quota[t] \in Nat /\ SettleDelta(t) \in Int
    BY Amounts DEF TaskInv, TypeOK
  <1>3. CASE RefundFunding
    <2>1. poll.pc = "refund" /\ UNCHANGED <<row, paidToken, by, upstream, old, gone, fetch, fetches, revived>>
      BY <1>3 DEF RefundFunding, world, query, history
    <2>2. CASE paid' = [paid EXCEPT ![t] = @ - Quota[t]] /\ NoFault /\ poll' = [poll EXCEPT !.pc = "refundToken"]
      BY <1>1, <2>1, <2>2, FundingStep
    <2>3. CASE Fault(t) /\ poll' = BillingDone /\ UNCHANGED paid
      BY <1>1, <1>2, <2>1, <2>3, DoneStep
    <2> QED BY <1>1, <1>3, <2>2, <2>3 DEF RefundFunding
  <1>4. CASE SettleFunding
    <2>1. poll.pc = "settle" /\ UNCHANGED <<row, paidToken, by, upstream, old, gone, fetch, fetches, revived>>
      BY <1>4 DEF SettleFunding, world, query, history
    <2>2. CASE paid' = [paid EXCEPT ![t] = @ + SettleDelta(t)] /\ NoFault /\ poll' = [poll EXCEPT !.pc = "settleToken"]
      BY <1>1, <2>1, <2>2, FundingStep
    <2>3. CASE Fault(t) /\ poll' = Onward(t) /\ UNCHANGED paid
      <3>1. poll' = BillingDone
        BY <1>1, <2>1, <2>3 DEF TaskInv, PollShape, BillingDone
      <3> QED BY <1>1, <1>2, <2>1, <2>3, <3>1, DoneStep
    <2> QED BY <1>1, <1>4, <2>2, <2>3 DEF SettleFunding
  <1>5. CASE RefundToken
    <2>1. /\ poll.pc = "refundToken" /\ poll' = BillingDone
          /\ UNCHANGED <<row, paid, by, upstream, old, gone, fetch, fetches, revived>>
      BY <1>5 DEF RefundToken, world, query, history
    <2>2. CASE paidToken' = [paidToken EXCEPT ![t] = @ - Quota[t]] /\ NoFault
      <3>1. /\ paidToken' \in [Tasks -> Int] /\ \A u \in Tasks \ {t} : paidToken'[u] = paidToken[u]
            /\ paidToken'[t] = paidToken[t] - Quota[t]
        BY <1>2, <2>2
      <3> QED BY <1>1, <2>1, <2>2, <3>1, DoneStep
    <2>3. CASE Fault(t) /\ UNCHANGED paidToken
      BY <1>1, <1>2, <2>1, <2>3, DoneStep
    <2> QED BY <1>1, <1>5, <2>2, <2>3 DEF RefundToken
  <1>6. CASE SettleToken
    <2>1. /\ poll.pc = "settleToken" /\ poll' = Onward(t)
          /\ UNCHANGED <<row, paid, by, upstream, old, gone, fetch, fetches, revived>>
      BY <1>1, <1>6 DEF SettleToken, world, query, history
    <2>2. poll' = BillingDone
      BY <1>1, <2>1 DEF TaskInv, PollShape, BillingDone
    <2>3. CASE paidToken' = [paidToken EXCEPT ![t] = @ + SettleDelta(t)] /\ NoFault
      <3>1. /\ paidToken' \in [Tasks -> Int] /\ \A u \in Tasks \ {t} : paidToken'[u] = paidToken[u]
            /\ paidToken'[t] = paidToken[t] + SettleDelta(t)
        BY <1>2, <2>3
      <3> QED BY <1>1, <2>1, <2>2, <2>3, <3>1, DoneStep
    <2>4. CASE Fault(t) /\ UNCHANGED paidToken
      BY <1>1, <1>2, <2>1, <2>2, <2>4, DoneStep
    <2> QED BY <1>1, <1>6, <2>3, <2>4 DEF SettleToken
  <1> QED BY <1>3, <1>4, <1>5, <1>6

-----------------------------------------------------------------------------
(* Queries of users and restarts.                                          *)

LEMMA FetchWriteStep ==
    ASSUME TaskInv, NEW t \in Tasks, FetchWrite(t)
    PROVE  TaskInv'
  <1>1. /\ fetch[t] # None /\ fetch' = [fetch EXCEPT ![t] = None]
        /\ UNCHANGED <<paid, paidToken, upstream, old, gone, poll, disturbed, faults, fetches>>
    BY DEF FetchWrite, money, world, failing
  <1>2. fetch[t] \in Status /\ t \in Realtime /\ t \notin Suno
    BY <1>1, TaskAssumption DEF TaskInv, TypeOK, Queries
  <1>3. /\ fetch' \in [Tasks -> Status \cup {None}]
        /\ \A u \in Tasks : fetch'[u] # None => u \in Realtime
    BY <1>1, <1>2 DEF TaskInv, TypeOK, Queries
  <1>4. CASE UNCHANGED <<row, by, revived>>
    <2>1. TypeOK'
      BY <1>1, <1>3, <1>4 DEF TaskInv, TypeOK
    <2> QED BY <1>1, <1>3, <1>4, <2>1, OutsideStep
  <1>5. CASE /\ row' = [row EXCEPT ![t] = upstream[t]] /\ WrittenBy(t, upstream[t], "fetch")
             /\ revived' = IF row[t] \in Ended THEN revived \cup {t} ELSE revived
    <2>1. /\ row' \in [Tasks -> Status] /\ by' \in [Tasks -> {"nobody", "sweep", "poll", "bulk", "fetch"}]
          /\ revived' \subseteq Tasks /\ (row'[t] \in Ended => by'[t] = "fetch")
          /\ \A u \in Tasks \ {t} : row'[u] = row[u] /\ by'[u] = by[u] /\ (u \in revived' <=> u \in revived)
          /\ row[t] \notin Ended => revived' = revived
          /\ row[t] \in Ended => t \in revived'
      BY <1>5 DEF TaskInv, TypeOK, WrittenBy
    <2>2. TypeOK'
      BY <1>1, <1>3, <2>1 DEF TaskInv, TypeOK
    <2>3. PollShape'
      BY <1>1 DEF TaskInv, PollShape
    <2>4. Queries'
      <3>1. revived' \cap Suno = {}
        BY <1>2, <1>5 DEF TaskInv, Queries
      <3>2. \A u \in poll'.todo \cap Suno : poll'.task # u => row'[u] \in Live
        BY <1>1, <1>2, <2>1 DEF TaskInv, TypeOK, Queries
      <3> QED BY <1>3, <3>1, <3>2 DEF Queries
    <2>5. ASSUME NEW u \in Tasks \ {t} PROVE TaskPaid(u)' /\ TaskBilled(u)'
      <3>1. TaskPaid(u) /\ TaskBilled(u) /\ (InHand(u)' <=> InHand(u))
        BY <1>1, <2>5 DEF TaskInv, InHand
      <3>2. TaskPaid(u)'
        BY <1>1, <2>1, <2>5, <3>1 DEF TaskPaid, PaidBoth
      <3>3. TaskBilled(u)'
        BY <1>1, <2>1, <2>5, <3>1 DEF TaskBilled, PaidBoth, Due
      <3> QED BY <3>2, <3>3
    <2>6. TaskPaid(t)'
      <3> SUFFICES ASSUME t \notin revived' PROVE TaskPaid(t)'
        BY DEF TaskPaid
      <3>1. row[t] \in Live /\ t \notin revived /\ TaskPaid(t) /\ (InHand(t)' <=> InHand(t))
            /\ (poll.back = "save" => ~ InHand(t))
        BY <1>1, <1>2, <2>1 DEF TaskInv, TypeOK, Status, InHand, PollShape
      <3> QED BY <1>1, <1>2, <2>1, <3>1 DEF TaskPaid, PaidBoth, Live, PollShape, TaskInv
    <2>7. TaskBilled(t)'
      BY <2>1 DEF TaskBilled
    <2> QED BY <2>2, <2>3, <2>4, <2>5, <2>6, <2>7 DEF TaskInv
  <1> QED BY <1>4, <1>5 DEF FetchWrite, history

LEMMA CrashStep == ASSUME TaskInv, Crash PROVE TaskInv'
  <1>1. /\ poll' = Idle /\ faults' = faults + 1 /\ faults < MaxFaults
        /\ disturbed' = disturbed \cup ({poll.task} \ {None})
        /\ UNCHANGED <<row, paid, paidToken, upstream, old, gone, fetch, fetches, by, revived>>
    BY DEF Crash, money, world, query, history
  <1>2. /\ poll' \in PollRecords /\ poll'.task = None /\ poll'.pc = "idle"
        /\ poll'.back = "idle" /\ poll'.todo = {} /\ \A u \in Tasks : poll'.seen[u] \in Live
    BY <1>1, IdleFields
  <1>3. TypeOK'
    <2>1. disturbed' \subseteq Tasks /\ faults' \in 0 .. MaxFaults
      BY <1>1, TaskAssumption DEF TaskInv, TypeOK
    <2> QED BY <1>1, <1>2, <2>1 DEF TaskInv, TypeOK, PollRecords
  <1>4. PollShape' /\ Queries'
    BY <1>1, <1>2, TaskAssumption DEF TaskInv, PollShape, Queries
  <1>5. ASSUME NEW u \in Tasks PROVE TaskPaid(u)' /\ TaskBilled(u)'
    <2>1. TaskPaid(u) /\ TaskBilled(u) /\ ~ InHand(u)' /\ u # None /\ (InHand(u) => u \in disturbed')
      BY <1>1, <1>2, <1>5, TaskAssumption DEF TaskInv, InHand
    <2>2. CASE ~ InHand(u)
      <3>1. TaskPaid(u)'
        BY <1>1, <2>1, <2>2 DEF TaskPaid, PaidBoth
      <3>2. TaskBilled(u)'
        BY <1>1, <2>1, <2>2 DEF TaskBilled, PaidBoth, Due
      <3> QED BY <3>1, <3>2
    <2>3. CASE InHand(u)
      <3>1. TaskBilled(u)'
        BY <2>1, <2>3 DEF TaskBilled
      <3>2. TaskPaid(u)'
        <4> SUFFICES ASSUME u \notin revived, u \notin Suno PROVE TaskPaid(u)'
          BY <1>1, <2>1, <2>3 DEF TaskPaid
        <4>1. poll.pc \in {"cas", "settle", "settleToken", "refund", "refundToken"} /\ poll.back # "save"
          BY <1>5, <2>3 DEF TaskInv, TypeOK, PollShape, InHand
        <4>2. row[u] \in Live => PaidBoth(u, Quota[u])
          BY <2>1, <2>3, <4>1 DEF TaskPaid, Live
        <4> QED BY <1>1, <2>1, <4>2 DEF TaskPaid, PaidBoth
      <3> QED BY <3>1, <3>2
    <2> QED BY <2>2, <2>3
  <1> QED BY <1>3, <1>4, <1>5 DEF TaskInv

LEMMA WorldStep ==
    ASSUME TaskInv, NEW t \in Tasks, UpstreamMoves(t) \/ TimesOut(t) \/ ChannelGone(t) \/ FetchRead(t)
    PROVE  TaskInv'
  <1>1. UNCHANGED <<row, paid, paidToken, poll, by, revived, disturbed>>
    BY DEF UpstreamMoves, TimesOut, ChannelGone, FetchRead, money, history, failing
  <1>2. \A u \in Tasks : fetch'[u] # None => u \in Realtime
    BY DEF UpstreamMoves, TimesOut, ChannelGone, FetchRead, query, TaskInv, TypeOK, Queries
  <1>3. TypeOK'
    <2>1. CASE UpstreamMoves(t)
      BY <2>1 DEF UpstreamMoves, TaskInv, TypeOK, money, query, history, failing, Status, Live, Ended
    <2>2. CASE TimesOut(t)
      BY <2>2 DEF TimesOut, TaskInv, TypeOK, money, query, history, failing
    <2>3. CASE ChannelGone(t)
      BY <2>3, TaskAssumption DEF ChannelGone, TaskInv, TypeOK, money, query, history
    <2>4. CASE FetchRead(t)
      BY <2>4, TaskAssumption DEF FetchRead, TaskInv, TypeOK, money, world, history, failing
    <2> QED BY <2>1, <2>2, <2>3, <2>4
  <1> QED BY <1>1, <1>2, <1>3, OutsideStep

-----------------------------------------------------------------------------
(* Theorems.                                                               *)

LEMMA InitTaskInv == ASSUME Init PROVE TaskInv
  <1>1. /\ poll = [pc |-> "idle", todo |-> {}, seen |-> [t \in Tasks |-> "submitted"], task |-> None,
                   answer |-> "submitted", back |-> "idle"]
    BY DEF Init, Idle
  <1>2. TypeOK
    BY <1>1, TaskAssumption DEF Init, TypeOK, Status, Live
  <1>3. PollShape
    BY <1>1, TaskAssumption DEF PollShape, Live
  <1>4. ASSUME NEW t \in Tasks PROVE TaskPaid(t) /\ TaskBilled(t)
    <2>1. /\ paid[t] = Quota[t] /\ paidToken[t] = Quota[t] /\ by[t] = "nobody" /\ ~ InHand(t)
      BY <1>1, <1>4, TaskAssumption DEF Init, InHand
    <2> QED BY <2>1 DEF TaskPaid, TaskBilled, PaidBoth
  <1>5. Queries
    <2>1. (\A t \in Tasks : fetch[t] = None) /\ revived = {} /\ poll.todo = {}
      BY <1>1 DEF Init
    <2> QED BY <2>1 DEF Queries
  <1> QED BY <1>2, <1>3, <1>4, <1>5 DEF TaskInv

LEMMA NextTaskInv == ASSUME TaskInv, [Next]_vars PROVE TaskInv'
  <1>1. ASSUME NEW t \in poll.todo,
               SweepCas(t) \/ PollGone(t) \/ PollNoAnswer(t) \/ VideoAnswer(t) \/ SunoAnswer(t)
        PROVE  TaskInv'
    BY <1>1, SweepCasStep, PollGoneStep, PollNoAnswerStep, VideoAnswerStep, SunoAnswerStep
  <1>2. CASE VideoCas \/ SunoSave
    <2>1. poll.task \in Tasks /\ poll.answer \in Status
      BY <1>2 DEF VideoCas, SunoSave, TaskInv, TypeOK, PollShape
    <2> QED BY <1>2, <2>1, VideoCasStep, SunoSaveStep
  <1>3. CASE UNCHANGED vars
    <2>1. UNCHANGED <<row, paid, paidToken, poll, by, revived, disturbed, fetch>> /\ TypeOK'
      BY <1>3 DEF vars, TaskInv, TypeOK
    <2> QED BY <2>1, OutsideStep DEF TaskInv, Queries
  <1> QED BY <1>1, <1>2, <1>3, ReadsStep, BillingStep, WorldStep, FetchWriteStep, CrashStep DEF Next, Poller

\* The inductive invariant holds in every state of the polling loop and its tasks.
THEOREM TaskInvariant == Spec => []TaskInv
  <1>1. Init => TaskInv
    BY InitTaskInv
  <1>2. TaskInv /\ [Next]_vars => TaskInv'
    BY NextTaskInv
  <1> QED BY <1>1, <1>2, PTL DEF Spec

\* Rows, money and the loop keep their types: the loop is never at a place, or with a
\* task in hand, that the code of service/task_polling.go does not have.
THEOREM TaskTypeCorrect == Spec => []TypeOK
  <1>1. TaskInv => TypeOK
    BY DEF TaskInv
  <1> QED BY <1>1, TaskInvariant, PTL

\* However the sweep, the poll, users' queries, restarts and failing statements
\* interleave, a task the loop ended has paid what its end is worth and no task gets
\* back more than it paid (RefundTaskQuota, settleTaskBillingOnComplete).
THEOREM PaidAsEndedThm == Spec => []PaidAsEnded
  <1>1. TaskInv => PaidAsEnded
    <2> SUFFICES ASSUME TaskInv PROVE PaidAsEnded
      OBVIOUS
    <2>1. RefundedOnce
      <3> SUFFICES ASSUME NEW t \in Tasks \ revived, t \in Suno => t \notin disturbed
                   PROVE  paid[t] >= 0 /\ paidToken[t] >= 0
        BY DEF RefundedOnce
      <3>1. /\ paid[t] \in {0, Quota[t], Quota[t] + SettleDelta(t)}
            /\ paidToken[t] \in {0, Quota[t], Quota[t] + SettleDelta(t)}
        BY DEF TaskInv, TaskPaid
      <3>2. Quota[t] \in Nat /\ Quota[t] + SettleDelta(t) \in Nat
        BY Amounts
      <3> QED BY <3>1, <3>2
    <2>2. BilledAsEnded
      BY DEF TaskInv, TaskBilled, Due, PaidBoth, BilledAsEnded
    <2> QED BY <2>1, <2>2 DEF PaidAsEnded
  <1> QED BY <1>1, TaskInvariant, PTL

-----------------------------------------------------------------------------
(***************************************************************************)
(* Midjourney tasks. The charge is deferred to the end of the submission,  *)
(* so the loop can end a row, and give its quota back, before it is        *)
(* charged: the books (BooksKept) say of every row, at any moment, that it *)
(* has paid the price unless its charge is still to come, less the price   *)
(* once the loop has refunded it. They are inductive because a row waits   *)
(* for one charge only (OneCharge), and because the row whose refund the   *)
(* loop has in hand was ended by the loop, as failed (RefundOwed).         *)
(***************************************************************************)

MjStatuses == {"", "IN_PROGRESS", "SUCCESS", "FAILURE"}
MjRow == [mj : MjIds \cup {""}, status : MjStatuses, done : BOOLEAN, reason : BOOLEAN]
MjItems == {Unknown, Running, Drawn} \cup Failures

\* The rows and what is kept beside them, the submissions and the loop.
RowsTyped ==
    /\ rows \in Seq(MjRow) /\ mjPaid \in Seq(Int) /\ ender \in Seq({"", "loop", "notice", "bulk"})
    /\ Len(mjPaid) = Len(rows) /\ Len(ender) = Len(rows)
    /\ proxy \in [MjIds -> MjItems]

CallsTyped ==
    /\ call \in [Calls -> [pc : {"idle", "sent", "charge"}, mode : Modes \cup {""}, row : Nat]]
    /\ \A c \in Calls : call[c].row # 0 => call[c].pc = "charge" /\ call[c].row \in DOMAIN rows

NoticeTyped ==
    /\ notice = [row |-> notice.row, item |-> notice.item] /\ notice.item \in MjItems
    /\ notice # NoNotice => notice.row \in DOMAIN rows

\* A round of the loop remembers rows, and answers for tasks it asked for.
LoopTyped ==
    /\ loop = [pc |-> loop.pc, tasks |-> loop.tasks, items |-> loop.items, row |-> loop.row]
    /\ DOMAIN loop.tasks \subseteq MjIds /\ DOMAIN loop.items \subseteq DOMAIN loop.tasks
    /\ \A m \in DOMAIN loop.tasks :
          loop.tasks[m].row \in DOMAIN rows /\ loop.tasks[m].seen \in MjRow
    /\ \A m \in DOMAIN loop.items : loop.items[m] \in MjItems
    /\ loop.row # 0 <=> loop.pc = "refund"
    /\ loop.row = 0 \/ loop.row \in DOMAIN rows

\* A row waits for one charge.
OneCharge ==
    \A c, d \in Calls : call[c].row # 0 /\ call[c].row = call[d].row => c = d

Regular(r) == r \notin loose \cup broken \cup rewritten
Uncharged(r) == \E c \in Calls : call[c].row = r
EndedByLoop(r) == rows[r].done /\ ender[r] = "loop" /\ rows[r].status = "FAILURE"

\* The row whose refund the loop has in hand was ended by it, as failed.
RefundOwed == loop.row # 0 /\ Regular(loop.row) => EndedByLoop(loop.row)

\* What a regular row has paid at any moment.
BooksKept ==
    \A r \in DOMAIN rows : Regular(r) =>
        mjPaid[r] = (IF Uncharged(r) THEN 0 ELSE Price)
                    - (IF EndedByLoop(r) /\ loop.row # r THEN Price ELSE 0)

MjInv == RowsTyped /\ CallsTyped /\ NoticeTyped /\ LoopTyped /\ OneCharge /\ RefundOwed /\ BooksKept

-----------------------------------------------------------------------------
(* Facts about the rows and the items.                                     *)

LEMMA FunctionIsSequence ==
    ASSUME NEW S, NEW n \in Nat, NEW f \in [1 .. n -> S]
    PROVE  f \in Seq(S) /\ Len(f) = n /\ DOMAIN f = 1 .. n
  OBVIOUS

LEMMA LeastNumber ==
    ASSUME NEW S, S \subseteq Nat, S # {}
    PROVE  \E n \in S : \A m \in S : n <= m
  <1>1. PICK n \in S : \A m \in S : <<m, n>> \notin OpToRel(<, Nat)
    BY NatLessThanWellFounded, WFMin
  <1>2. ASSUME NEW m \in S PROVE ~ (m < n)
    <2>1. m \in Nat /\ n \in Nat
      OBVIOUS
    <2> QED BY <1>1, <2>1, Zenon DEF OpToRel
  <1>3. ASSUME NEW m \in S PROVE n <= m
    BY <1>2
  <1> QED BY <1>3

LEMMA ItemCases ==
    ASSUME NEW i \in MjItems
    PROVE  \E status \in MjStatuses, full \in BOOLEAN, reason \in BOOLEAN :
              /\ i = [status |-> status, full |-> full, reason |-> reason]
              /\ reason <=> status = "FAILURE"
  <1>1. CASE i = Unknown
    BY <1>1 DEF Unknown, Item, MjStatuses
  <1>2. CASE i = Running
    BY <1>2 DEF Running, Item, MjStatuses
  <1>3. CASE i = Drawn
    BY <1>3 DEF Drawn, Item, MjStatuses
  <1>4. CASE i = Item("FAILURE", FALSE, TRUE)
    BY <1>4 DEF Item, MjStatuses
  <1>5. CASE i = Item("FAILURE", TRUE, TRUE)
    BY <1>5 DEF Item, MjStatuses
  <1> QED BY <1>1, <1>2, <1>3, <1>4, <1>5 DEF MjItems, Failures

\* A failure the loop finds is one it writes: an item of the proxy that fails says so, and
\* the hour makes every item fail.
LEMMA JudgedFields ==
    ASSUME NEW i \in MjItems, NEW r
    PROVE  /\ Judged(r, i).status \in MjStatuses /\ Judged(r, i).full \in BOOLEAN
           /\ Judged(r, i).reason \in BOOLEAN
           /\ Failed(Judged(r, i)) <=> Judged(r, i).status = "FAILURE"
  <1>1. PICK status \in MjStatuses, full \in BOOLEAN, reason \in BOOLEAN :
              /\ i = [status |-> status, full |-> full, reason |-> reason]
              /\ reason <=> status = "FAILURE"
    BY ItemCases
  <1>2. CASE r \in aged
    <2>1. Judged(r, i) = [status |-> "FAILURE", full |-> full, reason |-> TRUE]
      BY <1>1, <1>2 DEF Judged
    <2>2. "FAILURE" \in MjStatuses
      BY DEF MjStatuses
    <2> QED BY <2>1, <2>2 DEF Failed
  <1>3. CASE r \notin aged
    <2>1. Judged(r, i) = [status |-> status, full |-> full, reason |-> reason]
      BY <1>1, <1>3 DEF Judged
    <2> QED BY <1>1, <2>1 DEF Failed
  <1> QED BY <1>2, <1>3

LEMMA RowFacts ==
    ASSUME RowsTyped
    PROVE  /\ DOMAIN rows = 1 .. Len(rows) /\ Len(rows) \in Nat
           /\ DOMAIN mjPaid = DOMAIN rows /\ DOMAIN ender = DOMAIN rows
           /\ \A r \in DOMAIN rows : rows[r] \in MjRow /\ mjPaid[r] \in Int
           /\ 0 \notin DOMAIN rows
  <1>1. DOMAIN rows = 1 .. Len(rows) /\ Len(rows) \in Nat
    BY LenProperties DEF RowsTyped
  <1>2. DOMAIN mjPaid = DOMAIN rows /\ DOMAIN ender = DOMAIN rows
    BY <1>1, LenProperties DEF RowsTyped
  <1>3. ASSUME NEW r \in DOMAIN rows PROVE rows[r] \in MjRow /\ mjPaid[r] \in Int
    BY <1>1, <1>2, ElementOfSeq DEF RowsTyped
  <1> QED BY <1>1, <1>2, <1>3

LEMMA WrittenRow ==
    ASSUME NEW entry \in MjRow, NEW i \in MjItems, NEW r
    PROVE  /\ Written(entry, Judged(r, i)) \in MjRow
           /\ Written(entry, Judged(r, i)).status = Judged(r, i).status
           /\ Written(entry, Judged(r, i)).done = (Judged(r, i).full \/ Failed(Judged(r, i)))
  <1> DEFINE j == Judged(r, i)
             d == j.full \/ Failed(j)
  <1>1. j.status \in MjStatuses /\ j.full \in BOOLEAN /\ j.reason \in BOOLEAN
    BY JudgedFields
  <1>2. d \in BOOLEAN
    OBVIOUS
  <1>3. Written(entry, j) = [entry EXCEPT !.status = j.status, !.done = d, !.reason = j.reason]
    BY DEF Written
  <1> HIDE DEF j, d
  <1>4. PICK x : Written(entry, j) = x
    OBVIOUS
  <1>5. x = [mj |-> entry.mj, status |-> j.status, done |-> d, reason |-> j.reason]
    BY <1>3, <1>4 DEF MjRow
  <1>6. x \in MjRow /\ x.status = j.status /\ x.done = d
    BY <1>1, <1>2, <1>5 DEF MjRow
  <1> QED BY <1>4, <1>6 DEF j, d

-----------------------------------------------------------------------------
(* What steps that do not bill leave alone.                                *)

MjBooks == <<rows, mjPaid, loose, ender, rewritten, broken>>

LEMMA BooksUntouched ==
    ASSUME MjInv, UNCHANGED MjBooks, loop'.row = loop.row,
           \A r \in DOMAIN rows : Uncharged(r)' <=> Uncharged(r)
    PROVE  RefundOwed' /\ BooksKept'
  BY DEF MjInv, MjBooks, RefundOwed, BooksKept, Regular, EndedByLoop, LoopTyped

LEMMA SameCalls ==
    ASSUME call' = call, NEW r
    PROVE  Uncharged(r)' <=> Uncharged(r)
  BY DEF Uncharged

\* A notification or a bulk update writes rows: one that had ended is rewritten, the others
\* end without a refund.
LEMMA RowsWritten ==
    ASSUME MjInv, NEW rs \in SUBSET DOMAIN rows, NEW who \in {"notice", "bulk"},
           DOMAIN rows' = DOMAIN rows, \A r \in DOMAIN rows \ rs : rows'[r] = rows[r],
           WrittenRows(rs, who), call' = call, loop'.row = loop.row,
           UNCHANGED <<mjPaid, loose, broken>>
    PROVE  RefundOwed' /\ BooksKept'
  <1>1. /\ \A r : Regular(r)' => Regular(r)
        /\ \A r \in rs : Regular(r)' => ~ rows[r].done /\ ~ EndedByLoop(r) /\ ~ EndedByLoop(r)'
        /\ \A r \in DOMAIN rows \ rs : EndedByLoop(r)' <=> EndedByLoop(r)
    BY RowFacts DEF MjInv, WrittenRows, Regular, EndedByLoop
  <1>2. \A r : Uncharged(r)' <=> Uncharged(r)
    BY SameCalls
  <1>3. RefundOwed'
    BY <1>1 DEF MjInv, RefundOwed, LoopTyped
  <1>4. BooksKept'
    BY <1>1, <1>2, <1>3 DEF MjInv, BooksKept
  <1> QED BY <1>3, <1>4

LEMMA RowsReplaced ==
    ASSUME RowsTyped, rows' \in [DOMAIN rows -> MjRow], NEW rs,
           NEW who \in {"loop", "notice", "bulk"}, WrittenRows(rs, who), UNCHANGED <<mjPaid, proxy>>
    PROVE  RowsTyped' /\ DOMAIN rows' = DOMAIN rows
  <1> DEFINE Enders == {"", "loop", "notice", "bulk"}
             n == Len(rows)
  <1>1. n \in Nat /\ DOMAIN rows = 1 .. n /\ DOMAIN ender = 1 .. n
    BY RowFacts
  <1>2. rows' \in [1 .. n -> MjRow]
    BY <1>1
  <1>3. ender' \in [1 .. n -> Enders]
    <2>1. ender \in [1 .. n -> Enders]
      BY <1>1, LenProperties DEF RowsTyped
    <2> QED BY <1>1, <2>1 DEF WrittenRows
  <1> HIDE DEF n, Enders
  <1>4. rows' \in Seq(MjRow) /\ Len(rows') = n /\ DOMAIN rows' = 1 .. n
    BY <1>1, <1>2, FunctionIsSequence
  <1>5. ender' \in Seq(Enders) /\ Len(ender') = n
    BY <1>1, <1>3, FunctionIsSequence
  <1> QED BY <1>1, <1>4, <1>5 DEF RowsTyped, n, Enders

\* What the types of the submissions, the notification and the loop need of the rows.
LEMMA SameRowNumbers ==
    ASSUME DOMAIN rows' = DOMAIN rows
    PROVE  /\ CallsTyped /\ call' = call => CallsTyped'
           /\ NoticeTyped /\ notice' = notice => NoticeTyped'
           /\ LoopTyped /\ loop' = loop => LoopTyped'
           /\ OneCharge /\ call' = call => OneCharge'
  <1>1. CallsTyped /\ call' = call => CallsTyped'
    BY DEF CallsTyped
  <1>2. NoticeTyped /\ notice' = notice => NoticeTyped'
    BY DEF NoticeTyped
  <1>3. LoopTyped /\ loop' = loop => LoopTyped'
    BY DEF LoopTyped
  <1>4. OneCharge /\ call' = call => OneCharge'
    BY DEF OneCharge
  <1> QED BY <1>1, <1>2, <1>3, <1>4

LEMMA AsleepTyped == loop' = Asleep => LoopTyped' /\ loop'.row = 0
  <1> SUFFICES ASSUME loop' = Asleep PROVE LoopTyped' /\ loop'.row = 0
    OBVIOUS
  <1>1. DOMAIN <<>> = {}
    OBVIOUS
  <1>2. loop'.pc = "sleep" /\ loop'.tasks = <<>> /\ loop'.items = <<>> /\ loop'.row = 0
    BY DEF Asleep
  <1>3. loop' = [pc |-> loop'.pc, tasks |-> loop'.tasks, items |-> loop'.items, row |-> loop'.row]
    BY <1>2 DEF Asleep
  <1> QED BY <1>1, <1>2, <1>3 DEF LoopTyped

-----------------------------------------------------------------------------
(* The submission.                                                         *)

LEMMA CallMoves ==
    ASSUME MjInv, NEW c \in Calls, call[c].row = 0,
           NEW new \in [pc : {"idle", "sent", "charge"}, mode : Modes \cup {""}, row : Nat],
           new.row = 0, call' = [call EXCEPT ![c] = new], DOMAIN rows' = DOMAIN rows
    PROVE  /\ CallsTyped' /\ OneCharge'
           /\ \A r \in DOMAIN rows : Uncharged(r)' <=> Uncharged(r)
  <1>1. CallsTyped'
    BY DEF MjInv, CallsTyped
  <1>2. \A d \in Calls : call'[d].row = call[d].row
    BY DEF MjInv, CallsTyped
  <1>3. OneCharge'
    BY <1>2 DEF MjInv, OneCharge
  <1>4. \A r : Uncharged(r)' <=> Uncharged(r)
    BY <1>2 DEF Uncharged
  <1> QED BY <1>1, <1>3, <1>4

LEMMA NoCallTyped ==
    /\ NoCall \in [pc : {"idle", "sent", "charge"}, mode : Modes \cup {""}, row : Nat]
    /\ NoCall.row = 0
  BY DEF NoCall

LEMMA SubmitStep == ASSUME MjInv, NEW c \in Calls, Submit(c) PROVE MjInv'
  <1>1. call[c].row = 0
    BY DEF MjInv, CallsTyped, Submit
  <1>2. PICK mode \in Modes : call' = [call EXCEPT ![c] = [pc |-> "sent", mode |-> mode, row |-> 0]]
    BY DEF Submit
  <1>3. CallsTyped' /\ OneCharge' /\ \A r \in DOMAIN rows : Uncharged(r)' <=> Uncharged(r)
    BY <1>1, <1>2, CallMoves DEF Submit
  <1>4. NoticeTyped' /\ LoopTyped'
    BY SameRowNumbers DEF MjInv, Submit
  <1>5. RowsTyped'
    BY DEF MjInv, RowsTyped, Submit, mjHistory
  <1>6. RefundOwed' /\ BooksKept'
    BY <1>3, BooksUntouched DEF Submit, mjHistory, MjBooks
  <1> QED BY <1>3, <1>4, <1>5, <1>6 DEF MjInv

LEMMA SubmitFailsStep == ASSUME MjInv, NEW c \in Calls, SubmitFails(c) PROVE MjInv'
  <1>1. call[c].row = 0
    BY DEF MjInv, CallsTyped, SubmitFails
  <1>3. CallsTyped' /\ OneCharge' /\ \A r \in DOMAIN rows : Uncharged(r)' <=> Uncharged(r)
    BY <1>1, CallMoves, NoCallTyped DEF SubmitFails
  <1>4. NoticeTyped' /\ LoopTyped'
    BY SameRowNumbers DEF MjInv, SubmitFails
  <1>5. RowsTyped'
    BY DEF MjInv, RowsTyped, SubmitFails, mjHistory
  <1>6. RefundOwed' /\ BooksKept'
    BY <1>3, BooksUntouched DEF SubmitFails, mjHistory, MjBooks
  <1> QED BY <1>3, <1>4, <1>5, <1>6 DEF MjInv

LEMMA ProxyTyped ==
    ASSUME RowsTyped, NEW m \in MjIds, NEW i \in MjItems
    PROVE  [proxy EXCEPT ![m] = i] \in [MjIds -> MjItems]
  BY DEF RowsTyped

LEMMA AnswerFields ==
    ASSUME NEW a \in Answers
    PROVE  /\ a.mj \in MjIds \cup {""}
           /\ a.code \in {1, 21, 22} => a.mj \in MjIds
  <1>1. a.mj \in MjIds \cup {""}
    BY DEF Answers
  <1>2. a.code \in {1, 22} => a.mj \in MjIds
    BY DEF Answers, Fresh
  <1>3. a.code = 21 => a.mj \in MjIds
    BY DEF Answers
  <1> QED BY <1>1, <1>2, <1>3

LEMMA InsertFailsStep == ASSUME MjInv, NEW c \in Calls, InsertFails(c) PROVE MjInv'
  <1>1. call[c].row = 0
    BY DEF MjInv, CallsTyped, InsertFails
  <1>2. PICK a \in Answers :
          /\ proxy' = IF a.code \in {1, 22} THEN [proxy EXCEPT ![a.mj] = Running] ELSE proxy
          /\ call' = [call EXCEPT ![c] = IF Charged(call[c].mode, a.code, TRUE)
                                         THEN [NoCall EXCEPT !.pc = "charge"] ELSE NoCall]
    BY DEF InsertFails
  <1>3. CallsTyped' /\ OneCharge' /\ \A r \in DOMAIN rows : Uncharged(r)' <=> Uncharged(r)
    <2>1. PICK new : new = IF Charged(call[c].mode, a.code, TRUE)
                           THEN [NoCall EXCEPT !.pc = "charge"] ELSE NoCall
      OBVIOUS
    <2>2. new \in [pc : {"idle", "sent", "charge"}, mode : Modes \cup {""}, row : Nat] /\ new.row = 0
      BY <2>1 DEF NoCall
    <2> QED BY <1>1, <1>2, <2>1, <2>2, CallMoves DEF InsertFails
  <1>4. NoticeTyped' /\ LoopTyped'
    BY SameRowNumbers DEF MjInv, InsertFails
  <1>5. RowsTyped'
    <2>1. Running \in MjItems
      BY DEF MjItems
    <2>2. proxy' \in [MjIds -> MjItems]
      BY <1>2, <2>1, AnswerFields, ProxyTyped DEF MjInv, RowsTyped
    <2> QED BY <2>2 DEF MjInv, RowsTyped, InsertFails, mjHistory
  <1>6. RefundOwed' /\ BooksKept'
    BY <1>3, BooksUntouched DEF InsertFails, mjHistory, MjBooks
  <1> QED BY <1>3, <1>4, <1>5, <1>6 DEF MjInv

LEMMA NewRowTyped ==
    ASSUME RowsTyped, NEW a \in Answers, NEW mode
    PROVE  NewRow(mode, a) \in MjRow
  <1> DEFINE there == a.code = 21 /\ mode # "swap"
             drawn == there /\ proxy[a.mj] = Drawn
             upload == mode = "upload" /\ (a.code = 1 \/ drawn)
             status == IF upload THEN "SUCCESS" ELSE IF there THEN proxy[a.mj].status ELSE ""
             done == drawn \/ upload
             reason == mode # "swap" /\ a.code \notin Accepted
  <1>1. there => proxy[a.mj] \in MjItems
    BY AnswerFields DEF RowsTyped
  <1>2. status \in MjStatuses
    <2>1. "" \in MjStatuses /\ "SUCCESS" \in MjStatuses
      BY DEF MjStatuses
    <2>2. there => proxy[a.mj].status \in MjStatuses
      BY <1>1, ItemCases
    <2> QED BY <2>1, <2>2
  <1>3. done \in BOOLEAN /\ reason \in BOOLEAN
    OBVIOUS
  <1>4. a.mj \in MjIds \cup {""}
    BY AnswerFields
  <1>5. NewRow(mode, a) = [mj |-> a.mj, status |-> status, done |-> done, reason |-> reason]
    BY DEF NewRow
  <1> HIDE DEF status, done, reason
  <1>6. [mj |-> a.mj, status |-> status, done |-> done, reason |-> reason] \in MjRow
    BY <1>2, <1>3, <1>4 DEF MjRow
  <1> QED BY <1>5, <1>6

LEMMA Appended ==
    ASSUME NEW S, NEW s \in Seq(S), NEW e \in S
    PROVE  /\ Append(s, e) \in Seq(S) /\ Len(Append(s, e)) = Len(s) + 1
           /\ DOMAIN Append(s, e) = 1 .. (Len(s) + 1) /\ Append(s, e)[Len(s) + 1] = e
           /\ \A i \in 1 .. Len(s) : Append(s, e)[i] = s[i]
  BY AppendProperties, LenProperties

LEMMA AnsweredStep == ASSUME MjInv, NEW c \in Calls, Answered(c) PROVE MjInv'
  <1> DEFINE mode == call[c].mode
  <1>0. PICK k : k = Len(rows) + 1
    OBVIOUS
  <1>1. PICK a \in Answers, ok \in BOOLEAN :
          /\ rows' = Append(rows, NewRow(mode, a)) /\ mjPaid' = Append(mjPaid, 0)
          /\ ender' = Append(ender, "")
          /\ proxy' = IF a.code \in {1, 22} THEN [proxy EXCEPT ![a.mj] = Running] ELSE proxy
          /\ loose' = IF Charged(mode, a.code, ok) THEN loose ELSE loose \cup {k}
          /\ call' = [call EXCEPT ![c] = IF Charged(mode, a.code, ok)
                                         THEN [pc |-> "charge", mode |-> "", row |-> k]
                                         ELSE NoCall]
    BY <1>0 DEF Answered
  <1>2. /\ call[c].pc = "sent" /\ call[c].row = 0
        /\ UNCHANGED <<loop, notice, rewritten, broken>>
    BY DEF Answered, MjInv, CallsTyped
  <1>3. /\ RowsTyped'
        /\ DOMAIN rows' = DOMAIN rows \cup {k} /\ k \notin DOMAIN rows /\ k \in Nat /\ k # 0
        /\ \A r \in DOMAIN rows : rows'[r] = rows[r] /\ mjPaid'[r] = mjPaid[r] /\ ender'[r] = ender[r]
        /\ mjPaid'[k] = 0 /\ ender'[k] = ""
    <2> DEFINE Enders == {"", "loop", "notice", "bulk"}
    <2>1. /\ rows \in Seq(MjRow) /\ mjPaid \in Seq(Int) /\ ender \in Seq(Enders)
          /\ Len(mjPaid) = Len(rows) /\ Len(ender) = Len(rows)
          /\ DOMAIN rows = 1 .. Len(rows) /\ Len(rows) \in Nat
      BY RowFacts DEF MjInv, RowsTyped
    <2>2. NewRow(mode, a) \in MjRow /\ "" \in Enders
      BY NewRowTyped DEF MjInv
    <2> HIDE DEF Enders, mode
    <2>8. PICK e \in MjRow : rows' = Append(rows, e)
      BY <1>1, <2>2
    <2>9. PICK z \in Int : z = 0 /\ mjPaid' = Append(mjPaid, z)
      <3>1. mjPaid' = Append(mjPaid, 0)
        BY <1>1, Zenon
      <3> QED BY ONLY <3>1
    <2>11. PICK q \in Enders : q = "" /\ ender' = Append(ender, q)
      BY <1>1, <2>2, Zenon
    <2>3. /\ rows' \in Seq(MjRow) /\ Len(rows') = Len(rows) + 1 /\ DOMAIN rows' = 1 .. (Len(rows) + 1)
          /\ \A r \in 1 .. Len(rows) : rows'[r] = rows[r]
      BY ONLY <2>1, <2>8, Appended
    <2>4. /\ mjPaid' \in Seq(Int) /\ Len(mjPaid') = Len(rows) + 1 /\ mjPaid'[Len(rows) + 1] = 0
          /\ \A r \in 1 .. Len(rows) : mjPaid'[r] = mjPaid[r]
      BY ONLY <2>1, <2>9, Appended
    <2>5. /\ ender' \in Seq(Enders) /\ Len(ender') = Len(rows) + 1 /\ ender'[Len(rows) + 1] = ""
          /\ \A r \in 1 .. Len(rows) : ender'[r] = ender[r]
      <3>1. /\ ender' \in Seq(Enders) /\ Len(ender') = Len(rows) + 1 /\ ender'[Len(rows) + 1] = q
            /\ \A r \in 1 .. Len(rows) : ender'[r] = ender[r]
        <4> HIDE <2>11
        <4>1. ender' = Append(ender, q)
          BY <2>11, Zenon
        <4> QED BY ONLY <2>1, <4>1, Appended, q \in Enders
      <3> QED BY <2>11, <3>1, Zenon
    <2>6. proxy' \in [MjIds -> MjItems]
      BY <1>1, AnswerFields, ProxyTyped DEF MjInv, RowsTyped, MjItems
    <2>7. RowsTyped'
      BY <2>3, <2>4, <2>5, <2>6 DEF RowsTyped, Enders
    <2>10. DOMAIN rows' = DOMAIN rows \cup {k} /\ k \notin DOMAIN rows /\ k \in Nat /\ k # 0
      BY ONLY <1>0, <2>1, <2>3
    <2> QED BY <1>0, <2>1, <2>3, <2>4, <2>5, <2>7, <2>10
  <1>4. 0 \notin DOMAIN rows /\ \A d \in Calls : call[d].row \in DOMAIN rows \cup {0}
    BY RowFacts DEF MjInv, CallsTyped
  <1>5. \/ k \in loose' /\ loose' = loose \cup {k} /\ call' = [call EXCEPT ![c] = NoCall]
        \/ loose' = loose /\ call' = [call EXCEPT ![c] = [pc |-> "charge", mode |-> "", row |-> k]]
    BY <1>1
  <1> HIDE DEF mode
  <1>6. PICK new : /\ call' = [call EXCEPT ![c] = new] /\ new.row \in {0, k}
                   /\ new.row # 0 => new.pc = "charge"
                   /\ k \notin loose' => new.row = k
                   /\ new \in [pc : {"idle", "sent", "charge"}, mode : Modes \cup {""}, row : Nat]
    <2>1. CASE call' = [call EXCEPT ![c] = NoCall] /\ k \in loose'
      BY <2>1, NoCallTyped
    <2>2. CASE call' = [call EXCEPT ![c] = [pc |-> "charge", mode |-> "", row |-> k]]
      <3>1. PICK new : new = [pc |-> "charge", mode |-> "", row |-> k]
        OBVIOUS
      <3>2. new \in [pc : {"idle", "sent", "charge"}, mode : Modes \cup {""}, row : Nat]
        BY <1>3, <3>1
      <3>3. new.row = k /\ new.pc = "charge" /\ call' = [call EXCEPT ![c] = new]
        BY <2>2, <3>1
      <3> QED BY <3>2, <3>3
    <2> QED BY <1>5, <2>1, <2>2
  <1>7. /\ \A d \in Calls \ {c} : call'[d] = call[d]
        /\ call'[c] = new
        /\ \A d \in Calls : call[d].row # k
    <2>1. \A d \in Calls : call[d].row # k
      BY <1>3, <1>4
    <2> QED BY <1>6, <2>1 DEF MjInv, CallsTyped
  <1>20. CallsTyped'
    BY <1>3, <1>6, <1>7 DEF MjInv, CallsTyped
  <1>8. OneCharge'
    <2> SUFFICES ASSUME NEW x \in Calls, NEW y \in Calls, call'[x].row # 0, call'[x].row = call'[y].row
                 PROVE  x = y
      BY DEF OneCharge
    <2>1. CASE x # c /\ y # c
      BY <1>7, <2>1 DEF MjInv, OneCharge
    <2>2. \A z \in Calls \ {c} : call'[z].row # k
      BY <1>7
    <2>3. call'[c].row \in {0, k}
      BY <1>6, <1>7
    <2>4. CASE x = c
      BY <2>2, <2>3, <2>4
    <2>5. CASE y = c
      BY <2>2, <2>3, <2>5
    <2> QED BY <2>1, <2>4, <2>5
  <1>9. \A r \in DOMAIN rows : Uncharged(r)' <=> Uncharged(r)
    <2>1. \A r \in DOMAIN rows : r # 0 /\ r # k
      BY <1>3, <1>4
    <2> QED BY <1>2, <1>6, <1>7, <2>1 DEF Uncharged
  <1>10. NoticeTyped' /\ LoopTyped'
    <2>1. NoticeTyped'
      BY <1>2, <1>3 DEF MjInv, NoticeTyped
    <2>2. LoopTyped'
      BY <1>2, <1>3 DEF MjInv, LoopTyped
    <2> QED BY <2>1, <2>2
  <1>11. \A r \in DOMAIN rows : (Regular(r)' <=> Regular(r)) /\ (EndedByLoop(r)' <=> EndedByLoop(r))
    BY <1>2, <1>3, <1>5 DEF Regular, EndedByLoop
  <1>12. RefundOwed'
    BY <1>2, <1>11 DEF MjInv, RefundOwed, LoopTyped
  <1>13. BooksKept'
    <2>1. ASSUME NEW r \in DOMAIN rows, Regular(r)'
          PROVE  mjPaid'[r] = (IF Uncharged(r)' THEN 0 ELSE Price)
                              - (IF EndedByLoop(r)' /\ loop'.row # r THEN Price ELSE 0)
      BY <1>2, <1>3, <1>9, <1>11, <2>1 DEF MjInv, BooksKept
    <2>2. Regular(k)' => Uncharged(k)' /\ ~ EndedByLoop(k)'
      <3>1. Regular(k)' => k \notin loose'
        BY DEF Regular
      <3>2. ~ EndedByLoop(k)'
        BY <1>3 DEF EndedByLoop
      <3> QED BY <1>6, <1>7, <3>1, <3>2 DEF Uncharged
    <2>3. ASSUME Regular(k)'
          PROVE  mjPaid'[k] = (IF Uncharged(k)' THEN 0 ELSE Price)
                              - (IF EndedByLoop(k)' /\ loop'.row # k THEN Price ELSE 0)
      <3>1. Uncharged(k)' /\ ~ EndedByLoop(k)'
        BY <2>2, <2>3
      <3>2. mjPaid'[k] = 0
        BY <1>3
      <3> QED BY <3>1, <3>2
    <2> QED BY <1>3, <2>1, <2>3 DEF BooksKept
  <1> QED BY <1>3, <1>20, <1>8, <1>10, <1>12, <1>13 DEF MjInv

\* The deferred charge: the row's submission pays once, whatever the loop made of it.
LEMMA ChargeStep == ASSUME MjInv, NEW c \in Calls, Charge(c) PROVE MjInv'
  <1> DEFINE k == call[c].row
  <1>1. /\ call[c].pc = "charge" /\ call' = [call EXCEPT ![c] = NoCall]
        /\ mjPaid' = IF k = 0 THEN mjPaid ELSE [mjPaid EXCEPT ![k] = @ + Price]
        /\ UNCHANGED <<rows, proxy, loop, notice, loose, ender, rewritten, broken>>
    BY DEF Charge, mjHistory
  <1>2. k = 0 \/ k \in DOMAIN rows
    BY DEF MjInv, CallsTyped
  <1>3. RowsTyped'
    <2>1. CASE k = 0
      BY <1>1, <2>1 DEF MjInv, RowsTyped
    <2>2. CASE k # 0
      <3>4. mjPaid \in Seq(Int) /\ DOMAIN rows = 1 .. Len(mjPaid) /\ \A r \in DOMAIN rows : mjPaid[r] \in Int
        BY RowFacts DEF MjInv, RowsTyped
      <3>1. k \in 1 .. Len(mjPaid) /\ mjPaid[k] + Price \in Int
        BY <1>2, <2>2, <3>4, MjAssumption
      <3>2. mjPaid' = [mjPaid EXCEPT ![k] = mjPaid[k] + Price]
        BY <1>1, <2>2
      <3>3. mjPaid' \in Seq(Int) /\ Len(mjPaid') = Len(mjPaid)
        BY <3>1, <3>2, <3>4, ExceptSeq
      <3> QED BY <1>1, <3>3 DEF MjInv, RowsTyped
    <2> QED BY <2>1, <2>2
  <1>4. /\ CallsTyped'
        /\ \A d \in Calls : call'[d].row = IF d = c THEN 0 ELSE call[d].row
    BY <1>1 DEF MjInv, CallsTyped, NoCall
  <1>5. OneCharge'
    BY <1>4 DEF MjInv, OneCharge
  <1>6. NoticeTyped' /\ LoopTyped'
    BY <1>1, SameRowNumbers DEF MjInv
  <1>7. \A r \in DOMAIN rows : Uncharged(r)' <=> (Uncharged(r) /\ r # k)
    <2>1. \A r \in DOMAIN rows : r # 0
      BY RowFacts DEF MjInv
    <2> QED BY <1>4, <2>1 DEF MjInv, OneCharge, Uncharged
  <1>8. \A r : (Regular(r)' <=> Regular(r)) /\ (EndedByLoop(r)' <=> EndedByLoop(r))
    BY <1>1 DEF Regular, EndedByLoop
  <1>9. RefundOwed'
    BY <1>1, <1>8 DEF MjInv, RefundOwed
  <1>10. BooksKept'
    <2> SUFFICES ASSUME NEW r \in DOMAIN rows, Regular(r)
                 PROVE  mjPaid'[r] = (IF Uncharged(r)' THEN 0 ELSE Price)
                                     - (IF EndedByLoop(r) /\ loop.row # r THEN Price ELSE 0)
      BY <1>1, <1>8 DEF BooksKept
    <2>1. mjPaid[r] = (IF Uncharged(r) THEN 0 ELSE Price)
                      - (IF EndedByLoop(r) /\ loop.row # r THEN Price ELSE 0)
      BY DEF MjInv, BooksKept
    <2>2. CASE r = k
      <3>1. Uncharged(r) /\ ~ Uncharged(r)'
        BY <1>7, <2>2 DEF Uncharged
      <3>2. r # 0 /\ r \in DOMAIN mjPaid
        BY RowFacts DEF MjInv
      <3>3. mjPaid'[r] = mjPaid[r] + Price
        BY <1>1, <2>2, <3>2
      <3> QED BY <2>1, <3>1, <3>3, MjAssumption
    <2>3. CASE r # k
      <3>1. mjPaid'[r] = mjPaid[r]
        BY <1>1, <2>3
      <3> QED BY <1>7, <2>1, <2>3, <3>1
    <2> QED BY <2>2, <2>3
  <1> QED BY <1>3, <1>4, <1>5, <1>6, <1>9, <1>10 DEF MjInv

-----------------------------------------------------------------------------
(* The proxy, time, the administrator, and the steps of the loop that bill *)
(* nothing.                                                                *)

\* A step that leaves the rows, their books and the submissions alone.
LEMMA MjAside ==
    ASSUME MjInv, UNCHANGED MjBooks, call' = call, proxy' \in [MjIds -> MjItems],
           NoticeTyped', LoopTyped', loop'.row = loop.row
    PROVE  MjInv'
  <1>1. RowsTyped'
    BY DEF MjInv, RowsTyped, MjBooks
  <1>2. CallsTyped' /\ OneCharge'
    BY SameRowNumbers DEF MjInv, MjBooks
  <1>3. RefundOwed' /\ BooksKept'
    BY BooksUntouched, SameCalls
  <1> QED BY <1>1, <1>2, <1>3 DEF MjInv

LEMMA ProxyMovesStep == ASSUME MjInv, NEW m \in MjIds, ProxyMoves(m) PROVE MjInv'
  <1>1. PICK i \in {Drawn} \cup Failures : proxy' = [proxy EXCEPT ![m] = i]
    BY DEF ProxyMoves
  <1>2. proxy' \in [MjIds -> MjItems]
    BY <1>1, ProxyTyped DEF MjInv, MjItems
  <1>3. NoticeTyped' /\ LoopTyped' /\ loop' = loop /\ call' = call /\ UNCHANGED MjBooks
    BY SameRowNumbers DEF MjInv, ProxyMoves, mjHistory, MjBooks
  <1> QED BY <1>2, <1>3, MjAside

LEMMA AgesStep == ASSUME MjInv, NEW r, Ages(r) PROVE MjInv'
  <1>1. NoticeTyped' /\ LoopTyped' /\ UNCHANGED <<loop, call, proxy>> /\ UNCHANGED MjBooks
    BY SameRowNumbers DEF MjInv, Ages, mjHistory, MjBooks
  <1> QED BY <1>1, MjAside DEF MjInv, RowsTyped

LEMMA MjChannelGoneStep == ASSUME MjInv, MjChannelGone PROVE MjInv'
  <1>1. NoticeTyped' /\ LoopTyped' /\ UNCHANGED <<loop, call, proxy>> /\ UNCHANGED MjBooks
    BY SameRowNumbers DEF MjInv, MjChannelGone, mjHistory, MjBooks
  <1> QED BY <1>1, MjAside DEF MjInv, RowsTyped

LEMMA LoopAskStep == ASSUME MjInv, LoopAsk PROVE MjInv'
  <1> DEFINE items == [m \in {m \in DOMAIN loop.tasks : proxy[m] # Unknown} |-> proxy[m]]
  <1>1. /\ loop.pc = "ask" /\ loop' = [loop EXCEPT !.pc = "items", !.items = items]
        /\ UNCHANGED <<call, proxy, notice>> /\ UNCHANGED MjBooks
    BY DEF LoopAsk, mjHistory, MjBooks
  <1>2. /\ DOMAIN items \subseteq DOMAIN loop.tasks
        /\ \A m \in DOMAIN items : items[m] \in MjItems
    BY DEF MjInv, RowsTyped, LoopTyped
  <1> HIDE DEF items
  <1>3. loop' = [pc |-> "items", tasks |-> loop.tasks, items |-> items, row |-> loop.row] /\ loop.row = 0
    BY <1>1 DEF MjInv, LoopTyped
  <1>4. LoopTyped' /\ loop'.row = loop.row
    BY <1>1, <1>2, <1>3 DEF MjInv, LoopTyped, MjBooks
  <1>5. NoticeTyped'
    BY <1>1, SameRowNumbers DEF MjInv, MjBooks
  <1> QED BY <1>1, <1>4, <1>5, MjAside DEF MjInv, RowsTyped

LEMMA LoopNoAnswerStep == ASSUME MjInv, LoopNoAnswer PROVE MjInv'
  <1>1. /\ loop.pc = "ask" /\ loop' = Asleep /\ UNCHANGED <<call, proxy, notice>> /\ UNCHANGED MjBooks
    BY DEF LoopNoAnswer, mjHistory, MjBooks
  <1>2. loop.row = 0
    BY <1>1 DEF MjInv, LoopTyped
  <1>3. NoticeTyped'
    BY <1>1, SameRowNumbers DEF MjInv, MjBooks
  <1> QED BY <1>1, <1>2, <1>3, AsleepTyped, MjAside DEF MjInv, RowsTyped

LEMMA LoopEndStep == ASSUME MjInv, LoopEnd PROVE MjInv'
  <1>1. /\ loop.pc = "items" /\ loop' = Asleep /\ UNCHANGED <<call, proxy, notice>> /\ UNCHANGED MjBooks
    BY DEF LoopEnd, mjHistory, MjBooks
  <1>2. loop.row = 0
    BY <1>1 DEF MjInv, LoopTyped
  <1>3. NoticeTyped'
    BY <1>1, SameRowNumbers DEF MjInv, MjBooks
  <1> QED BY <1>1, <1>2, <1>3, AsleepTyped, MjAside DEF MjInv, RowsTyped

LEMMA NotifyReadStep == ASSUME MjInv, NEW m \in MjIds, NotifyRead(m) PROVE MjInv'
  <1>1. PICK r \in DOMAIN rows, i \in {Running, proxy[m]} : notice' = [row |-> r, item |-> i]
    BY DEF NotifyRead
  <1>2. UNCHANGED <<loop, call, proxy>> /\ UNCHANGED MjBooks
    BY DEF NotifyRead, mjHistory, MjBooks
  <1>3. i \in MjItems
    BY DEF MjInv, RowsTyped, MjItems
  <1>4. NoticeTyped'
    BY <1>1, <1>2, <1>3 DEF NoticeTyped, MjBooks
  <1>5. LoopTyped'
    BY <1>2, SameRowNumbers DEF MjInv, MjBooks
  <1> QED BY <1>2, <1>4, <1>5, MjAside DEF MjInv, RowsTyped

\* The submissions, the round and the notification are lost; what they had in hand is broken.
LEMMA RestartStep == ASSUME MjInv, Restart PROVE MjInv'
  <1>1. /\ broken' = broken \cup ({loop.row} \ {0}) \cup ({call[c].row : c \in Calls} \ {0})
        /\ call' = [c \in Calls |-> NoCall] /\ loop' = Asleep /\ notice' = NoNotice
        /\ UNCHANGED <<rows, proxy, mjPaid, loose, ender, rewritten>>
    BY DEF Restart
  <1>2. RowsTyped'
    BY <1>1 DEF MjInv, RowsTyped
  <1>3. CallsTyped' /\ OneCharge'
    <2>1. \A c \in Calls : call'[c] = NoCall
      BY <1>1
    <2>2. CallsTyped'
      BY <1>1, <2>1, NoCallTyped DEF CallsTyped
    <2>3. OneCharge'
      BY <2>1, NoCallTyped DEF OneCharge
    <2> QED BY <2>2, <2>3
  <1>4. NoticeTyped'
    BY <1>1 DEF NoticeTyped, NoNotice, MjItems
  <1>5. LoopTyped' /\ loop'.row = 0
    BY <1>1, AsleepTyped
  <1>6. RefundOwed'
    BY <1>5 DEF RefundOwed
  <1>7. BooksKept'
    <2> SUFFICES ASSUME NEW r \in DOMAIN rows, Regular(r)'
                 PROVE  mjPaid[r] = (IF Uncharged(r)' THEN 0 ELSE Price)
                                    - (IF EndedByLoop(r)' /\ loop'.row # r THEN Price ELSE 0)
      BY <1>1 DEF BooksKept
    <2>1. r # 0
      BY RowFacts DEF MjInv
    <2>2. Regular(r) /\ loop.row # r /\ ~ Uncharged(r)
      BY <1>1, <2>1 DEF Regular, Uncharged
    <2>3. ~ Uncharged(r)' /\ (EndedByLoop(r)' <=> EndedByLoop(r)) /\ loop'.row # r
      <3>1. \A c \in Calls : call'[c].row = 0
        BY <1>1, NoCallTyped
      <3> QED BY <1>1, <1>5, <2>1, <3>1 DEF Uncharged, EndedByLoop
    <2> QED BY <2>2, <2>3 DEF MjInv, BooksKept
  <1> QED BY <1>2, <1>3, <1>4, <1>5, <1>6, <1>7 DEF MjInv

-----------------------------------------------------------------------------
(* The writes of rows.                                                     *)

LEMMA NotifySaveStep == ASSUME MjInv, NotifySave PROVE MjInv'
  <1> DEFINE i == notice.item
             k == notice.row
  <1>1. /\ notice # NoNotice /\ notice' = NoNotice
        /\ rows' = [rows EXCEPT ![k].status = i.status, ![k].done = i.full, ![k].reason = i.reason]
        /\ WrittenRows({k}, "notice")
        /\ UNCHANGED <<proxy, call, loop, mjPaid, loose, broken>>
    BY DEF NotifySave
  <1>2. k \in DOMAIN rows /\ i \in MjItems
    BY <1>1 DEF MjInv, NoticeTyped
  <1>3. PICK new \in MjRow : rows' = [rows EXCEPT ![k] = new]
    <2>1. PICK status \in MjStatuses, full \in BOOLEAN, reason \in BOOLEAN :
             i = [status |-> status, full |-> full, reason |-> reason]
      BY <1>2, ItemCases
    <2>2. rows[k] \in MjRow
      BY <1>2, RowFacts DEF MjInv
    <2>3. PICK new : new = [rows[k] EXCEPT !.status = status, !.done = full, !.reason = reason]
      OBVIOUS
    <2>4. new \in MjRow
      BY <2>2, <2>3 DEF MjRow
    <2>5. i.status = status /\ i.full = full /\ i.reason = reason
      BY <2>1
    <2>6. rows' = [rows EXCEPT ![k] = new]
      BY <1>1, <1>2, <2>2, <2>3, <2>5 DEF MjRow
    <2> QED BY <2>4, <2>6
  <1> HIDE DEF i, k
  <1>4. rows' \in [DOMAIN rows -> MjRow] /\ \A r \in DOMAIN rows \ {k} : rows'[r] = rows[r]
    BY <1>2, <1>3, RowFacts DEF MjInv
  <1>5. RowsTyped' /\ DOMAIN rows' = DOMAIN rows
    BY <1>1, <1>4, RowsReplaced DEF MjInv
  <1>6. CallsTyped' /\ OneCharge' /\ LoopTyped'
    BY <1>1, <1>5, SameRowNumbers DEF MjInv
  <1>7. NoticeTyped'
    BY <1>1 DEF NoticeTyped, NoNotice, MjItems
  <1>8. RefundOwed' /\ BooksKept'
    BY <1>1, <1>2, <1>4, <1>5, RowsWritten
  <1> QED BY <1>5, <1>6, <1>7, <1>8 DEF MjInv

LEMMA BulkTyped ==
    ASSUME RowsTyped, NEW rs \in SUBSET DOMAIN rows
    PROVE  /\ Bulk(rs) \in [DOMAIN rows -> MjRow]
           /\ \A r \in DOMAIN rows \ rs : Bulk(rs)[r] = rows[r]
  <1>1. ASSUME NEW r \in DOMAIN rows
        PROVE  [rows[r] EXCEPT !.status = "FAILURE", !.done = TRUE] \in MjRow
    BY RowFacts DEF MjRow, MjStatuses
  <1> QED BY <1>1, RowFacts DEF Bulk

\* MjBulkUpdate and MjBulkUpdateByTaskIds, or their failing: the rows are typed and the books hold.
LEMMA BulkWrites ==
    ASSUME MjInv, NEW rs \in SUBSET DOMAIN rows,
           \/ rows' = Bulk(rs) /\ WrittenRows(rs, "bulk")
           \/ UNCHANGED <<rows, ender, rewritten>>,
           loop.row = 0, loop'.row = 0, UNCHANGED <<proxy, call, mjPaid, loose, broken>>
    PROVE  RowsTyped' /\ DOMAIN rows' = DOMAIN rows /\ RefundOwed' /\ BooksKept'
  <1>1. CASE rows' = Bulk(rs) /\ WrittenRows(rs, "bulk")
    <2>1. rows' \in [DOMAIN rows -> MjRow] /\ \A r \in DOMAIN rows \ rs : rows'[r] = rows[r]
      BY <1>1, BulkTyped DEF MjInv
    <2>2. RowsTyped' /\ DOMAIN rows' = DOMAIN rows
      BY <1>1, <2>1, RowsReplaced DEF MjInv
    <2>3. RefundOwed' /\ BooksKept'
      BY <1>1, <2>1, <2>2, RowsWritten
    <2> QED BY <2>2, <2>3
  <1>2. CASE UNCHANGED <<rows, ender, rewritten>>
    <2>1. RowsTyped' /\ DOMAIN rows' = DOMAIN rows
      BY <1>2 DEF MjInv, RowsTyped
    <2>2. RefundOwed' /\ BooksKept'
      BY <1>2, BooksUntouched, SameCalls DEF MjBooks
    <2> QED BY <2>1, <2>2
  <1> QED BY <1>1, <1>2

LEMMA LoopNoChannelStep == ASSUME MjInv, LoopNoChannel PROVE MjInv'
  <1> DEFINE rs == {r \in DOMAIN rows : rows[r].mj \in DOMAIN loop.tasks}
  <1>1. /\ loop.pc = "ask" /\ loop' = Asleep
        /\ UNCHANGED <<proxy, call, notice, mjPaid, loose, broken>>
        /\ \/ rows' = Bulk(rs) /\ WrittenRows(rs, "bulk")
           \/ UNCHANGED <<rows, ender, rewritten>>
    BY DEF LoopNoChannel
  <1>2. loop.row = 0 /\ LoopTyped' /\ loop'.row = 0
    BY <1>1, AsleepTyped DEF MjInv, LoopTyped
  <1>3. rs \in SUBSET DOMAIN rows
    OBVIOUS
  <1> HIDE DEF rs
  <1>4. RowsTyped' /\ DOMAIN rows' = DOMAIN rows /\ RefundOwed' /\ BooksKept'
    BY <1>1, <1>2, <1>3, BulkWrites
  <1>5. CallsTyped' /\ OneCharge' /\ NoticeTyped'
    BY <1>1, <1>4, SameRowNumbers DEF MjInv
  <1> QED BY <1>2, <1>4, <1>5 DEF MjInv

\* Of the unfinished rows of a task number there is a last one.
LEMMA LastRow ==
    ASSUME NEW n \in Nat, NEW S \in SUBSET (1 .. n), S # {}
    PROVE  \E r \in S : \A q \in S : q <= r
  <1> DEFINE T == {n - q : q \in S}
  <1>1. T \subseteq Nat /\ T # {}
    OBVIOUS
  <1>2. PICK t \in T : \A u \in T : t <= u
    BY <1>1, LeastNumber
  <1>3. PICK r \in S : t = n - r
    OBVIOUS
  <1>4. ASSUME NEW q \in S PROVE q <= r
    <2>1. n - q \in T
      OBVIOUS
    <2>2. n - r <= n - q
      BY <1>2, <1>3, <2>1
    <2>3. q \in Nat /\ r \in Nat
      OBVIOUS
    <2> QED BY <2>2, <2>3
  <1> QED BY <1>4

LEMMA TaskMTyped ==
    ASSUME RowsTyped
    PROVE  /\ DOMAIN TaskM \subseteq MjIds
           /\ \A m \in DOMAIN TaskM : TaskM[m].row \in DOMAIN rows /\ TaskM[m].seen \in MjRow
  <1>1. \A r \in DOMAIN rows : rows[r] \in MjRow
    BY RowFacts
  <1>2. DOMAIN TaskM = {rows[r].mj : r \in UnFinishTasks} \ {""}
    BY DEF TaskM
  <1>3. ASSUME NEW m \in DOMAIN TaskM PROVE m \in MjIds
    <2>1. PICK r \in DOMAIN rows : m = rows[r].mj
      BY <1>2 DEF UnFinishTasks
    <2>2. rows[r].mj \in MjIds \cup {""}
      BY <1>1 DEF MjRow
    <2> QED BY <1>2, <2>1, <2>2
  <1>4. ASSUME NEW m \in DOMAIN TaskM
        PROVE  TaskM[m].row \in DOMAIN rows /\ TaskM[m].seen \in MjRow
    <2> DEFINE P(r) == rows[r].mj = m /\ \A q \in UnFinishTasks : rows[q].mj = m => q <= r
               last == CHOOSE r \in UnFinishTasks : P(r)
               S == {r \in UnFinishTasks : rows[r].mj = m}
    <2>1. S \in SUBSET (1 .. Len(rows)) /\ S # {} /\ Len(rows) \in Nat
      BY <1>2, RowFacts DEF UnFinishTasks
    <2>2. PICK r \in S : \A q \in S : q <= r
      BY <2>1, LastRow
    <2>3. r \in UnFinishTasks /\ P(r)
      BY <2>2
    <2>4. last \in UnFinishTasks
      <3> HIDE DEF P
      <3> QED BY <2>3
    <2>5. TaskM[m] = [row |-> last, seen |-> rows[last]]
      BY <1>2 DEF TaskM
    <2> HIDE DEF last
    <2> QED BY <1>1, <2>4, <2>5 DEF UnFinishTasks
  <1> QED BY <1>3, <1>4

LEMMA LoopReadStep == ASSUME MjInv, LoopRead PROVE MjInv'
  <1> DEFINE rs == {r \in UnFinishTasks : rows[r].mj = ""}
  <1>1. /\ loop.pc = "sleep"
        /\ loop' = [Asleep EXCEPT !.pc = IF DOMAIN TaskM = {} THEN "sleep" ELSE "ask", !.tasks = TaskM]
        /\ UNCHANGED <<proxy, call, notice, mjPaid, loose, broken>>
        /\ \/ rows' = Bulk(rs) /\ WrittenRows(rs, "bulk")
           \/ UNCHANGED <<rows, ender, rewritten>>
    BY DEF LoopRead
  <1>2. loop.row = 0
    BY <1>1 DEF MjInv, LoopTyped
  <1>3. rs \in SUBSET DOMAIN rows
    BY DEF UnFinishTasks
  <1> HIDE DEF rs
  <1>4. PICK pc, tasks :
          pc \in {"sleep", "ask"} /\ loop' = [pc |-> pc, tasks |-> tasks, items |-> <<>>, row |-> 0] /\ tasks = TaskM
    BY <1>1 DEF Asleep
  <1>5. loop'.row = 0 /\ loop'.tasks = tasks /\ loop'.items = <<>> /\ loop'.pc = pc
    BY <1>4
  <1>6. RowsTyped' /\ DOMAIN rows' = DOMAIN rows /\ RefundOwed' /\ BooksKept'
    BY <1>1, <1>2, <1>3, <1>5, BulkWrites
  <1>7. CallsTyped' /\ OneCharge' /\ NoticeTyped'
    BY <1>1, <1>6, SameRowNumbers DEF MjInv
  <1>8. LoopTyped'
    <2>1. DOMAIN <<>> = {}
      OBVIOUS
    <2>2. /\ DOMAIN tasks \subseteq MjIds
          /\ \A m \in DOMAIN tasks : tasks[m].row \in DOMAIN rows /\ tasks[m].seen \in MjRow
      BY <1>4, TaskMTyped DEF MjInv
    <2> QED BY <1>4, <1>5, <1>6, <2>1, <2>2 DEF LoopTyped
  <1> QED BY <1>6, <1>7, <1>8 DEF MjInv

LEMMA ItemDoneFields ==
    ASSUME LoopTyped, NEW m \in DOMAIN loop.items
    PROVE  /\ ItemDone(m) = [pc |-> "items", tasks |-> loop.tasks, items |-> ItemDone(m).items, row |-> 0]
           /\ DOMAIN ItemDone(m).items \subseteq DOMAIN loop.items
           /\ \A x \in DOMAIN ItemDone(m).items : ItemDone(m).items[x] = loop.items[x]
  <1> DEFINE items == [x \in DOMAIN loop.items \ {m} |-> loop.items[x]]
  <1>1. DOMAIN items \subseteq DOMAIN loop.items /\ \A x \in DOMAIN items : items[x] = loop.items[x]
    OBVIOUS
  <1>2. ItemDone(m) = [loop EXCEPT !.items = items, !.pc = "items", !.row = 0]
    BY DEF ItemDone
  <1> HIDE DEF items
  <1>3. ItemDone(m) = [pc |-> "items", tasks |-> loop.tasks, items |-> items, row |-> 0]
    BY <1>2 DEF LoopTyped
  <1> QED BY <1>1, <1>3

LEMMA ItemDoneTyped ==
    ASSUME MjInv, NEW m \in DOMAIN loop.items, DOMAIN rows' = DOMAIN rows,
           \/ loop' = ItemDone(m)
           \/ \E k \in DOMAIN rows : loop' = [ItemDone(m) EXCEPT !.pc = "refund", !.row = k]
    PROVE  LoopTyped'
  <1>1. PICK items : /\ ItemDone(m) = [pc |-> "items", tasks |-> loop.tasks, items |-> items, row |-> 0]
                     /\ DOMAIN items \subseteq DOMAIN loop.items
                     /\ \A x \in DOMAIN items : items[x] = loop.items[x]
    BY ItemDoneFields DEF MjInv
  <1>2. PICK pc, entry :
          /\ loop' = [pc |-> pc, tasks |-> loop.tasks, items |-> items, row |-> entry]
          /\ \/ pc = "items" /\ entry = 0
             \/ pc = "refund" /\ entry # 0 /\ entry \in DOMAIN rows
    <2>1. CASE loop' = ItemDone(m)
      BY <1>1, <2>1
    <2>2. ASSUME NEW k \in DOMAIN rows, loop' = [ItemDone(m) EXCEPT !.pc = "refund", !.row = k]
          PROVE  loop' = [pc |-> "refund", tasks |-> loop.tasks, items |-> items, row |-> k] /\ k # 0
      <3>1. k # 0
        BY RowFacts DEF MjInv
      <3>2. loop' = [pc |-> "refund", tasks |-> loop.tasks, items |-> items, row |-> k]
        <4>1. PICK x : x = ItemDone(m)
          OBVIOUS
        <4>2. x = [pc |-> "items", tasks |-> loop.tasks, items |-> items, row |-> 0]
          BY <1>1, <4>1
        <4>3. loop' = [x EXCEPT !.pc = "refund", !.row = k]
          BY <2>2, <4>1
        <4> QED BY ONLY <4>2, <4>3
      <3> QED BY <3>1, <3>2
    <2> QED BY <2>1, <2>2
  <1>3. loop'.pc = pc /\ loop'.tasks = loop.tasks /\ loop'.items = items /\ loop'.row = entry
    BY <1>2
  <1>4. (entry # 0 <=> pc = "refund") /\ (entry = 0 \/ entry \in DOMAIN rows')
    BY <1>2
  <1> QED BY <1>1, <1>2, <1>3, <1>4 DEF MjInv, LoopTyped

\* One item of the answer: the row that is written under the status that was read.
LEMMA LoopItemStep == ASSUME MjInv, NEW m \in MjIds, LoopItem(m) PROVE MjInv'
  <1> DEFINE t == loop.tasks[m]
             j == Judged(t.row, loop.items[m])
             won == rows[t.row].status = t.seen.status
             same == Written(t.seen, j) = t.seen
  <1>1. /\ loop.pc = "items" /\ m \in DOMAIN loop.items
        /\ UNCHANGED <<proxy, call, notice, aged, mjPaid, loose>>
    BY DEF LoopItem
  <1>2. /\ loop.row = 0 /\ t.row \in DOMAIN rows /\ t.seen \in MjRow /\ loop.items[m] \in MjItems
    BY <1>1 DEF MjInv, LoopTyped
  <1>3. PICK k \in DOMAIN rows, new \in MjRow, failed \in BOOLEAN :
          /\ k = t.row /\ new = Written(t.seen, j) /\ failed = Failed(j)
          /\ new.done = (j.full \/ failed) /\ (failed <=> new.status = "FAILURE")
    <2>1. Failed(j) \in BOOLEAN
      BY DEF Failed
    <2>2. /\ Written(t.seen, j) \in MjRow /\ Written(t.seen, j).status = j.status
          /\ Written(t.seen, j).done = (j.full \/ Failed(j))
      BY <1>2, WrittenRow
    <2>3. Failed(j) <=> j.status = "FAILURE"
      BY <1>2, JudgedFields
    <2> HIDE DEF j, t
    <2> QED BY <1>2, <2>1, <2>2, <2>3
  <1>4. \/ /\ rows' = [rows EXCEPT ![k] = new] /\ WrittenRows({k}, "loop") /\ broken' = broken
           /\ loop' = IF failed /\ Price # 0
                      THEN [ItemDone(m) EXCEPT !.pc = "refund", !.row = k] ELSE ItemDone(m)
        \/ UNCHANGED <<rows, ender, rewritten, broken>> /\ loop' = ItemDone(m)
        \/ UNCHANGED <<rows, ender, rewritten>> /\ broken' = broken \cup {k} /\ loop' = ItemDone(m)
    BY <1>3 DEF LoopItem, RefundDue
  <1> HIDE DEF t, j, won, same
  <1>5. ItemDone(m).row = 0 /\ [ItemDone(m) EXCEPT !.pc = "refund", !.row = k].row = k
    BY <1>1, ItemDoneFields DEF MjInv
  <1>6. k # 0
    BY RowFacts DEF MjInv
  <1>7. CASE /\ rows' = [rows EXCEPT ![k] = new] /\ WrittenRows({k}, "loop") /\ broken' = broken
             /\ loop' = IF failed /\ Price # 0
                        THEN [ItemDone(m) EXCEPT !.pc = "refund", !.row = k] ELSE ItemDone(m)
    <2>1. rows' \in [DOMAIN rows -> MjRow]
      BY <1>7, RowFacts DEF MjInv
    <2>2. RowsTyped' /\ DOMAIN rows' = DOMAIN rows
      BY <1>1, <1>7, <2>1, RowsReplaced DEF MjInv
    <2>3. CallsTyped' /\ OneCharge' /\ NoticeTyped'
      BY <1>1, <2>2, SameRowNumbers DEF MjInv
    <2>4. LoopTyped'
      BY <1>1, <1>7, <2>2, ItemDoneTyped
    <2>5. /\ \A r : Regular(r)' => Regular(r)
          /\ \A r \in DOMAIN rows \ {k} : EndedByLoop(r)' <=> EndedByLoop(r)
          /\ Regular(k)' => ~ EndedByLoop(k)
          /\ EndedByLoop(k)' <=> failed
      <3>1. rows'[k] = new /\ ender'[k] = "loop"
        BY <1>7 DEF WrittenRows
      <3>2. \A r \in DOMAIN rows \ {k} : rows'[r] = rows[r] /\ ender'[r] = ender[r]
        BY <1>7 DEF WrittenRows
      <3>3. EndedByLoop(k)' <=> failed
        BY <1>3, <3>1 DEF EndedByLoop
      <3>4. rewritten' = rewritten \cup {r \in {k} : rows[r].done}
        BY <1>7 DEF WrittenRows
      <3>5. Regular(k)' => ~ EndedByLoop(k)
        BY <3>4 DEF Regular, EndedByLoop
      <3>6. \A r : Regular(r)' => Regular(r)
        BY <1>1, <1>7, <3>4 DEF Regular
      <3> QED BY <3>2, <3>3, <3>5, <3>6 DEF EndedByLoop
    <2>6. loop'.row = IF failed /\ Price # 0 THEN k ELSE 0
      BY <1>5, <1>7
    <2>7. RefundOwed'
      BY <2>5, <2>6 DEF RefundOwed
    <2>8. BooksKept'
      <3> SUFFICES ASSUME NEW r \in DOMAIN rows, Regular(r)'
                   PROVE  mjPaid[r] = (IF Uncharged(r)' THEN 0 ELSE Price)
                                      - (IF EndedByLoop(r)' /\ loop'.row # r THEN Price ELSE 0)
        BY <1>1, <2>2 DEF BooksKept
      <3>1. mjPaid[r] = (IF Uncharged(r) THEN 0 ELSE Price)
                        - (IF EndedByLoop(r) /\ loop.row # r THEN Price ELSE 0)
        BY <2>5 DEF MjInv, BooksKept
      <3>2. Uncharged(r)' <=> Uncharged(r)
        BY <1>1, SameCalls
      <3>3. r # 0
        BY RowFacts DEF MjInv
      <3>4. CASE r # k
        BY <1>2, <2>5, <2>6, <3>1, <3>2, <3>3, <3>4
      <3>5. CASE r = k
        BY <1>2, <2>5, <2>6, <3>1, <3>2, <3>3, <3>5, MjAssumption
      <3> QED BY <3>4, <3>5
    <2> QED BY <2>2, <2>3, <2>4, <2>7, <2>8 DEF MjInv
  <1>8. CASE UNCHANGED <<rows, ender, rewritten, broken>> /\ loop' = ItemDone(m)
    <2>1. LoopTyped' /\ loop'.row = loop.row
      BY <1>1, <1>2, <1>5, <1>8, ItemDoneTyped
    <2>2. NoticeTyped'
      BY <1>1, <1>8, SameRowNumbers DEF MjInv
    <2> QED BY <1>1, <1>8, <2>1, <2>2, MjAside DEF MjInv, RowsTyped, MjBooks
  <1>9. CASE UNCHANGED <<rows, ender, rewritten>> /\ broken' = broken \cup {k} /\ loop' = ItemDone(m)
    <2>1. LoopTyped' /\ loop'.row = 0
      BY <1>1, <1>5, <1>9, ItemDoneTyped
    <2>2. CallsTyped' /\ OneCharge' /\ NoticeTyped'
      BY <1>1, <1>9, SameRowNumbers DEF MjInv
    <2>3. RowsTyped'
      BY <1>1, <1>9 DEF MjInv, RowsTyped
    <2>4. RefundOwed'
      BY <2>1 DEF RefundOwed
    <2>5. BooksKept'
      <3>1. \A r : (Regular(r)' => Regular(r)) /\ (EndedByLoop(r)' <=> EndedByLoop(r))
        BY <1>1, <1>9 DEF Regular, EndedByLoop
      <3>2. \A r : Uncharged(r)' <=> Uncharged(r)
        BY <1>1, SameCalls
      <3> QED BY <1>1, <1>2, <1>9, <2>1, <3>1, <3>2 DEF MjInv, BooksKept
    <2> QED BY <2>1, <2>2, <2>3, <2>4, <2>5 DEF MjInv
  <1> QED BY <1>4, <1>7, <1>8, <1>9

LEMMA LoopRefundStep == ASSUME MjInv, LoopRefund PROVE MjInv'
  <1>1. /\ loop.pc = "refund" /\ loop' = [loop EXCEPT !.pc = "items", !.row = 0]
        /\ UNCHANGED <<rows, proxy, call, notice, loose, ender, rewritten>>
        /\ \/ mjPaid' = [mjPaid EXCEPT ![loop.row] = @ - Price] /\ broken' = broken
           \/ broken' = broken \cup {loop.row} /\ mjPaid' = mjPaid
    BY DEF LoopRefund
  <1>2. PICK k \in DOMAIN rows : k = loop.row /\ k # 0
    BY <1>1 DEF MjInv, LoopTyped
  <1>3. loop' = [pc |-> "items", tasks |-> loop.tasks, items |-> loop.items, row |-> 0]
    BY <1>1 DEF MjInv, LoopTyped
  <1>4. LoopTyped' /\ loop'.row = 0
    BY <1>1, <1>3 DEF MjInv, LoopTyped
  <1>5. CallsTyped' /\ OneCharge' /\ NoticeTyped'
    BY <1>1, SameRowNumbers DEF MjInv
  <1>6. RefundOwed'
    BY <1>4 DEF RefundOwed
  <1>7. \A r : (Uncharged(r)' <=> Uncharged(r)) /\ (EndedByLoop(r)' <=> EndedByLoop(r))
               /\ (Regular(r)' => Regular(r))
    BY <1>1, SameCalls DEF EndedByLoop, Regular
  <1>8. \A r \in DOMAIN rows : mjPaid[r] \in Int /\ r # 0
    BY RowFacts DEF MjInv
  <1>9. CASE mjPaid' = [mjPaid EXCEPT ![loop.row] = @ - Price] /\ broken' = broken
    <2>1. mjPaid' \in Seq(Int) /\ Len(mjPaid') = Len(mjPaid)
          /\ \A r \in DOMAIN rows : mjPaid'[r] = IF r = k THEN mjPaid[k] - Price ELSE mjPaid[r]
      <3>1. mjPaid \in Seq(Int) /\ DOMAIN rows = 1 .. Len(mjPaid)
        BY RowFacts DEF MjInv, RowsTyped
      <3>2. mjPaid[k] - Price \in Int /\ mjPaid' = [mjPaid EXCEPT ![k] = mjPaid[k] - Price]
        BY <1>2, <1>8, <1>9, MjAssumption
      <3> QED BY <3>1, <3>2, ExceptSeq
    <2>2. RowsTyped'
      BY <1>1, <2>1 DEF MjInv, RowsTyped
    <2>3. BooksKept'
      <3> SUFFICES ASSUME NEW r \in DOMAIN rows, Regular(r)
                   PROVE  mjPaid'[r] = (IF Uncharged(r) THEN 0 ELSE Price)
                                       - (IF EndedByLoop(r) THEN Price ELSE 0)
        BY <1>1, <1>4, <1>7, <1>8 DEF BooksKept
      <3>1. mjPaid[r] = (IF Uncharged(r) THEN 0 ELSE Price)
                        - (IF EndedByLoop(r) /\ k # r THEN Price ELSE 0)
        BY <1>2 DEF MjInv, BooksKept
      <3>2. r = k => EndedByLoop(r)
        BY <1>2 DEF MjInv, RefundOwed
      <3> QED BY <2>1, <3>1, <3>2, MjAssumption
    <2> QED BY <1>4, <1>5, <1>6, <2>2, <2>3 DEF MjInv
  <1>10. CASE broken' = broken \cup {loop.row} /\ mjPaid' = mjPaid
    <2>1. RowsTyped'
      BY <1>1, <1>10 DEF MjInv, RowsTyped
    <2>2. \A r : Regular(r)' => r # loop.row
      BY <1>10 DEF Regular
    <2>3. BooksKept'
      BY <1>1, <1>4, <1>7, <1>8, <1>10, <2>2 DEF MjInv, BooksKept
    <2> QED BY <1>4, <1>5, <1>6, <2>1, <2>3 DEF MjInv
  <1> QED BY <1>1, <1>9, <1>10

-----------------------------------------------------------------------------
LEMMA MjStart == InitMj => MjInv
  <1> SUFFICES ASSUME InitMj PROVE MjInv
    OBVIOUS
  <1>1. DOMAIN rows = {} /\ loop.row = 0
    BY DEF InitMj, Asleep
  <1>2. RowsTyped
    BY DEF InitMj, RowsTyped, MjItems
  <1>3. CallsTyped /\ OneCharge
    BY NoCallTyped DEF InitMj, CallsTyped, OneCharge
  <1>4. NoticeTyped
    BY DEF InitMj, NoticeTyped, NoNotice, MjItems
  <1>5. LoopTyped
    <2>1. DOMAIN <<>> = {}
      OBVIOUS
    <2>2. /\ loop.pc = "sleep" /\ loop.tasks = <<>> /\ loop.items = <<>> /\ loop.row = 0
          /\ loop = [pc |-> loop.pc, tasks |-> loop.tasks, items |-> loop.items, row |-> loop.row]
      BY DEF InitMj, Asleep
    <2> QED BY <2>1, <2>2 DEF LoopTyped
  <1> QED BY <1>1, <1>2, <1>3, <1>4, <1>5 DEF MjInv, RefundOwed, BooksKept

LEMMA MjStep == ASSUME MjInv, [NextMj]_mjvars PROVE MjInv'
  <1>1. CASE \E c \in Calls : Submit(c) \/ SubmitFails(c) \/ Answered(c) \/ InsertFails(c) \/ Charge(c)
    BY <1>1, SubmitStep, SubmitFailsStep, AnsweredStep, InsertFailsStep, ChargeStep
  <1>2. CASE \E m \in MjIds : ProxyMoves(m) \/ NotifyRead(m)
    BY <1>2, ProxyMovesStep, NotifyReadStep
  <1>3. CASE \E r \in DOMAIN rows : Ages(r)
    BY <1>3, AgesStep
  <1>4. CASE MjChannelGone \/ Restart \/ NotifySave
    BY <1>4, MjChannelGoneStep, RestartStep, NotifySaveStep
  <1>5. CASE MjLoop
    BY <1>5, LoopReadStep, LoopNoChannelStep, LoopAskStep, LoopNoAnswerStep, LoopRefundStep, LoopEndStep,
       LoopItemStep DEF MjLoop
  <1>6. CASE UNCHANGED mjvars
    <2>1. NoticeTyped' /\ LoopTyped'
      BY <1>6, SameRowNumbers DEF MjInv, mjvars
    <2> QED BY <1>6, <2>1, MjAside DEF MjInv, RowsTyped, mjvars, MjBooks
  <1> QED BY <1>1, <1>2, <1>3, <1>4, <1>5, <1>6 DEF NextMj

LEMMA MjBilled == MjInv => MjBilledAsEnded
  <1> SUFFICES ASSUME MjInv, NEW r \in DOMAIN rows \ (loose \cup broken \cup rewritten),
                      rows[r].done, ~ InHandMj(r)
               PROVE  mjPaid[r] = IF ender[r] = "loop" /\ rows[r].status = "FAILURE" THEN 0 ELSE Price
    BY DEF MjBilledAsEnded
  <1>1. Regular(r) /\ ~ Uncharged(r) /\ loop.row # r
    BY DEF Regular, Uncharged, InHandMj
  <1>2. mjPaid[r] = Price - (IF EndedByLoop(r) THEN Price ELSE 0)
    BY <1>1 DEF MjInv, BooksKept
  <1>3. EndedByLoop(r) <=> (ender[r] = "loop" /\ rows[r].status = "FAILURE")
    BY DEF EndedByLoop
  <1> QED BY <1>2, <1>3, MjAssumption

(* Of RelayMidjourneySubmit's deferred charge, UpdateMidjourneyTaskBulk and   *)
(* RelayMidjourneyNotify, for any number of submissions, tasks, faults and    *)
(* restarts: a task that was charged has paid nothing once the loop has ended *)
(* it as failed and given the quota back, and the price when it was drawn or  *)
(* somebody else ended it - also when the loop ends the row, and refunds it,  *)
(* before the charge has been made.                                           *)
THEOREM MjTasksBilled == SpecMj => []MjBilledAsEnded
  <1>1. InitMj => MjInv
    BY MjStart
  <1>2. MjInv /\ [NextMj]_mjvars => MjInv'
    BY MjStep
  <1>3. MjInv => MjBilledAsEnded
    BY MjBilled
  <1> QED BY <1>1, <1>2, <1>3, PTL DEF SpecMj

=============================================================================
