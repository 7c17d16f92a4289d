---------------------------- MODULE TaskBilling ----------------------------
(***************************************************************************)
(* The end of asynchronous tasks and their money: the polling loop of the  *)
(* master node (service/task_polling.go), the refund and the settlement it *)
(* makes (service/task_billing.go), the conditional update of the task's   *)
(* row (model/task.go), and the user's query that fetches from upstream    *)
(* and writes the row too (relay/relay_task.go, tryRealtimeFetch).         *)
(*                                                                         *)
(* A task enters with its quota pre-consumed and settled by the session    *)
(* that submitted it.  Progress is 100% exactly when the status is         *)
(* terminal: the adaptors' answers, external here, say so.  Every task has *)
(* a channel of its own.                                                   *)
(***************************************************************************)
EXTENDS Integers

CONSTANTS
    Tasks,
    Suno,           \* tasks of the Suno platform; the others are video tasks
    Realtime,       \* Gemini and Vertex tasks: tryRealtimeFetch goes upstream
    Quota,          \* [Tasks]: task.Quota
    Actual,         \* [Tasks]: what AdjustBillingOnComplete or the tokens say the task costs,
                    \* 0 when neither says anything or the task is billed per call
    Legacy,         \* tasks submitted before legacyTaskCutoff
    None,
    MaxFaults,      \* bound: failing statements and calls, restarts and lost channels together
    MaxFetches      \* bound: queries of users

ASSUME TaskAssumption ==
    /\ Suno \subseteq Tasks /\ Realtime \subseteq Tasks \ Suno
    /\ Legacy \subseteq Tasks
    /\ Quota \in [Tasks -> Nat] /\ Actual \in [Tasks -> Nat]
    /\ None \notin Tasks
    /\ MaxFaults \in Nat /\ MaxFetches \in Nat

Live == {"submitted", "running"}
Ended == {"success", "failure"}
Status == Live \cup Ended

VARIABLES
    row,        \* [Tasks]: tasks.status
    paid,       \* [Tasks]: what the wallet or subscription paid for the task, net
    paidToken,  \* [Tasks]: the same for the token
    upstream,   \* [Tasks]: the status at the provider
    old,        \* tasks past TaskTimeoutMinutes
    gone,       \* tasks whose channel CacheGetChannel no longer finds
    poll,       \* the goroutine of TaskPollingLoop
    fetch,      \* [Tasks]: status read by a user's query under way, or None
    by,         \* [Tasks]: history: who ended the task
    revived,    \* history: ended tasks whose row a user's query wrote
    disturbed,  \* history: tasks with a failed statement or a restart in their billing
    faults, fetches     \* how often: against the bounds

vars == <<row, paid, paidToken, upstream, old, gone, poll, fetch, by, revived, disturbed,
          faults, fetches>>
money == <<paid, paidToken>>
world == <<upstream, old, gone>>
history == <<by, revived>>
failing == <<disturbed, faults>>
query == <<fetch, fetches>>

Idle == [pc |-> "idle", todo |-> {}, seen |-> [t \in Tasks |-> "submitted"], task |-> None,
         answer |-> "submitted", back |-> "idle"]

TypeOK ==
    /\ row \in [Tasks -> Status] /\ upstream \in [Tasks -> Status]
    /\ paid \in [Tasks -> Int] /\ paidToken \in [Tasks -> Int]
    /\ old \subseteq Tasks /\ gone \subseteq Tasks
    /\ poll \in [pc : {"idle", "sweep", "poll", "cas", "settle", "settleToken", "refund",
                       "refundToken", "save"},
                 todo : SUBSET Tasks, seen : [Tasks -> Status],
                 task : Tasks \cup {None}, answer : Status, back : {"idle", "sweep", "poll", "save"}]
    /\ fetch \in [Tasks -> Status \cup {None}]
    /\ by \in [Tasks -> {"nobody", "sweep", "poll", "bulk", "fetch"}]
    /\ revived \subseteq Tasks /\ disturbed \subseteq Tasks
    /\ faults \in 0 .. MaxFaults /\ fetches \in 0 .. MaxFetches

Init ==
    /\ row = [t \in Tasks |-> "submitted"] /\ upstream = row
    /\ paid = Quota /\ paidToken = Quota
    /\ old = {} /\ gone = {}
    /\ poll = Idle
    /\ fetch = [t \in Tasks |-> None]
    /\ by = [t \in Tasks |-> "nobody"]
    /\ revived = {} /\ disturbed = {} /\ faults = 0 /\ fetches = 0

-----------------------------------------------------------------------------
(* The provider, time and the administrator.                               *)

UpstreamMoves(t) ==
    /\ upstream[t] \in Live
    /\ \E s \in {"running", "success", "failure"} : upstream' = [upstream EXCEPT ![t] = s]
    /\ UNCHANGED <<row, money, old, gone, poll, query, history, failing>>

TimesOut(t) ==
    /\ t \notin old /\ old' = old \cup {t}
    /\ UNCHANGED <<row, money, upstream, gone, poll, query, history, failing>>

ChannelGone(t) ==
    /\ faults < MaxFaults /\ faults' = faults + 1
    /\ t \notin gone /\ gone' = gone \cup {t}
    /\ UNCHANGED <<row, money, upstream, old, poll, query, history, disturbed>>

-----------------------------------------------------------------------------
(* The row.                                                                *)

\* A failing statement in the billing of a task.
Fault(t) ==
    /\ faults < MaxFaults /\ faults' = faults + 1
    /\ disturbed' = disturbed \cup {t}

NoFault == UNCHANGED failing

\* UpdateWithStatus: UPDATE ... WHERE status = from.
Wins(t, from) == row[t] = from

\* The history of a write.
WrittenBy(t, s, who) ==
    by' = IF s \in Ended THEN [by EXCEPT ![t] = who] ELSE by

-----------------------------------------------------------------------------
(* sweepTimedOutTasks.                                                     *)

\* Only tasks that have not started are read.
Unfinished_Submitted == {t \in Tasks : row[t] = "submitted"}

\* GetAllUnFinishSyncTasks
Unfinished == {t \in Tasks : row[t] \in Live}

\* What the query reads of the rows ts.
Reading(ts) == [t \in Tasks |-> IF t \in ts THEN row[t] ELSE "submitted"]

\* The loop is done with the task t.
Onward(t) == [poll EXCEPT !.todo = @ \ {t}, !.task = None, !.pc = poll.back,
                          !.answer = "submitted", !.seen[t] = "submitted"]

\* GetTimedOutUnfinishedTasks
SweepRead ==
    /\ poll.pc = "idle"
    /\ poll' = [Idle EXCEPT !.pc = "sweep", !.back = "sweep", !.todo = Unfinished \cap old,
                             !.seen = Reading(Unfinished \cap old)]
    /\ UNCHANGED <<row, money, world, query, history, failing>>

Refundable(t) == t \notin Legacy /\ Quota[t] # 0

SweepCas(t) ==
    /\ poll.pc = "sweep" /\ t \in poll.todo
    /\ \/ /\ Wins(t, poll.seen[t])
          /\ row' = [row EXCEPT ![t] = "failure"]
          /\ WrittenBy(t, "failure", "sweep")
          /\ poll' = IF Refundable(t) THEN [poll EXCEPT !.pc = "refund", !.task = t] ELSE Onward(t)
          /\ NoFault
       \/ /\ ~ Wins(t, poll.seen[t])
          /\ poll' = Onward(t) /\ NoFault /\ UNCHANGED <<row, by>>
       \/ /\ poll' = Onward(t) /\ Fault(t) /\ UNCHANGED <<row, by>>
    /\ UNCHANGED <<money, world, query, revived>>

-----------------------------------------------------------------------------
(* TaskPollingLoop after the sweep.                                        *)

PollRead ==
    /\ poll.pc = "sweep" /\ poll.todo = {}
    /\ poll' = [Idle EXCEPT !.pc = "poll", !.back = "poll", !.todo = Unfinished,
                             !.seen = Reading(Unfinished)]
    /\ UNCHANGED <<row, money, world, query, history, failing>>

PollEnd ==
    /\ poll.pc = "poll" /\ poll.todo = {}
    /\ poll' = Idle
    /\ UNCHANGED <<row, money, world, query, history, failing>>

\* CacheGetChannel fails: TaskBulkUpdateByID, whatever the status is by now.
PollGone(t) ==
    /\ poll.pc = "poll" /\ t \in poll.todo \cap gone
    /\ poll' = Onward(t)
    /\ \/ row' = [row EXCEPT ![t] = "failure"] /\ WrittenBy(t, "failure", "bulk") /\ NoFault
       \/ Fault(t) /\ UNCHANGED <<row, by>>
    /\ UNCHANGED <<money, world, query, revived>>

\* FetchTask failed, was rate-limited or could not be parsed: another time.
PollNoAnswer(t) ==
    /\ poll.pc = "poll" /\ t \in poll.todo \ gone
    /\ faults < MaxFaults /\ faults' = faults + 1
    /\ poll' = Onward(t)
    /\ UNCHANGED <<row, money, world, query, history, disturbed>>

\* updateVideoSingleTask: an answer with an error message and no status counts as a
\* failure of the task.
VideoAnswer(t) ==
    /\ poll.pc = "poll" /\ t \in poll.todo \ (gone \cup Suno)
    /\ \E a \in {upstream[t], "failure"} :
          poll' = [poll EXCEPT !.pc = "cas", !.task = t, !.answer = a]
    /\ UNCHANGED <<row, money, world, query, history, failing>>

\* settleTaskBillingOnComplete, RecalculateTaskQuota
SettleDelta(t) == IF Actual[t] = 0 THEN 0 ELSE Actual[t] - Quota[t]

\* shouldSettle and shouldRefund; nothing more is done for a difference of zero
AfterCas(t, a) ==
    IF a = "success" /\ SettleDelta(t) # 0 THEN [poll EXCEPT !.pc = "settle"]
    ELSE IF a = "failure" /\ Quota[t] # 0 THEN [poll EXCEPT !.pc = "refund"]
    ELSE Onward(t)

\* Billing follows only for the caller that moved the row; a failed statement, too,
\* leaves the billing out.
VideoCas ==
    LET t == poll.task
        a == poll.answer
    IN  /\ poll.pc = "cas"
        /\ \/ /\ Wins(t, poll.seen[t])
              /\ row' = [row EXCEPT ![t] = a]
              /\ WrittenBy(t, a, "poll")
              /\ poll' = AfterCas(t, a) /\ NoFault
           \/ /\ ~ Wins(t, poll.seen[t])
              /\ poll' = Onward(t) /\ NoFault /\ UNCHANGED <<row, by>>
           \/ /\ poll' = Onward(t) /\ Fault(t) /\ UNCHANGED <<row, by>>
        /\ UNCHANGED <<money, world, query, revived>>

\* updateSunoTasks: the refund comes first, the row is saved after it.
SunoAnswer(t) ==
    /\ poll.pc = "poll" /\ t \in (poll.todo \cap Suno) \ gone
    /\ poll' = IF upstream[t] = poll.seen[t] THEN Onward(t)
               ELSE [poll EXCEPT !.task = t, !.answer = upstream[t], !.back = "save",
                                 !.pc = IF upstream[t] = "failure" /\ Quota[t] # 0
                                        THEN "refund" ELSE "save"]
    /\ UNCHANGED <<row, money, world, query, history, failing>>

\* task.Update(): Save of the whole row, unconditionally.
SunoSave ==
    LET t == poll.task
    IN  /\ poll.pc = "save"
        /\ \/ row' = [row EXCEPT ![t] = poll.answer] /\ WrittenBy(t, poll.answer, "poll") /\ NoFault
           \/ Fault(t) /\ UNCHANGED <<row, by>>
        /\ poll' = [Onward(t) EXCEPT !.pc = "poll", !.back = "poll"]
        /\ UNCHANGED <<money, world, query, revived>>

-----------------------------------------------------------------------------
(* RefundTaskQuota and settleTaskBillingOnComplete.                        *)

\* A Suno task is not saved once it was refunded.
BillingDone_Unsaved ==
    IF poll.back = "save" THEN [Onward(poll.task) EXCEPT !.pc = "poll", !.back = "poll"]
    ELSE Onward(poll.task)

\* After the billing of a task the loop goes on, or saves the row.
BillingDone == IF poll.back = "save" THEN [poll EXCEPT !.pc = "save"] ELSE Onward(poll.task)

\* taskAdjustFunding; when it fails the token is left alone.
RefundFunding ==
    LET t == poll.task
    IN  /\ poll.pc = "refund"
        /\ \/ paid' = [paid EXCEPT ![t] = @ - Quota[t]] /\ NoFault
              /\ poll' = [poll EXCEPT !.pc = "refundToken"]
           \/ Fault(t) /\ poll' = BillingDone /\ UNCHANGED paid
        /\ UNCHANGED <<row, paidToken, world, query, history>>

\* taskAdjustTokenQuota: an error is logged.
RefundToken ==
    LET t == poll.task
    IN  /\ poll.pc = "refundToken"
        /\ \/ paidToken' = [paidToken EXCEPT ![t] = @ - Quota[t]] /\ NoFault
           \/ Fault(t) /\ UNCHANGED paidToken
        /\ poll' = BillingDone
        /\ UNCHANGED <<row, paid, world, query, history>>

SettleFunding ==
    LET t == poll.task
    IN  /\ poll.pc = "settle"
        /\ \/ paid' = [paid EXCEPT ![t] = @ + SettleDelta(t)] /\ NoFault
              /\ poll' = [poll EXCEPT !.pc = "settleToken"]
           \/ Fault(t) /\ poll' = Onward(t) /\ UNCHANGED paid
        /\ UNCHANGED <<row, paidToken, world, query, history>>

SettleToken ==
    LET t == poll.task
    IN  /\ poll.pc = "settleToken"
        /\ \/ paidToken' = [paidToken EXCEPT ![t] = @ + SettleDelta(t)] /\ NoFault
           \/ Fault(t) /\ UNCHANGED paidToken
        /\ poll' = Onward(t)
        /\ UNCHANGED <<row, paid, world, query, history>>

-----------------------------------------------------------------------------
(* tryRealtimeFetch: the row is read, upstream asked, the row written under *)
(* the status that was read.  Nothing is refunded or settled.              *)

FetchRead(t) ==
    /\ t \in Realtime /\ fetch[t] = None
    /\ fetches < MaxFetches /\ fetches' = fetches + 1
    /\ fetch' = [fetch EXCEPT ![t] = row[t]]
    /\ UNCHANGED <<row, money, world, poll, history, failing>>

FetchWrite(t) ==
    /\ fetch[t] # None
    /\ fetch' = [fetch EXCEPT ![t] = None]
    /\ IF t \notin gone /\ upstream[t] # fetch[t] /\ Wins(t, fetch[t])
       THEN /\ row' = [row EXCEPT ![t] = upstream[t]]
            /\ WrittenBy(t, upstream[t], "fetch")
            /\ revived' = IF row[t] \in Ended THEN revived \cup {t} ELSE revived
       ELSE UNCHANGED <<row, history>>
    /\ UNCHANGED <<money, world, poll, failing, fetches>>

\* The master stops and starts again: what the loop was doing is forgotten.
Crash ==
    /\ faults < MaxFaults /\ faults' = faults + 1
    /\ poll.pc # "idle" /\ poll' = Idle
    /\ disturbed' = disturbed \cup ({poll.task} \ {None})
    /\ UNCHANGED <<row, money, world, query, history>>

-----------------------------------------------------------------------------
Poller ==
    \/ SweepRead \/ PollRead \/ PollEnd
    \/ \E t \in poll.todo : SweepCas(t) \/ PollGone(t) \/ PollNoAnswer(t) \/ VideoAnswer(t)
                            \/ SunoAnswer(t)
    \/ VideoCas \/ SunoSave \/ RefundFunding \/ RefundToken \/ SettleFunding \/ SettleToken

Next ==
    \/ Poller
    \/ \E t \in Tasks : UpstreamMoves(t) \/ TimesOut(t) \/ ChannelGone(t)
    \/ \E t \in Tasks : FetchRead(t) \/ FetchWrite(t)
    \/ Crash

Spec == Init /\ [][Next]_vars

-----------------------------------------------------------------------------
(* Properties.                                                             *)

InHand(t) == poll.task = t

\* No task gets back more than it paid, at the funding source or at the token: the
\* sweep, the poll, a query, a restart and failing statements cannot make two refunds
\* of one.  Two exceptions are the code's: a query that wrote over an ended row, and a
\* Suno task, refunded before its row is saved, when the save fails or is lost.
RefundedOnce ==
    \A t \in Tasks \ revived :
        (t \in Suno => t \notin disturbed) => (paid[t] >= 0 /\ paidToken[t] >= 0)

\* A task the loop ended has been billed as it ended: a failed one was refunded, a
\* successful one paid what the adaptor or the tokens say.
BilledAsEnded ==
    \A t \in Tasks \ (revived \cup disturbed) :
        (by[t] \in {"poll", "sweep"} /\ row[t] \in Ended /\ ~ InHand(t)) =>
            LET due == IF row[t] = "success"
                       THEN IF t \in Suno THEN Quota[t] ELSE Quota[t] + SettleDelta(t)
                       ELSE IF by[t] = "sweep" /\ t \in Legacy THEN Quota[t] ELSE 0
            IN  paid[t] = due /\ paidToken[t] = due

(* What a task has paid, while and after it ended, is what it should: never  *)
(* less than nothing, and in the end what its end is worth, whoever of the   *)
(* sweep, the poll and the query of a user moved its row.                    *)
PaidAsEnded == RefundedOnce /\ BilledAsEnded

\* "When an asynchronous task fails, its pre-consumed quota is given back to the
\* user": a failed task whose billing met no failing call has paid nothing.
FailedGivesBack ==
    \A t \in Tasks \ (disturbed \cup Legacy \cup gone) :
        (row[t] = "failure" /\ ~ InHand(t)) => paid[t] = 0

=============================================================================
