----------------------------- MODULE Midjourney -----------------------------
(***************************************************************************)
(* Midjourney tasks: the submission and its charge (relay/mjproxy_handler, *)
(* service/midjourney), the rows (model/midjourney), the loop of the       *)
(* master that polls the proxies (controller/midjourney) and the proxies'  *)
(* notifications.                                                          *)
(*                                                                         *)
(* One user, one channel, one price.  A submission is answered by the      *)
(* proxy with a code; the row is inserted, and the price is charged by a   *)
(* deferred function afterwards.  Nothing is pre-consumed.                 *)
(***************************************************************************)
EXTENDS Integers, Sequences, FiniteSets

CONSTANTS
    MjIds,          \* the task numbers of the proxy
    Modes,          \* the kinds of submission the user makes, of AllModes
    Calls,          \* concurrent submissions of the user
    Price,          \* priceData.Quota
    FirstQuota,     \* the user's quota at the start
    CheckSuccess,   \* setting.MjActionCheckSuccessEnabled
    MaxRows,        \* bound: submissions that leave a row
    MaxNotifies,    \* bound: notifications
    MaxMjFaults     \* bound: failing calls and statements, restarts, a lost channel

ASSUME MjAssumption == Price \in Nat

VARIABLES
    rows,       \* midjourneys: a sequence of tasks
    proxy,      \* [MjIds]: what the proxy says of a task; Unknown before it has it
    chan,       \* the channel: "enabled", "disabled" or "gone"
    wallet,     \* the user's quota
    call,       \* [Calls]: a submission under way
    loop,       \* the goroutine of UpdateMidjourneyTaskBulk
    notice,     \* a notification being handled, or NoNotice
    aged,       \* rows submitted more than an hour ago
    mjPaid,       \* history: what each row's task paid, net
    loose,      \* history: rows that carry a quota nobody charged
    ender,      \* history: [row]: who ended it: "loop", "notice" or "bulk"
    rewritten,  \* history: rows that had ended and were written again
    broken,     \* history: rows whose billing met a failing statement or a restart
    notifies, mjFaults

mjvars == <<rows, proxy, chan, wallet, call, loop, notice, aged, mjPaid, loose, ender, rewritten, broken,
            notifies, mjFaults>>
mjHistory == <<loose, ender, rewritten, broken>>
bounds == <<notifies, mjFaults>>

\* What the proxy says of a task: a status, whether the progress is 100%, a fail reason.
Item(status, full, reason) == [status |-> status, full |-> full, reason |-> reason]
Unknown == Item("", FALSE, FALSE)
Running == Item("IN_PROGRESS", FALSE, FALSE)
Drawn == Item("SUCCESS", TRUE, FALSE)
Failures == {Item("FAILURE", FALSE, TRUE), Item("FAILURE", TRUE, TRUE)}

NoCall == [pc |-> "idle", mode |-> "", row |-> 0]
NoNotice == [row |-> 0, item |-> Unknown]
Asleep == [pc |-> "sleep", tasks |-> <<>>, items |-> <<>>, row |-> 0]

InitMj ==
    /\ rows = <<>> /\ proxy = [m \in MjIds |-> Unknown] /\ chan = "enabled"
    /\ wallet = FirstQuota
    /\ call = [c \in Calls |-> NoCall] /\ loop = Asleep /\ notice = NoNotice
    /\ aged = {} /\ mjPaid = <<>>
    /\ loose = {} /\ ender = <<>> /\ rewritten = {} /\ broken = {} /\ notifies = 0 /\ mjFaults = 0

MjFault == mjFaults < MaxMjFaults /\ mjFaults' = mjFaults + 1

-----------------------------------------------------------------------------
(* The submission.                                                         *)

\* "draw": imagine, describe, edits, shorten, blend and simple changes, whose task is
\* named in the content and so is never looked up; "upload"; "swap": the face swap.
\* "change", "modal": work on an earlier task; "free": InPaint and CustomZoom.
OriginModes == {"change", "modal", "free"}
AllModes == {"draw", "upload", "swap"} \cup OriginModes

\* The earlier task is the user's, was drawn unless a modal is confirmed, and its channel
\* is enabled: GetByMJId, MjActionCheckSuccessEnabled, GetChannelById.
OriginAccepted(mode) ==
    /\ \E r \in DOMAIN rows :
          /\ rows[r].mj # ""
          /\ \A q \in 1 .. (r - 1) : rows[q].mj # rows[r].mj
          /\ (CheckSuccess /\ mode # "modal") => rows[r].status = "SUCCESS"
    /\ chan = "enabled"

ConsumesQuota(mode) == mode # "free"

\* quota_not_enough: the price is compared with the quota, not reserved.
EnoughQuota(mode) == ConsumesQuota(mode) => wallet - Price >= 0

\* RelayMidjourneySubmit and RelaySwapFace up to DoMidjourneyHttpRequest.  A request the
\* checks turn away leaves nothing.
Submit(c) ==
    /\ call[c].pc = "idle"
    /\ \E mode \in Modes :
          /\ mode \in OriginModes => OriginAccepted(mode)
          /\ chan # "gone"
          /\ EnoughQuota(mode)
          /\ call' = [call EXCEPT ![c] = [pc |-> "sent", mode |-> mode, row |-> 0]]
    /\ UNCHANGED <<rows, proxy, chan, wallet, loop, notice, aged, mjPaid, mjHistory, bounds>>

\* DoMidjourneyHttpRequest fails: read_request_body_failed, do_request_failed, ...
SubmitFails(c) ==
    /\ call[c].pc = "sent" /\ MjFault
    /\ call' = [call EXCEPT ![c] = NoCall]
    /\ UNCHANGED <<rows, proxy, chan, wallet, loop, notice, aged, mjPaid, mjHistory, notifies>>

\* The answers of the proxy, as the comment in the code lists them: 1 submitted, 21 there
\* is such a task, 22 queued, 3 no account, 23 or others: rejected.
Fresh == {m \in MjIds : proxy[m] = Unknown}
Answers ==
    {a \in [code : {1, 3, 21, 22, 23}, mj : MjIds \cup {""}] :
        /\ a.code \in {1, 22} => a.mj \in Fresh
        /\ a.code = 21 => a.mj \in MjIds \ Fresh
        /\ a.code = 3 => a.mj = ""
        /\ a.code = 23 => a.mj \in Fresh \cup {""}}

Accepted == {1, 21, 22}

\* consumeQuota when the deferred function runs, and status code 200; the face swap is
\* charged for code 1 alone.
Charged(mode, code, ok) ==
    ok /\ IF mode = "swap" THEN code = 1 ELSE ConsumesQuota(mode) /\ code \in Accepted

\* The row that is inserted.
NewRow(mode, a) ==
    LET there == a.code = 21 /\ mode # "swap"
        drawn == there /\ proxy[a.mj] = Drawn
        upload == mode = "upload" /\ (a.code = 1 \/ drawn)
    IN  [mj |-> a.mj,
         status |-> IF upload THEN "SUCCESS" ELSE IF there THEN proxy[a.mj].status ELSE "",
         done |-> drawn \/ upload,
         reason |-> mode # "swap" /\ a.code \notin Accepted]

\* The answer: code 3 disables the channel, the row is inserted.
Answered(c) ==
    LET mode == call[c].mode
    IN  /\ call[c].pc = "sent" /\ Len(rows) < MaxRows
        /\ \E a \in Answers, ok \in BOOLEAN :
              LET r == Len(rows) + 1
              IN  /\ rows' = Append(rows, NewRow(mode, a)) /\ mjPaid' = Append(mjPaid, 0)
                  /\ ender' = Append(ender, "")
                  /\ proxy' = IF a.code \in {1, 22} THEN [proxy EXCEPT ![a.mj] = Running] ELSE proxy
                  /\ chan' = IF a.code = 3 /\ mode # "swap" /\ chan = "enabled"
                             THEN "disabled" ELSE chan
                  /\ loose' = IF Charged(mode, a.code, ok) THEN loose ELSE loose \cup {r}
                  /\ call' = [call EXCEPT ![c] = IF Charged(mode, a.code, ok)
                                                 THEN [pc |-> "charge", mode |-> "", row |-> r]
                                                 ELSE NoCall]
        /\ UNCHANGED <<wallet, loop, notice, aged, rewritten, broken, bounds>>

\* The insertion fails: the client is told so, and the deferred function charges the
\* task without a row all the same.
InsertFails(c) ==
    /\ call[c].pc = "sent" /\ MjFault
    /\ \E a \in Answers :
          /\ proxy' = IF a.code \in {1, 22} THEN [proxy EXCEPT ![a.mj] = Running] ELSE proxy
          /\ call' = [call EXCEPT ![c] = IF Charged(call[c].mode, a.code, TRUE)
                                         THEN [NoCall EXCEPT !.pc = "charge"] ELSE NoCall]
    /\ UNCHANGED <<rows, chan, wallet, loop, notice, aged, mjPaid, mjHistory, notifies>>

\* PostConsumeQuota in the deferred function.
Charge(c) ==
    /\ call[c].pc = "charge"
    /\ wallet' = wallet - Price
    /\ mjPaid' = IF call[c].row = 0 THEN mjPaid ELSE [mjPaid EXCEPT ![call[c].row] = @ + Price]
    /\ call' = [call EXCEPT ![c] = NoCall]
    /\ UNCHANGED <<rows, proxy, chan, loop, notice, aged, mjHistory, bounds>>

-----------------------------------------------------------------------------
(* The proxy, time and the administrator.                                  *)

ProxyMoves(m) ==
    /\ proxy[m] = Running
    /\ \E i \in {Drawn} \cup Failures : proxy' = [proxy EXCEPT ![m] = i]
    /\ UNCHANGED <<rows, chan, wallet, call, loop, notice, aged, mjPaid, mjHistory, bounds>>

\* An hour has passed; only for tasks that are not done is it looked at.
Ages(r) ==
    /\ r \in DOMAIN rows \ aged /\ ~ rows[r].done /\ aged' = aged \cup {r}
    /\ UNCHANGED <<rows, proxy, chan, wallet, call, loop, notice, mjPaid, mjHistory, bounds>>

MjChannelGone ==
    /\ chan # "gone" /\ chan' = "gone" /\ MjFault
    /\ UNCHANGED <<rows, proxy, wallet, call, loop, notice, aged, mjPaid, mjHistory, notifies>>

-----------------------------------------------------------------------------
(* UpdateMidjourneyTaskBulk.                                               *)

\* GetAllUnFinishTasks: progress != 100%
UnFinishTasks == {r \in DOMAIN rows : ~ rows[r].done}

\* MjBulkUpdate, MjBulkUpdateByTaskIds
Bulk(rs) == [r \in DOMAIN rows |->
                IF r \in rs THEN [rows[r] EXCEPT !.status = "FAILURE", !.done = TRUE] ELSE rows[r]]

\* The history of a write of the rows rs, that leaves them ended or not.
WrittenRows(rs, who) ==
    /\ ender' = [r \in DOMAIN rows |-> IF r \in rs THEN who ELSE ender[r]]
    /\ rewritten' = rewritten \cup {r \in rs : rows[r].done}

\* taskM keeps one row for a task number, the last one read.
TaskM == [m \in {rows[r].mj : r \in UnFinishTasks} \ {""} |->
            LET r == CHOOSE r \in UnFinishTasks :
                        rows[r].mj = m /\ \A q \in UnFinishTasks : rows[q].mj = m => q <= r
            IN  [row |-> r, seen |-> rows[r]]]

\* The unfinished rows are read; those without a task number fail, the others are asked
\* for.  The bulk statement may fail; the loop goes on.
LoopRead ==
    /\ loop.pc = "sleep" /\ UnFinishTasks # {}
    /\ loop' = [Asleep EXCEPT !.pc = IF DOMAIN TaskM = {} THEN "sleep" ELSE "ask", !.tasks = TaskM]
    /\ LET null == {r \in UnFinishTasks : rows[r].mj = ""}
       IN  \/ rows' = Bulk(null) /\ WrittenRows(null, "bulk") /\ UNCHANGED mjFaults
           \/ null # {} /\ MjFault /\ UNCHANGED <<rows, ender, rewritten>>
    /\ UNCHANGED <<proxy, chan, wallet, call, notice, aged, mjPaid, loose, broken, notifies>>

\* CacheGetChannel finds nothing: every row of these task numbers fails.
LoopNoChannel ==
    /\ loop.pc = "ask" /\ chan = "gone"
    /\ LET rs == {r \in DOMAIN rows : rows[r].mj \in DOMAIN loop.tasks}
       IN  \/ rows' = Bulk(rs) /\ WrittenRows(rs, "bulk") /\ UNCHANGED mjFaults
           \/ MjFault /\ UNCHANGED <<rows, ender, rewritten>>
    /\ loop' = Asleep
    /\ UNCHANGED <<proxy, chan, wallet, call, notice, aged, mjPaid, loose, broken, notifies>>

\* list-by-condition answers with the tasks the proxy knows.
LoopAsk ==
    /\ loop.pc = "ask" /\ chan # "gone"
    /\ loop' = [loop EXCEPT !.pc = "items",
                            !.items = [m \in {m \in DOMAIN loop.tasks : proxy[m] # Unknown} |-> proxy[m]]]
    /\ UNCHANGED <<rows, proxy, chan, wallet, call, notice, aged, mjPaid, mjHistory, bounds>>

\* No answer, a status other than 200, a body that cannot be parsed: the next round asks.
LoopNoAnswer ==
    /\ loop.pc = "ask" /\ chan # "gone" /\ MjFault
    /\ loop' = Asleep
    /\ UNCHANGED <<rows, proxy, chan, wallet, call, notice, aged, mjPaid, mjHistory, notifies>>

\* A task of more than an hour has failed, whatever the proxy says.
Judged(r, i) == IF r \in aged THEN [i EXCEPT !.status = "FAILURE", !.reason = TRUE] ELSE i

\* The failure ends the task and gives its quota back.
Failed(i) == (~ i.full /\ i.reason) \/ (i.full /\ i.status = "FAILURE")

Written(row, i) ==
    [row EXCEPT !.status = i.status, !.done = i.full \/ Failed(i), !.reason = i.reason]

\* The loser gives the quota back as well.
RefundDue_Always(won, i) == Failed(i) /\ Price # 0

\* won && shouldReturnQuota
RefundDue(won, i) == won /\ Failed(i) /\ Price # 0

ItemDone(m) == [loop EXCEPT !.items = [x \in DOMAIN loop.items \ {m} |-> loop.items[x]], !.pc = "items",
                            !.row = 0]

\* One item of the answer: checkMjTaskNeedUpdate, UpdateWithStatus under the status that
\* was read.  A failing statement leaves the refund out.
LoopItem(m) ==
    LET t == loop.tasks[m]
        i == Judged(t.row, loop.items[m])
        won == rows[t.row].status = t.seen.status
        same == Written(t.seen, i) = t.seen
    IN  /\ loop.pc = "items" /\ m \in DOMAIN loop.items
        /\ \/ /\ IF won /\ ~ same
                 THEN /\ rows' = [rows EXCEPT ![t.row] = Written(t.seen, i)]
                      /\ WrittenRows({t.row}, "loop")
                 ELSE UNCHANGED <<rows, ender, rewritten>>
              /\ loop' = IF ~ same /\ RefundDue(won, i)
                         THEN [ItemDone(m) EXCEPT !.pc = "refund", !.row = t.row] ELSE ItemDone(m)
              /\ UNCHANGED <<broken, mjFaults>>
           \/ /\ ~ same /\ MjFault
              /\ loop' = ItemDone(m) /\ broken' = broken \cup {t.row}
              /\ UNCHANGED <<rows, ender, rewritten>>
        /\ UNCHANGED <<proxy, chan, wallet, call, notice, aged, mjPaid, loose, notifies>>

\* IncreaseUserQuota; an error is logged.
LoopRefund ==
    /\ loop.pc = "refund"
    /\ loop' = [loop EXCEPT !.pc = "items", !.row = 0]
    /\ \/ /\ wallet' = wallet + Price /\ mjPaid' = [mjPaid EXCEPT ![loop.row] = @ - Price]
          /\ UNCHANGED <<broken, mjFaults>>
       \/ MjFault /\ broken' = broken \cup {loop.row} /\ UNCHANGED <<wallet, mjPaid>>
    /\ UNCHANGED <<rows, proxy, chan, call, notice, aged, loose, ender, rewritten, notifies>>

LoopEnd ==
    /\ loop.pc = "items" /\ DOMAIN loop.items = {}
    /\ loop' = Asleep
    /\ UNCHANGED <<rows, proxy, chan, wallet, call, notice, aged, mjPaid, mjHistory, bounds>>

\* The process stops and starts again: submissions and the round are lost.
Restart ==
    /\ MjFault
    /\ broken' = broken \cup ({loop.row} \ {0}) \cup ({call[c].row : c \in Calls} \ {0})
    /\ call' = [c \in Calls |-> NoCall] /\ loop' = Asleep /\ notice' = NoNotice
    /\ UNCHANGED <<rows, proxy, chan, wallet, aged, mjPaid, loose, ender, rewritten, notifies>>

-----------------------------------------------------------------------------
(* RelayMidjourneyNotify.                                                  *)

\* A notification arrives, perhaps late: the first row with its number is read.
NotifyRead(m) ==
    /\ notice = NoNotice /\ proxy[m] # Unknown
    /\ notifies < MaxNotifies /\ notifies' = notifies + 1
    /\ \E r \in DOMAIN rows, i \in {Running, proxy[m]} :
          /\ rows[r].mj = m /\ \A q \in 1 .. (r - 1) : rows[q].mj # m
          /\ notice' = [row |-> r, item |-> i]
    /\ UNCHANGED <<rows, proxy, chan, wallet, call, loop, aged, mjPaid, mjHistory, mjFaults>>

\* Update: the whole row is saved, whatever became of it, and nothing is given back.
NotifySave ==
    /\ notice # NoNotice /\ notice' = NoNotice
    /\ LET i == notice.item
       IN  rows' = [rows EXCEPT ![notice.row].status = i.status, ![notice.row].done = i.full,
                                ![notice.row].reason = i.reason]
    /\ WrittenRows({notice.row}, "notice")
    /\ UNCHANGED <<proxy, chan, wallet, call, loop, aged, mjPaid, loose, broken, bounds>>

-----------------------------------------------------------------------------
MjLoop ==
    \/ LoopRead \/ LoopNoChannel \/ LoopAsk \/ LoopNoAnswer \/ LoopRefund \/ LoopEnd
    \/ \E m \in MjIds : LoopItem(m)

NextMj ==
    \/ \E c \in Calls : Submit(c) \/ SubmitFails(c) \/ Answered(c) \/ InsertFails(c) \/ Charge(c)
    \/ \E m \in MjIds : ProxyMoves(m) \/ NotifyRead(m)
    \/ \E r \in DOMAIN rows : Ages(r)
    \/ MjChannelGone \/ Restart \/ NotifySave \/ MjLoop

\* The loop sleeps 15 seconds and goes on for ever; time passes.
FairMj == WF_mjvars(MjLoop) /\ WF_mjvars(\E r \in DOMAIN rows : Ages(r))

SpecMj == InitMj /\ [][NextMj]_mjvars /\ FairMj

-----------------------------------------------------------------------------
(* Properties.                                                             *)

InHandMj(r) == loop.row = r \/ \E c \in Calls : call[c].row = r

\* A task that was charged has paid as it ended: nothing when the loop found it failed,
\* the price when it was drawn, or when a notification or a bulk update ended it, which
\* give nothing back - though the charge comes after the row the loop may already have
\* ended, and a notification may move the row between the loop's read and its update.
\* Left out are rows that were never charged and carry a quota all the same, rows whose
\* statements failed, and rows written again after their end: a late notification
\* reopens a refunded task.
MjBilledAsEnded ==
    \A r \in DOMAIN rows \ (loose \cup broken \cup rewritten) :
        (rows[r].done /\ ~ InHandMj(r)) =>
            mjPaid[r] = IF ender[r] = "loop" /\ rows[r].status = "FAILURE" THEN 0 ELSE Price

\* Every task the proxy has ends, at the latest an hour after its submission: rows the
\* proxy does not know are asked for and never judged.
AllEnded ==
    \A r \in DOMAIN rows : rows[r].done \/ (rows[r].mj # "" /\ proxy[rows[r].mj] = Unknown)
=============================================================================
