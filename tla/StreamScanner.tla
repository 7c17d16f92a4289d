--------------------------- MODULE StreamScanner ---------------------------
(***************************************************************************)
(* StreamScannerHandler (relay/helper/stream_scanner.go): one streaming     *)
(* answer is read by four goroutines.  The scanner reads lines from the     *)
(* upstream body and puts the data lines into dataChan; the data handler    *)
(* takes them out and runs the adaptor's callback under writeMutex; the     *)
(* ping goroutine starts a writer of its own, under the same mutex, every   *)
(* interval; the main goroutine waits for the first of a timeout, a token   *)
(* of stopChan and the client's departure, and then cleans up.              *)
(*                                                                          *)
(* stopChan is a buffered channel of tokens: ONE receiver takes a token.    *)
(* The writer a ping starts is not counted by the wait group.               *)
(***************************************************************************)
EXTENDS Naturals, FiniteSets

CONSTANTS
    DataCap,    \* capacity of dataChan (10 in the code)
    StopCap,    \* capacity of stopChan (3 in the code)
    MaxLines,   \* bound: data lines one upstream sends
    MaxPings    \* bound: ticks of the ping timer

ASSUME ScannerAssumption == DataCap \in Nat \ {0} /\ StopCap \in Nat \ {0}

VARIABLES
    mn,        \* main goroutine: "select", "cancelled", "waiting", "returned"
    sc,        \* scanner: "scan", "send", "exited"
    dh,        \* data handler: "idle", "handling", "exited"
    pg,        \* ping goroutine: "wait", "pinging", "exited"
    pw,        \* the writer a ping starts: "none", "lock", "writing"
    mutex,     \* writeMutex: "free", "dh", "pw"
    stop,      \* tokens in stopChan
    queue,     \* lines in dataChan
    closed,    \* channels that are closed, of {"data", "stop"}
    gone,      \* the client's request context is done
    received,  \* info.ReceivedResponseCount
    handled,   \* calls of dataHandler that returned
    halted,    \* the callback called sr.Stop or sr.Done, or panicked
    reason,    \* StreamStatus.EndReason, set once
    ticked,    \* the main goroutine left by the streaming timeout
    abandoned, \* the clean-up gave up after five seconds
    pings      \* ticks so far

scvars == <<mn, sc, dh, pg, pw, mutex, stop, queue, closed, gone, received, handled,
            halted, reason, ticked, abandoned, pings>>

Reasons == {"none", "done", "timeout", "client_gone", "scanner_error", "handler_stop",
            "eof", "panic", "ping_fail"}

(* SetEndReason: the first reason stays (sync.Once). *)
SetEndReason(r) == IF reason = "none" THEN r ELSE reason

(* NewStreamStatus, the channels and the goroutines of one answer. *)
InitScanner ==
    /\ mn = "select" /\ sc = "scan" /\ dh = "idle" /\ pg \in {"wait", "exited"}
    /\ pw = "none" /\ mutex = "free" /\ stop = 0 /\ queue = 0 /\ closed = {}
    /\ gone = FALSE /\ received = 0 /\ handled = 0 /\ halted = FALSE
    /\ reason = "none" /\ ticked = FALSE /\ abandoned = FALSE
    /\ pings = 0

ctxDone == mn # "select"     \* defer cancel() is the first of the deferred calls

(* SafeSendBool: a closed channel swallows the token, a full one blocks. *)
SafeSendBool == IF "stop" \in closed THEN UNCHANGED stop
                ELSE stop < StopCap /\ stop' = stop + 1

(* The deferred function of the scanner goroutine. *)
ScannerExit(r, s) ==
    /\ sc' = "exited" /\ closed' = closed \cup {"data"}
    /\ IF "stop" \in closed THEN stop' = s ELSE s < StopCap /\ stop' = s + 1
    /\ reason' = r

(* A line was read while a token, the cancelled context or the departed     *)
(* client is there: select takes any ready case.                           *)
ScanStopped ==
    /\ sc = "scan"
    /\ \/ (stop > 0 \/ "stop" \in closed)
          /\ ScannerExit(reason, IF stop > 0 THEN stop - 1 ELSE stop)
       \/ ctxDone /\ ScannerExit(reason, stop)
       \/ gone /\ ScannerExit(SetEndReason("client_gone"), stop)
    /\ UNCHANGED <<mn, dh, pg, pw, mutex, queue, gone, received, handled, halted,
                   ticked, abandoned, pings>>

NothingReady == stop = 0 /\ "stop" \notin closed /\ ~ctxDone /\ ~gone

(* A data line: it is counted and then offered to dataChan. *)
ScanData ==
    /\ sc = "scan" /\ NothingReady /\ received < MaxLines
    /\ received' = received + 1 /\ sc' = "send"
    /\ UNCHANGED <<mn, dh, pg, pw, mutex, stop, queue, closed, gone, handled, halted,
                   reason, ticked, abandoned, pings>>

(* dataChan <- data, or the context or a token ends the scanner there. *)
ScanSend ==
    /\ sc = "send"
    /\ \/ /\ queue < DataCap
          /\ queue' = queue + 1 /\ sc' = "scan"
          /\ UNCHANGED <<stop, closed, reason>>
       \/ /\ ctxDone \/ stop > 0 \/ "stop" \in closed
          /\ ScannerExit(reason, IF ~ctxDone /\ stop > 0 THEN stop - 1 ELSE stop)
          /\ UNCHANGED queue
    /\ UNCHANGED <<mn, dh, pg, pw, mutex, gone, received, handled, halted, ticked,
                   abandoned, pings>>

(* [DONE], the end of the body or a read error.  A [DONE] line meets the    *)
(* select first; an end of the body does not.  Once the main goroutine has  *)
(* returned the body is closed, which ends the scanner too.                *)
ScanEnd ==
    /\ sc = "scan"
    /\ \/ NothingReady /\ ScannerExit(SetEndReason("done"), stop)
       \/ ScannerExit(SetEndReason("eof"), stop)
       \/ ScannerExit(SetEndReason("scanner_error"), stop)
    /\ UNCHANGED <<mn, dh, pg, pw, mutex, queue, gone, received, handled, halted,
                   ticked, abandoned, pings>>

(* The data handler takes a line and the mutex. *)
HandleStart ==
    /\ dh = "idle" /\ queue > 0 /\ mutex = "free"
    /\ queue' = queue - 1 /\ dh' = "handling" /\ mutex' = "dh"
    /\ UNCHANGED <<mn, sc, pg, pw, stop, closed, gone, received, handled, halted,
                   reason, ticked, abandoned, pings>>

(* dataHandler returns: it wrote to the client; after sr.Stop or sr.Done    *)
(* the goroutine ends, otherwise it takes the next line.                   *)
HandleEnd ==
    /\ dh = "handling"
    /\ handled' = handled + 1 /\ mutex' = "free"
    /\ \/ dh' = "idle" /\ UNCHANGED <<halted, reason, stop>>
       \/ /\ dh' = "exited" /\ halted' = TRUE
          /\ \E r \in {"handler_stop", "done"} : reason' = SetEndReason(r)
          /\ SafeSendBool
    /\ UNCHANGED <<mn, sc, pg, pw, queue, closed, gone, received, ticked, abandoned,
                   pings>>

(* A panic of dataHandler is recovered, but writeMutex is not unlocked. *)
HandlePanic ==
    /\ dh = "handling"
    /\ dh' = "exited" /\ halted' = TRUE /\ reason' = SetEndReason("panic")
    /\ SafeSendBool
    /\ UNCHANGED <<mn, sc, pg, pw, mutex, queue, closed, gone, received, handled,
                   ticked, abandoned, pings>>

\* The handler leaves as soon as the channel is closed.
LeavesLines ==
    /\ dh = "idle" /\ "data" \in closed
    /\ dh' = "exited" /\ SafeSendBool
    /\ UNCHANGED <<mn, sc, pg, pw, mutex, queue, closed, gone, received, handled,
                   halted, reason, ticked, abandoned, pings>>

(* for data := range dataChan ends when it is closed and empty. *)
HandleDrained ==
    /\ dh = "idle" /\ queue = 0 /\ "data" \in closed
    /\ dh' = "exited" /\ SafeSendBool
    /\ UNCHANGED <<mn, sc, pg, pw, mutex, queue, closed, gone, received, handled,
                   halted, reason, ticked, abandoned, pings>>

(* A tick of pingTicker starts a writer. *)
PingTick ==
    /\ pg = "wait" /\ pings < MaxPings
    /\ pg' = "pinging" /\ pw' = "lock" /\ pings' = pings + 1
    /\ UNCHANGED <<mn, sc, dh, mutex, stop, queue, closed, gone, received, handled,
                   halted, reason, ticked, abandoned>>

PingLock ==
    /\ pw = "lock" /\ mutex = "free"
    /\ pw' = "writing" /\ mutex' = "pw"
    /\ UNCHANGED <<mn, sc, dh, pg, stop, queue, closed, gone, received, handled,
                   halted, reason, ticked, abandoned, pings>>

(* PingData: an error when the client is gone; the ping goroutine, if it    *)
(* still waits for the writer, ends on the error.                          *)
PingWrite ==
    /\ pw = "writing"
    /\ pw' = "none" /\ mutex' = "free"
    /\ IF pg = "pinging"
       THEN /\ pg' = IF gone THEN "exited" ELSE "wait"
            /\ reason' = IF gone THEN SetEndReason("ping_fail") ELSE reason
       ELSE UNCHANGED <<pg, reason>>
    /\ UNCHANGED <<mn, sc, dh, stop, queue, closed, gone, received, handled, halted,
                   ticked, abandoned, pings>>

(* The ping goroutine leaves: by a token, which it consumes, by the context,*)
(* by the client's departure (while it waits for a tick), or because the   *)
(* writer did not answer in ten seconds.                                   *)
PingLeave ==
    /\ pg \in {"wait", "pinging"}
    /\ pg' = "exited"
    /\ \/ stop > 0 /\ stop' = stop - 1 /\ UNCHANGED reason
       \/ (ctxDone \/ "stop" \in closed) /\ UNCHANGED <<stop, reason>>
       \/ gone /\ pg = "wait" /\ UNCHANGED <<stop, reason>>
       \/ pg = "pinging" /\ reason' = SetEndReason("ping_fail") /\ UNCHANGED stop
    /\ UNCHANGED <<mn, sc, dh, pw, mutex, queue, closed, gone, received, handled,
                   halted, ticked, abandoned, pings>>

ClientGone ==
    /\ ~gone /\ mn # "returned"
    /\ gone' = TRUE
    /\ UNCHANGED <<mn, sc, dh, pg, pw, mutex, stop, queue, closed, received, handled,
                   halted, reason, ticked, abandoned, pings>>

\* No streaming timeout.
LeaveWithoutTimer ==
    /\ mn = "select"
    /\ mn' = "cancelled"
    /\ \/ stop > 0 /\ stop' = stop - 1 /\ UNCHANGED reason
       \/ gone /\ reason' = SetEndReason("client_gone") /\ UNCHANGED stop
    /\ UNCHANGED <<sc, dh, pg, pw, mutex, queue, closed, gone, received, handled,
                   halted, ticked, abandoned, pings>>

(* The select of the main goroutine; leaving it cancels the context. *)
MainLeave ==
    /\ mn = "select"
    /\ mn' = "cancelled"
    /\ \/ stop > 0 /\ stop' = stop - 1 /\ UNCHANGED <<reason, ticked>>
       \/ ticked' = TRUE /\ reason' = SetEndReason("timeout") /\ UNCHANGED stop
       \/ gone /\ reason' = SetEndReason("client_gone") /\ UNCHANGED <<stop, ticked>>
    /\ UNCHANGED <<sc, dh, pg, pw, mutex, queue, closed, gone, received, handled,
                   halted, abandoned, pings>>

(* The clean-up: one more token, then wg.Wait for at most five seconds. *)
MainNotify ==
    /\ mn = "cancelled"
    /\ SafeSendBool /\ mn' = "waiting"
    /\ UNCHANGED <<sc, dh, pg, pw, mutex, queue, closed, gone, received, handled,
                   halted, reason, ticked, abandoned, pings>>

AllExited == sc = "exited" /\ dh = "exited" /\ pg = "exited"

MainReturn ==
    /\ mn = "waiting"
    /\ mn' = "returned" /\ closed' = closed \cup {"stop"}
    /\ abandoned' = ~AllExited
    /\ UNCHANGED <<sc, dh, pg, pw, mutex, stop, queue, gone, received, handled, halted,
                   reason, ticked, pings>>

NextScanner ==
    \/ ScanStopped \/ ScanData \/ ScanSend \/ ScanEnd
    \/ HandleStart \/ HandleEnd \/ HandlePanic \/ HandleDrained
    \/ PingTick \/ PingLock \/ PingWrite \/ PingLeave
    \/ ClientGone \/ MainLeave \/ MainNotify \/ MainReturn

ScannerSpec == InitScanner /\ [][NextScanner]_scvars

(* The timers of the main goroutine fire, a callback returns, and a         *)
(* goroutine that can leave does: the Go scheduler runs what is runnable.  *)
FairScanner ==
    /\ WF_scvars(MainLeave) /\ WF_scvars(MainNotify) /\ WF_scvars(MainReturn)
    /\ WF_scvars(HandleStart) /\ WF_scvars(HandleEnd \/ HandlePanic)
    /\ WF_scvars(HandleDrained) /\ WF_scvars(PingLeave) /\ WF_scvars(PingWrite)
    /\ WF_scvars(PingLock) /\ WF_scvars(ScanStopped) /\ WF_scvars(ScanSend)

----------------------------------------------------------------------------
(* An answer the upstream finished ([DONE] or end of body) is handed to the *)
(* callback whole before StreamScannerHandler returns: the main goroutine   *)
(* is woken by the scanner's token while lines still wait in dataChan, and  *)
(* the usage is counted from what the callback saw.  Only the callback      *)
(* itself, or the five seconds of the clean-up, may cut it short.          *)
FinishedIsDelivered ==
    mn = "returned" /\ ~abandoned /\ ~halted /\ reason \in {"done", "eof"}
        => handled = received /\ queue = 0

(* No answer holds its request for ever: whichever goroutine takes the stop *)
(* tokens, the handler returns, and so do its goroutines once the writers   *)
(* of pings are done - unless a panic of the callback kept the mutex.      *)
HandlerReturns == <>(mn = "returned") /\ <>[](AllExited \/ mutex = "dh")
=============================================================================
