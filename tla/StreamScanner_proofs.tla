------------------------ MODULE StreamScanner_proofs -------------------------
(***************************************************************************)
(* A finished answer is delivered whole, for any capacities of the two     *)
(* channels and any number of lines and pings.                             *)
(*                                                                         *)
(* While the callback has not halted, every line that was counted is       *)
(* handled, in the callback's hands, in dataChan or in the scanner's; the  *)
(* scanner drops the one it holds only when it leaves without an end       *)
(* reason of its own, and "done" and "eof" are set by the scanner as it    *)
(* leaves, with nothing in its hands, or by a callback that halts.  The    *)
(* data handler leaves an unhalted answer only when dataChan is closed and *)
(* empty, and the clean-up that does not give up waits for it.             *)
(***************************************************************************)
EXTENDS StreamScanner, TLAPS

ScannerTypes ==
    /\ queue \in Nat /\ received \in Nat /\ handled \in Nat
    /\ sc \in {"scan", "send", "exited"} /\ dh \in {"idle", "handling", "exited"}
    /\ mn \in {"select", "cancelled", "waiting", "returned"}

\* Lines that wait in dataChan or that the callback has.
Pending == queue + (IF dh = "handling" THEN 1 ELSE 0)

\* No line is lost while the scanner runs, nor once it ended the answer.
LinesInv ==
    ~ halted =>
        /\ sc # "exited" =>
              /\ reason \notin {"done", "eof"}
              /\ received = handled + Pending + (IF sc = "send" THEN 1 ELSE 0)
        /\ reason \in {"done", "eof"} => received = handled + Pending
        /\ dh = "exited" => queue = 0

\* dataChan is closed by the scanner as it leaves, and the data handler waits for that.
ExitInv ==
    /\ "data" \in closed <=> sc = "exited"
    /\ dh = "exited" => halted \/ sc = "exited"
    /\ (mn = "returned" /\ ~ abandoned) => dh = "exited" /\ sc = "exited"

ScannerInv == ScannerTypes /\ LinesInv /\ ExitInv

-----------------------------------------------------------------------------
LEMMA InitScannerInv == ASSUME InitScanner PROVE ScannerInv
  BY DEF InitScanner, ScannerInv, ScannerTypes, LinesInv, ExitInv, Pending

\* The scanner leaves: it closes dataChan.
LEMMA ScannerStep ==
    ASSUME ScannerInv, ScanStopped \/ ScanData \/ ScanSend \/ ScanEnd
    PROVE  ScannerInv'
  <1> USE DEF ScannerInv, ScannerTypes, LinesInv, ExitInv, Pending
  <1>1. CASE ScanStopped
    BY <1>1 DEF ScanStopped, ScannerExit, SetEndReason
  <1>2. CASE ScanData
    BY <1>2 DEF ScanData
  <1>3. CASE ScanSend
    BY <1>3 DEF ScanSend, ScannerExit
  <1>4. CASE ScanEnd
    BY <1>4 DEF ScanEnd, ScannerExit, SetEndReason
  <1> QED BY <1>1, <1>2, <1>3, <1>4

\* The data handler.
LEMMA HandlerStep ==
    ASSUME ScannerInv, HandleStart \/ HandleEnd \/ HandlePanic \/ HandleDrained
    PROVE  ScannerInv'
  <1> USE DEF ScannerInv, ScannerTypes, LinesInv, ExitInv, Pending
  <1>1. CASE HandleStart
    BY <1>1 DEF HandleStart
  <1>2. CASE HandleEnd
    BY <1>2 DEF HandleEnd
  <1>3. CASE HandlePanic
    BY <1>3 DEF HandlePanic
  <1>4. CASE HandleDrained
    BY <1>4 DEF HandleDrained
  <1> QED BY <1>1, <1>2, <1>3, <1>4

\* Pings, the client and the main goroutine touch no line.
LEMMA OthersStep ==
    ASSUME ScannerInv,
           \/ PingTick \/ PingLock \/ PingWrite \/ PingLeave
           \/ ClientGone \/ MainLeave \/ MainNotify \/ MainReturn
    PROVE  ScannerInv'
  <1> USE DEF ScannerInv, ScannerTypes, LinesInv, ExitInv, Pending
  <1>1. CASE PingTick \/ PingLock \/ PingWrite
    BY <1>1 DEF PingTick, PingLock, PingWrite, SetEndReason
  <1>2. CASE PingLeave
    BY <1>2 DEF PingLeave, SetEndReason
  <1>3. CASE ClientGone \/ MainNotify
    BY <1>3 DEF ClientGone, MainNotify
  <1>4. CASE MainLeave
    BY <1>4 DEF MainLeave, SetEndReason
  <1>5. CASE MainReturn
    BY <1>5 DEF MainReturn, AllExited
  <1> QED BY <1>1, <1>2, <1>3, <1>4, <1>5

\* The inductive invariant holds in every state of a streaming answer.
THEOREM ScannerInvariant == ScannerSpec => []ScannerInv
  <1>1. InitScanner => ScannerInv
    BY InitScannerInv
  <1>2. ScannerInv /\ [NextScanner]_scvars => ScannerInv'
    <2>1. ASSUME ScannerInv, UNCHANGED scvars PROVE ScannerInv'
      BY <2>1 DEF scvars, ScannerInv, ScannerTypes, LinesInv, ExitInv, Pending
    <2> QED BY <2>1, ScannerStep, HandlerStep, OthersStep DEF NextScanner
  <1> QED BY <1>1, <1>2, PTL DEF ScannerSpec

\* However the goroutines of StreamScannerHandler interleave and whichever of them takes
\* the stop tokens, an answer the upstream finished is handed to the callback whole
\* before the handler returns, unless the callback or the clean-up's limit cut it short.
THEOREM FinishedIsDeliveredThm == ScannerSpec => []FinishedIsDelivered
  <1>1. ScannerInv => FinishedIsDelivered
    BY DEF ScannerInv, ScannerTypes, LinesInv, ExitInv, Pending, FinishedIsDelivered
  <1> QED BY <1>1, ScannerInvariant, PTL
=============================================================================
