------------------------------ MODULE Realtime ------------------------------
(***************************************************************************)
(* A realtime session: OpenaiRealtimeHandler starts one goroutine that reads *)
(* the client's websocket and one that reads the upstream's, waits for either *)
(* to end, charges what is left and returns.  The two readers and the handler *)
(* share usage, localUsage and sumUsage without a lock: an addition is a load *)
(* and a store, and a reset replaces the object the other may be adding to.   *)
(* One token costs one quota.                                                 *)
(***************************************************************************)
EXTENDS Integers

CONSTANTS MaxMessages,   \* messages each side sends
          Report,        \* tokens of a response the upstream reports
          Hold,          \* the quota held before the session
          Quotas         \* what the user may have besides

ASSUME RealtimeAssumption ==
    /\ MaxMessages \in Nat /\ Hold \in Nat /\ Quotas \subseteq Int
    /\ Report \in Nat \ {0}      \* a response that reports usage reports some

VARIABLES cpc,       \* the client's reader: "read", "add", "send", "done"
          tpc,       \* the upstream's reader: also "check", "pay", "reset"
          mpc,       \* the handler: "wait", "usage", "payUsage", "local", "payLocal", "post", "closed"
          client, target,   \* [left, n, val, gen, bill, amount]: a reader's messages left and registers
          local,     \* [val, gen]: localUsage, the object and its tokens
          rtUsage,   \* usage.TotalTokens
          sum,       \* sumUsage.TotalTokens is not zero
          due,       \* the amount the handler is about to charge
          errs,      \* errors in errChan
          ended,     \* clientClosed or targetClosed is closed
          open,      \* the websockets are open
          usePrice, purse, held,
          counted, reported, plain, taken, short    \* history

rtvars == <<cpc, tpc, mpc, client, target, local, rtUsage, sum, due, errs, ended, open, usePrice, purse, held,
            counted, reported, plain, taken, short>>
books == <<usePrice, purse, held, counted, reported, plain, taken, short>>

Registers(left) == [left |-> left, n |-> 0, val |-> 0, gen |-> 0, bill |-> "none", amount |-> 0]

\* Relay has held the estimate before WssHelper connects.
InitRealtime ==
    /\ cpc = "read" /\ tpc = "read" /\ mpc = "wait"
    /\ client = Registers(MaxMessages) /\ target = Registers(MaxMessages)
    /\ local = [val |-> 0, gen |-> 0] /\ rtUsage = 0 /\ sum = FALSE /\ due = 0
    /\ errs = 0 /\ ended = FALSE /\ open = TRUE
    /\ usePrice \in BOOLEAN /\ purse \in Quotas /\ held = Hold
    /\ counted = 0 /\ reported = 0 /\ plain = 0 /\ taken = 0 /\ short = FALSE

\* errChan has a place for each reader, which reports one error at most.
ErrCap == 2

\* A send to errChan waits for a place.
Report1 == errs < ErrCap /\ errs' = errs + 1

calculateAudioQuota(tokens) == IF tokens <= 0 THEN 1 ELSE tokens

\* CountTokenRealtime: an event has tokens or none.
CountTokenRealtime == {0, 1}

-----------------------------------------------------------------------------
(* The client's reader. *)

\* An event is counted: the load of localUsage.
ClientMessage(n) ==
    /\ cpc = "read" /\ open /\ client.left > 0
    /\ client' = [client EXCEPT !.left = @ - 1, !.n = n, !.val = local.val, !.gen = local.gen]
    /\ cpc' = "add"
    /\ UNCHANGED <<tpc, mpc, target, local, rtUsage, sum, due, errs, ended, open, books>>

\* The store, into an object that may have been replaced; then the event is sent on.
ClientAdd ==
    /\ cpc = "add"
    /\ local' = IF client.gen = local.gen THEN [local EXCEPT !.val = client.val + client.n] ELSE local
    /\ counted' = counted + client.n /\ cpc' = "send" /\ client' = Registers(client.left)
    /\ UNCHANGED <<tpc, mpc, target, rtUsage, sum, due, errs, ended, open, usePrice, purse, held, reported,
                   plain, taken, short>>

ClientSend ==
    /\ cpc = "send"
    /\ \/ open /\ cpc' = "read" /\ UNCHANGED errs
       \/ cpc' = "done" /\ Report1
    /\ UNCHANGED <<tpc, mpc, client, target, local, rtUsage, sum, due, ended, open, books>>

\* The websocket ends, normally or not; or an event cannot be read or counted.
ClientEnds ==
    /\ cpc = "read" /\ cpc' = "done"
    /\ \/ open /\ ended' = TRUE /\ UNCHANGED errs
       \/ ended' = TRUE /\ Report1
       \/ open /\ Report1 /\ UNCHANGED ended
    /\ UNCHANGED <<tpc, mpc, client, target, local, rtUsage, sum, due, open, books>>

-----------------------------------------------------------------------------
(* The upstream's reader. *)

\* Any event but response.done is counted as output.
TargetMessage(n) ==
    /\ tpc = "read" /\ open /\ target.left > 0
    /\ target' = [target EXCEPT !.left = @ - 1, !.n = n, !.val = local.val, !.gen = local.gen, !.bill = "none"]
    /\ tpc' = "add"
    /\ UNCHANGED <<cpc, mpc, client, local, rtUsage, sum, due, errs, ended, open, books>>

\* response.done with usage.
TargetDone ==
    /\ tpc = "read" /\ open /\ target.left > 0
    /\ target' = [target EXCEPT !.left = @ - 1, !.bill = "usage"]
    /\ rtUsage' = rtUsage + Report /\ reported' = reported + Report /\ tpc' = "check"
    /\ UNCHANGED <<cpc, mpc, client, local, sum, due, errs, ended, open, usePrice, purse, held, counted,
                   plain, taken, short>>

\* response.done without: the tools are counted, and the local count is billed.
TargetDonePlain(n) ==
    /\ tpc = "read" /\ open /\ target.left > 0
    /\ target' = [target EXCEPT !.left = @ - 1, !.n = n, !.val = local.val, !.gen = local.gen, !.bill = "local"]
    /\ plain' = plain + 1 /\ tpc' = "add"
    /\ UNCHANGED <<cpc, mpc, client, local, rtUsage, sum, due, errs, ended, open, usePrice, purse, held, counted,
                   reported, taken, short>>

\* The upstream's reader is the only one that replaces localUsage: its object is the current one.
TargetAdd ==
    /\ tpc = "add"
    /\ local' = [local EXCEPT !.val = target.val + target.n]
    /\ counted' = counted + target.n
    /\ tpc' = IF target.bill = "local" THEN "check" ELSE "send"
    /\ target' = [Registers(target.left) EXCEPT !.bill = target.bill]
    /\ UNCHANGED <<cpc, mpc, client, rtUsage, sum, due, errs, ended, open, usePrice, purse, held, reported,
                   plain, taken, short>>

\* preConsumeUsage and the checks of PreWssConsumeQuota; a session with a fixed price pays nothing here.
TargetCheck ==
    /\ tpc = "check"
    /\ LET tokens == IF target.bill = "usage" THEN rtUsage ELSE local.val
           amount == IF usePrice THEN 0 ELSE calculateAudioQuota(tokens)
       IN  /\ sum' = (sum \/ tokens > 0)
           /\ IF purse < amount
              THEN tpc' = "done" /\ short' = TRUE /\ Report1 /\ UNCHANGED target
              ELSE tpc' = "pay" /\ target' = [target EXCEPT !.amount = amount] /\ UNCHANGED <<errs, short>>
    /\ UNCHANGED <<cpc, mpc, client, local, rtUsage, due, ended, open, usePrice, purse, held, counted, reported,
                   plain, taken>>

\* PostConsumeQuota.
TargetPay ==
    /\ tpc = "pay" /\ tpc' = "reset"
    /\ purse' = purse - target.amount /\ taken' = taken + target.amount
    /\ UNCHANGED <<cpc, mpc, client, target, local, rtUsage, sum, due, errs, ended, open, usePrice, held, counted,
                   reported, plain, short>>

\* As TargetReset, but a reported response is kept.
TargetReset_KeepsUsage ==
    /\ tpc = "reset" /\ tpc' = "send"
    /\ local' = [val |-> 0, gen |-> local.gen + 1] /\ target' = Registers(target.left)
    /\ UNCHANGED <<cpc, mpc, client, rtUsage, sum, due, errs, ended, open, books>>

\* "This is billed, clear it."
TargetReset ==
    /\ tpc = "reset" /\ tpc' = "send"
    /\ rtUsage' = IF target.bill = "usage" THEN 0 ELSE rtUsage
    /\ local' = [val |-> 0, gen |-> local.gen + 1] /\ target' = Registers(target.left)
    /\ UNCHANGED <<cpc, mpc, client, sum, due, errs, ended, open, books>>

TargetSend ==
    /\ tpc = "send"
    /\ \/ open /\ tpc' = "read" /\ UNCHANGED errs
       \/ tpc' = "done" /\ Report1
    /\ UNCHANGED <<cpc, mpc, client, target, local, rtUsage, sum, due, ended, open, books>>

TargetEnds ==
    /\ tpc = "read" /\ tpc' = "done"
    /\ \/ open /\ ended' = TRUE /\ UNCHANGED errs
       \/ ended' = TRUE /\ Report1
       \/ open /\ Report1 /\ UNCHANGED ended     \* unreadable, or a nil Response: a recovered panic
    /\ UNCHANGED <<cpc, mpc, client, target, local, rtUsage, sum, due, open, books>>

-----------------------------------------------------------------------------
(* The handler. *)

Woken ==
    /\ mpc = "wait" /\ mpc' = "usage"
    /\ \/ ended /\ UNCHANGED errs
       \/ errs > 0 /\ errs' = errs - 1
    /\ UNCHANGED <<cpc, tpc, client, target, local, rtUsage, sum, due, ended, open, books>>

\* preConsumeUsage once more for what the readers have not billed; its error is ignored.
Charge(at, tokens, pay, then) ==
    /\ mpc = at
    /\ LET amount == IF usePrice THEN 0 ELSE calculateAudioQuota(tokens)
       IN  IF tokens = 0 THEN mpc' = then /\ UNCHANGED <<sum, due, short>>
           ELSE /\ sum' = (sum \/ tokens > 0)
                /\ IF purse < amount THEN mpc' = then /\ short' = TRUE /\ UNCHANGED due
                   ELSE mpc' = pay /\ due' = amount /\ UNCHANGED short
    /\ UNCHANGED <<cpc, tpc, client, target, local, rtUsage, errs, ended, open, usePrice, purse, held, counted,
                   reported, plain, taken>>

Pay(at, then) ==
    /\ mpc = at /\ mpc' = then
    /\ purse' = purse - due /\ taken' = taken + due /\ due' = 0
    /\ UNCHANGED <<cpc, tpc, client, target, local, rtUsage, sum, errs, ended, open, usePrice, held, counted,
                   reported, plain, short>>

\* PostWssConsumeQuota only records the sum: nothing is settled.  The websockets are closed.
PostWssConsumeQuota ==
    /\ mpc = "post" /\ mpc' = "closed" /\ open' = FALSE
    /\ UNCHANGED <<cpc, tpc, client, target, local, rtUsage, sum, due, errs, ended, books>>

ClientReader ==
    \/ \E n \in CountTokenRealtime : ClientMessage(n)
    \/ ClientAdd \/ ClientSend \/ ClientEnds

TargetReader ==
    \/ \E n \in CountTokenRealtime : TargetMessage(n) \/ TargetDonePlain(n)
    \/ TargetDone \/ TargetAdd \/ TargetCheck \/ TargetPay \/ TargetReset \/ TargetSend \/ TargetEnds

Handler ==
    \/ Woken
    \/ Charge("usage", rtUsage, "payUsage", "local") \/ Pay("payUsage", "local")
    \/ Charge("local", local.val, "payLocal", "post") \/ Pay("payLocal", "post")
    \/ PostWssConsumeQuota

NextRealtime == ClientReader \/ TargetReader \/ Handler

SpecRealtime == InitRealtime /\ [][NextRealtime]_rtvars

\* The steps a reader takes without waiting for the other side.
ClientWork == ClientAdd \/ ClientSend
TargetWork == TargetAdd \/ TargetCheck \/ TargetPay \/ TargetReset \/ TargetSend

-----------------------------------------------------------------------------
(* When one reader stops, whether by a close, an error or a panic, the        *)
(* handler returns and the other reader stops too (Left leads to Over):       *)
(* nobody waits for ever on errChan, and no goroutine outlives the session.   *)
Left == cpc = "done" \/ tpc = "done"
Over == mpc = "closed" /\ cpc = "done" /\ tpc = "done"

(* Whatever way a session ends, while the readers still run and share their  *)
(* counts with the handler: every response the upstream reported has been    *)
(* paid, unless the user had too little; and no more has been paid than was   *)
(* reported and counted, but for one response and one local count that the   *)
(* handler and the upstream's reader may both charge.                        *)
ResponsesPaid ==
    Over /\ ~usePrice =>
        /\ short \/ taken >= reported
        /\ taken <= reported + Report + 2 * counted + plain

(* service/quota.go, PostWssConsumeQuota, of a session without tokens: "we    *)
(* cannot just return, because we may have to return the pre-consumed quota". *)
HeldReturned == mpc = "closed" /\ ~sum => held = 0
=============================================================================
