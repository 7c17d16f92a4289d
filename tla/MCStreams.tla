----------------------------- MODULE MCStreams -----------------------------
(* The relay of one request, in three parts: the attempts of RelayAttempt    *)
(* with every adaptor, where a handler's work is one step; the goroutines of *)
(* StreamScanner that a stream handler starts, with its callback abstracted  *)
(* to "it returns, stops or panics"; and the callbacks of ChatStream, which  *)
(* the scanner calls one at a time under its mutex.                          *)
EXTENDS StreamScanner

CONSTANTS MaxChunks, MaxTools, MaxTries

VARIABLES part, up, fmt, think, gen, chunks, last, acc, conv, resp, sent, phase, billed,
          req, info, at, pc, tries, wrote, told, bill

chatVars == <<up, fmt, think, gen, chunks, last, acc, conv, resp, sent, phase, billed>>
relayVars == <<req, info, at, pc, tries, wrote, told, bill>>

Chat == INSTANCE ChatStream
Rel == INSTANCE RelayAttempt

MCInit ==
    /\ part \in {"scanner", "chat", "relay"} /\ InitScanner /\ Chat!InitStream /\ Rel!InitRelay
    /\ part # "chat" => up = "openai" /\ fmt = "openai" /\ ~think
    /\ part # "scanner" => pg = "wait"
    /\ part # "relay" => req = [kind |-> "chat", stream |-> TRUE]

MCNext ==
    \/ part = "scanner" /\ NextScanner /\ UNCHANGED <<part, chatVars, relayVars>>
    \/ part = "chat" /\ Chat!NextStream /\ UNCHANGED <<part, scvars, relayVars>>
    \/ part = "relay" /\ Rel!NextRelay /\ UNCHANGED <<part, scvars, chatVars>>

MCSpec ==
    /\ MCInit /\ [][MCNext]_<<part, scvars, chatVars, relayVars>>
    /\ part = "scanner" => FairScanner

\* See StreamScanner: whoever takes the stop tokens, the handler and its goroutines return.
ScannerReturns == part = "scanner" => HandlerReturns

\* See ChatStream: the events a Claude client gets are well formed.
BlocksFollowTheMachine == Chat!BlocksFollowTheMachine

\* See ChatStream: what the client was given is in the bill.
DeliveredIsBilled == Chat!DeliveredIsBilled

\* See RelayAttempt: the handler reads the format that was sent.
ReaderMatchesRequest == Rel!ReaderMatchesRequest

\* See RelayAttempt: the held quota ends where the client was told it would.
PaidAsTold == Rel!PaidAsTold
=============================================================================
