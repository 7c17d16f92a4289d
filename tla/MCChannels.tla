----------------------------- MODULE MCChannels -----------------------------
(* Channels, in six parts, one of which a behaviour is about.  What the      *)
(* administrator and the background loops do with them: "status" is the      *)
(* automatic switching of channels and keys (ChannelStatus), "table" the     *)
(* handlers that add, change and delete channels with their abilities        *)
(* (ChannelTable), "keys" the key list of one channel (MultiKey), "models"   *)
(* its list of upstream models (UpstreamModels).  How requests choose one:   *)
(* "request" is the attempts of one request (ChannelSelect, the remembered   *)
(* channel an input), "affinity" the records of channel affinity under       *)
(* several requests (Affinity, the choice abstracted to "some satisfied      *)
(* channel").                                                                *)
EXTENDS ChannelStatus, ChannelTable, UpstreamModels, ChannelSelect, Affinity

CONSTANTS
    Parts,
    FirstKeys, NewKeys, Flaky, Requests, MaxOperations

VARIABLES
    part,
    mode, keyRow, cached, oper, using, worker, operations, failed, manual, carried, picks

keyVars == <<mode, keyRow, cached, oper, using, worker, operations, failed, manual, carried, picks>>
adminVars == <<vars, ctvars, keyVars, umvars>>

TwoKeys == <<"k1", "k2">>
OtherKeys == {<<"k2", "k3">>}
MCGroups == {{"A"}, {"B"}}
MCRedirects == [m \in {"alias"} |-> "x"]

KeyList == INSTANCE MultiKey WITH row <- keyRow

\* Two auto groups, a channel that serves both, three priorities in the first group.
FourChannels == {"a1", "a2", "ab", "b1"}
GroupsOfFour == [c \in FourChannels |-> CASE c = "ab" -> {"A", "B"} [] c = "b1" -> {"B"} [] OTHER -> {"A"}]
PriorityOfFour == [c \in FourChannels |-> CASE c \in {"a1", "b1"} -> 5 [] c = "a2" -> 3 [] c = "ab" -> 0]
WeightOfFour == [c \in FourChannels |-> IF c = "ab" THEN 0 ELSE 3]

Plain == [kind |-> "relay", tokenGroup |-> "auto", cross |-> TRUE, pin |-> Unset,
          prefer |-> Unset, skipRetry |-> FALSE, locked |-> Unset]

\* Every kind of request the distributor tells apart.
AllRequests ==
    LET free == {[Plain EXCEPT !.kind = k, !.tokenGroup = g, !.cross = x] :
                    k \in {"relay", "task"}, g \in {"auto", "A"}, x \in BOOLEAN}
        pinned == {[q EXCEPT !.pin = c] : q \in free, c \in {"a1", "b1"}}
        affine == {[q EXCEPT !.prefer = c, !.skipRetry = s] :
                      q \in free, c \in {"ab", "b1"}, s \in BOOLEAN}
        ruled == {[q EXCEPT !.skipRetry = TRUE] : q \in free}
        remix == {[q EXCEPT !.locked = c] : q \in {f \in free : f.kind = "task"}, c \in {"a1", "ab"}}
    IN  free \cup pinned \cup affine \cup ruled \cup remix

TwoGroups == <<"A", "B">>

\* c1 serves one group, c2 both; the rule's key leaves the group out, so requests
\* of both groups, and of the auto group, share their records.
AffinityServes ==
    [c \in {"c1", "c2"} |-> IF c = "c1" THEN {<<"A", "m">>} ELSE {<<"A", "m">>, <<"B", "m">>}]
AffinityRules ==
    <<[name |-> "other", models |-> {}, source |-> "body", skip |-> FALSE, incRule |-> TRUE,
       incModel |-> FALSE, incGroup |-> FALSE, ttl |-> 1],
      [name |-> "session", models |-> {"m"}, source |-> "body", skip |-> TRUE, incRule |-> TRUE,
       incModel |-> TRUE, incGroup |-> FALSE, ttl |-> 0]>>

MCInit ==
    /\ part \in Parts
    /\ Init /\ InitTable /\ KeyList!InitKeys /\ InitUpstream
    /\ SelectInit /\ InitAffinity
    /\ part # "status" => row = [c \in Channels |-> [status |-> "enabled", off |-> {}]]
    /\ part # "keys" => mode = "random"
    /\ part # "models" => ~ channel.auto
    /\ part # "request" => req = Plain /\ pool = {}
    /\ part # "affinity" => switch

InStatus(step) ==
    part = "status" /\ step /\ UNCHANGED <<part, ctvars, keyVars, umvars, selectVars, afvars>>
InTable(step) ==
    part = "table" /\ step /\ UNCHANGED <<part, vars, keyVars, umvars, selectVars, afvars>>
InRequest(step) == part = "request" /\ step /\ UNCHANGED <<part, adminVars, afvars>>
InAffinity(step) == part = "affinity" /\ step /\ UNCHANGED <<part, adminVars, selectVars>>

MCNext ==
    \/ InStatus(Next)
    \/ InTable(NextTable)
    \/ /\ part = "keys" /\ KeyList!NextKeys
       /\ UNCHANGED <<part, vars, ctvars, umvars, selectVars, afvars>>
    \/ /\ part = "models" /\ NextUpstream
       /\ UNCHANGED <<part, vars, ctvars, keyVars, selectVars, afvars>>
    \/ InRequest(SelectNext)
    \/ InAffinity(NextAffinity)

all == <<part, adminVars, selectVars, afvars>>

\* The ticker of SyncChannelCache never stops, started handlers and repairs go on, and a
\* stopped process is started again by its supervisor (restart: always in
\* docker-compose.yml, Restart=always in east-api.service).
Cache(k) == InitReadsRows(k) \/ InitBuilds(k) \/ InitPanics(k)
MCFair ==
    /\ WF_all(InStatus(SyncRead(Ticker) \/ SyncPublish(Ticker)) \/ InTable(Cache("loop")))
    /\ WF_all(InTable(Cache("handler"))) /\ WF_all(InTable(Cache("fix")))
    /\ WF_all(InTable(HandlerReads \/ HandlerWrites))
    /\ WF_all(InTable(FixRead \/ FixAdd \/ FixEnd))
    /\ WF_all(InTable(StartProcess))

\* The goroutine of a request runs on and every upstream call ends (client timeout);
\* requests of a session keep coming, and its records expire.
Handled(r) ==
    \/ Arrive(r) \/ GetPreferredChannelByAffinity(r) \/ DistributePreferred(r)
    \/ AffineAttempt(r) \/ RecordChannelAffinity(r)
RequestFair ==
    /\ WF_all(InRequest(Step) \/ InAffinity(Handled("r1")))
    /\ WF_all(InAffinity(Handled("r2"))) /\ WF_all(InAffinity(Expire))

MCSpec == MCInit /\ [][MCNext]_all /\ MCFair /\ RequestFair

\* See MultiKey: automatic and manual statuses stay with the keys they were set for, and
\* in polling mode the enabled keys take turns.
KeysInOrder == KeyList!KeysInOrder

\* Once status updates stop, the cache comes to say what the database says and keeps
\* saying it: after a rebuild published rows that a status update had already changed,
\* after failed handlers, and after a rebuild that ended the process.
CachesConverge ==
    <>[](part = "status" => Quiet)
    => <>[](CASE part = "status" -> Converged
              [] part = "table" -> alive /\ tableIndex = IndexOf(rows)
              [] OTHER -> TRUE)

\* Every request is answered: the loop of Relay ends although it resets its own counter.
\* And a session does not stay bound to a channel that was disabled: from some point on
\* its requests are answered with success again and again (those of "r1", for the two
\* requests in progress are interchangeable), although a rule with skip_retry_on_failure
\* refuses them while the record lasts.
SessionsAnswered ==
    <>[](part = "affinity" => \A c \in {"c1", "c2"} : Fails(c) => c \notin on)
    => []<>(CASE part = "request" -> Ended
              [] part = "affinity" -> rq["r1"].pc = "answered" /\ rq["r1"].ok
              [] OTHER -> TRUE)
=============================================================================
