---------------------------- MODULE ChannelSelect ----------------------------
(***************************************************************************)
(* One relayed request choosing upstream channels: the distributor         *)
(* middleware picks the first (middleware/distributor.go), the retry loop  *)
(* of controller/relay.go (Relay, RelayTask) picks the others, both        *)
(* through CacheGetRandomSatisfiedChannel (service/channel_select.go) and  *)
(* GetRandomSatisfiedChannel (model/channel_cache.go).                     *)
(*                                                                         *)
(* The request's model is fixed, so group2model2channels[group][model] is  *)
(* the set of channels of `pool` that serve the group.  The pool changes   *)
(* under the request: other goroutines disable channels and the cache is   *)
(* rebuilt.  Positions in the list of auto groups count from 1 here and    *)
(* from 0 in the code.                                                     *)
(***************************************************************************)
EXTENDS Integers, Sequences, FiniteSets

CONSTANTS
    Candidates,
    AutoGroups,     \* GetUserAutoGroup: the user's auto groups, in order
    GroupsOf,       \* [Candidates]: the groups a channel serves
    Priority,       \* [Candidates]: channel.GetPriority()
    Weight,         \* [Candidates]: channel.GetWeight()
    RetryTimes,     \* common.RetryTimes
    RequestKinds,   \* the requests that may come
    MaxChanges,     \* bound on the changes of the pool during the request
    Unset

\* newAPIError, by the kind of its origin.
Verdicts == {"upstream", "channel", "noChannel", "noKey", "rejected"}

ASSUME SelectAssumption ==
    /\ IsFiniteSet(Candidates) /\ RetryTimes \in Nat /\ Unset \notin Candidates
    /\ AutoGroups \in Seq(STRING) /\ MaxChanges \in Nat
    /\ Unset \notin STRING /\ Unset \notin Verdicts
    /\ Unset \notin [group : STRING \cup {Unset}, id : Candidates]
    /\ Priority \in [Candidates -> Int] /\ Weight \in [Candidates -> Nat]

Groups == {AutoGroups[i] : i \in DOMAIN AutoGroups}

\* Where the loops over the auto groups meet a group first.
Position(g) ==
    CHOOSE i \in DOMAIN AutoGroups :
        AutoGroups[i] = g /\ \A j \in 1 .. i - 1 : AutoGroups[j] # g

\* The administrator's list of auto groups names a group once (nothing checks it).
ListedOnce == \A i, j \in DOMAIN AutoGroups : AutoGroups[i] = AutoGroups[j] => i = j

\* What the distributor and the loop read of a request.
RequestType ==
    [kind       : {"relay", "task"},
     tokenGroup : STRING,                       \* "auto", or a group
     cross      : BOOLEAN,                      \* the token's cross_group_retry
     pin        : Candidates \cup {Unset},      \* the token's specific_channel_id
     prefer     : Candidates \cup {Unset},      \* channel remembered by affinity
     skipRetry  : BOOLEAN,                      \* rule.SkipRetryOnFailure
     locked     : Candidates \cup {Unset}]      \* RelayInfo.LockedChannel (remix)

ASSUME RequestAssumption == RequestKinds \subseteq RequestType

\* "channel" is a channel error (types.IsChannelError), "retryable" an answer whose
\* status may be retried, "final" everything else.
ErrorKinds == {"channel", "retryable", "final"}

VARIABLES
    req,
    pool,           \* enabled channels, as group2model2channels has them
    pc,             \* "distribute", "lock", "select", "attempt", "ok", "failed"
    retry,          \* *RetryParam.Retry
    resetNextTry,   \* RetryParam.resetNextTry
    groupIndex,     \* ContextKeyAutoGroupIndex
    chosen,         \* the channel of the request's context
    used,           \* the attempts made: [group, channel], "use_channel"
    errs,           \* history: how each ended attempt failed
    verdict,        \* newAPIError, Unset for nil
    changes

selectVars == <<req, pool, pc, retry, resetNextTry, groupIndex, chosen, used, errs, verdict,
          changes>>

SelectTypeOK ==
    /\ req \in RequestKinds /\ pool \subseteq Candidates
    /\ pc \in {"distribute", "lock", "select", "attempt", "ok", "failed"}
    /\ retry \in 0 .. RetryTimes + 1
    /\ resetNextTry \in BOOLEAN
    /\ groupIndex \in 1 .. Len(AutoGroups) + 1
    /\ chosen \in [group : STRING \cup {Unset}, id : Candidates] \cup {Unset}
    /\ used \in Seq([group : STRING \cup {Unset}, id : Candidates])
    /\ errs \in Seq(ErrorKinds)
    /\ verdict \in Verdicts \cup {Unset}
    /\ changes \in 0 .. MaxChanges

SelectInit ==
    /\ req \in RequestKinds /\ pool \in SUBSET Candidates
    /\ pc = "distribute"
    /\ retry = 0 /\ resetNextTry = FALSE /\ groupIndex = 1
    /\ chosen = Unset /\ used = <<>> /\ errs = <<>> /\ verdict = Unset /\ changes = 0

-----------------------------------------------------------------------------
(* Choosing inside a group.                                                *)

InGroup(g) == {c \in pool : g \in GroupsOf[c]}

\* The priority for a retry number: the levels in descending order, the last one
\* for every number past the end.
TargetPriority(S, r) ==
    LET levels == {Priority[c] : c \in S}
        Higher(p) == Cardinality({q \in levels : q > p})
        want == IF r >= Cardinality(levels) THEN Cardinality(levels) - 1 ELSE r
    IN  CHOOSE p \in levels : Higher(p) = want

\* The weighted draw: channels of weight 0 are drawn only when all weights are 0.
Drawable(S) ==
    IF \A c \in S : Weight[c] = 0 THEN S ELSE {c \in S : Weight[c] > 0}

\* GetRandomSatisfiedChannel: the channels it may return, {} for nil.
GetRandomSatisfiedChannel(g, r) ==
    LET S == InGroup(g)
    IN  IF S = {} THEN {}
        ELSE Drawable({c \in S : Priority[c] = TargetPriority(S, r)})

-----------------------------------------------------------------------------
(* CacheGetRandomSatisfiedChannel.  An outcome is the channel and what the *)
(* call leaves in the RetryParam and in the context.                       *)

Found(g, c, r, i, reset) ==
    [channel |-> [group |-> g, id |-> c], retry |-> r, index |-> i, reset |-> reset]

\* The index is advanced once too often.
AutoFound_SkipGroup(i, c, r) ==
    IF req.cross /\ r >= RetryTimes
    THEN Found(AutoGroups[i], c, 0, Len(AutoGroups) + 1, TRUE)
    ELSE Found(AutoGroups[i], c, r, i, FALSE)

\* Retries of a group that has used them up continue in the next one, from 0.
AutoFound(i, c, r) ==
    IF req.cross /\ r >= RetryTimes
    THEN Found(AutoGroups[i], c, 0, i + 1, TRUE)
    ELSE Found(AutoGroups[i], c, r, i, FALSE)

\* The first group at or after the current one that has a channel.  Every empty
\* group passed on the way moves the index and restarts the counter.
SelectAuto(r) ==
    LET open == {i \in groupIndex .. Len(AutoGroups) : InGroup(AutoGroups[i]) # {}}
        first == CHOOSE i \in open : \A j \in open : i <= j
        level == IF first = groupIndex THEN r ELSE 0
    IN  IF open = {}
        THEN {[channel |-> Unset, reset |-> FALSE, index |-> Len(AutoGroups) + 1,
               retry |-> IF groupIndex > Len(AutoGroups) THEN r ELSE 0]}
        ELSE {AutoFound(first, c, level) :
                  c \in GetRandomSatisfiedChannel(AutoGroups[first], level)}

SelectFixed(r) ==
    LET S == GetRandomSatisfiedChannel(req.tokenGroup, r)
        stay == [channel |-> Unset, retry |-> r, index |-> groupIndex, reset |-> FALSE]
    IN  IF S = {} THEN {stay}
        ELSE {[stay EXCEPT !.channel = [group |-> req.tokenGroup, id |-> c]] : c \in S}

CacheGetRandomSatisfiedChannel(r) ==
    IF req.tokenGroup = "auto" THEN SelectAuto(r) ELSE SelectFixed(r)

-----------------------------------------------------------------------------
(* Distribute: the channel of the first attempt.                           *)

\* Every path of the middleware that hands the request on to the handler.
HandOn(ch) ==
    /\ chosen' = ch
    /\ pc' = IF req.locked # Unset THEN "lock" ELSE "attempt"
    /\ used' = IF req.locked # Unset THEN used ELSE Append(used, ch)
    /\ UNCHANGED verdict

Reject ==
    /\ pc' = "failed" /\ verdict' = "rejected"
    /\ UNCHANGED <<chosen, used>>

DistributePinned ==
    /\ pc = "distribute" /\ req.pin # Unset
    /\ IF req.pin \in pool THEN HandOn([group |-> Unset, id |-> req.pin]) ELSE Reject
    /\ UNCHANGED <<req, errs, pool, retry, resetNextTry, groupIndex, changes>>

\* The groups in which the remembered channel may be used.
PreferredIn ==
    {g \in (IF req.tokenGroup = "auto" THEN Groups ELSE {req.tokenGroup}) :
        req.prefer \in InGroup(g)}

\* The remembered channel, in the first auto group that has it.  The group index
\* of the context is not set.
DistributeAffinity ==
    /\ pc = "distribute" /\ req.pin = Unset
    /\ PreferredIn # {}
    /\ \E g \in PreferredIn :
        /\ req.tokenGroup = "auto" => \A h \in PreferredIn : Position(g) <= Position(h)
        /\ HandOn([group |-> g, id |-> req.prefer])
    /\ UNCHANGED <<req, errs, pool, retry, resetNextTry, groupIndex, changes>>

\* A disabled remembered channel (a deleted one counts as not remembered) rejects the
\* request when its rule says not to retry.
DistributeAffinityDisabled ==
    /\ pc = "distribute" /\ req.pin = Unset
    /\ req.prefer # Unset /\ req.prefer \notin pool /\ req.skipRetry
    /\ Reject
    /\ UNCHANGED <<req, errs, pool, retry, resetNextTry, groupIndex, changes>>

\* The middleware has a RetryParam of its own: only the group index survives it.
DistributeSelect ==
    /\ pc = "distribute" /\ req.pin = Unset /\ PreferredIn = {}
    /\ ~ (req.prefer # Unset /\ req.prefer \notin pool /\ req.skipRetry)
    /\ \E out \in CacheGetRandomSatisfiedChannel(0) :
        /\ groupIndex' = out.index
        /\ IF out.channel = Unset THEN Reject ELSE HandOn(out.channel)
    /\ UNCHANGED <<req, errs, pool, retry, resetNextTry, changes>>

\* ResolveOriginTask: a remix runs on the channel of the task it starts from.
ResolveOriginTask ==
    /\ pc = "lock"
    /\ IF req.locked \in pool
       THEN LET ch == [group |-> Unset, id |-> req.locked]
            IN  /\ chosen' = ch /\ used' = Append(used, ch)
                /\ pc' = "attempt" /\ UNCHANGED verdict
       ELSE Reject
    /\ UNCHANGED <<req, errs, pool, retry, resetNextTry, groupIndex, changes>>

-----------------------------------------------------------------------------
(* The retry loop.                                                         *)

\* shouldRetry for relayed requests, shouldRetryTaskRelay for tasks.
ShouldRetry(err) ==
    /\ ~ req.skipRetry
    /\ \/ req.kind = "relay" /\ err = "channel"
       \/ err = "retryable" /\ RetryTimes - retry > 0 /\ req.pin = Unset

\* The loop's condition.
InLoop(r) == r <= RetryTimes

Succeed ==
    /\ pc = "attempt"
    /\ pc' = "ok" /\ verdict' = Unset
    /\ UNCHANGED <<req, errs, pool, retry, resetNextTry, groupIndex, chosen, used, changes>>

Fail(err) ==
    /\ pc = "attempt"
    /\ errs' = Append(errs, err)
    /\ verdict' = IF err = "channel" THEN "channel" ELSE "upstream"
    /\ LET next == IF resetNextTry THEN retry ELSE retry + 1     \* IncreaseRetry
       IN  IF ShouldRetry(err)
           THEN /\ retry' = next /\ resetNextTry' = FALSE
                /\ pc' = IF InLoop(next) THEN "select" ELSE "failed"
           ELSE pc' = "failed" /\ UNCHANGED <<retry, resetNextTry>>
    /\ UNCHANGED <<req, pool, groupIndex, chosen, used, changes>>

\* getChannel in a later round of the loop.  A task locked to a channel keeps it.
Select ==
    /\ pc = "select" /\ req.locked = Unset
    /\ \E out \in CacheGetRandomSatisfiedChannel(retry) :
        /\ retry' = out.retry /\ resetNextTry' = out.reset /\ groupIndex' = out.index
        /\ IF out.channel = Unset
           THEN /\ pc' = "failed" /\ verdict' = "noChannel"
                /\ UNCHANGED <<chosen, used>>
           ELSE /\ chosen' = out.channel /\ used' = Append(used, out.channel)
                /\ pc' = "attempt" /\ UNCHANGED verdict
    /\ UNCHANGED <<req, errs, pool, changes>>

\* SetupContextForSelectedChannel fails: a multi-key channel has no enabled key.
\* The loop stops, whatever other channels there are.
SelectNoKey ==
    /\ pc = "select"
    /\ IF req.locked # Unset
       THEN UNCHANGED <<retry, resetNextTry, groupIndex>>
       ELSE \E out \in CacheGetRandomSatisfiedChannel(retry) :
              /\ out.channel # Unset
              /\ retry' = out.retry /\ resetNextTry' = out.reset
              /\ groupIndex' = out.index
    /\ pc' = "failed" /\ verdict' = "noKey"
    /\ UNCHANGED <<req, errs, pool, chosen, used, changes>>

SelectLocked ==
    /\ pc = "select" /\ req.locked # Unset
    /\ pc' = "attempt" /\ used' = Append(used, chosen)
    /\ UNCHANGED <<req, errs, pool, retry, resetNextTry, groupIndex, chosen, verdict, changes>>

\* Another goroutine disables or enables a channel (DisableChannel after a failed
\* attempt, the administrator, the cache rebuild).
PoolChange(c) ==
    /\ changes < MaxChanges /\ changes' = changes + 1
    /\ pool' = IF c \in pool THEN pool \ {c} ELSE pool \cup {c}
    /\ UNCHANGED <<req, errs, pc, retry, resetNextTry, groupIndex, chosen, used, verdict>>

Distribute == DistributePinned \/ DistributeAffinity \/ DistributeAffinityDisabled
              \/ DistributeSelect \/ ResolveOriginTask
Round == Select \/ SelectNoKey \/ SelectLocked
Attempt == Succeed \/ \E err \in ErrorKinds : Fail(err)
Step == Distribute \/ Round \/ Attempt

SelectNext == Step \/ \E c \in Candidates : PoolChange(c)

SelectSpec == SelectInit /\ [][SelectNext]_selectVars

-----------------------------------------------------------------------------
(* Properties.                                                             *)

Ended == pc \in {"ok", "failed"}

\* One client request costs a bounded number of upstream calls, however the pool
\* changes and although the counter of the loop restarts with every group:
\* RetryTimes + 1 for a token of one group, that many per group for an auto token.
AttemptsBounded ==
    Len(used) <= (RetryTimes + 1)
                 * (IF req.tokenGroup = "auto" /\ Len(AutoGroups) > 0 THEN Len(AutoGroups) ELSE 1)

\* The retry loop walks the auto groups in their order and never returns to a group
\* it has left (the first attempt of a request with a remembered channel aside).
GroupOrder ==
    \A i, j \in DOMAIN used :
        (i < j /\ used[i].group # Unset /\ used[j].group # Unset
            /\ req.tokenGroup = "auto" /\ ListedOnce /\ (i = 1 => req.prefer = Unset))
        => Position(used[i].group) <= Position(used[j].group)

\* While the pool does not change, successive attempts in one group never go back
\* to a higher priority (in a group that is listed twice they start again).
PriorityDescends ==
    (changes = 0 /\ ListedOnce) =>
        \A i \in 1 .. Len(used) - 1 :
            (used[i].group # Unset /\ used[i].group = used[i + 1].group
                /\ ~ (i = 1 /\ req.prefer # Unset))
            => Priority[used[i].id] >= Priority[used[i + 1].id]

\* A request that ends for want of a channel, with cross-group retry and a pool that
\* did not change, has tried every auto group that has one (RetryTimes = 0 switches
\* cross-group retry off).
AllGroupsTried ==
    (/\ pc = "failed" /\ verdict = "noChannel" /\ req.tokenGroup = "auto"
     /\ req.cross /\ changes = 0 /\ RetryTimes > 0)
    => \A g \in Groups : InGroup(g) # {} => \E i \in DOMAIN used : used[i].group = g

\* A request bound to one channel is sent to no other one.  A remix keeps the channel
\* of its task; a token with a channel id leaves it only after a channel error, which
\* shouldRetry looks at first.
BoundChannelKept ==
    \A i \in DOMAIN used :
        /\ req.locked # Unset => used[i].id = req.locked
        /\ req.locked = Unset /\ req.pin # Unset /\ used[i].id # req.pin
               => errs[1] = "channel"

(* The attempts of a request, while channels come and go under it, are as   *)
(* many as the loop allows, go through the auto groups in their order and   *)
(* through the priorities of a group downwards, leave no group out before   *)
(* the request fails for want of a channel, and stay with the channel that  *)
(* the request is bound to: although the loop, the distributor and the      *)
(* selection count with the same retry variable and the selection resets it. *)
AttemptsInOrder ==
    AttemptsBounded /\ GroupOrder /\ PriorityDescends /\ AllGroupsTried /\ BoundChannelKept
=============================================================================
