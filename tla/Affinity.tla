------------------------------ MODULE Affinity ------------------------------
(***************************************************************************)
(* Channel affinity (service/channel_affinity.go, middleware/distributor.go)*)
(* over the hybrid cache (pkg/cachex): the first rule that fits a request   *)
(* gives it a key; the channel that served the key last is preferred, and   *)
(* the record is renewed, with its time to live, when an answer succeeds.   *)
(* The cache is shared by every request, and by every node under Redis.     *)
(* Which other channel a request falls back to is ChannelSelect's subject:  *)
(* here any channel enabled for the group and the model.                    *)
(***************************************************************************)
EXTENDS Naturals, Sequences, FiniteSets, SequencesExt

CONSTANTS
    Clients,    \* the requests in progress at a time
    AffineChannels, AffineModels,
    Values,     \* what a key source may find in a request; "" is nothing
    Rules,      \* setting.Rules, a sequence of records
    Serves,     \* [AffineChannels -> SUBSET of <<group, model>>]: the abilities
    AffineAutos,\* service.GetUserAutoGroup
    Asked,      \* the groups requests are made in, "auto" perhaps
    DefaultTTL, \* setting.DefaultTTLSeconds, in ticks
    AffineRetries \* common.RetryTimes

NoChannel == "none"

VARIABLES
    enabled,    \* setting.Enabled
    switch,     \* setting.SwitchOnSuccess
    on,         \* channels whose status is enabled
    good,       \* channels whose upstream answers
    store,      \* the cache: [Keys -> [ch, left]], absent keys are not in its domain
    clearing,   \* the keys an administrator's clearing has listed
    rq          \* the requests

afvars == <<enabled, switch, on, good, store, clearing, rq>>

AffineGroups == ToSet(AffineAutos) \cup (Asked \ {"auto"})
NoMeta == [key |-> <<>>, ttl |-> 0, skip |-> FALSE]
Idle == [pc |-> "idle", model |-> "", group |-> "", val |-> "", meta |-> NoMeta, pref |-> NoChannel,
         first |-> NoChannel, ch |-> NoChannel, tries |-> 0, ok |-> FALSE]

InitAffinity ==
    /\ enabled = TRUE /\ switch \in BOOLEAN
    /\ on = AffineChannels /\ good = AffineChannels
    /\ store = <<>> /\ clearing = {}
    /\ rq = [r \in Clients |-> Idle]

(* buildChannelAffinityCacheKeySuffix: the parts a rule asks for, in order. *)
buildChannelAffinityCacheKeySuffix(rule, q) ==
    (IF rule.incRule THEN <<rule.name>> ELSE <<>>)
    \o (IF rule.incModel THEN <<q.model>> ELSE <<>>)
    \o (IF rule.incGroup THEN <<q.group>> ELSE <<>>)
    \o <<q.val>>

(* extractChannelAffinityValue, over the rule's sources in order. *)
extractChannelAffinityValue(rule, q) == IF rule.source = "none" THEN "" ELSE q.val

(* The rule a request falls under: the first whose patterns match and whose *)
(* sources find a value.                                                    *)
Matches(rule, q) == q.model \in rule.models /\ extractChannelAffinityValue(rule, q) # ""

MatchedRule(q) ==
    LET fits == {i \in 1..Len(Rules) : Matches(Rules[i], q)}
    IN IF fits = {} THEN 0 ELSE CHOOSE i \in fits : \A j \in fits : i <= j

(* setChannelAffinityContext *)
setChannelAffinityContext(rule, q) ==
    [key |-> buildChannelAffinityCacheKeySuffix(rule, q),
     ttl |-> IF rule.ttl > 0 THEN rule.ttl ELSE DefaultTTL, skip |-> rule.skip]

(* HybridCache.Get: an absent or expired key is not found. *)
CacheGet(key) == IF key \in DOMAIN store THEN store[key].ch ELSE NoChannel

(* HybridCache.SetWithTTL *)
CacheSetWithTTL(key, ch, ttl) ==
    store' = [k \in DOMAIN store \cup {key} |->
                IF k = key THEN [ch |-> ch, left |-> ttl] ELSE store[k]]

CacheDeleteMany(keys) == store' = [k \in DOMAIN store \ keys |-> store[k]]

(* A request comes in with its model, group and affinity value. *)
Arrive(r) ==
    /\ rq[r].pc = "idle"
    /\ \E m \in AffineModels, g \in Asked, v \in Values :
        rq' = [rq EXCEPT ![r] = [Idle EXCEPT !.pc = "arrived", !.model = m, !.group = g, !.val = v]]
    /\ UNCHANGED <<enabled, switch, on, good, store, clearing>>

(* GetPreferredChannelByAffinity *)
GetPreferredChannelByAffinity(r) ==
    /\ rq[r].pc = "arrived"
    /\ LET i == IF enabled THEN MatchedRule(rq[r]) ELSE 0
           meta == IF i = 0 THEN NoMeta ELSE setChannelAffinityContext(Rules[i], rq[r])
       IN rq' = [rq EXCEPT ![r].pc = "preferred", ![r].meta = meta,
                           ![r].pref = IF i = 0 THEN NoChannel ELSE CacheGet(meta.key)]
    /\ UNCHANGED <<enabled, switch, on, good, store, clearing>>

GroupsAsked(g) == IF g = "auto" THEN ToSet(AffineAutos) ELSE {g}

(* IsChannelEnabledForGroupModel, for some group the request may use. *)
EnabledFor(c, q) == c \in on /\ \E g \in GroupsAsked(q.group) : <<g, q.model>> \in Serves[c]

(* ShouldSkipRetryAfterChannelAffinityFailure: the rule's flag, whether or  *)
(* not the channel came from the record.                                    *)
ShouldSkipRetryAfterChannelAffinityFailure(q) == q.meta.skip

Take(r, c) == rq' = [rq EXCEPT ![r].pc = "serving", ![r].first = c, ![r].ch = c]
Answer(r, ok) == rq' = [rq EXCEPT ![r].pc = "answered", ![r].ok = ok, ![r].ch = IF ok THEN @ ELSE NoChannel]

\* A preferred channel need only be enabled.
TakeEnabled(r) ==
    /\ rq[r].pc = "preferred"
    /\ LET q == rq[r]
           others == {c \in AffineChannels : EnabledFor(c, q)}
       IN IF q.pref # NoChannel /\ q.pref \in on THEN Take(r, q.pref)
          ELSE IF q.pref # NoChannel /\ q.pref \notin on /\ ShouldSkipRetryAfterChannelAffinityFailure(q)
          THEN Answer(r, FALSE)
          ELSE IF others = {} THEN Answer(r, FALSE)
          ELSE \E c \in others : Take(r, c)
    /\ UNCHANGED <<enabled, switch, on, good, store, clearing>>

(* The rest of Distribute: the preferred channel if it is enabled and       *)
(* serves the group and the model; a disabled one refuses the request when  *)
(* the rule says so; otherwise any satisfied channel, or 503.               *)
DistributePreferred(r) ==
    /\ rq[r].pc = "preferred"
    /\ LET q == rq[r]
           others == {c \in AffineChannels : EnabledFor(c, q)}
       IN IF q.pref # NoChannel /\ q.pref \notin on /\ ShouldSkipRetryAfterChannelAffinityFailure(q)
          THEN Answer(r, FALSE)
          ELSE IF q.pref # NoChannel /\ EnabledFor(q.pref, q) THEN Take(r, q.pref)
          ELSE IF others = {} THEN Answer(r, FALSE)
          ELSE \E c \in others : Take(r, c)
    /\ UNCHANGED <<enabled, switch, on, good, store, clearing>>

(* An attempt: success, or a retry on another satisfied channel unless the  *)
(* rule forbids it or the retries are used up.                              *)
AffineAttempt(r) ==
    /\ rq[r].pc = "serving"
    /\ LET q == rq[r]
           others == {c \in AffineChannels : EnabledFor(c, q)}
       IN IF q.ch \in good THEN Answer(r, TRUE)
          ELSE IF ShouldSkipRetryAfterChannelAffinityFailure(q) \/ q.tries >= AffineRetries \/ others = {}
          THEN Answer(r, FALSE)
          ELSE \E c \in others : rq' = [rq EXCEPT ![r].ch = c, ![r].tries = @ + 1]
    /\ UNCHANGED <<enabled, switch, on, good, store, clearing>>

\* A rule without a time to live keeps its records for ever.
RecordForEver(r) ==
    /\ rq[r].pc = "answered"
    /\ rq' = [rq EXCEPT ![r] = Idle]
    /\ LET q == rq[r] IN
       IF q.ok /\ enabled /\ q.meta.key # <<>>
       THEN CacheSetWithTTL(q.meta.key, IF switch THEN q.ch ELSE q.first, 0)
       ELSE UNCHANGED store
    /\ UNCHANGED <<enabled, switch, on, good, clearing>>

(* RecordChannelAffinity, after c.Next(): only an answer below 400 counts;  *)
(* the channel that answered with SwitchOnSuccess, the first chosen without.*)
RecordChannelAffinity(r) ==
    /\ rq[r].pc = "answered"
    /\ rq' = [rq EXCEPT ![r] = Idle]
    /\ LET q == rq[r] IN
       IF q.ok /\ enabled /\ q.meta.key # <<>>
       THEN CacheSetWithTTL(q.meta.key, IF switch THEN q.ch ELSE q.first, q.meta.ttl)
       ELSE UNCHANGED store
    /\ UNCHANGED <<enabled, switch, on, good, clearing>>

(* One tick of time: records age and expire (left = 0 never does). *)
Expire ==
    /\ store # <<>>
    /\ LET live == {k \in DOMAIN store : store[k].left # 1}
       IN store' = [k \in live |-> [store[k] EXCEPT !.left = IF @ > 1 THEN @ - 1 ELSE 0]]
    /\ UNCHANGED <<enabled, switch, on, good, clearing, rq>>

(* ClearChannelAffinityCacheAll lists the keys and then deletes those; a    *)
(* record made in between stays.  By rule name: the keys under its prefix,  *)
(* for a rule that puts its name into them.                                 *)
ClearList ==
    /\ clearing = {} /\ store # <<>>
    /\ \/ clearing' = DOMAIN store
       \/ \E i \in 1..Len(Rules) :
            /\ Rules[i].incRule
            /\ clearing' = {k \in DOMAIN store : k[1] = Rules[i].name}
    /\ UNCHANGED <<enabled, switch, on, good, store, rq>>

ClearDelete ==
    /\ clearing # {}
    /\ CacheDeleteMany(clearing) /\ clearing' = {}
    /\ UNCHANGED <<enabled, switch, on, good, rq>>

(* The environment: a channel is disabled, its upstream fails or recovers;  *)
(* a channel that serves every group stays.                                 *)
Fails(c) == \E g \in AffineGroups, m \in AffineModels : <<g, m>> \notin Serves[c]

ChannelChanges ==
    /\ \E c \in {x \in AffineChannels : Fails(x)} :
        \/ c \in on /\ on' = on \ {c} /\ UNCHANGED good
        \/ c \notin on /\ on' = on \cup {c} /\ UNCHANGED good
        \/ good' = (IF c \in good THEN good \ {c} ELSE good \cup {c}) /\ UNCHANGED on
    /\ UNCHANGED <<enabled, switch, store, clearing, rq>>

NextAffinity ==
    \/ \E r \in Clients :
        \/ Arrive(r) \/ GetPreferredChannelByAffinity(r) \/ DistributePreferred(r)
        \/ AffineAttempt(r) \/ RecordChannelAffinity(r)
    \/ Expire \/ ClearList \/ ClearDelete \/ ChannelChanges

SpecAffinity == InitAffinity /\ [][NextAffinity]_afvars

----------------------------------------------------------------------------
(* A record shared by several groups never carries a request into a channel *)
(* that its own group may not use: whoever made the record, a request is    *)
(* only given to channels that serve its group and its model.               *)
AffinityKeepsGroups ==
    \A r \in Clients : rq[r].pc = "serving" =>
        \E g \in GroupsAsked(rq[r].group) : <<g, rq[r].model>> \in Serves[rq[r].ch]
=============================================================================
