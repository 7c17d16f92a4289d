--------------------------- MODULE UpstreamModels ---------------------------
(***************************************************************************)
(* The comparison of a channel's models with its upstream's                 *)
(* (controller/channel_upstream_update.go): the periodic task, which may    *)
(* add new models by itself, the administrator's detection and application  *)
(* of changes, and his edits of the channel.  Every one of them reads the   *)
(* channel, works on the copy (the fetch takes long), and writes settings   *)
(* and models back, the abilities last.  The task and the operations over   *)
(* all channels do not select the column model_mapping.                     *)
(* Model lists are sets here: normalizeModelNames removes duplicates, and   *)
(* no property depends on the order.                                        *)
(***************************************************************************)
EXTENDS Naturals, FiniteSets

CONSTANTS
    Models,
    Redirects,      \* model_mapping: [alias -> target], a function on a subset of Models
    MaxChecks,      \* bound on the operations
    MaxShifts       \* bound on the changes of the upstream's list

ASSUME UpstreamAssumption == DOMAIN Redirects \subseteq Models

VARIABLES
    upstream,   \* what the upstream offers
    channel,    \* the row: [models, detected, removed, ignored, auto]
    modelAbility,   \* the models of the abilities table
    call,       \* the operations in progress: [{"task", "admin"} -> ...]
    checks, shifts,
    entered,    \* history: models the administrator put in
    overtaken   \* history: a copy was written over a newer row

umvars == <<upstream, channel, modelAbility, call, checks, shifts, entered, overtaken>>

Callers == {"task", "admin"}
NoOperation == [pc |-> "idle", op |-> "", seen |-> <<>>, add |-> {}, ignore |-> {}, remove |-> {}]

InitUpstream ==
    /\ upstream = Models \ DOMAIN Redirects
    /\ \E auto \in BOOLEAN :
        channel = [models |-> DOMAIN Redirects, detected |-> {}, removed |-> {}, ignored |-> {},
                   auto |-> auto]
    /\ modelAbility = DOMAIN Redirects /\ entered = DOMAIN Redirects
    /\ call = [a \in Callers |-> NoOperation]
    /\ checks = 0 /\ shifts = 0 /\ overtaken = FALSE

\* Models on the ignore list are found again.
PendingAdd_Ignored(seen, mapping) ==
    {m \in upstream : m \notin seen.models \cup {mapping[s] : s \in DOMAIN mapping}}

(* collectPendingUpstreamModelChangesFromModels *)
PendingAdd(seen, mapping) ==
    {m \in upstream : /\ m \notin seen.models \cup {mapping[s] : s \in DOMAIN mapping}
                      /\ m \notin seen.ignored}
PendingRemove(seen, mapping) == {m \in seen.models : m \notin DOMAIN mapping /\ m \notin upstream}

(* The columns an operation selects: the mapping only with the whole row. *)
MappingFor(op) == IF op = "detect" THEN Redirects ELSE [m \in {} |-> m]

(* An operation begins with its copy of the row. *)
Start(a, op, add, ignore, remove) ==
    /\ call[a].pc = "idle" /\ checks < MaxChecks /\ checks' = checks + 1
    /\ call' = [call EXCEPT ![a] = [pc |-> "read", op |-> op, seen |-> channel,
                                    add |-> add, ignore |-> ignore, remove |-> remove]]
    /\ UNCHANGED <<upstream, channel, modelAbility, shifts, entered, overtaken>>

runChannelUpstreamModelUpdateTaskOnce == Start("task", "task", {}, {}, {})
DetectChannelUpstreamModelUpdates == Start("admin", "detect", {}, {}, {})
DetectAllChannelUpstreamModelUpdates == Start("admin", "detectAll", {}, {}, {})

(* Applying chosen changes; over all channels, everything that is pending.  *)
(* An administrator does not choose to remove an alias.                     *)
ApplyChannelUpstreamModelUpdates ==
    \E add, ignore \in SUBSET channel.detected, remove \in SUBSET (channel.removed \ DOMAIN Redirects) :
        Start("admin", "apply", add, ignore, remove)
ApplyAllChannelUpstreamModelUpdates ==
    /\ channel.detected \cup channel.removed # {}
    /\ Start("admin", "apply", channel.detected, {}, channel.removed)

EditChannel == \E m \in Models \ DOMAIN Redirects : Start("admin", "edit", {m}, {}, {})

(* updateChannelUpstreamModelSettings: the settings always, the models only *)
(* when they changed.                                                       *)
Save(a, new, changed) ==
    /\ channel' = IF changed THEN new ELSE [new EXCEPT !.models = channel.models]
    /\ call' = [call EXCEPT ![a] = IF changed THEN [NoOperation EXCEPT !.pc = "saved", !.seen = new]
                                   ELSE NoOperation]
    /\ overtaken' = (overtaken \/ channel # call[a].seen)
    /\ UNCHANGED <<upstream, modelAbility, checks, shifts>>

(* checkAndPersistChannelUpstreamModelUpdates *)
CheckAndPersist(a) ==
    /\ call[a].pc = "read" /\ call[a].op \in {"task", "detect", "detectAll"}
    /\ LET seen == call[a].seen
           add == PendingAdd(seen, MappingFor(call[a].op))
           apply == call[a].op = "task" /\ seen.auto /\ add # {}
       IN Save(a, [seen EXCEPT !.models = IF apply THEN @ \cup add ELSE @,
                               !.detected = IF apply THEN {} ELSE add,
                               !.removed = PendingRemove(seen, MappingFor(call[a].op))], apply)
    /\ UNCHANGED entered

(* The fetch fails: only the time of the check is saved, with the settings  *)
(* as they were read.                                                       *)
CheckFails(a) ==
    /\ call[a].pc = "read" /\ call[a].op \in {"task", "detect", "detectAll"}
    /\ Save(a, call[a].seen, FALSE)
    /\ UNCHANGED entered

(* applySelectedModelChanges: adding wins over removing. *)
applySelectedModelChanges(models, add, remove) == (models \cup add) \ (remove \ add)

(* applyChannelUpstreamModelUpdates: only what is pending. *)
ApplyPersist(a) ==
    /\ call[a].pc = "read" /\ call[a].op = "apply"
    /\ LET seen == call[a].seen
           add == call[a].add \cap seen.detected
           ignore == call[a].ignore \cap seen.detected
           remove == (call[a].remove \cap seen.removed) \ add
           models == applySelectedModelChanges(seen.models, add, remove)
       IN /\ Save(a, [seen EXCEPT !.models = models,
                                  !.ignored = (@ \cup ignore) \ add,
                                  !.detected = @ \ (add \cup ignore),
                                  !.removed = @ \ remove], models # seen.models)
          /\ entered' = entered \cup add

(* UpdateChannel of controller/channel.go with the form's settings. *)
EditPersist(a) ==
    /\ call[a].pc = "read" /\ call[a].op = "edit"
    /\ LET m == CHOOSE x \in call[a].add : TRUE
           seen == call[a].seen
       IN /\ Save(a, [seen EXCEPT !.models = IF m \in @ THEN @ \ {m} ELSE @ \cup {m}], TRUE)
          /\ entered' = entered \cup {m}

(* UpdateAbilities, from the copy; or the statement fails. *)
UpdateAbilities(a) ==
    /\ call[a].pc = "saved"
    /\ modelAbility' = call[a].seen.models
    /\ call' = [call EXCEPT ![a] = NoOperation]
    /\ overtaken' = (overtaken \/ channel.models # call[a].seen.models)
    /\ UNCHANGED <<upstream, channel, checks, shifts, entered>>

UpstreamShifts ==
    /\ shifts < MaxShifts /\ shifts' = shifts + 1
    /\ \E m \in Models : upstream' = IF m \in upstream THEN upstream \ {m} ELSE upstream \cup {m}
    /\ UNCHANGED <<channel, modelAbility, call, checks, entered, overtaken>>

NextUpstream ==
    \/ runChannelUpstreamModelUpdateTaskOnce \/ DetectChannelUpstreamModelUpdates
    \/ DetectAllChannelUpstreamModelUpdates \/ ApplyChannelUpstreamModelUpdates
    \/ ApplyAllChannelUpstreamModelUpdates \/ EditChannel \/ UpstreamShifts
    \/ \E a \in Callers : CheckAndPersist(a) \/ CheckFails(a) \/ ApplyPersist(a) \/ EditPersist(a)
                          \/ UpdateAbilities(a)

SpecUpstream == InitUpstream /\ [][NextUpstream]_umvars

----------------------------------------------------------------------------
(* Unless one operation wrote over another's result, a model on the ignore  *)
(* list is in the channel only if the administrator entered it, and when    *)
(* nothing is in progress the abilities are the channel's models.           *)
IgnoredStaysOut ==
    ~overtaken =>
        /\ channel.ignored \cap channel.models \subseteq entered
        /\ (\A a \in Callers : call[a] = NoOperation) => modelAbility = channel.models
=============================================================================
