--------------------------- MODULE Routing_proofs ---------------------------
(***************************************************************************)
(* Where a request is sent: the status of a channel (ChannelStatus), the   *)
(* abilities table (ChannelTable), the models of a channel                 *)
(* (UpstreamModels), the attempts of a request (ChannelSelect) and the     *)
(* affinity of requests (Affinity), for any channels, keys, groups,        *)
(* models, priorities and number of retries.                               *)
(***************************************************************************)
EXTENDS ChannelStatus, ChannelTable, UpstreamModels, ChannelSelect, Affinity, FunctionTheorems,
        FiniteSetTheorems, NaturalsInduction, WellFoundedInduction, TLAPS

-----------------------------------------------------------------------------
(***************************************************************************)
(* The repair of the abilities. While nothing disturbs it, no handler is   *)
(* between its writes, and the table holds exactly what the channels done  *)
(* so far imply (CalmRepair); a handler that comes, a failing statement or *)
(* a crash ends the calm.                                                  *)
(***************************************************************************)

TableTypes ==
    /\ DOMAIN rows \subseteq Nat /\ rows = [i \in DOMAIN rows |-> rows[i]] /\ nextId \in Nat
    /\ alive \in BOOLEAN
    /\ fix = [pc |-> fix.pc, todo |-> fix.todo, calm |-> fix.calm, failed |-> fix.failed]

Portion(D) == [i \in D |-> rows[i]]

\* A repair that nothing has disturbed: no handler is between its writes; the table is empty
\* until the channels are read, and then holds what the channels done so far imply.
CalmRepair ==
    (fix.pc # "idle" /\ fix.calm) =>
        /\ handler = NoHandler
        /\ fix.pc = "read" => abilities = {}
        /\ (fix.pc = "add" /\ ~ fix.failed) =>
             \E D \in SUBSET DOMAIN rows :
                fix.todo = Portion(D) /\ abilities = Derived(Portion(DOMAIN rows \ D))

FixInv == TableTypes /\ (~ alive => fix.pc = "idle") /\ CalmRepair

-----------------------------------------------------------------------------
LEMMA LeastNumber ==
    ASSUME NEW S, S \subseteq Nat, S # {}
    PROVE  \E n \in S : \A m \in S : n <= m
  <1>1. PICK n \in S : \A m \in S : <<m, n>> \notin OpToRel(<, Nat)
    BY NatLessThanWellFounded, WFMin
  <1>2. ASSUME NEW m \in S PROVE ~ (m < n)
    <2>1. m \in Nat /\ n \in Nat
      OBVIOUS
    <2> QED BY <1>1, <2>1, Zenon DEF OpToRel
  <1>3. ASSUME NEW m \in S PROVE n <= m
    BY <1>2
  <1> QED BY <1>3

\* The only function on nothing is the empty sequence.
LEMMA EmptyFunction ==
    ASSUME NEW f, f = [i \in {} |-> f[i]]
    PROVE  f = <<>>
  <1>1. <<>> = [i \in {} |-> f[i]]
    OBVIOUS
  <1> QED BY <1>1

LEMMA NoFixFacts == NoFix.pc = "idle" /\ NoFix = [pc |-> NoFix.pc, todo |-> NoFix.todo, calm |-> NoFix.calm, failed |-> NoFix.failed]
  BY DEF NoFix

LEMMA SameRows ==
    ASSUME rows' = rows, NEW D
    PROVE  Portion(D)' = Portion(D) /\ Derived(Portion(DOMAIN rows \ D))' = Derived(Portion(DOMAIN rows \ D))
  BY DEF Portion, Derived

LEMMA SameRepair ==
    ASSUME FixInv, UNCHANGED <<rows, abilities, nextId, handler, fix, alive>>
    PROVE  FixInv'
  <1>1. TableTypes' /\ (~ alive' => fix'.pc = "idle")
    BY DEF FixInv, TableTypes
  <1>2. CalmRepair'
    BY SameRows DEF FixInv, CalmRepair
  <1> QED BY <1>1, <1>2 DEF FixInv

\* A handler that begins disturbs the repair.
LEMMA Disturbs ==
    ASSUME FixInv, Enter, DOMAIN rows' \subseteq Nat, rows' = [i \in DOMAIN rows' |-> rows'[i]], nextId' \in Nat
    PROVE  FixInv'
  <1>1. /\ alive' = alive /\ alive
        /\ fix' = IF fix.pc = "idle" THEN fix ELSE [fix EXCEPT !.calm = FALSE]
    BY DEF Enter
  <1>2. fix'.pc = "idle" \/ ~ fix'.calm
    BY <1>1 DEF FixInv, TableTypes
  <1>3. fix' = [pc |-> fix'.pc, todo |-> fix'.todo, calm |-> fix'.calm, failed |-> fix'.failed]
    BY <1>1 DEF FixInv, TableTypes
  <1> QED BY <1>1, <1>2, <1>3 DEF FixInv, TableTypes, CalmRepair

LEMMA HandleStep == ASSUME FixInv, Handle PROVE FixInv'
  <1>0. /\ DOMAIN rows \subseteq Nat /\ nextId \in Nat
    BY DEF FixInv, TableTypes
  <1>1. CASE BatchInsertChannels
    <2>1. PICK r : rows' = [id \in DOMAIN rows \cup {nextId} |-> IF id = nextId THEN r ELSE rows[id]]
      BY <1>1 DEF BatchInsertChannels
    <2> QED BY <1>0, <1>1, <2>1, Disturbs DEF BatchInsertChannels
  <1>2. CASE DeleteDisabledChannel
    BY <1>0, <1>2, Disturbs DEF DeleteDisabledChannel, Begin
  <1>3. ASSUME NEW id, DeleteChannel(id) PROVE FixInv'
    BY <1>0, <1>3, Disturbs DEF DeleteChannel, Begin
  <1>4. ASSUME NEW id, NEW s \in BOOLEAN, NEW g, UpdateChannel(id, s, g) PROVE FixInv'
    BY <1>0, <1>4, Disturbs DEF UpdateChannel, Begin
  <1>5. ASSUME NEW ids, BatchDeleteChannels(ids) PROVE FixInv'
    BY <1>0, <1>5, Disturbs DEF BatchDeleteChannels, Begin
  <1>6. ASSUME NEW ids, NEW t, BatchSetChannelTag(ids, t) PROVE FixInv'
    BY <1>0, <1>6, Disturbs DEF BatchSetChannelTag, Begin
  <1>7. ASSUME NEW t, NEW s, SetStatusByTag(t, s) PROVE FixInv'
    BY <1>0, <1>7, Disturbs DEF SetStatusByTag, Begin
  <1>8. ASSUME NEW t, NEW u, NEW g, EditChannelByTag(t, u, g) PROVE FixInv'
    BY <1>0, <1>8, Disturbs DEF EditChannelByTag, Begin
  <1> QED BY <1>1, <1>2, <1>3, <1>4, <1>5, <1>6, <1>7, <1>8 DEF Handle

\* What a handler writes later, it writes in a repair that is disturbed already.
LEMMA HandlerStep ==
    ASSUME FixInv, HandlerWrites \/ HandlerReads \/ HandlerFails
    PROVE  FixInv'
  <1>1. handler # NoHandler /\ UNCHANGED <<rows, nextId, fix, alive>>
    BY DEF HandlerWrites, HandlerReads, HandlerFails, NoHandler
  <1>2. fix.pc = "idle" \/ ~ fix.calm
    BY <1>1 DEF FixInv, CalmRepair
  <1> QED BY <1>1, <1>2 DEF FixInv, TableTypes, CalmRepair

LEMMA TruncateStep == ASSUME FixInv, FixTruncate PROVE FixInv'
  <1>1. /\ alive /\ abilities' = {} /\ UNCHANGED <<rows, nextId, handler, alive>>
        /\ fix' = [NoFix EXCEPT !.pc = "read", !.calm = (handler = NoHandler)]
    BY DEF FixTruncate
  <1>2. /\ fix' = [pc |-> fix'.pc, todo |-> fix'.todo, calm |-> fix'.calm, failed |-> fix'.failed]
        /\ fix'.pc = "read"
    BY <1>1 DEF NoFix
  <1>3. ASSUME fix'.calm PROVE handler = NoHandler
    BY <1>1, <1>3 DEF NoFix
  <1>4. CalmRepair'
    BY <1>1, <1>2, <1>3 DEF CalmRepair
  <1> QED BY <1>1, <1>2, <1>4 DEF FixInv, TableTypes

LEMMA ReadStep == ASSUME FixInv, FixRead PROVE FixInv'
  <1>1. /\ alive /\ fix.pc = "read" /\ abilities' = Without(DOMAIN rows)
        /\ fix' = IF rows = <<>> THEN NoFix ELSE [fix EXCEPT !.pc = "add", !.todo = rows]
        /\ UNCHANGED <<rows, nextId, handler, alive>>
    BY DEF FixRead
  <1>2. TableTypes'
    BY <1>1, NoFixFacts DEF FixInv, TableTypes
  <1>3. CalmRepair'
    <2>1. CASE rows = <<>>
      BY <1>1, <2>1, NoFixFacts DEF CalmRepair
    <2>2. CASE rows # <<>>
      <3>1. fix'.pc = "add" /\ fix'.todo = rows /\ fix'.calm = fix.calm
        BY <1>1, <2>2 DEF FixInv, TableTypes
      <3>2. ASSUME fix.calm PROVE handler = NoHandler /\ abilities' = {}
        BY <1>1, <3>2 DEF FixInv, CalmRepair, Without
      <3>3. rows = Portion(DOMAIN rows)'
        BY <1>1 DEF FixInv, TableTypes, Portion
      <3>4. Derived(Portion(DOMAIN rows \ DOMAIN rows))' = {}
        BY DEF Derived, Portion
      <3> QED BY <1>1, <3>1, <3>2, <3>3, <3>4 DEF CalmRepair
    <2> QED BY <2>1, <2>2
  <1> QED BY <1>1, <1>2, <1>3 DEF FixInv

LEMMA AddStep == ASSUME FixInv, FixAdd PROVE FixInv'
  <1> DEFINE left == fix.todo
             id == CHOOSE i \in DOMAIN left : \A j \in DOMAIN left : i <= j
             new == {a \in AbilitiesOf(id, left[id]) :
                       ~\E b \in abilities : b.id = id /\ b.group = a.group}
             rest == [i \in DOMAIN left \ {id} |-> left[i]]
  <1>1. /\ alive /\ fix.pc = "add" /\ left # <<>>
        /\ \/ abilities' = abilities \cup new /\ fix' = [fix EXCEPT !.todo = rest]
           \/ UNCHANGED abilities /\ fix' = [fix EXCEPT !.todo = rest, !.failed = TRUE]
        /\ UNCHANGED <<rows, nextId, handler, alive>>
    BY DEF FixAdd
  <1> HIDE DEF id, new, rest
  <1>2. TableTypes'
    BY <1>1 DEF FixInv, TableTypes
  <1>3. fix'.pc = "add" /\ fix'.calm = fix.calm /\ fix'.todo = rest
    BY <1>1 DEF FixInv, TableTypes
  <1>4. ASSUME fix'.calm, ~ fix'.failed
        PROVE  \E D \in SUBSET DOMAIN rows' :
                  fix'.todo = Portion(D)' /\ abilities' = Derived(Portion(DOMAIN rows \ D))'
    <2>1. abilities' = abilities \cup new /\ ~ fix.failed /\ fix.calm
      BY <1>1, <1>3, <1>4 DEF FixInv, TableTypes
    <2>2. PICK D \in SUBSET DOMAIN rows :
            left = Portion(D) /\ abilities = Derived(Portion(DOMAIN rows \ D))
      BY <1>1, <2>1 DEF FixInv, CalmRepair
    <2>3. DOMAIN left = D /\ \A i \in D : left[i] = rows[i]
      BY <2>2 DEF Portion
    <2>4. D # {}
      <3>1. ASSUME D = {} PROVE FALSE
        <4>1. left = [i \in {} |-> left[i]]
          BY <2>2, <2>3, <3>1 DEF Portion
        <4> QED BY <1>1, <4>1, EmptyFunction
      <3> QED BY <3>1
    <2>5. id \in D
      <3>1. D \subseteq Nat
        BY DEF FixInv, TableTypes
      <3>2. \E i \in D : \A j \in D : i <= j
        BY <2>4, <3>1, LeastNumber
      <3> QED BY <2>3, <3>2 DEF id
    <2>6. rest = Portion(D \ {id})
      BY <2>3, <2>5 DEF rest, Portion
    <2>7. \A b \in abilities : b.id # id
      BY <2>2, <2>5 DEF Derived, Portion, AbilitiesOf
    <2>8. new = AbilitiesOf(id, rows[id])
      BY <2>3, <2>5, <2>7 DEF new
    <2>9. Derived(Portion(DOMAIN rows \ (D \ {id}))) = abilities \cup AbilitiesOf(id, rows[id])
      <3>1. DOMAIN rows \ (D \ {id}) = (DOMAIN rows \ D) \cup {id}
        BY <2>5
      <3>2. \A S : Derived(Portion(S)) = UNION {AbilitiesOf(i, rows[i]) : i \in S}
        BY DEF Derived, Portion
      <3> HIDE DEF id
      <3> QED BY <2>2, <3>1, <3>2
    <2>10. PICK E \in SUBSET DOMAIN rows : E = D \ {id}
      BY <2>5
    <2>11. Portion(E)' = Portion(E) /\ Derived(Portion(DOMAIN rows \ E))' = Derived(Portion(DOMAIN rows \ E))
      BY <1>1, SameRows
    <2>12. fix'.todo = Portion(E)' /\ abilities' = Derived(Portion(DOMAIN rows \ E))'
      BY <1>3, <2>1, <2>6, <2>8, <2>9, <2>10, <2>11
    <2> QED BY <1>1, <2>12
  <1>5. CalmRepair'
    BY <1>1, <1>3, <1>4 DEF CalmRepair, FixInv
  <1> QED BY <1>1, <1>2, <1>5 DEF FixInv

LEMMA EndStep == ASSUME FixInv, FixEnd PROVE FixInv'
  BY NoFixFacts DEF FixEnd, FixInv, TableTypes, CalmRepair

\* The cache is rebuilt, or its rebuilding ends the process and the repair with it.
LEMMA CacheStep ==
    ASSUME FixInv, NEW k, InitReadsRows(k) \/ InitBuilds(k) \/ InitPanics(k)
    PROVE  FixInv'
  <1>1. /\ UNCHANGED <<rows, abilities, nextId>>
        /\ \/ UNCHANGED <<handler, fix, alive>>
           \/ fix' = NoFix /\ alive' = FALSE
    BY DEF InitReadsRows, InitBuilds, InitPanics
  <1>2. CASE UNCHANGED <<handler, fix, alive>>
    BY <1>1, <1>2, SameRepair
  <1>3. CASE fix' = NoFix /\ alive' = FALSE
    BY <1>1, <1>3, NoFixFacts DEF FixInv, TableTypes, CalmRepair
  <1> QED BY <1>1, <1>2, <1>3

LEMMA StartProcessStep == ASSUME FixInv, StartProcess PROVE FixInv'
  BY DEF StartProcess, FixInv, TableTypes, CalmRepair

-----------------------------------------------------------------------------
LEMMA FixInit == InitTable => FixInv
  <1> SUFFICES ASSUME InitTable PROVE FixInv
    OBVIOUS
  <1>1. fix = NoFix /\ alive = TRUE /\ nextId = 2
    BY DEF InitTable
  <1>2. DOMAIN rows = {1} /\ rows = [i \in DOMAIN rows |-> rows[i]]
    BY DEF InitTable
  <1> QED BY <1>1, <1>2, NoFixFacts DEF FixInv, TableTypes, CalmRepair

LEMMA FixNext == FixInv /\ [NextTable]_ctvars => FixInv'
  <1> SUFFICES ASSUME FixInv, [NextTable]_ctvars PROVE FixInv'
    OBVIOUS
  <1>1. CASE UNCHANGED ctvars
    BY <1>1, SameRepair DEF ctvars
  <1>2. CASE NextTable
    BY <1>2, HandleStep, HandlerStep, TruncateStep, ReadStep, AddStep, EndStep, CacheStep,
       StartProcessStep DEF NextTable, Advance
  <1> QED BY <1>1, <1>2

\* A repair of the abilities that nothing disturbed restores them (see FixRestores), for any
\* channels, groups, tags and handlers around it.
THEOREM RepairRestoresAbilities == SpecTable => []FixRestores
  <1>1. FixInv => FixRestores
    <2> SUFFICES ASSUME FixInv, fix.pc = "add", fix.todo = <<>>, fix.calm, ~ fix.failed
                 PROVE  abilities = Derived(rows)
      BY DEF FixRestores
    <2>1. PICK D \in SUBSET DOMAIN rows :
            fix.todo = Portion(D) /\ abilities = Derived(Portion(DOMAIN rows \ D))
      BY DEF FixInv, CalmRepair
    <2>2. D = {}
      <3>1. DOMAIN fix.todo = D
        BY <2>1 DEF Portion
      <3>2. DOMAIN fix.todo = {}
        OBVIOUS
      <3> QED BY <3>1, <3>2
    <2>3. Portion(DOMAIN rows \ D) = rows
      BY <2>2 DEF Portion, FixInv, TableTypes
    <2> QED BY <2>1, <2>3
  <1> QED BY <1>1, FixInit, FixNext, PTL DEF SpecTable

-----------------------------------------------------------------------------
(***************************************************************************)
(* The models of a channel. An operation keeps the row it read, and        *)
(* whoever saves a row that has changed since has overtaken somebody.      *)
(* Without that, what waits to be added or is ignored is in the list only  *)
(* when the administrator put it there (ListInv), and the abilities say    *)
(* what the list says or the operation that saved the list has yet to      *)
(* rewrite them (AbilityInv).                                              *)
(***************************************************************************)

ModelRows == [models : SUBSET Models, detected : SUBSET Models, removed : SUBSET Models,
              ignored : SUBSET Models, auto : BOOLEAN]
Operations == [pc : {"idle", "read", "saved"}, op : {"", "task", "detect", "detectAll", "apply", "edit"},
               seen : ModelRows \cup {<<>>}, add : SUBSET Models, ignore : SUBSET Models,
               remove : SUBSET Models]

ModelTypes ==
    /\ upstream \subseteq Models /\ channel \in ModelRows
    /\ modelAbility \subseteq Models /\ entered \subseteq Models /\ overtaken \in BOOLEAN
    /\ call \in [Callers -> Operations]
    /\ \A a \in Callers : /\ call[a].pc # "idle" => call[a].seen \in ModelRows
                          /\ call[a].pc = "read" /\ call[a].op = "edit" => call[a].add # {}

\* A model that waits to be added, or is ignored, is in the list only by the administrator.
ListInv == (channel.ignored \cup channel.detected) \cap channel.models \subseteq entered
\* The abilities say what the list says, or the operation that will make them say so is under way.
AbilityInv ==
    \/ modelAbility = channel.models
    \/ \E a \in Callers : call[a].pc = "saved" /\ call[a].seen.models = channel.models

UpstreamInv == ModelTypes /\ (~ overtaken => ListInv /\ AbilityInv)

-----------------------------------------------------------------------------
LEMMA NoOperationType == NoOperation \in Operations /\ NoOperation.pc = "idle"
  BY DEF NoOperation, Operations

LEMMA StartStep ==
    ASSUME UpstreamInv, NEW a \in Callers, NEW op \in {"task", "detect", "detectAll", "apply", "edit"},
           NEW add \in SUBSET Models, NEW ignore \in SUBSET Models, NEW remove \in SUBSET Models,
           op = "edit" => add # {}, Start(a, op, add, ignore, remove)
    PROVE  UpstreamInv'
  <1> DEFINE c == [pc |-> "read", op |-> op, seen |-> channel, add |-> add, ignore |-> ignore,
                   remove |-> remove]
  <1>1. /\ call' = [call EXCEPT ![a] = c] /\ call[a].pc = "idle"
        /\ UNCHANGED <<upstream, channel, modelAbility, entered, overtaken>>
    BY DEF Start
  <1>2. c \in Operations /\ c.pc = "read" /\ c.seen \in ModelRows /\ (c.op = "edit" => c.add # {})
    BY DEF Operations, UpstreamInv, ModelTypes
  <1> HIDE DEF c
  <1>3. ModelTypes'
    BY <1>1, <1>2 DEF UpstreamInv, ModelTypes
  <1>4. ASSUME ~ overtaken' PROVE ListInv' /\ AbilityInv'
    <2>1. \A x \in Callers : call[x].pc = "saved" => call'[x] = call[x]
      BY <1>1 DEF UpstreamInv, ModelTypes
    <2> QED BY <1>1, <1>4, <2>1 DEF UpstreamInv, ListInv, AbilityInv
  <1> QED BY <1>3, <1>4 DEF UpstreamInv

\* What a write of settings, and perhaps models, must keep.
LEMMA SaveStep ==
    ASSUME UpstreamInv, NEW a \in Callers, NEW new \in ModelRows, NEW changed \in BOOLEAN,
           call[a].pc = "read", Save(a, new, changed), entered \subseteq entered',
           entered' \subseteq Models, ~ changed => new.models = call[a].seen.models,
           ListInv /\ channel = call[a].seen
             => (new.ignored \cup new.detected) \cap new.models \subseteq entered'
    PROVE  UpstreamInv'
  <1> DEFINE c == IF changed THEN [NoOperation EXCEPT !.pc = "saved", !.seen = new] ELSE NoOperation
  <1>1. /\ channel' = IF changed THEN new ELSE [new EXCEPT !.models = channel.models]
        /\ call' = [call EXCEPT ![a] = c]
        /\ overtaken' = (overtaken \/ channel # call[a].seen)
        /\ UNCHANGED <<upstream, modelAbility>>
    BY DEF Save
  <1>2. /\ c \in Operations /\ c.pc # "read" /\ (changed => c.pc = "saved" /\ c.seen = new)
        /\ c.pc # "idle" => c.seen \in ModelRows
    BY DEF NoOperation, Operations
  <1> HIDE DEF c
  <1>3. channel' \in ModelRows
    BY <1>1 DEF UpstreamInv, ModelTypes, ModelRows
  <1>4. ModelTypes'
    BY <1>1, <1>2, <1>3 DEF UpstreamInv, ModelTypes
  <1>5. ASSUME ~ overtaken' PROVE ListInv' /\ AbilityInv'
    <2>1. ~ overtaken /\ channel = call[a].seen
      BY <1>1, <1>5
    <2>2. channel' = new
      <3>1. new = [new EXCEPT !.models = new.models]
        BY DEF ModelRows
      <3> QED BY <1>1, <2>1, <3>1
    <2>3. ListInv'
      BY <2>1, <2>2 DEF UpstreamInv, ListInv
    <2>4. AbilityInv'
      <3>1. CASE changed
        BY <1>1, <1>2, <2>2, <3>1 DEF AbilityInv, UpstreamInv, ModelTypes
      <3>2. CASE ~ changed
        <4>1. channel'.models = channel.models
          BY <2>1, <2>2, <3>2
        <4>2. \A x \in Callers : call[x].pc = "saved" => call'[x] = call[x]
          BY <1>1 DEF UpstreamInv, ModelTypes
        <4> QED BY <1>1, <2>1, <4>1, <4>2 DEF UpstreamInv, AbilityInv
      <3> QED BY <3>1, <3>2
    <2> QED BY <2>3, <2>4
  <1> QED BY <1>4, <1>5 DEF UpstreamInv

LEMMA CheckStep ==
    ASSUME UpstreamInv, NEW a \in Callers, CheckAndPersist(a)
    PROVE  UpstreamInv'
  <1> DEFINE seen == call[a].seen
             add == PendingAdd(seen, MappingFor(call[a].op))
             apply == call[a].op = "task" /\ seen.auto /\ add # {}
             gone == PendingRemove(seen, MappingFor(call[a].op))
             new == [seen EXCEPT !.models = IF apply THEN @ \cup add ELSE @,
                                 !.detected = IF apply THEN {} ELSE add, !.removed = gone]
  <1>1. call[a].pc = "read" /\ Save(a, new, apply) /\ entered' = entered
    BY DEF CheckAndPersist
  <1>2. seen \in ModelRows /\ entered \subseteq Models
    BY <1>1 DEF UpstreamInv, ModelTypes
  <1>3. add \subseteq Models /\ add \cap (seen.models \cup seen.ignored) = {} /\ gone \subseteq Models
    BY <1>2 DEF PendingAdd, PendingRemove, UpstreamInv, ModelTypes, ModelRows
  <1>4. apply \in BOOLEAN
    BY <1>2 DEF ModelRows
  <1> HIDE DEF add, gone
  <1>5. /\ new \in ModelRows /\ new.ignored = seen.ignored
        /\ new.models = (IF apply THEN seen.models \cup add ELSE seen.models)
        /\ new.detected = (IF apply THEN {} ELSE add)
    BY <1>2, <1>3 DEF ModelRows
  <1>6. ListInv /\ channel = seen => (new.ignored \cup new.detected) \cap new.models \subseteq entered
    BY <1>3, <1>5 DEF ListInv
  <1> HIDE DEF seen, new, apply
  <1> QED BY <1>1, <1>2, <1>4, <1>5, <1>6, SaveStep DEF seen

LEMMA CheckFailsStep ==
    ASSUME UpstreamInv, NEW a \in Callers, CheckFails(a)
    PROVE  UpstreamInv'
  <1>1. call[a].pc = "read" /\ Save(a, call[a].seen, FALSE) /\ entered' = entered
    BY DEF CheckFails
  <1>2. call[a].seen \in ModelRows /\ entered \subseteq Models
    BY <1>1 DEF UpstreamInv, ModelTypes
  <1> QED BY <1>1, <1>2, SaveStep DEF ListInv

LEMMA ApplyStep ==
    ASSUME UpstreamInv, NEW a \in Callers, ApplyPersist(a)
    PROVE  UpstreamInv'
  <1> DEFINE seen == call[a].seen
             add == call[a].add \cap seen.detected
             ignore == call[a].ignore \cap seen.detected
             remove == (call[a].remove \cap seen.removed) \ add
             models == applySelectedModelChanges(seen.models, add, remove)
             new == [seen EXCEPT !.models = models, !.ignored = (@ \cup ignore) \ add,
                                 !.detected = @ \ (add \cup ignore), !.removed = @ \ remove]
  <1>1. call[a].pc = "read" /\ Save(a, new, models # seen.models) /\ entered' = entered \cup add
    BY DEF ApplyPersist
  <1>2. seen \in ModelRows /\ call[a] \in Operations /\ entered \subseteq Models
    BY <1>1 DEF UpstreamInv, ModelTypes
  <1>3. /\ add \subseteq Models /\ ignore \subseteq seen.detected
        /\ models \subseteq seen.models \cup add
    BY <1>2 DEF Operations, ModelRows, applySelectedModelChanges
  <1> HIDE DEF add, ignore, remove, models
  <1>4. /\ new.models = models /\ new.ignored = (seen.ignored \cup ignore) \ add
        /\ new.detected = seen.detected \ (add \cup ignore) /\ new.removed = seen.removed \ remove
        /\ new \in ModelRows
    BY <1>2, <1>3 DEF ModelRows
  <1>5. ListInv /\ channel = seen => (new.ignored \cup new.detected) \cap new.models \subseteq entered'
    BY <1>1, <1>3, <1>4 DEF ListInv
  <1> HIDE DEF seen, new
  <1> QED BY <1>1, <1>2, <1>3, <1>4, <1>5, SaveStep DEF seen

LEMMA EditStep ==
    ASSUME UpstreamInv, NEW a \in Callers, EditPersist(a)
    PROVE  UpstreamInv'
  <1> DEFINE seen == call[a].seen
             m == CHOOSE x \in call[a].add : TRUE
             new == [seen EXCEPT !.models = IF m \in @ THEN @ \ {m} ELSE @ \cup {m}]
  <1>1. /\ call[a].pc = "read" /\ call[a].op = "edit" /\ Save(a, new, TRUE)
        /\ entered' = entered \cup {m}
    BY DEF EditPersist
  <1>2. seen \in ModelRows /\ call[a].add \subseteq Models /\ call[a].add # {} /\ entered \subseteq Models
    BY <1>1 DEF UpstreamInv, ModelTypes, Operations
  <1>3. m \in Models
    BY <1>2
  <1> HIDE DEF m
  <1>4. /\ new \in ModelRows /\ new.ignored = seen.ignored /\ new.detected = seen.detected
        /\ new.models \subseteq seen.models \cup {m}
    BY <1>2, <1>3 DEF ModelRows
  <1>5. ListInv /\ channel = seen => (new.ignored \cup new.detected) \cap new.models \subseteq entered'
    BY <1>1, <1>4 DEF ListInv
  <1> HIDE DEF seen, new
  <1> QED BY <1>1, <1>2, <1>3, <1>4, <1>5, SaveStep DEF seen

LEMMA AbilitiesStep ==
    ASSUME UpstreamInv, NEW a \in Callers, UpdateAbilities(a)
    PROVE  UpstreamInv'
  <1>1. /\ call[a].pc = "saved" /\ modelAbility' = call[a].seen.models
        /\ call' = [call EXCEPT ![a] = NoOperation]
        /\ overtaken' = (overtaken \/ channel.models # call[a].seen.models)
        /\ UNCHANGED <<upstream, channel, entered>>
    BY DEF UpdateAbilities
  <1>2. ModelTypes'
    BY <1>1, NoOperationType DEF UpstreamInv, ModelTypes, ModelRows
  <1>3. ~ overtaken' => ListInv' /\ AbilityInv'
    BY <1>1 DEF UpstreamInv, ListInv, AbilityInv
  <1> QED BY <1>2, <1>3 DEF UpstreamInv

-----------------------------------------------------------------------------
LEMMA UpstreamInit == InitUpstream => UpstreamInv
  <1> SUFFICES ASSUME InitUpstream PROVE UpstreamInv
    OBVIOUS
  <1>1. PICK auto \in BOOLEAN :
          channel = [models |-> DOMAIN Redirects, detected |-> {}, removed |-> {}, ignored |-> {},
                     auto |-> auto]
    BY DEF InitUpstream
  <1>2. channel \in ModelRows /\ channel.models = DOMAIN Redirects /\ channel.ignored = {} /\ channel.detected = {}
    BY <1>1, UpstreamAssumption DEF ModelRows
  <1>3. ModelTypes
    BY <1>2, UpstreamAssumption, NoOperationType DEF InitUpstream, ModelTypes
  <1> QED BY <1>2, <1>3 DEF InitUpstream, UpstreamInv, ListInv, AbilityInv

LEMMA UpstreamNext == UpstreamInv /\ [NextUpstream]_umvars => UpstreamInv'
  <1> SUFFICES ASSUME UpstreamInv, [NextUpstream]_umvars PROVE UpstreamInv'
    OBVIOUS
  <1> USE DEF Callers
  <1>1. CASE runChannelUpstreamModelUpdateTaskOnce
    BY <1>1, StartStep DEF runChannelUpstreamModelUpdateTaskOnce
  <1>2. CASE DetectChannelUpstreamModelUpdates \/ DetectAllChannelUpstreamModelUpdates
    BY <1>2, StartStep DEF DetectChannelUpstreamModelUpdates, DetectAllChannelUpstreamModelUpdates
  <1>3. channel.detected \subseteq Models /\ channel.removed \subseteq Models
    BY DEF UpstreamInv, ModelTypes, ModelRows
  <1>4. CASE ApplyChannelUpstreamModelUpdates
    <2>1. PICK add \in SUBSET channel.detected, ignore \in SUBSET channel.detected,
               remove \in SUBSET (channel.removed \ DOMAIN Redirects) :
            Start("admin", "apply", add, ignore, remove)
      BY <1>4 DEF ApplyChannelUpstreamModelUpdates
    <2>2. add \subseteq Models /\ ignore \subseteq Models /\ remove \subseteq Models
      BY <1>3
    <2> QED BY <2>1, <2>2, StartStep
  <1>5. CASE ApplyAllChannelUpstreamModelUpdates
    BY <1>3, <1>5, StartStep DEF ApplyAllChannelUpstreamModelUpdates
  <1>6. CASE EditChannel
    <2>1. PICK m \in Models \ DOMAIN Redirects : Start("admin", "edit", {m}, {}, {})
      BY <1>6 DEF EditChannel
    <2> QED BY <2>1, StartStep
  <1>7. CASE UpstreamShifts
    <2>1. UNCHANGED <<channel, modelAbility, call, entered, overtaken>> /\ upstream' \subseteq Models
      BY <1>7 DEF UpstreamShifts, UpstreamInv, ModelTypes
    <2> QED BY <2>1 DEF UpstreamInv, ModelTypes, ListInv, AbilityInv
  <1>8. ASSUME NEW a \in Callers, CheckAndPersist(a) \/ CheckFails(a) \/ ApplyPersist(a) \/ EditPersist(a)
                                  \/ UpdateAbilities(a)
        PROVE  UpstreamInv'
    BY <1>8, CheckStep, CheckFailsStep, ApplyStep, EditStep, AbilitiesStep
  <1>9. CASE UNCHANGED umvars
    BY <1>9 DEF umvars, UpstreamInv, ModelTypes, ListInv, AbilityInv
  <1> QED BY <1>1, <1>2, <1>4, <1>5, <1>6, <1>7, <1>8, <1>9 DEF NextUpstream

\* Unless an operation wrote over another's result, what the administrator ignores stays out
\* of the channel and the abilities come to say what the channel says (see IgnoredStaysOut),
\* for any models, any mapping and any number of checks.
THEOREM IgnoredModelsStayOut == SpecUpstream => []IgnoredStaysOut
  <1>1. UpstreamInv => IgnoredStaysOut
    <2>1. ASSUME UpstreamInv, ~ overtaken, \A a \in Callers : call[a] = NoOperation
          PROVE  modelAbility = channel.models
      BY <2>1, NoOperationType DEF UpstreamInv, AbilityInv
    <2> QED BY <2>1 DEF UpstreamInv, ListInv, IgnoredStaysOut
  <1> QED BY <1>1, UpstreamInit, UpstreamNext, PTL DEF SpecUpstream

-----------------------------------------------------------------------------
(***************************************************************************)
(* The attempts of a request. One retry counter serves the loop and the    *)
(* selection, and is reset when the selection goes to the next group, so   *)
(* the invariant ties it to what was tried: the counter and the group      *)
(* index bound the number of attempts (Budget), no attempt is past the     *)
(* index (Passed), every group behind it was tried or is empty (Behind),   *)
(* the last attempt had the priority of a level the counter has not fallen *)
(* behind (LastLevel), and a request that is bound to a channel was sent   *)
(* nowhere else before that channel failed (Kept).                         *)
(*                                                                         *)
(* The list of an auto token names a group once (ListedOnce): a group that *)
(* is named twice is gone through twice.                                   *)
(***************************************************************************)

AutoToken == req.tokenGroup = "auto"
Attempts == [group : STRING \cup {Unset}, id : Candidates]

\* The attempts that the groups before position i of the list can have cost.
Spent(i) == (RetryTimes + 1) * (i - 1)

\* Where the request stands in the middleware and in the loop.
Flow ==
    /\ SelectTypeOK
    /\ pc \in {"distribute", "lock"} => used = <<>> /\ errs = <<>> /\ retry = 0 /\ ~ resetNextTry
    /\ pc = "distribute" => groupIndex = 1
    /\ pc = "lock" => req.locked # Unset
    /\ pc \in {"attempt", "select"} => retry <= RetryTimes /\ chosen # Unset /\ used # <<>>
    /\ pc = "select" => ~ resetNextTry
    /\ resetNextTry => AutoToken /\ req.locked = Unset
    /\ verdict \in {"noKey", "noChannel"} => pc = "failed"

\* The retry counter together with the group index counts the attempts made.
Base == IF AutoToken /\ req.locked = Unset THEN Spent(groupIndex) ELSE 0

Budget ==
    /\ pc = "attempt" => Len(used) <= Base + (IF resetNextTry THEN retry ELSE retry + 1)
    /\ pc = "select" => Len(used) <= Base + retry

\* No attempt was made in a group past the index.
Passed ==
    AutoToken => \A n \in DOMAIN used : (used[n].group # Unset /\ (n = 1 => req.prefer = Unset))
        => \E k \in DOMAIN AutoGroups : used[n].group = AutoGroups[k] /\ k <= groupIndex

\* A group before the index is empty or was tried.
Behind ==
    /\ (changes = 0 /\ AutoToken /\ req.cross /\ RetryTimes > 0 /\ verdict # "noKey") =>
         \A k \in DOMAIN AutoGroups : (k < groupIndex /\ InGroup(AutoGroups[k]) # {})
            => \E n \in DOMAIN used : used[n].group = AutoGroups[k]
    /\ (verdict = "noChannel" /\ AutoToken) => groupIndex = Len(AutoGroups) + 1

\* The last attempt had the priority of a retry number that the counter has not
\* fallen behind, unless its group has been left.
LastLevel ==
    (/\ changes = 0 /\ pc \in {"attempt", "select"} /\ used # <<>>
     /\ used[Len(used)].group # Unset /\ ~ (Len(used) = 1 /\ req.prefer # Unset)) =>
        \E level \in 0 .. RetryTimes :
          /\ InGroup(used[Len(used)].group) # {}
          /\ Priority[used[Len(used)].id] = TargetPriority(InGroup(used[Len(used)].group), level)
          /\ IF AutoToken
             THEN \E k \in DOMAIN AutoGroups :
                    /\ used[Len(used)].group = AutoGroups[k]
                    /\ k < groupIndex \/ (k = groupIndex /\ level <= retry)
             ELSE used[Len(used)].group = req.tokenGroup /\ level <= retry

\* What a request bound to a channel has been sent to, and why it left it.
Kept ==
    /\ req.locked # Unset =>
         /\ \A n \in DOMAIN used : used[n].id = req.locked
         /\ pc \in {"attempt", "select"} => chosen.id = req.locked /\ chosen.group = Unset
    /\ (req.locked = Unset /\ req.pin # Unset) =>
         /\ pc \in {"attempt", "select"} /\ errs # <<>> => errs[1] = "channel"
         /\ pc = "select" => errs # <<>>
         /\ \A n \in DOMAIN used : used[n].id # req.pin => errs # <<>> /\ errs[1] = "channel"

RouteInv ==
    /\ Flow /\ Budget /\ Passed /\ Behind /\ LastLevel /\ Kept
    /\ AttemptsBounded /\ GroupOrder /\ PriorityDescends

-----------------------------------------------------------------------------
(* The priority levels of a group.                                         *)

Above(P, p) == {q \in P : q > p}
LevelsOf(S) == {Priority[c] : c \in S}

LEMMA AboveSize ==
    ASSUME NEW P, P \subseteq Int, IsFiniteSet(P), NEW p \in P
    PROVE  /\ IsFiniteSet(Above(P, p)) /\ Cardinality(P) \in Nat
           /\ Cardinality(Above(P, p)) \in 0 .. Cardinality(P) - 1
  <1>1. Above(P, p) \in SUBSET P /\ p \notin Above(P, p)
    BY DEF Above
  <1>2. Above(P, p) # P
    BY <1>1
  <1>3. /\ IsFiniteSet(Above(P, p)) /\ Cardinality(Above(P, p)) <= Cardinality(P)
        /\ Cardinality(Above(P, p)) # Cardinality(P)
    BY <1>1, <1>2, FS_Subset
  <1>4. Cardinality(P) \in Nat /\ Cardinality(Above(P, p)) \in Nat
    BY <1>3, FS_CardinalityType
  <1> QED BY <1>3, <1>4

LEMMA AboveOrder ==
    ASSUME NEW P, P \subseteq Int, IsFiniteSet(P), NEW p \in P, NEW q \in P, q > p
    PROVE  Cardinality(Above(P, q)) < Cardinality(Above(P, p))
  <1>1. Above(P, q) \in SUBSET Above(P, p)
    <2>1. ASSUME NEW x \in Above(P, q) PROVE x \in Above(P, p)
      <3>1. x \in P /\ x > q /\ x \in Int /\ p \in Int /\ q \in Int
        BY DEF Above
      <3> QED BY <3>1 DEF Above
    <2> QED BY <2>1
  <1>2. Above(P, q) # Above(P, p)
    <2>1. q \in Above(P, p) /\ q \notin Above(P, q)
      BY DEF Above
    <2> QED BY <2>1
  <1>3. IsFiniteSet(Above(P, p)) /\ IsFiniteSet(Above(P, q))
    BY AboveSize
  <1>4. /\ Cardinality(Above(P, q)) <= Cardinality(Above(P, p))
        /\ Cardinality(Above(P, q)) # Cardinality(Above(P, p))
    BY <1>1, <1>2, <1>3, FS_Subset
  <1>5. Cardinality(Above(P, p)) \in Nat /\ Cardinality(Above(P, q)) \in Nat
    BY <1>3, FS_CardinalityType
  <1> QED BY <1>4, <1>5

\* In a finite set of numbers, every rank below its size is taken.
LEMMA RankTaken ==
    ASSUME NEW P, P \subseteq Int, IsFiniteSet(P), NEW k \in Nat, k < Cardinality(P)
    PROVE  \E p \in P : Cardinality(Above(P, p)) = k
  <1> DEFINE n == Cardinality(P)
             T == 0 .. n - 1
             f == [p \in P |-> Cardinality(Above(P, p))]
  <1>1. n \in Nat
    BY FS_CardinalityType
  <1>2. IsFiniteSet(T) /\ Cardinality(T) = n
    <2>1. 0 \in Int /\ n - 1 \in Int
      BY <1>1
    <2>2. IsFiniteSet(T) /\ Cardinality(T) = IF 0 > n - 1 THEN 0 ELSE n - 1 - 0 + 1
      BY <2>1, FS_Interval
    <2> HIDE DEF n
    <2> QED BY <2>2, <1>1
  <1>3. f \in [P -> T]
    BY AboveSize
  <1>4. ASSUME NEW p \in P, NEW q \in P, f[p] = f[q] PROVE p = q
    <2>1. ~ (p > q) /\ ~ (q > p)
      <3>1. Cardinality(Above(P, p)) = Cardinality(Above(P, q))
        BY <1>4
      <3>2. Cardinality(Above(P, p)) \in Nat
        BY AboveSize, FS_CardinalityType
      <3>3. p > q => Cardinality(Above(P, p)) < Cardinality(Above(P, q))
        BY AboveOrder
      <3>4. q > p => Cardinality(Above(P, q)) < Cardinality(Above(P, p))
        BY AboveOrder
      <3> QED BY <3>1, <3>2, <3>3, <3>4
    <2>2. p \in Int /\ q \in Int
      OBVIOUS
    <2> QED BY <2>1, <2>2
  <1>5. f \in Injection(P, T)
    <2> HIDE DEF f, T
    <2> QED BY <1>3, <1>4 DEF Injection, IsInjective
  <1>6. f \in Surjection(P, T)
    <2> HIDE DEF f, T
    <2> QED BY <1>2, <1>5, FS_Injection
  <1>7. k \in T
    BY <1>1
  <1>8. \E p \in P : f[p] = k
    <2> HIDE DEF f, T
    <2> QED BY <1>6, <1>7 DEF Surjection
  <1> QED BY <1>8

LEMMA LevelsFinite ==
    ASSUME NEW S, S \subseteq Candidates
    PROVE  IsFiniteSet(LevelsOf(S)) /\ LevelsOf(S) \subseteq Int
  <1> DEFINE f == [c \in S |-> Priority[c]]
  <1>1. LevelsOf(S) \subseteq Int
    BY SelectAssumption DEF LevelsOf
  <1>2. f \in Surjection(S, LevelsOf(S))
    BY DEF Surjection, LevelsOf
  <1>3. IsFiniteSet(S)
    BY SelectAssumption, FS_Subset
  <1>4. IsFiniteSet(LevelsOf(S))
    <2> HIDE DEF f
    <2> QED BY <1>2, <1>3, FS_Surjection
  <1> QED BY <1>1, <1>4

Rank(S, r) == IF r >= Cardinality(LevelsOf(S)) THEN Cardinality(LevelsOf(S)) - 1 ELSE r

\* TargetPriority is a level of the group, the one with as many levels above it as
\* the number of the retry, or the lowest.
LEMMA TargetLevel ==
    ASSUME NEW S, S \subseteq Candidates, S # {}, NEW r \in Nat
    PROVE  /\ TargetPriority(S, r) \in LevelsOf(S)
           /\ Cardinality(Above(LevelsOf(S), TargetPriority(S, r))) = Rank(S, r)
  <1>1. IsFiniteSet(LevelsOf(S)) /\ LevelsOf(S) \subseteq Int
    BY LevelsFinite
  <1>2. LevelsOf(S) # {}
    BY DEF LevelsOf
  <1>3. Cardinality(LevelsOf(S)) \in Nat /\ Cardinality(LevelsOf(S)) # 0
    BY <1>1, <1>2, FS_CardinalityType, FS_EmptySet
  <1>4. Rank(S, r) \in Nat /\ Rank(S, r) < Cardinality(LevelsOf(S))
    BY <1>3 DEF Rank
  <1>5. \E p \in LevelsOf(S) : Cardinality(Above(LevelsOf(S), p)) = Rank(S, r)
    BY <1>1, <1>4, RankTaken
  <1>6. TargetPriority(S, r)
            = CHOOSE p \in LevelsOf(S) : Cardinality(Above(LevelsOf(S), p)) = Rank(S, r)
    BY DEF TargetPriority, LevelsOf, Above, Rank
  <1> QED BY <1>5, <1>6

\* A later retry is not given a higher priority.
LEMMA TargetDescends ==
    ASSUME NEW S, S \subseteq Candidates, S # {}, NEW r1 \in Nat, NEW r2 \in Nat, r1 <= r2
    PROVE  TargetPriority(S, r1) >= TargetPriority(S, r2)
  <1> DEFINE P == LevelsOf(S)
             a == TargetPriority(S, r1)
             b == TargetPriority(S, r2)
  <1>1. IsFiniteSet(P) /\ P \subseteq Int
    BY LevelsFinite
  <1>2. Cardinality(P) \in Nat
    BY <1>1, FS_CardinalityType
  <1>3. /\ a \in P /\ Cardinality(Above(P, a)) = Rank(S, r1)
        /\ b \in P /\ Cardinality(Above(P, b)) = Rank(S, r2)
    BY TargetLevel
  <1>4. Rank(S, r1) <= Rank(S, r2) /\ Rank(S, r1) \in Int /\ Rank(S, r2) \in Int
    BY <1>2 DEF Rank
  <1>5. ~ (b > a)
    <2> HIDE DEF P, a, b
    <2>1. b > a => Rank(S, r2) < Rank(S, r1)
      BY <1>1, <1>3, AboveOrder
    <2> QED BY <2>1, <1>4
  <1>6. a \in Int /\ b \in Int
    BY <1>1, <1>3
  <1>7. a >= b
    <2> HIDE DEF P, a, b
    <2> QED BY <1>5, <1>6
  <1> QED BY <1>7

-----------------------------------------------------------------------------
(* Lemmas about the attempts and the selection.                            *)

LEMMA SpentOrder ==
    ASSUME NEW i \in Nat, NEW j \in Nat, i < j
    PROVE  /\ Spent(i) \in Int /\ Spent(j) \in Int /\ Spent(i) + RetryTimes + 1 <= Spent(j)
           /\ i >= 1 => Spent(i) >= 0
  <1> DEFINE T == RetryTimes + 1
  <1>1. T \in Nat /\ RetryTimes \in Nat
    BY SelectAssumption
  <1>2. /\ T * (i - 1) \in Int /\ T * (j - 1) \in Int
        /\ T * (j - 1) = T * (i - 1) + T + T * (j - i - 1)
    <2> HIDE DEF T
    <2> QED BY <1>1
  <1>3. T * (j - i - 1) \in Nat /\ (i >= 1 => T * (i - 1) \in Nat)
    <2> HIDE DEF T
    <2> QED BY <1>1
  <1> QED BY <1>1, <1>2, <1>3 DEF Spent

LEMMA SpentNat == \A i \in Nat : i >= 1 => Spent(i) \in Nat
  <1> SUFFICES ASSUME NEW i \in Nat, i >= 1 PROVE Spent(i) \in Nat
    OBVIOUS
  <1>1. i + 1 \in Nat /\ i < i + 1
    OBVIOUS
  <1> QED BY <1>1, SpentOrder

LEMMA RequestFacts ==
    ASSUME SelectTypeOK
    PROVE  /\ req \in RequestType
           /\ req.tokenGroup \in STRING /\ req.locked \in Candidates \cup {Unset}
           /\ req.pin \in Candidates \cup {Unset} /\ req.prefer \in Candidates \cup {Unset}
           /\ \A g : InGroup(g) \subseteq Candidates
           /\ RetryTimes \in Nat /\ Len(AutoGroups) \in Nat /\ groupIndex \in Nat
           /\ DOMAIN AutoGroups = 1 .. Len(AutoGroups)
           /\ \A k \in DOMAIN AutoGroups : AutoGroups[k] \in STRING
  BY SelectAssumption, RequestAssumption DEF SelectTypeOK, RequestType, InGroup

LEMMA PositionOf ==
    ASSUME ListedOnce, NEW k \in DOMAIN AutoGroups
    PROVE  Position(AutoGroups[k]) = k
  <1>1. \A j \in 1 .. k - 1 : j \in DOMAIN AutoGroups /\ j # k
    BY SelectAssumption
  <1>2. \E i \in DOMAIN AutoGroups :
            AutoGroups[i] = AutoGroups[k] /\ \A j \in 1 .. i - 1 : AutoGroups[j] # AutoGroups[k]
    BY <1>1 DEF ListedOnce
  <1>3. Position(AutoGroups[k]) \in DOMAIN AutoGroups
        /\ AutoGroups[Position(AutoGroups[k])] = AutoGroups[k]
    BY <1>2 DEF Position
  <1> QED BY <1>3 DEF ListedOnce

LEMMA SatisfiedFacts ==
    ASSUME NEW g, NEW r, NEW c \in GetRandomSatisfiedChannel(g, r)
    PROVE  c \in InGroup(g) /\ Priority[c] = TargetPriority(InGroup(g), r)
  BY DEF GetRandomSatisfiedChannel, Drawable

\* What the selection returns for a token of one group.
FixedOutcome(out, r) ==
    /\ out.retry = r /\ out.index = groupIndex /\ out.reset = FALSE
    /\ \/ out.channel = Unset
       \/ \E c \in InGroup(req.tokenGroup) :
            /\ out.channel = [group |-> req.tokenGroup, id |-> c]
            /\ Priority[c] = TargetPriority(InGroup(req.tokenGroup), r)

\* What it returns for an auto token when no group is left that has a channel.
NothingLeft(out, r) ==
    /\ out.channel = Unset /\ out.reset = FALSE /\ out.index = Len(AutoGroups) + 1
    /\ out.retry \in {0, r}
    /\ \A k \in groupIndex .. Len(AutoGroups) : InGroup(AutoGroups[k]) = {}

\* What it returns when group i is the first that has one.
AutoOutcome(out, r, i, c, level) ==
    /\ i >= groupIndex /\ c \in InGroup(AutoGroups[i])
    /\ level = IF i = groupIndex THEN r ELSE 0
    /\ out.channel = [group |-> AutoGroups[i], id |-> c]
    /\ Priority[c] = TargetPriority(InGroup(AutoGroups[i]), level)
    /\ \A k \in groupIndex .. i - 1 : InGroup(AutoGroups[k]) = {}
    /\ \/ req.cross /\ level >= RetryTimes /\ out.retry = 0 /\ out.index = i + 1 /\ out.reset = TRUE
       \/ out.retry = level /\ out.index = i /\ out.reset = FALSE

LEMMA FixedOutcomes ==
    ASSUME ~ AutoToken, NEW r, NEW out \in CacheGetRandomSatisfiedChannel(r)
    PROVE  FixedOutcome(out, r)
  <1> DEFINE S == GetRandomSatisfiedChannel(req.tokenGroup, r)
             stay == [channel |-> Unset, retry |-> r, index |-> groupIndex, reset |-> FALSE]
  <1>1. out \in IF S = {} THEN {stay}
                ELSE {[stay EXCEPT !.channel = [group |-> req.tokenGroup, id |-> c]] : c \in S}
    BY DEF AutoToken, CacheGetRandomSatisfiedChannel, SelectFixed
  <1>2. CASE out = stay
    BY <1>2 DEF FixedOutcome
  <1>3. ASSUME NEW c \in S, out = [stay EXCEPT !.channel = [group |-> req.tokenGroup, id |-> c]]
        PROVE  FixedOutcome(out, r)
    <2>1. c \in InGroup(req.tokenGroup) /\ Priority[c] = TargetPriority(InGroup(req.tokenGroup), r)
      BY SatisfiedFacts
    <2>2. /\ out.retry = r /\ out.index = groupIndex /\ out.reset = FALSE
          /\ out.channel = [group |-> req.tokenGroup, id |-> c]
      BY <1>3
    <2> QED BY <2>1, <2>2 DEF FixedOutcome
  <1> QED BY <1>1, <1>2, <1>3

LEMMA AutoOutcomes ==
    ASSUME SelectTypeOK, AutoToken, NEW r \in Nat, NEW out \in CacheGetRandomSatisfiedChannel(r)
    PROVE  \/ NothingLeft(out, r)
           \/ \E i \in DOMAIN AutoGroups : \E c, level : AutoOutcome(out, r, i, c, level)
  <1> DEFINE open == {i \in groupIndex .. Len(AutoGroups) : InGroup(AutoGroups[i]) # {}}
             first == CHOOSE i \in open : \A j \in open : i <= j
             level == IF first = groupIndex THEN r ELSE 0
  <1>0. groupIndex \in Nat /\ groupIndex >= 1 /\ Len(AutoGroups) \in Nat
        /\ DOMAIN AutoGroups = 1 .. Len(AutoGroups)
    BY RequestFacts DEF SelectTypeOK
  <1>1. out \in IF open = {}
                THEN {[channel |-> Unset, reset |-> FALSE, index |-> Len(AutoGroups) + 1,
                       retry |-> IF groupIndex > Len(AutoGroups) THEN r ELSE 0]}
                ELSE {AutoFound(first, c, level) :
                        c \in GetRandomSatisfiedChannel(AutoGroups[first], level)}
    BY DEF AutoToken, CacheGetRandomSatisfiedChannel, SelectAuto
  <1>2. CASE open = {}
    <2>1. \A k \in groupIndex .. Len(AutoGroups) : InGroup(AutoGroups[k]) = {}
      BY <1>2
    <2>2. out = [channel |-> Unset, reset |-> FALSE, index |-> Len(AutoGroups) + 1,
                 retry |-> IF groupIndex > Len(AutoGroups) THEN r ELSE 0]
      <3> HIDE DEF open
      <3> QED BY <1>1, <1>2
    <2>3. /\ out.channel = Unset /\ out.reset = FALSE /\ out.index = Len(AutoGroups) + 1
          /\ out.retry \in {0, r}
      BY <2>2
    <2> QED BY <2>1, <2>3 DEF NothingLeft
  <1>3. CASE open # {}
    <2>1. open \subseteq Nat
      BY <1>0
    <2>2. \E i \in open : \A j \in open : i <= j
      <3> HIDE DEF open
      <3> QED BY <1>3, <2>1, LeastNumber
    <2>3. first \in open /\ \A j \in open : first <= j
      <3> HIDE DEF open
      <3> QED BY <2>2
    <2>4. PICK c \in GetRandomSatisfiedChannel(AutoGroups[first], level) :
            out = AutoFound(first, c, level)
      <3> HIDE DEF open, first, level
      <3> QED BY <1>1, <1>3
    <2>5. c \in InGroup(AutoGroups[first])
          /\ Priority[c] = TargetPriority(InGroup(AutoGroups[first]), level)
      BY SatisfiedFacts
    <2>6. first \in DOMAIN AutoGroups /\ first >= groupIndex
      <3> HIDE DEF first
      <3> QED BY <1>0, <2>3
    <2>7. ASSUME NEW k \in groupIndex .. first - 1 PROVE InGroup(AutoGroups[k]) = {}
      <3> HIDE DEF first
      <3>1. k \notin open
        BY <1>0, <2>3, <2>6
      <3>2. k \in groupIndex .. Len(AutoGroups)
        BY <1>0, <2>6
      <3> QED BY <3>1, <3>2
    <2>8. /\ out.channel = [group |-> AutoGroups[first], id |-> c]
          /\ \/ req.cross /\ level >= RetryTimes /\ out.retry = 0 /\ out.index = first + 1
                /\ out.reset = TRUE
             \/ out.retry = level /\ out.index = first /\ out.reset = FALSE
      <3> HIDE DEF first, level
      <3> QED BY <2>4 DEF AutoFound, Found
    <2>9. level = IF first = groupIndex THEN r ELSE 0
      OBVIOUS
    <2>10. AutoOutcome(out, r, first, c, level)
      <3> HIDE DEF first, level
      <3> QED BY <2>5, <2>6, <2>7, <2>8, <2>9 DEF AutoOutcome
    <2> QED
      <3> HIDE DEF first, level
      <3> QED BY <2>6, <2>10
  <1> QED BY <1>2, <1>3

\* An attempt is added: the group it is made in is at or after the index, and its
\* priority is not above the one of the last attempt in that group.
LEMMA AttemptAdded ==
    ASSUME RouteInv, NEW e \in Attempts, used' = Append(used, e), UNCHANGED <<req, changes>>,
           groupIndex' \in Nat, groupIndex' >= groupIndex,
           (AutoToken /\ e.group # Unset /\ (used = <<>> => req.prefer = Unset)) =>
               \E k \in DOMAIN AutoGroups :
                   e.group = AutoGroups[k] /\ groupIndex <= k /\ k <= groupIndex',
           (/\ changes = 0 /\ ListedOnce
            /\ used # <<>> /\ e.group # Unset /\ used[Len(used)].group = e.group
            /\ ~ (Len(used) = 1 /\ req.prefer # Unset))
               => Priority[used[Len(used)].id] >= Priority[e.id]
    PROVE  Passed' /\ GroupOrder' /\ PriorityDescends'
  <1>1. /\ used \in Seq(Attempts) /\ Len(used) \in Nat /\ DOMAIN used = 1 .. Len(used)
        /\ groupIndex \in Nat /\ req' = req
        /\ Passed /\ GroupOrder /\ PriorityDescends /\ SelectTypeOK
    BY RequestFacts DEF RouteInv, Flow, SelectTypeOK, Attempts
  <1>2. /\ DOMAIN used' = 1 .. Len(used) + 1 /\ Len(used') = Len(used) + 1
        /\ \A n \in 1 .. Len(used) : used'[n] = used[n]
        /\ used'[Len(used) + 1] = e
    BY <1>1
  <1>3. used = <<>> <=> Len(used) = 0
    BY <1>1
  <1>4. Passed'
    <2>1. SUFFICES ASSUME AutoToken, NEW n \in DOMAIN used', used'[n].group # Unset,
                          n = 1 => req.prefer = Unset
                   PROVE  \E k \in DOMAIN AutoGroups : used'[n].group = AutoGroups[k] /\ k <= groupIndex'
      BY <1>1 DEF Passed, AutoToken
    <2>2. CASE n \in 1 .. Len(used)
      <3>1. PICK k \in DOMAIN AutoGroups : used[n].group = AutoGroups[k] /\ k <= groupIndex
        BY <1>1, <1>2, <2>1, <2>2 DEF Passed
      <3>2. k \in Nat
        BY <1>1, RequestFacts
      <3> QED BY <1>1, <1>2, <2>2, <3>1, <3>2
    <2>3. CASE n = Len(used) + 1
      BY <1>1, <1>2, <1>3, <2>1, <2>3
    <2> QED BY <1>1, <1>2, <2>2, <2>3
  <1>5. GroupOrder'
    <2>1. SUFFICES ASSUME NEW i \in DOMAIN used', NEW j \in DOMAIN used', i < j,
                          used'[i].group # Unset, used'[j].group # Unset,
                          AutoToken, ListedOnce, i = 1 => req.prefer = Unset
                   PROVE  Position(used'[i].group) <= Position(used'[j].group)
      BY <1>1 DEF GroupOrder, AutoToken
    <2>2. i \in 1 .. Len(used) /\ used'[i] = used[i]
      BY <1>1, <1>2, <2>1
    <2>3. CASE j \in 1 .. Len(used)
      <3>1. used'[j] = used[j]
        BY <1>2, <2>3
      <3> QED BY <1>1, <2>1, <2>2, <2>3, <3>1 DEF GroupOrder, AutoToken
    <2>4. CASE j = Len(used) + 1
      <3>1. PICK m \in DOMAIN AutoGroups : used[i].group = AutoGroups[m] /\ m <= groupIndex
        BY <1>1, <2>1, <2>2 DEF Passed
      <3>2. used # <<>>
        BY <1>1, <1>3, <2>2
      <3>3. PICK k \in DOMAIN AutoGroups : e.group = AutoGroups[k] /\ groupIndex <= k
        BY <1>2, <2>1, <2>4, <3>2
      <3>4. m \in Nat /\ k \in Nat
        BY <1>1, RequestFacts
      <3>5. Position(used[i].group) = m /\ Position(e.group) = k
        BY <2>1, <3>1, <3>3, PositionOf
      <3> QED BY <1>1, <1>2, <2>2, <2>4, <3>1, <3>3, <3>4, <3>5
    <2> QED BY <1>1, <1>2, <2>3, <2>4
  <1>6. PriorityDescends'
    <2>1. SUFFICES ASSUME changes = 0, ListedOnce, NEW i \in 1 .. Len(used') - 1,
                          used'[i].group # Unset, used'[i].group = used'[i + 1].group,
                          ~ (i = 1 /\ req.prefer # Unset)
                   PROVE  Priority[used'[i].id] >= Priority[used'[i + 1].id]
      BY <1>1 DEF PriorityDescends
    <2>2. i \in 1 .. Len(used) /\ used'[i] = used[i]
      BY <1>1, <1>2
    <2>3. CASE i \in 1 .. Len(used) - 1
      <3>1. used'[i + 1] = used[i + 1]
        BY <1>1, <1>2, <2>3
      <3> QED BY <1>1, <2>1, <2>2, <2>3, <3>1 DEF PriorityDescends
    <2>4. CASE i = Len(used)
      <3>1. used'[i + 1] = e /\ used # <<>>
        BY <1>1, <1>2, <1>3, <2>2, <2>4
      <3> QED BY <1>1, <2>1, <2>2, <2>4, <3>1
    <2>5. i \in 1 .. Len(used) - 1 \/ i = Len(used)
      <3>1. Len(used) \in Nat
        BY <1>1
      <3>2. i \in Nat /\ 1 <= i /\ i <= Len(used)
        BY <2>2, <3>1
      <3> QED BY <3>1, <3>2
    <2> QED BY <2>3, <2>4, <2>5
  <1> QED BY <1>4, <1>5, <1>6

\* No attempt is added.
LEMMA NoAttemptAdded ==
    ASSUME RouteInv, UNCHANGED <<req, used>>, groupIndex' \in Nat, groupIndex' >= groupIndex,
           changes' = 0 => changes = 0
    PROVE  Passed' /\ GroupOrder' /\ PriorityDescends' /\ AttemptsBounded'
  <1>1. /\ groupIndex \in Nat /\ req' = req /\ used' = used
        /\ Passed /\ GroupOrder /\ PriorityDescends /\ SelectTypeOK /\ AttemptsBounded
    BY RequestFacts DEF RouteInv, Flow, SelectTypeOK
  <1>2. Passed'
    <2>1. SUFFICES ASSUME AutoToken, NEW n \in DOMAIN used, used[n].group # Unset,
                          n = 1 => req.prefer = Unset
                   PROVE  \E k \in DOMAIN AutoGroups : used[n].group = AutoGroups[k] /\ k <= groupIndex'
      BY <1>1 DEF Passed, AutoToken
    <2>2. PICK k \in DOMAIN AutoGroups : used[n].group = AutoGroups[k] /\ k <= groupIndex
      BY <1>1, <2>1 DEF Passed
    <2>3. k \in Nat
      BY <1>1, RequestFacts
    <2> QED BY <1>1, <2>2, <2>3
  <1>3. GroupOrder' /\ PriorityDescends' /\ AttemptsBounded'
    BY <1>1 DEF GroupOrder, PriorityDescends, AttemptsBounded
  <1> QED BY <1>2, <1>3

-----------------------------------------------------------------------------
(* The actions.                                                            *)

LEMMA SamePool ==
    ASSUME pool' = pool
    PROVE  \A g : InGroup(g)' = InGroup(g)
  BY DEF InGroup

LEMMA InvFacts ==
    ASSUME RouteInv
    PROVE  /\ SelectTypeOK /\ Flow /\ Budget /\ Passed /\ Behind /\ LastLevel /\ Kept
           /\ AttemptsBounded /\ GroupOrder /\ PriorityDescends
           /\ used \in Seq(Attempts) /\ Len(used) \in Nat /\ DOMAIN used = 1 .. Len(used)
           /\ groupIndex \in Nat /\ groupIndex >= 1 /\ groupIndex <= Len(AutoGroups) + 1
           /\ retry \in Nat /\ RetryTimes \in Nat /\ Len(AutoGroups) \in Nat
           /\ Base \in Nat
  <1>1. /\ SelectTypeOK /\ Flow /\ Budget /\ Passed /\ Behind /\ LastLevel /\ Kept
        /\ AttemptsBounded /\ GroupOrder /\ PriorityDescends
    BY DEF RouteInv, Flow
  <1>2. /\ used \in Seq(Attempts) /\ Len(used) \in Nat /\ DOMAIN used = 1 .. Len(used)
        /\ groupIndex \in Nat /\ groupIndex >= 1 /\ groupIndex <= Len(AutoGroups) + 1
        /\ retry \in Nat /\ RetryTimes \in Nat /\ Len(AutoGroups) \in Nat
    BY <1>1, SelectAssumption DEF SelectTypeOK, Attempts
  <1>3. Spent(groupIndex) \in Int /\ Spent(groupIndex) >= 0
    BY <1>2, SpentNat
  <1> QED BY <1>1, <1>2, <1>3 DEF Base

\* The middleware hands the request on to the handler.
LEMMA HandedOn ==
    ASSUME RouteInv, pc = "distribute", NEW e \in Attempts, HandOn(e),
           UNCHANGED <<req, errs, pool, retry, resetNextTry, changes>>,
           groupIndex' \in 1 .. Len(AutoGroups) + 1,
           (e.group # Unset /\ req.prefer = Unset) =>
               /\ InGroup(e.group) # {} /\ Priority[e.id] = TargetPriority(InGroup(e.group), 0)
               /\ IF AutoToken
                  THEN \E k \in DOMAIN AutoGroups : e.group = AutoGroups[k] /\ k <= groupIndex'
                  ELSE e.group = req.tokenGroup,
           (AutoToken /\ RetryTimes > 0) => \A k \in DOMAIN AutoGroups :
                         k < groupIndex' => InGroup(AutoGroups[k]) = {},
           req.pin # Unset => e.id = req.pin
    PROVE  RouteInv'
  <1>1. /\ used = <<>> /\ errs = <<>> /\ retry = 0 /\ resetNextTry = FALSE /\ groupIndex = 1
        /\ verdict \notin {"noKey", "noChannel"} /\ Len(used) = 0
        /\ verdict' = verdict /\ req' = req /\ errs' = errs /\ pool' = pool /\ retry' = retry
        /\ resetNextTry' = resetNextTry /\ changes' = changes /\ chosen' = e /\ e # Unset
    BY InvFacts, SelectAssumption DEF Flow, HandOn, SelectTypeOK, Attempts
  <1>2. groupIndex' \in Nat /\ groupIndex' >= groupIndex /\ groupIndex' >= 1
    BY InvFacts, <1>1
  <1>3. CASE req.locked # Unset
    <2>1. pc' = "lock" /\ used' = used
      BY <1>3 DEF HandOn
    <2>2. Flow'
      BY InvFacts, <1>1, <1>3, <2>1 DEF Flow, SelectTypeOK, Verdicts, AutoToken, Attempts
    <2>3. Passed' /\ GroupOrder' /\ PriorityDescends' /\ AttemptsBounded'
      BY NoAttemptAdded, <1>1, <1>2, <2>1
    <2>4. Budget' /\ LastLevel' /\ Kept'
      BY <1>1, <1>3, <2>1 DEF Budget, LastLevel, Kept
    <2>5. Behind'
      BY <1>1, SamePool DEF Behind, AutoToken
    <2> QED BY <2>2, <2>3, <2>4, <2>5 DEF RouteInv
  <1>4. CASE req.locked = Unset
    <2>1. pc' = "attempt" /\ used' = Append(used, e)
      BY <1>4 DEF HandOn
    <2>2. used' = <<e>> /\ Len(used') = 1 /\ used'[1] = e /\ DOMAIN used' = {1} /\ used' # <<>>
      BY <1>1, <2>1
    <2>3. Flow'
      BY InvFacts, <1>1, <1>4, <2>1, <2>2 DEF Flow, SelectTypeOK, Verdicts, AutoToken, Attempts
    <2>4. Passed' /\ GroupOrder' /\ PriorityDescends'
      <3>1. (AutoToken /\ e.group # Unset /\ (used = <<>> => req.prefer = Unset)) =>
               \E k \in DOMAIN AutoGroups :
                   e.group = AutoGroups[k] /\ groupIndex <= k /\ k <= groupIndex'
        BY <1>1, InvFacts, RequestFacts
      <3> QED BY AttemptAdded, <1>1, <1>2, <2>1, <3>1
    <2>5. Base' \in Nat
      <3>1. Spent(groupIndex') \in Int /\ Spent(groupIndex') >= 0
        BY <1>2, SpentNat
      <3>2. Base' = IF AutoToken /\ req.locked = Unset THEN Spent(groupIndex') ELSE 0
        BY <1>1 DEF Base, AutoToken, Spent
      <3> QED BY <3>1, <3>2
    <2>6. Budget' /\ AttemptsBounded'
      <3>1. Budget'
        BY <1>1, <2>1, <2>2, <2>5 DEF Budget
      <3>2. \A n \in Nat : n > 0 => 1 <= (RetryTimes + 1) * n
        BY InvFacts
      <3>3. Len(AutoGroups) \in Nat
        BY InvFacts
      <3>4. AttemptsBounded'
        BY <1>1, <2>2, <3>2, <3>3 DEF AttemptsBounded
      <3> QED BY <3>1, <3>4
    <2>7. Kept'
      BY <1>1, <1>4, <2>1, <2>2 DEF Kept
    <2>8. Behind'
      BY <1>1, SamePool DEF Behind, AutoToken
    <2>9. LastLevel'
      <3>1. SUFFICES ASSUME e.group # Unset, req.prefer = Unset
                     PROVE  LastLevel'
        BY <1>1, <2>2 DEF LastLevel
      <3>2. 0 \in 0 .. RetryTimes /\ groupIndex' \in Nat /\ \A k \in DOMAIN AutoGroups : k \in Nat
        BY InvFacts, RequestFacts, <1>2
      <3> QED BY <1>1, <2>1, <2>2, <3>1, <3>2, SamePool DEF LastLevel, AutoToken
    <2> QED BY <2>3, <2>4, <2>6, <2>7, <2>8, <2>9 DEF RouteInv
  <1> QED BY <1>3, <1>4

\* The middleware, or the resolution of a remix, refuses the request.
LEMMA Rejected ==
    ASSUME RouteInv, pc \in {"distribute", "lock"}, Reject,
           UNCHANGED <<req, errs, pool, retry, resetNextTry, changes>>,
           groupIndex' \in 1 .. Len(AutoGroups) + 1, groupIndex' >= groupIndex,
           (AutoToken /\ RetryTimes > 0) => \A k \in DOMAIN AutoGroups :
               (groupIndex <= k /\ k < groupIndex') => InGroup(AutoGroups[k]) = {}
    PROVE  RouteInv'
  <1>1. /\ used = <<>> /\ errs = <<>> /\ used' = used /\ chosen' = chosen
        /\ pc' = "failed" /\ verdict' = "rejected" /\ verdict \notin {"noKey", "noChannel"}
        /\ req' = req /\ errs' = errs /\ pool' = pool /\ retry' = retry
        /\ resetNextTry' = resetNextTry /\ changes' = changes
    BY InvFacts DEF Flow, Reject
  <1>2. groupIndex' \in Nat
    BY InvFacts
  <1>3. Flow'
    BY InvFacts, <1>1 DEF Flow, SelectTypeOK, Verdicts, AutoToken
  <1>4. Passed' /\ GroupOrder' /\ PriorityDescends' /\ AttemptsBounded'
    BY NoAttemptAdded, <1>1, <1>2
  <1>5. Budget' /\ LastLevel'
    BY <1>1 DEF Budget, LastLevel
  <1>6. Kept'
    BY <1>1, InvFacts DEF Kept
  <1>7. Behind'
    <2>1. SUFFICES ASSUME changes = 0, AutoToken, req.cross, RetryTimes > 0, NEW k \in DOMAIN AutoGroups,
                          k < groupIndex', InGroup(AutoGroups[k]) # {}
                   PROVE  \E n \in DOMAIN used : used[n].group = AutoGroups[k]
      BY <1>1, SamePool DEF Behind, AutoToken
    <2>2. k \in Nat /\ groupIndex \in Nat
      BY InvFacts, RequestFacts
    <2>3. k < groupIndex
      BY <1>2, <2>1, <2>2
    <2> QED BY InvFacts, <1>1, <2>1, <2>3 DEF Behind
  <1> QED BY <1>3, <1>4, <1>5, <1>6, <1>7 DEF RouteInv

LEMMA DistributePinnedStep == ASSUME RouteInv, DistributePinned PROVE RouteInv'
  <1>1. /\ pc = "distribute" /\ req.pin # Unset /\ groupIndex = 1
        /\ UNCHANGED <<req, errs, pool, retry, resetNextTry, groupIndex, changes>>
        /\ groupIndex' \in 1 .. Len(AutoGroups) + 1
    BY InvFacts DEF DistributePinned, Flow
  <1>2. \A k \in DOMAIN AutoGroups : k \in Nat /\ k >= 1
    BY InvFacts, RequestFacts
  <1>3. CASE req.pin \in pool
    <2> DEFINE e == [group |-> Unset, id |-> req.pin]
    <2>1. HandOn(e) /\ e \in Attempts /\ e.group = Unset /\ e.id = req.pin
      BY <1>1, <1>3, InvFacts DEF DistributePinned, Attempts, SelectTypeOK
    <2> HIDE DEF e
    <2> QED BY <1>1, <1>2, <2>1, HandedOn
  <1>4. CASE req.pin \notin pool
    <2>1. Reject
      BY <1>4 DEF DistributePinned
    <2> QED BY <1>1, <1>2, <2>1, Rejected
  <1> QED BY <1>3, <1>4

LEMMA DistributeAffinityStep == ASSUME RouteInv, DistributeAffinity PROVE RouteInv'
  <1>1. /\ pc = "distribute" /\ req.pin = Unset /\ groupIndex = 1
        /\ UNCHANGED <<req, errs, pool, retry, resetNextTry, groupIndex, changes>>
        /\ groupIndex' \in 1 .. Len(AutoGroups) + 1
    BY InvFacts DEF DistributeAffinity, Flow
  <1>2. \A k \in DOMAIN AutoGroups : k \in Nat /\ k >= 1
    BY InvFacts, RequestFacts
  <1>3. PICK g \in PreferredIn : HandOn([group |-> g, id |-> req.prefer])
    BY DEF DistributeAffinity
  <1>4. g \in STRING /\ req.prefer \in Candidates
    <2>1. g \in (IF req.tokenGroup = "auto" THEN Groups ELSE {req.tokenGroup})
          /\ req.prefer \in InGroup(g)
      BY DEF PreferredIn
    <2> QED BY <2>1, InvFacts, RequestFacts DEF Groups
  <1> DEFINE e == [group |-> g, id |-> req.prefer]
  <1>5. HandOn(e) /\ e \in Attempts /\ e.id = req.prefer /\ req.prefer # Unset
    BY <1>3, <1>4, SelectAssumption DEF Attempts
  <1> HIDE DEF e
  <1> QED BY <1>1, <1>2, <1>5, HandedOn

LEMMA DistributeAffinityDisabledStep ==
    ASSUME RouteInv, DistributeAffinityDisabled PROVE RouteInv'
  <1>1. /\ pc = "distribute" /\ Reject
        /\ UNCHANGED <<req, errs, pool, retry, resetNextTry, groupIndex, changes>>
        /\ groupIndex' \in 1 .. Len(AutoGroups) + 1 /\ groupIndex' >= groupIndex
    BY InvFacts DEF DistributeAffinityDisabled
  <1>2. \A k \in DOMAIN AutoGroups : ~ (groupIndex <= k /\ k < groupIndex')
    BY <1>1, InvFacts, RequestFacts
  <1> QED BY <1>1, <1>2, Rejected

LEMMA DistributeSelectStep == ASSUME RouteInv, DistributeSelect PROVE RouteInv'
  <1>1. /\ pc = "distribute" /\ req.pin = Unset /\ groupIndex = 1
        /\ UNCHANGED <<req, errs, pool, retry, resetNextTry, changes>>
    BY InvFacts DEF DistributeSelect, Flow
  <1>2. \A k \in DOMAIN AutoGroups : k \in Nat /\ k >= 1 /\ AutoGroups[k] \in STRING
    BY InvFacts, RequestFacts
  <1>3. PICK out \in CacheGetRandomSatisfiedChannel(0) :
            groupIndex' = out.index /\ IF out.channel = Unset THEN Reject ELSE HandOn(out.channel)
    BY DEF DistributeSelect
  <1>4. CASE ~ AutoToken
    <2>1. FixedOutcome(out, 0)
      BY <1>4, FixedOutcomes
    <2>2. groupIndex' = 1 /\ groupIndex' \in 1 .. Len(AutoGroups) + 1 /\ groupIndex' >= groupIndex
      BY <1>1, <1>3, <2>1, InvFacts DEF FixedOutcome
    <2>3. CASE out.channel = Unset
      BY <1>1, <1>3, <1>4, <2>2, <2>3, Rejected
    <2>4. CASE out.channel # Unset
      <3>1. PICK c \in InGroup(req.tokenGroup) :
              /\ out.channel = [group |-> req.tokenGroup, id |-> c]
              /\ Priority[c] = TargetPriority(InGroup(req.tokenGroup), 0)
        BY <2>1, <2>4 DEF FixedOutcome
      <3>2. /\ out.channel \in Attempts /\ out.channel.group = req.tokenGroup
            /\ out.channel.id = c /\ HandOn(out.channel)
        BY <1>3, <2>4, <3>1, InvFacts, RequestFacts DEF Attempts
      <3> QED BY <1>1, <1>4, <2>2, <3>1, <3>2, HandedOn
    <2> QED BY <2>3, <2>4
  <1>5. CASE AutoToken /\ NothingLeft(out, 0)
    <2>1. Reject /\ groupIndex' \in 1 .. Len(AutoGroups) + 1 /\ groupIndex' >= groupIndex
      BY <1>1, <1>3, <1>5, InvFacts DEF NothingLeft
    <2>2. \A k \in DOMAIN AutoGroups : InGroup(AutoGroups[k]) = {}
      BY <1>1, <1>5, InvFacts, RequestFacts DEF NothingLeft
    <2> QED BY <1>1, <2>1, <2>2, Rejected
  <1>6. ASSUME AutoToken, NEW i \in DOMAIN AutoGroups, NEW c, NEW level, AutoOutcome(out, 0, i, c, level)
        PROVE  RouteInv'
    <2>1. /\ c \in InGroup(AutoGroups[i]) /\ level = 0
          /\ out.channel = [group |-> AutoGroups[i], id |-> c]
          /\ Priority[c] = TargetPriority(InGroup(AutoGroups[i]), 0)
          /\ \A k \in groupIndex .. i - 1 : InGroup(AutoGroups[k]) = {}
          /\ out.index = i \/ (out.index = i + 1 /\ 0 >= RetryTimes)
      BY <1>6 DEF AutoOutcome
    <2>2. /\ out.channel \in Attempts /\ out.channel.group = AutoGroups[i] /\ out.channel.id = c
      BY <1>2, <2>1, InvFacts, RequestFacts DEF Attempts
    <2>3. out.channel # Unset
      BY <2>2, SelectAssumption DEF Attempts
    <2>4. i \in 1 .. Len(AutoGroups) /\ Len(AutoGroups) \in Nat /\ RetryTimes \in Nat
      BY InvFacts, RequestFacts
    <2>5. groupIndex' \in 1 .. Len(AutoGroups) + 1 /\ i <= groupIndex'
      BY <1>3, <2>1, <2>4
    <2>6. RetryTimes > 0 => \A k \in DOMAIN AutoGroups :
                               k < groupIndex' => InGroup(AutoGroups[k]) = {}
      <3>1. SUFFICES ASSUME RetryTimes > 0, NEW k \in DOMAIN AutoGroups, k < groupIndex'
                     PROVE  InGroup(AutoGroups[k]) = {}
        OBVIOUS
      <3>2. groupIndex' = i
        BY <1>3, <2>1, <2>4, <3>1
      <3>3. k \in groupIndex .. i - 1
        BY <1>1, <1>2, <2>4, <3>1, <3>2
      <3> QED BY <2>1, <3>3
    <2> QED BY <1>1, <1>3, <1>6, <2>1, <2>2, <2>3, <2>5, <2>6, HandedOn
  <1> QED BY <1>4, <1>5, <1>6, AutoOutcomes, InvFacts, 0 \in Nat

LEMMA ResolveOriginTaskStep == ASSUME RouteInv, ResolveOriginTask PROVE RouteInv'
  <1>1. /\ pc = "lock" /\ req.locked # Unset
        /\ UNCHANGED <<req, errs, pool, retry, resetNextTry, groupIndex, changes>>
        /\ groupIndex' \in 1 .. Len(AutoGroups) + 1 /\ groupIndex' >= groupIndex
        /\ used = <<>> /\ errs = <<>> /\ retry = 0 /\ resetNextTry = FALSE
        /\ verdict \notin {"noKey", "noChannel"} /\ groupIndex' \in Nat
    BY InvFacts DEF ResolveOriginTask, Flow, SelectTypeOK
  <1>2. CASE req.locked \notin pool
    <2>1. Reject
      BY <1>2 DEF ResolveOriginTask
    <2>2. \A k \in DOMAIN AutoGroups : ~ (groupIndex <= k /\ k < groupIndex')
      BY <1>1, InvFacts, RequestFacts
    <2> QED BY <1>1, <2>1, <2>2, Rejected
  <1>3. CASE req.locked \in pool
    <2> DEFINE e == [group |-> Unset, id |-> req.locked]
    <2>1. /\ chosen' = e /\ used' = Append(used, e) /\ pc' = "attempt" /\ verdict' = verdict
          /\ e \in Attempts /\ e.group = Unset /\ e.id = req.locked
      BY <1>3, InvFacts DEF ResolveOriginTask, Attempts, SelectTypeOK
    <2> HIDE DEF e
    <2>2. /\ used' = <<e>> /\ Len(used') = 1 /\ used'[1] = e /\ DOMAIN used' = {1} /\ used' # <<>>
          /\ e # Unset
      BY <1>1, <2>1, SelectAssumption DEF Attempts
    <2>3. Flow'
      BY InvFacts, <1>1, <2>1, <2>2 DEF Flow, SelectTypeOK, Verdicts, AutoToken, Attempts
    <2>4. Passed' /\ GroupOrder' /\ PriorityDescends'
      BY AttemptAdded, <1>1, <2>1
    <2>5. Budget'
      BY <1>1, <2>1, <2>2 DEF Budget, Base
    <2>6. AttemptsBounded'
      <3>1. \A n \in Nat : n > 0 => 1 <= (RetryTimes + 1) * n
        BY InvFacts
      <3>2. Len(AutoGroups) \in Nat
        BY InvFacts
      <3> QED BY <1>1, <2>2, <3>1, <3>2 DEF AttemptsBounded
    <2>7. Kept' /\ LastLevel'
      BY <1>1, <2>1, <2>2 DEF Kept, LastLevel
    <2>8. Behind'
      <3>1. SUFFICES ASSUME changes = 0, AutoToken, req.cross, RetryTimes > 0, NEW k \in DOMAIN AutoGroups,
                            k < groupIndex, InGroup(AutoGroups[k]) # {}
                     PROVE  FALSE
        BY <1>1, <2>1, SamePool DEF Behind, AutoToken
      <3> QED BY InvFacts, <1>1, <3>1 DEF Behind
    <2> QED BY <2>3, <2>4, <2>5, <2>6, <2>7, <2>8 DEF RouteInv
  <1> QED BY <1>2, <1>3

LEMMA SucceedStep == ASSUME RouteInv, Succeed PROVE RouteInv'
  <1>0. Unset \notin {"noKey", "noChannel"}
    BY SelectAssumption DEF Verdicts
  <1>1. /\ pc = "attempt" /\ pc' = "ok" /\ verdict' = Unset
        /\ UNCHANGED <<req, errs, pool, retry, resetNextTry, groupIndex, chosen, used, changes>>
        /\ groupIndex' \in Nat /\ groupIndex' >= groupIndex
        /\ verdict \notin {"noKey", "noChannel"} /\ verdict' \notin {"noKey", "noChannel"}
    BY InvFacts, <1>0 DEF Succeed, Flow
  <1>2. Flow'
    BY InvFacts, <1>1 DEF Flow, SelectTypeOK, Verdicts, AutoToken
  <1>3. Passed' /\ GroupOrder' /\ PriorityDescends' /\ AttemptsBounded'
    BY NoAttemptAdded, <1>1
  <1>4. Budget' /\ LastLevel'
    BY <1>1 DEF Budget, LastLevel
  <1>5. Kept' /\ Behind'
    BY InvFacts, <1>1, SamePool DEF Kept, Behind, AutoToken
  <1> QED BY <1>2, <1>3, <1>4, <1>5 DEF RouteInv

LEMMA FailStep == ASSUME RouteInv, NEW err \in ErrorKinds, Fail(err) PROVE RouteInv'
  <1> DEFINE next == IF resetNextTry THEN retry ELSE retry + 1
  <1>1. /\ pc = "attempt" /\ errs' = Append(errs, err) /\ verdict' \in {"channel", "upstream"}
        /\ UNCHANGED <<req, pool, groupIndex, chosen, used, changes>>
        /\ groupIndex' \in Nat /\ groupIndex' >= groupIndex
        /\ verdict \notin {"noKey", "noChannel"}
        /\ retry <= RetryTimes /\ chosen # Unset /\ used # <<>>
    BY InvFacts DEF Fail, Flow
  <1>2. \/ /\ ShouldRetry(err) /\ retry' = next /\ resetNextTry' = FALSE
           /\ pc' = IF InLoop(next) THEN "select" ELSE "failed"
        \/ pc' = "failed" /\ retry' = retry /\ resetNextTry' = resetNextTry
    BY DEF Fail
  <1>3. /\ next \in Nat /\ next <= RetryTimes + 1 /\ retry <= next
        /\ pc' \in {"select", "failed"}
        /\ pc' = "select" => /\ ShouldRetry(err) /\ retry' = next /\ next <= RetryTimes
                             /\ resetNextTry' = FALSE
    BY <1>1, <1>2, InvFacts DEF InLoop
  <1>4. /\ errs \in Seq(ErrorKinds) /\ errs' \in Seq(ErrorKinds) /\ errs' # <<>>
        /\ errs # <<>> => errs'[1] = errs[1]
        /\ errs = <<>> => errs'[1] = err
    <2>1. errs \in Seq(ErrorKinds)
      BY InvFacts DEF SelectTypeOK
    <2> QED BY <1>1, <2>1
  <1> HIDE DEF next
  <1>5. Flow'
    <2>1. SelectTypeOK'
      <3>1. retry' \in 0 .. RetryTimes + 1
        BY InvFacts, <1>1, <1>2, <1>3
      <3>2. resetNextTry' \in BOOLEAN
        BY InvFacts, <1>2, Zenon DEF SelectTypeOK
      <3> QED BY InvFacts, <1>1, <1>3, <1>4, <3>1, <3>2 DEF SelectTypeOK, Verdicts
    <2>2. resetNextTry' => resetNextTry
      BY <1>2
    <2> QED BY <2>1, <2>2, InvFacts, <1>1, <1>2, <1>3 DEF Flow, AutoToken
  <1>6. Passed' /\ GroupOrder' /\ PriorityDescends' /\ AttemptsBounded'
    BY NoAttemptAdded, <1>1
  <1>7. Budget'
    <2>1. Len(used) <= Base + next
      BY InvFacts, <1>1 DEF Budget, next
    <2>2. Base' = Base
      BY <1>1 DEF Base, AutoToken, Spent
    <2> QED BY <1>1, <1>3, <2>1, <2>2 DEF Budget
  <1>8. Behind'
    BY InvFacts, <1>1, SamePool DEF Behind, AutoToken
  <1>9. LastLevel'
    <2>1. SUFFICES ASSUME changes = 0, pc' = "select", used # <<>>, used[Len(used)].group # Unset,
                          ~ (Len(used) = 1 /\ req.prefer # Unset)
                   PROVE  LastLevel'
      BY <1>1, <1>3 DEF LastLevel
    <2>2. retry' \in Nat /\ retry <= retry' /\ retry \in Nat
      BY <1>3, <2>1, InvFacts
    <2>3. PICK level \in 0 .. RetryTimes :
          /\ InGroup(used[Len(used)].group) # {}
          /\ Priority[used[Len(used)].id] = TargetPriority(InGroup(used[Len(used)].group), level)
          /\ IF AutoToken
             THEN \E k \in DOMAIN AutoGroups :
                    /\ used[Len(used)].group = AutoGroups[k]
                    /\ k < groupIndex \/ (k = groupIndex /\ level <= retry)
             ELSE used[Len(used)].group = req.tokenGroup /\ level <= retry
      BY <1>1, <2>1, InvFacts DEF LastLevel
    <2>4. IF AutoToken
          THEN \E k \in DOMAIN AutoGroups :
                 /\ used[Len(used)].group = AutoGroups[k]
                 /\ k < groupIndex \/ (k = groupIndex /\ level <= retry')
          ELSE used[Len(used)].group = req.tokenGroup /\ level <= retry'
      BY <2>2, <2>3
    <2> QED BY <1>1, <2>3, <2>4, SamePool DEF LastLevel, AutoToken
  <1>10. Kept'
    <2>1. req.locked = Unset /\ req.pin # Unset /\ pc' = "select" => errs'[1] = "channel"
      <3>1. SUFFICES ASSUME req.locked = Unset, req.pin # Unset, pc' = "select"
                     PROVE  errs'[1] = "channel"
        OBVIOUS
      <3>2. err = "channel"
        BY <1>3, <3>1 DEF ShouldRetry
      <3> QED BY <1>1, <1>4, <3>1, <3>2, InvFacts DEF Kept
    <2> QED BY <2>1, <1>1, <1>3, <1>4, InvFacts DEF Kept
  <1> QED BY <1>5, <1>6, <1>7, <1>8, <1>9, <1>10 DEF RouteInv

LEMMA PoolChangeStep == ASSUME RouteInv, NEW c \in Candidates, PoolChange(c) PROVE RouteInv'
  <1>1. /\ changes' \in 0 .. MaxChanges /\ changes' # 0 /\ pool' \subseteq Candidates
        /\ UNCHANGED <<req, errs, pc, retry, resetNextTry, groupIndex, chosen, used, verdict>>
        /\ groupIndex' \in Nat /\ groupIndex' >= groupIndex
    BY InvFacts, SelectAssumption DEF PoolChange, SelectTypeOK
  <1>2. Flow'
    BY InvFacts, <1>1 DEF Flow, SelectTypeOK, Verdicts, AutoToken
  <1>3. Passed' /\ GroupOrder' /\ PriorityDescends' /\ AttemptsBounded'
    BY NoAttemptAdded, <1>1
  <1>4. Budget' /\ LastLevel' /\ Kept' /\ Behind'
    BY InvFacts, <1>1 DEF Budget, Base, Spent, LastLevel, Kept, Behind, AutoToken
  <1> QED BY <1>2, <1>3, <1>4 DEF RouteInv

LEMMA SelectLockedStep == ASSUME RouteInv, SelectLocked PROVE RouteInv'
  <1>1. /\ pc = "select" /\ req.locked # Unset /\ pc' = "attempt" /\ used' = Append(used, chosen)
        /\ UNCHANGED <<req, errs, pool, retry, resetNextTry, groupIndex, chosen, verdict, changes>>
        /\ groupIndex' \in Nat /\ groupIndex' >= groupIndex
        /\ verdict \notin {"noKey", "noChannel"} /\ resetNextTry = FALSE
        /\ retry <= RetryTimes /\ chosen # Unset /\ used # <<>>
        /\ chosen.id = req.locked /\ chosen.group = Unset /\ chosen \in Attempts
    BY InvFacts DEF SelectLocked, Flow, Kept, SelectTypeOK, Attempts
  <1>2. /\ DOMAIN used' = 1 .. Len(used) + 1 /\ Len(used') = Len(used) + 1 /\ used' # <<>>
        /\ \A n \in 1 .. Len(used) : used'[n] = used[n]
        /\ used'[Len(used) + 1] = chosen /\ used' \in Seq(Attempts)
    BY <1>1, InvFacts
  <1>3. Flow'
    BY InvFacts, <1>1, <1>2 DEF Flow, SelectTypeOK, Verdicts, AutoToken, Attempts
  <1>4. Passed' /\ GroupOrder' /\ PriorityDescends'
    BY AttemptAdded, <1>1
  <1>5. Len(used) <= retry
    BY InvFacts, <1>1 DEF Budget, Base
  <1>6. Budget'
    BY InvFacts, <1>1, <1>2, <1>5 DEF Budget, Base
  <1>7. AttemptsBounded'
    <2>1. Len(used') <= RetryTimes + 1
      BY InvFacts, <1>1, <1>2, <1>5
    <2>2. \A n \in Nat : n > 0 => RetryTimes + 1 <= (RetryTimes + 1) * n
      BY InvFacts
    <2> DEFINE m == IF req.tokenGroup = "auto" /\ Len(AutoGroups) > 0 THEN Len(AutoGroups) ELSE 1
    <2>3. m \in Nat /\ m > 0 /\ (RetryTimes + 1) * m \in Nat
      BY InvFacts
    <2>4. Len(used') <= (RetryTimes + 1) * m
      <3> HIDE DEF m
      <3> QED BY InvFacts, <1>2, <2>1, <2>2, <2>3
    <2> QED BY <1>1, <2>4 DEF AttemptsBounded
  <1>8. Kept'
    BY InvFacts, <1>1, <1>2 DEF Kept
  <1>9. LastLevel'
    BY InvFacts, <1>1, <1>2 DEF LastLevel
  <1>10. Behind'
    <2>1. SUFFICES ASSUME changes = 0, AutoToken, req.cross, RetryTimes > 0, NEW k \in DOMAIN AutoGroups,
                          k < groupIndex, InGroup(AutoGroups[k]) # {}
                   PROVE  \E n \in DOMAIN used' : used'[n].group = AutoGroups[k]
      BY <1>1, SamePool DEF Behind, AutoToken
    <2>2. PICK n \in DOMAIN used : used[n].group = AutoGroups[k]
      BY InvFacts, <1>1, <2>1 DEF Behind
    <2> QED BY InvFacts, <1>2, <2>2
  <1> QED BY <1>3, <1>4, <1>6, <1>7, <1>8, <1>9, <1>10 DEF RouteInv

\* The loop goes on with the attempt e.  Its priority is the one of a retry number, in a
\* group that is the current one, with the counter's number, or a later one.
LEMMA RoundMade ==
    ASSUME RouteInv, pc = "select", req.locked = Unset, NEW e \in Attempts,
           chosen' = e, used' = Append(used, e), pc' = "attempt",
           UNCHANGED <<req, errs, pool, changes, verdict>>,
           retry' \in 0 .. RetryTimes, resetNextTry' \in BOOLEAN, resetNextTry' => AutoToken,
           groupIndex' \in 1 .. Len(AutoGroups) + 1, groupIndex' >= groupIndex,
           NEW level \in 0 .. RetryTimes, InGroup(e.group) # {},
           Priority[e.id] = TargetPriority(InGroup(e.group), level),
           IF AutoToken
           THEN \E k \in DOMAIN AutoGroups :
                  /\ e.group = AutoGroups[k] /\ groupIndex <= k /\ k <= groupIndex'
                  /\ k = groupIndex => level = retry
                  /\ k < groupIndex' \/ level <= retry'
           ELSE e.group = req.tokenGroup /\ level = retry /\ level = retry',
           \A k \in DOMAIN AutoGroups :
               (AutoToken /\ groupIndex <= k /\ k < groupIndex' /\ InGroup(AutoGroups[k]) # {})
               => e.group = AutoGroups[k],
           Len(used) + 1 <= Base' + (IF resetNextTry' THEN retry' ELSE retry' + 1),
           AttemptsBounded'
    PROVE  RouteInv'
  <1>1. /\ verdict \notin {"noKey", "noChannel"} /\ used # <<>> /\ resetNextTry = FALSE
        /\ retry <= RetryTimes /\ groupIndex' \in Nat /\ e # Unset
    BY InvFacts, SelectAssumption DEF Flow, Attempts
  <1>2. /\ DOMAIN used' = 1 .. Len(used) + 1 /\ Len(used') = Len(used) + 1 /\ used' # <<>>
        /\ \A n \in 1 .. Len(used) : used'[n] = used[n]
        /\ used'[Len(used) + 1] = e /\ used' \in Seq(Attempts)
    BY InvFacts
  <1>3. \A k \in DOMAIN AutoGroups : k \in Nat
    BY InvFacts, RequestFacts
  <1>4. Flow'
    <2>1. retry' \in 0 .. RetryTimes + 1 /\ retry' <= RetryTimes
      BY InvFacts
    <2>2. SelectTypeOK'
      BY InvFacts, <1>2, <2>1 DEF SelectTypeOK, Attempts
    <2> QED BY InvFacts, <1>1, <1>2, <2>1, <2>2 DEF Flow, AutoToken
  <1>5. (/\ changes = 0 /\ ListedOnce /\ used # <<>> /\ e.group # Unset
         /\ used[Len(used)].group = e.group /\ ~ (Len(used) = 1 /\ req.prefer # Unset))
            => Priority[used[Len(used)].id] >= Priority[e.id]
    <2>1. SUFFICES ASSUME changes = 0, ListedOnce, e.group # Unset, used[Len(used)].group = e.group,
                          ~ (Len(used) = 1 /\ req.prefer # Unset)
                   PROVE  Priority[used[Len(used)].id] >= Priority[e.id]
      OBVIOUS
    <2>2. PICK old \in 0 .. RetryTimes :
          /\ InGroup(e.group) # {}
          /\ Priority[used[Len(used)].id] = TargetPriority(InGroup(e.group), old)
          /\ IF AutoToken
             THEN \E k \in DOMAIN AutoGroups :
                    /\ e.group = AutoGroups[k]
                    /\ k < groupIndex \/ (k = groupIndex /\ old <= retry)
             ELSE e.group = req.tokenGroup /\ old <= retry
      BY <1>1, <2>1, InvFacts DEF LastLevel
    <2>3. old <= level
      <3>1. CASE ~ AutoToken
        BY <2>2, <3>1
      <3>2. CASE AutoToken
        <4>1. PICK k \in DOMAIN AutoGroups :
                e.group = AutoGroups[k] /\ groupIndex <= k /\ (k = groupIndex => level = retry)
          BY <3>2
        <4>2. PICK m \in DOMAIN AutoGroups :
                e.group = AutoGroups[m] /\ (m < groupIndex \/ (m = groupIndex /\ old <= retry))
          BY <2>2, <3>2
        <4>3. m = k
          BY <2>1, <4>1, <4>2 DEF ListedOnce
        <4> QED BY <1>3, <4>1, <4>2, <4>3, InvFacts
      <3> QED BY <3>1, <3>2
    <2>4. InGroup(e.group) \subseteq Candidates /\ old \in Nat /\ level \in Nat
      BY InvFacts, RequestFacts
    <2> QED BY <2>2, <2>3, <2>4, TargetDescends
  <1>6. Passed' /\ GroupOrder' /\ PriorityDescends'
    <2>1. (AutoToken /\ e.group # Unset /\ (used = <<>> => req.prefer = Unset)) =>
               \E k \in DOMAIN AutoGroups :
                   e.group = AutoGroups[k] /\ groupIndex <= k /\ k <= groupIndex'
      OBVIOUS
    <2> QED BY <1>1, <1>5, <2>1, AttemptAdded
  <1>7. Budget'
    BY <1>2 DEF Budget
  <1>8. Kept'
    BY InvFacts, <1>2 DEF Kept
  <1>9. LastLevel'
    <2>1. used'[Len(used')] = e /\ level \in 0 .. RetryTimes
      BY <1>2
    <2>2. IF AutoToken
          THEN \E k \in DOMAIN AutoGroups :
                 /\ e.group = AutoGroups[k]
                 /\ k < groupIndex' \/ (k = groupIndex' /\ level <= retry')
          ELSE e.group = req.tokenGroup /\ level <= retry'
      BY <1>1, <1>3
    <2> QED BY <2>1, <2>2, SamePool DEF LastLevel, AutoToken
  <1>10. Behind'
    <2>1. SUFFICES ASSUME changes = 0, AutoToken, req.cross, RetryTimes > 0, NEW k \in DOMAIN AutoGroups,
                          k < groupIndex', InGroup(AutoGroups[k]) # {}
                   PROVE  \E n \in DOMAIN used' : used'[n].group = AutoGroups[k]
      BY <1>1, SamePool DEF Behind, AutoToken
    <2>2. CASE k < groupIndex
      <3>1. PICK n \in DOMAIN used : used[n].group = AutoGroups[k]
        BY InvFacts, <1>1, <2>1, <2>2 DEF Behind
      <3> QED BY InvFacts, <1>2, <3>1
    <2>3. CASE groupIndex <= k
      <3>1. e.group = AutoGroups[k]
        BY <2>1, <2>3
      <3>2. Len(used) + 1 \in DOMAIN used' /\ used'[Len(used) + 1].group = AutoGroups[k]
        BY InvFacts, <1>2, <3>1
      <3> QED BY <3>2
    <2> QED BY InvFacts, <1>3, <2>2, <2>3
  <1> QED BY <1>4, <1>6, <1>7, <1>8, <1>9, <1>10 DEF RouteInv

\* The loop ends without another attempt.
LEMMA RoundEnded ==
    ASSUME RouteInv, pc = "select", pc' = "failed", verdict' \in {"noChannel", "noKey"},
           UNCHANGED <<req, errs, pool, chosen, used, changes>>,
           retry' \in 0 .. RetryTimes, resetNextTry' \in BOOLEAN,
           resetNextTry' => AutoToken /\ req.locked = Unset,
           groupIndex' \in 1 .. Len(AutoGroups) + 1, groupIndex' >= groupIndex,
           (verdict' = "noChannel" /\ AutoToken) =>
               /\ groupIndex' = Len(AutoGroups) + 1
               /\ \A k \in groupIndex .. Len(AutoGroups) : InGroup(AutoGroups[k]) = {}
    PROVE  RouteInv'
  <1>1. verdict \notin {"noKey", "noChannel"} /\ groupIndex' \in Nat
    BY InvFacts DEF Flow
  <1>2. Flow'
    <2>1. retry' \in 0 .. RetryTimes + 1
      BY InvFacts
    <2> QED BY InvFacts, <2>1 DEF Flow, SelectTypeOK, Verdicts, AutoToken
  <1>3. Passed' /\ GroupOrder' /\ PriorityDescends' /\ AttemptsBounded'
    BY <1>1, NoAttemptAdded
  <1>4. Budget' /\ LastLevel'
    BY DEF Budget, LastLevel
  <1>5. Kept'
    BY InvFacts DEF Kept
  <1>6. Behind'
    <2>1. SUFFICES ASSUME changes = 0, AutoToken, req.cross, RetryTimes > 0, verdict' # "noKey",
                          NEW k \in DOMAIN AutoGroups, InGroup(AutoGroups[k]) # {}
                   PROVE  \E n \in DOMAIN used : used[n].group = AutoGroups[k]
      BY SamePool DEF Behind, AutoToken
    <2>2. k \in Nat /\ k <= Len(AutoGroups)
      BY InvFacts, RequestFacts
    <2>3. k < groupIndex
      <3>1. groupIndex \in Nat /\ Len(AutoGroups) \in Nat
        BY InvFacts
      <3>2. verdict' = "noChannel"
        BY <2>1
      <3> QED BY <2>1, <2>2, <3>1, <3>2
    <2> QED BY InvFacts, <1>1, <2>1, <2>3 DEF Behind
  <1> QED BY <1>2, <1>3, <1>4, <1>5, <1>6 DEF RouteInv

\* What a selection leaves behind, whether or not the attempt is made.
LEMMA OutcomeTypes ==
    ASSUME RouteInv, pc = "select", NEW out \in CacheGetRandomSatisfiedChannel(retry)
    PROVE  /\ out.retry \in 0 .. RetryTimes
           /\ out.reset = FALSE \/ (out.reset = TRUE /\ AutoToken)
           /\ out.index \in 1 .. Len(AutoGroups) + 1 /\ out.index >= groupIndex
  <1>1. retry \in 0 .. RetryTimes /\ 0 \in 0 .. RetryTimes
    BY InvFacts DEF Flow
  <1>2. CASE ~ AutoToken
    <2>1. out.retry = retry /\ out.index = groupIndex /\ out.reset = FALSE
      BY <1>2, FixedOutcomes DEF FixedOutcome
    <2> QED BY <1>1, <2>1, InvFacts
  <1>3. CASE NothingLeft(out, retry)
    <2>1. out.retry \in {0, retry} /\ out.index = Len(AutoGroups) + 1 /\ out.reset = FALSE
      BY <1>3 DEF NothingLeft
    <2> QED BY <1>1, <2>1, InvFacts
  <1>4. ASSUME AutoToken, NEW i \in DOMAIN AutoGroups, NEW c, NEW level, AutoOutcome(out, retry, i, c, level)
        PROVE  /\ out.retry \in 0 .. RetryTimes
               /\ out.reset = FALSE \/ (out.reset = TRUE /\ AutoToken)
               /\ out.index \in 1 .. Len(AutoGroups) + 1 /\ out.index >= groupIndex
    <2>1. i \in 1 .. Len(AutoGroups) /\ Len(AutoGroups) \in Nat
      BY InvFacts, RequestFacts
    <2>2. level \in 0 .. RetryTimes /\ i >= groupIndex
      BY <1>1, <1>4, InvFacts DEF AutoOutcome
    <2>3. \/ out.retry = 0 /\ out.index = i + 1 /\ out.reset = TRUE
          \/ out.retry = level /\ out.index = i /\ out.reset = FALSE
      BY <1>4 DEF AutoOutcome
    <2>4. out.reset = FALSE \/ (out.reset = TRUE /\ AutoToken)
      BY <1>4, <2>3
    <2>5. /\ out.retry \in 0 .. RetryTimes
          /\ out.index \in 1 .. Len(AutoGroups) + 1 /\ out.index >= groupIndex
      BY <1>1, <2>1, <2>2, <2>3, InvFacts
    <2> QED BY <2>4, <2>5
  <1> QED BY <1>2, <1>3, <1>4, AutoOutcomes, InvFacts

LEMMA SelectStep == ASSUME RouteInv, Select PROVE RouteInv'
  <1>1. /\ pc = "select" /\ req.locked = Unset /\ UNCHANGED <<req, errs, pool, changes>>
        /\ retry \in 0 .. RetryTimes
    BY InvFacts DEF Select, Flow
  <1>2. PICK out \in CacheGetRandomSatisfiedChannel(retry) :
        /\ retry' = out.retry /\ resetNextTry' = out.reset /\ groupIndex' = out.index
        /\ IF out.channel = Unset
           THEN /\ pc' = "failed" /\ verdict' = "noChannel"
                /\ UNCHANGED <<chosen, used>>
           ELSE /\ chosen' = out.channel /\ used' = Append(used, out.channel)
                /\ pc' = "attempt" /\ UNCHANGED verdict
    BY DEF Select
  <1>3. /\ retry' \in 0 .. RetryTimes /\ resetNextTry' \in BOOLEAN /\ (resetNextTry' => AutoToken)
        /\ groupIndex' \in 1 .. Len(AutoGroups) + 1 /\ groupIndex' >= groupIndex
    <2>1. out.retry \in 0 .. RetryTimes /\ (out.reset = FALSE \/ (out.reset = TRUE /\ AutoToken))
          /\ out.index \in 1 .. Len(AutoGroups) + 1 /\ out.index >= groupIndex
      BY <1>1, OutcomeTypes
    <2>2. resetNextTry' \in BOOLEAN /\ (resetNextTry' => AutoToken)
      BY <1>2, <2>1, Zenon
    <2> QED BY <1>2, <2>1, <2>2
  <1>4. Base' = IF AutoToken THEN Spent(groupIndex') ELSE 0
    BY <1>1 DEF Base, AutoToken, Spent
  <1>5. Len(used) <= Base + retry
    BY <1>1, InvFacts DEF Budget
  <1>6. CASE ~ AutoToken
    <2>1. FixedOutcome(out, retry)
      BY <1>6, FixedOutcomes
    <2>2. CASE out.channel = Unset
      BY <1>1, <1>2, <1>3, <1>6, <2>2, RoundEnded
    <2>3. CASE out.channel # Unset
      <3>1. PICK c \in InGroup(req.tokenGroup) :
              /\ out.channel = [group |-> req.tokenGroup, id |-> c]
              /\ Priority[c] = TargetPriority(InGroup(req.tokenGroup), retry)
        BY <2>1, <2>3 DEF FixedOutcome
      <3> DEFINE e == out.channel
      <3>2. /\ e \in Attempts /\ e.group = req.tokenGroup /\ e.id = c
            /\ chosen' = e /\ used' = Append(used, e) /\ pc' = "attempt" /\ verdict' = verdict
        BY <1>2, <2>3, <3>1, InvFacts, RequestFacts DEF Attempts
      <3> HIDE DEF e
      <3>3. retry' = retry /\ resetNextTry' = FALSE
        BY <1>2, <2>1 DEF FixedOutcome
      <3>4. Len(used) <= retry /\ Base' = 0
        BY <1>4, <1>5, <1>6, InvFacts DEF Base
      <3>5. AttemptsBounded'
        <4>1. Len(used') = Len(used) + 1
          BY <3>2, InvFacts
        <4>2. Len(used') <= (RetryTimes + 1) * 1
          BY <1>1, <3>4, <4>1, InvFacts
        <4> QED BY <1>1, <1>6, <4>2 DEF AttemptsBounded, AutoToken
      <3> QED BY <1>1, <1>3, <1>6, <3>1, <3>2, <3>3, <3>4, <3>5, InvFacts, RoundMade
    <2> QED BY <2>2, <2>3
  <1>7. CASE AutoToken /\ NothingLeft(out, retry)
    <2>1. /\ out.channel = Unset /\ groupIndex' = Len(AutoGroups) + 1
          /\ \A k \in groupIndex .. Len(AutoGroups) : InGroup(AutoGroups[k]) = {}
      BY <1>2, <1>7 DEF NothingLeft
    <2> QED BY <1>1, <1>2, <1>3, <1>7, <2>1, RoundEnded
  <1>8. ASSUME AutoToken, NEW i \in DOMAIN AutoGroups, NEW c, NEW level,
               AutoOutcome(out, retry, i, c, level)
        PROVE  RouteInv'
    <2>1. /\ i >= groupIndex /\ c \in InGroup(AutoGroups[i])
          /\ level = IF i = groupIndex THEN retry ELSE 0
          /\ out.channel = [group |-> AutoGroups[i], id |-> c]
          /\ Priority[c] = TargetPriority(InGroup(AutoGroups[i]), level)
          /\ \A k \in groupIndex .. i - 1 : InGroup(AutoGroups[k]) = {}
          /\ \/ level >= RetryTimes /\ out.retry = 0 /\ out.index = i + 1 /\ out.reset = TRUE
             \/ out.retry = level /\ out.index = i /\ out.reset = FALSE
      BY <1>8 DEF AutoOutcome
    <2>2. /\ i \in 1 .. Len(AutoGroups) /\ Len(AutoGroups) \in Nat /\ AutoGroups[i] \in STRING
          /\ level \in 0 .. RetryTimes /\ RetryTimes \in Nat
          /\ \A k \in DOMAIN AutoGroups : k \in Nat
      BY <1>1, <2>1, InvFacts, RequestFacts
    <2> DEFINE e == out.channel
    <2>3. /\ e \in Attempts /\ e.group = AutoGroups[i] /\ e.id = c
      BY <2>1, <2>2, InvFacts, RequestFacts DEF Attempts
    <2>4. e # Unset
      BY <2>3, SelectAssumption DEF Attempts
    <2>5. chosen' = e /\ used' = Append(used, e) /\ pc' = "attempt" /\ verdict' = verdict
      BY <1>2, <2>4
    <2>6. \/ retry' = 0 /\ groupIndex' = i + 1 /\ resetNextTry' = TRUE
          \/ retry' = level /\ groupIndex' = i /\ resetNextTry' = FALSE
      BY <1>2, <2>1
    <2> HIDE DEF e
    <2>7. ASSUME NEW k \in DOMAIN AutoGroups, groupIndex <= k, k < groupIndex',
                 InGroup(AutoGroups[k]) # {}
          PROVE  e.group = AutoGroups[k]
      <3>1. k \notin groupIndex .. i - 1
        BY <2>1, <2>7
      <3>2. k = i
        BY <2>2, <2>6, <2>7, <3>1, InvFacts
      <3> QED BY <2>3, <3>2
    <2> DEFINE most == (RetryTimes + 1) * Len(AutoGroups)
    <2>8. /\ Spent(i) \in Nat /\ Spent(i + 1) \in Nat /\ Spent(groupIndex) \in Nat
          /\ i > groupIndex => Spent(groupIndex) + RetryTimes + 1 <= Spent(i)
          /\ Spent(i) + RetryTimes + 1 <= Spent(i + 1)
          /\ Spent(i + 1) <= most /\ most \in Nat
      <3>1. Spent(i) \in Nat /\ Spent(i + 1) \in Nat /\ Spent(groupIndex) \in Nat
        BY <2>2, InvFacts, SpentNat
      <3>2. i > groupIndex => Spent(groupIndex) + RetryTimes + 1 <= Spent(i)
        BY <2>2, InvFacts, SpentOrder
      <3>3. Spent(i) + RetryTimes + 1 <= Spent(i + 1)
        <4>1. i \in Nat /\ i + 1 \in Nat /\ i < i + 1
          BY <2>2
        <4> QED BY <4>1, SpentOrder
      <3>4. Spent(i + 1) <= most /\ most \in Nat
        <4> DEFINE n == Len(AutoGroups) + 1
        <4>1. n \in Nat /\ i + 1 \in Nat /\ i + 1 <= n
          BY <2>2
        <4>2. Spent(n) = most
          <5>1. Len(AutoGroups) + 1 - 1 = Len(AutoGroups)
            BY <2>2
          <5> QED BY <5>1 DEF Spent
        <4> HIDE DEF n
        <4>3. i + 1 < n => Spent(i + 1) + RetryTimes + 1 <= Spent(n) /\ Spent(n) \in Int
          BY <4>1, SpentOrder
        <4>4. Spent(n) \in Nat
          BY <4>1, <2>2, SpentNat
        <4>5. Spent(i + 1) <= Spent(n)
          <5>1. CASE i + 1 = n
            BY <4>4, <5>1
          <5>2. CASE i + 1 < n
            BY <4>3, <4>4, <5>2, <3>1, <2>2
          <5> QED BY <4>1, <5>1, <5>2
        <4> QED BY <4>2, <4>4, <4>5
      <3> QED BY <3>1, <3>2, <3>3, <3>4
    <2> HIDE DEF most
    <2>9. Len(used) <= Spent(groupIndex) + retry
      BY <1>1, <1>5, <1>8 DEF Base
    <2>10. Len(used) <= Spent(i) + level
      <3>1. CASE i = groupIndex
        BY <2>1, <2>9, <3>1
      <3>2. CASE i # groupIndex
        <4>1. i > groupIndex /\ level = 0
          BY <2>1, <2>2, <3>2, InvFacts
        <4>2. Len(used) <= Spent(groupIndex) + RetryTimes
          BY <1>1, <2>8, <2>9, InvFacts
        <4> QED BY <2>2, <2>8, <4>1, <4>2, InvFacts
      <3> QED BY <3>1, <3>2
    <2>11. Len(used) + 1 <= Base' + (IF resetNextTry' THEN retry' ELSE retry' + 1)
      <3>1. CASE retry' = 0 /\ groupIndex' = i + 1 /\ resetNextTry' = TRUE
        <4>1. Base' = Spent(i + 1)
          BY <1>4, <1>8, <3>1
        <4>2. Len(used) + 1 <= Spent(i + 1)
          BY <2>2, <2>8, <2>10, InvFacts
        <4>3. Base' + (IF resetNextTry' THEN retry' ELSE retry' + 1) = Spent(i + 1)
          BY <2>8, <3>1, <4>1
        <4> QED BY <4>2, <4>3
      <3>2. CASE retry' = level /\ groupIndex' = i /\ resetNextTry' = FALSE
        <4>1. Base' = Spent(i)
          BY <1>4, <1>8, <3>2
        <4>2. Len(used) + 1 <= Spent(i) + level + 1
          <5>1. Len(used) \in Nat /\ Spent(i) \in Nat /\ level \in Nat
            BY <2>2, <2>8, InvFacts
          <5> QED BY <2>10, <5>1
        <4>3. Base' + (IF resetNextTry' THEN retry' ELSE retry' + 1) = Spent(i) + level + 1
          BY <2>2, <2>8, <3>2, <4>1
        <4> QED BY <4>2, <4>3
      <3> QED BY <2>6, <3>1, <3>2
    <2>12. AttemptsBounded'
      <3>1. Len(used') = Len(used) + 1
        BY <2>3, <2>5, InvFacts
      <3>2. Len(used') <= most
        <4>1. /\ Len(used) \in Nat /\ Spent(i) \in Nat /\ Spent(i + 1) \in Nat /\ level \in Nat
              /\ level <= RetryTimes /\ RetryTimes \in Nat
          BY <2>2, <2>8, InvFacts
        <4> QED BY <2>8, <2>10, <3>1, <4>1
      <3>3. req'.tokenGroup = "auto" /\ Len(AutoGroups) > 0
        BY <1>1, <1>8, <2>2 DEF AutoToken
      <3> QED BY <3>2, <3>3 DEF AttemptsBounded, most
    <2>13. \E k \in DOMAIN AutoGroups :
                  /\ e.group = AutoGroups[k] /\ groupIndex <= k /\ k <= groupIndex'
                  /\ k = groupIndex => level = retry
                  /\ k < groupIndex' \/ level <= retry'
      <3>1. /\ e.group = AutoGroups[i] /\ groupIndex <= i /\ i <= groupIndex'
            /\ i = groupIndex => level = retry
            /\ i < groupIndex' \/ level <= retry'
        BY <2>1, <2>2, <2>3, <2>6, InvFacts
      <3> QED BY <3>1
    <2>14. InGroup(e.group) # {} /\ Priority[e.id] = TargetPriority(InGroup(e.group), level)
      BY <2>1, <2>3
    <2> QED BY <1>1, <1>3, <1>8, <2>2, <2>3, <2>5, <2>7, <2>11, <2>12, <2>13, <2>14, RoundMade
  <1> QED BY <1>1, <1>6, <1>7, <1>8, AutoOutcomes, InvFacts

LEMMA SelectNoKeyStep == ASSUME RouteInv, SelectNoKey PROVE RouteInv'
  <1>1. /\ pc = "select" /\ pc' = "failed" /\ verdict' = "noKey"
        /\ UNCHANGED <<req, errs, pool, chosen, used, changes>>
        /\ retry \in 0 .. RetryTimes /\ resetNextTry = FALSE
    BY InvFacts DEF SelectNoKey, Flow
  <1>2. CASE req.locked # Unset
    <2>1. retry' = retry /\ resetNextTry' = FALSE /\ groupIndex' = groupIndex
      BY <1>1, <1>2 DEF SelectNoKey
    <2>2. resetNextTry' \in BOOLEAN /\ (resetNextTry' => AutoToken /\ req.locked = Unset)
      BY <2>1, Zenon
    <2>3. retry' \in 0 .. RetryTimes
          /\ groupIndex' \in 1 .. Len(AutoGroups) + 1 /\ groupIndex' >= groupIndex
      BY <1>1, <2>1, InvFacts
    <2> QED BY <1>1, <2>2, <2>3, RoundEnded
  <1>3. CASE req.locked = Unset
    <2>1. PICK out \in CacheGetRandomSatisfiedChannel(retry) :
            retry' = out.retry /\ resetNextTry' = out.reset /\ groupIndex' = out.index
      BY <1>3 DEF SelectNoKey
    <2>2. /\ retry' \in 0 .. RetryTimes /\ resetNextTry' \in BOOLEAN /\ (resetNextTry' => AutoToken)
          /\ groupIndex' \in 1 .. Len(AutoGroups) + 1 /\ groupIndex' >= groupIndex
      <3>1. out.retry \in 0 .. RetryTimes /\ (out.reset = FALSE \/ (out.reset = TRUE /\ AutoToken))
            /\ out.index \in 1 .. Len(AutoGroups) + 1 /\ out.index >= groupIndex
        BY <1>1, OutcomeTypes
      <3>2. resetNextTry' \in BOOLEAN /\ (resetNextTry' => AutoToken)
        BY <2>1, <3>1, Zenon
      <3> QED BY <2>1, <3>1, <3>2
    <2> QED BY <1>1, <1>3, <2>2, RoundEnded
  <1> QED BY <1>2, <1>3

LEMMA RouteStart == SelectInit => RouteInv
  <1> SUFFICES ASSUME SelectInit PROVE RouteInv
    OBVIOUS
  <1>1. Unset \notin {"noKey", "noChannel"} /\ RetryTimes \in Nat /\ Len(AutoGroups) \in Nat
        /\ MaxChanges \in Nat /\ DOMAIN AutoGroups = 1 .. Len(AutoGroups)
    BY SelectAssumption DEF Verdicts
  <1>2. used = <<>> /\ DOMAIN used = {} /\ Len(used) = 0 /\ used \in Seq(Attempts) /\ errs \in Seq(ErrorKinds)
    BY DEF SelectInit
  <1>3. Flow
    <2>1. /\ retry \in 0 .. RetryTimes + 1 /\ groupIndex \in 1 .. Len(AutoGroups) + 1
          /\ changes \in 0 .. MaxChanges
      BY <1>1 DEF SelectInit
    <2>2. SelectTypeOK
      BY <1>1, <1>2, <2>1 DEF SelectInit, SelectTypeOK, Attempts
    <2> QED BY <1>1, <1>2, <2>2 DEF SelectInit, Flow
  <1>4. AttemptsBounded
    <2> DEFINE m == IF req.tokenGroup = "auto" /\ Len(AutoGroups) > 0 THEN Len(AutoGroups) ELSE 1
    <2>1. m \in Nat
      BY <1>1
    <2>2. 0 <= (RetryTimes + 1) * m
      <3> HIDE DEF m
      <3> QED BY <1>1, <2>1
    <2> QED BY <1>2, <2>2 DEF AttemptsBounded
  <1>5. Budget /\ LastLevel /\ Kept
    BY <1>2 DEF SelectInit, Budget, LastLevel, Kept
  <1>6. Passed /\ GroupOrder /\ PriorityDescends
    BY <1>2 DEF Passed, GroupOrder, PriorityDescends
  <1>7. Behind
    BY <1>1 DEF SelectInit, Behind
  <1> QED BY <1>3, <1>4, <1>5, <1>6, <1>7 DEF RouteInv

LEMMA RouteStep == RouteInv /\ [SelectNext]_selectVars => RouteInv'
  <1> SUFFICES ASSUME RouteInv, [SelectNext]_selectVars PROVE RouteInv'
    OBVIOUS
  <1>1. CASE UNCHANGED selectVars
    <2>1. UNCHANGED <<req, pool, pc, retry, resetNextTry, groupIndex, chosen, used, errs, verdict, changes>>
      BY <1>1 DEF selectVars
    <2> QED BY <2>1, SamePool DEF RouteInv, Flow, SelectTypeOK, Budget, Base, Spent, Passed, Behind,
               LastLevel, Kept, AutoToken, AttemptsBounded, GroupOrder, PriorityDescends
  <1>2. CASE Distribute
    BY <1>2, DistributePinnedStep, DistributeAffinityStep, DistributeAffinityDisabledStep,
       DistributeSelectStep, ResolveOriginTaskStep DEF Distribute
  <1>3. CASE Round
    BY <1>3, SelectStep, SelectNoKeyStep, SelectLockedStep DEF Round
  <1>4. CASE Attempt
    BY <1>4, SucceedStep, FailStep DEF Attempt
  <1>5. CASE \E c \in Candidates : PoolChange(c)
    BY <1>5, PoolChangeStep
  <1> QED BY <1>1, <1>2, <1>3, <1>4, <1>5 DEF SelectNext, Step

LEMMA RouteOrder == RouteInv => AttemptsInOrder
  <1> SUFFICES ASSUME RouteInv PROVE AttemptsInOrder
    OBVIOUS
  <1>1. AllGroupsTried
    <2>1. SUFFICES ASSUME verdict = "noChannel", AutoToken, req.cross, changes = 0, RetryTimes > 0,
                          NEW g \in Groups, InGroup(g) # {}
                   PROVE  \E i \in DOMAIN used : used[i].group = g
      BY DEF AllGroupsTried, AutoToken
    <2>2. PICK k \in DOMAIN AutoGroups : g = AutoGroups[k]
      BY DEF Groups
    <2>3. k < groupIndex
      BY <2>1, InvFacts, RequestFacts DEF Behind
    <2> QED BY <2>1, <2>2, <2>3, InvFacts DEF Behind
  <1>2. BoundChannelKept
    BY InvFacts DEF Kept, BoundChannelKept
  <1> QED BY <1>1, <1>2, InvFacts DEF AttemptsInOrder

\* The attempts of a request keep the loop's budget, go through the groups in order and
\* through a group's priorities downwards, leave no group out, and stay with the channel
\* the request is bound to (the retry loop of controller/relay.go and the selection of
\* service/channel_select.go, which share one counter), for any channels, groups,
\* priorities and number of retries, while channels come and go.
THEOREM AttemptsStayInOrder == SelectSpec => []AttemptsInOrder
  <1>1. SelectInit => RouteInv
    BY RouteStart
  <1>2. RouteInv /\ [SelectNext]_selectVars => RouteInv'
    BY RouteStep
  <1>3. RouteInv => AttemptsInOrder
    BY RouteOrder
  <1> QED BY <1>1, <1>2, <1>3, PTL DEF SelectSpec

-----------------------------------------------------------------------------
(***************************************************************************)
(* The status of a channel: its copies are switched together, with any     *)
(* number of failing requests, edits and test passes and with failing      *)
(* statements.                                                             *)
(*                                                                         *)
(* The inductive invariant says who is inside UpdateChannelStatus (the     *)
(* holder of channelStatusLock and nobody else), what that call is about   *)
(* to write (the row it read is still the row it will save, as long as no  *)
(* administrator edits without the lock) and that the test loop never      *)
(* asks to enable a channel with several keys unless somebody edited one.  *)
(***************************************************************************)

\* The calls of UpdateChannelStatus, as TypeOK has them.
Calls ==
    [pc : {"idle", "cache", "read", "save", "ability", "done"},
     channel : Channels \cup {None}, key : Keys \cup {None},
     target : {"enabled", "auto"}, row : Rows \cup {None},
     ability : BOOLEAN, ok : BOOLEAN]

Inside == {"read", "save", "ability"}

\* A call names a channel, and a key of it when it has several.
CallsNamed ==
    /\ \A u \in Updaters : up[u].pc \in Inside \cup {"cache"} =>
          /\ up[u].channel \in Channels
          /\ up[u].channel \in MultiKey => up[u].key \in Keys
    /\ \A u \in Updaters : up[u].pc = "save" => up[u].row \in Rows
    /\ (testPc # "call" => up[Tester].pc = "idle") /\ (~ running => testPc = "idle")
    /\ syncPc[Admin] \in {"write", "reload", "ability"} =>
          adminRow \in [channel : Channels, row : Rows]
    /\ \A s \in Syncers : syncPc[s] = "publish" => snap[s] \in [Channels -> Rows]

\* The calls inside are the holders of channelStatusLock.
LockHeld == \A u \in Updaters : up[u].pc \in Inside <=> lock = u

KeysAgree(c, r) == c \in MultiKey => (r.status = "auto" <=> r.off = Keys)

\* Before the first edit no handler of the administrator is writing, and no test
\* wants to enable a channel with several keys.
Unedited ==
    edits = 0 =>
        /\ syncPc[Admin] \notin {"write", "reload", "ability"}
        /\ \A c \in Channels : KeysAgree(c, row[c])
        /\ \A x \in todo : KeysAgree(x.channel, x.row)
        /\ \A u \in Updaters : up[u].pc \in Inside \cup {"cache"} =>
              (up[u].channel \in MultiKey => up[u].target = "auto")

\* What a call is about to save follows from the row as it is.
Planned ==
    edits = 0 => \A u \in Updaters : up[u].pc = "save" =>
        LET c == up[u].channel
            k == up[u].key
            t == up[u].target
        IN  /\ row[c].status # t
            /\ up[u].row = NewRow(row[c], c, k, t)
            /\ up[u].ability = TouchesAbilities(row[c], c, k, t)

\* Only between the two statements of a call are row and abilities apart.
Apart(c) == \E u \in Updaters : up[u].pc = "ability" /\ up[u].channel = c

AbilitiesFollow ==
    (edits = 0 /\ ~ faulted) =>
        /\ \A c \in Channels : Apart(c) \/ ability[c] = Enabled(row[c])
        /\ \A u \in Updaters : up[u].pc = "ability" =>
              Enabled(row[up[u].channel]) = (up[u].target = "enabled")

TypeInv == TypeOK /\ CallsNamed
StatusInv == TypeInv /\ LockHeld /\ Unedited /\ Planned /\ AbilitiesFollow /\ IndexSound

-----------------------------------------------------------------------------
USE DEF cacheVars, syncVars, testVars, loopVars

\* Taking a key away from a set of keys that lacks one leaves all of them away exactly
\* when it was the last.
LEMMA LastKey ==
    ASSUME NEW S \in SUBSET Keys
    PROVE  Cardinality(S) >= Cardinality(Keys) <=> S = Keys
  <1>1. IsFiniteSet(Keys)
    BY StatusAssumption
  <1>2. Cardinality(S) \in Nat /\ Cardinality(Keys) \in Nat
    BY <1>1, FS_Subset, FS_CardinalityType
  <1>3. Cardinality(S) <= Cardinality(Keys) /\ (Cardinality(Keys) = Cardinality(S) => Keys = S)
    BY <1>1, FS_Subset
  <1> QED BY <1>2, <1>3

\* handlerMultiKeyUpdate makes a row of a row.
LEMMA NewRowType ==
    ASSUME NEW r \in Rows, NEW c \in Channels, NEW k \in Keys \cup {None},
           NEW t \in {"enabled", "auto"}, c \in MultiKey => k \in Keys
    PROVE  /\ c \in MultiKey => handlerMultiKeyUpdate(r, k, t) \in Rows
           /\ NewRow(r, c, k, t) \in Rows
           /\ TouchesAbilities(r, c, k, t) \in BOOLEAN
  BY DEF NewRow, TouchesAbilities, handlerMultiKeyUpdate, Rows, Status

\* Disabling one key: the channel is switched off with its last key and left alone
\* before.
LEMMA KeyOff ==
    ASSUME NEW r \in Rows, NEW c \in MultiKey, NEW k \in Keys, r.status # "auto"
    PROVE  /\ KeysAgree(c, NewRow(r, c, k, "auto"))
           /\ NewRow(r, c, k, "auto").status \in {r.status, "auto"}
           /\ TouchesAbilities(r, c, k, "auto") <=> NewRow(r, c, k, "auto").status = "auto"
  <1>1. r.off \cup {k} \in SUBSET Keys
    BY DEF Rows
  <1> QED BY <1>1, LastKey DEF KeysAgree, NewRow, TouchesAbilities, handlerMultiKeyUpdate

LEMMA InitStatusInv == Init => StatusInv
  <1> SUFFICES ASSUME Init PROVE StatusInv
    OBVIOUS
  <1>1. PICK s \in [Channels -> InitStatus] :
          row = [c \in Channels |->
                   [status |-> s[c],
                    off |-> IF c \in MultiKey /\ s[c] = "auto" THEN Keys ELSE {}]]
    BY DEF Init
  <1>2. row \in [Channels -> Rows]
    BY <1>1, StatusAssumption DEF Rows, Status
  <1>3. TypeOK
    <2>1. ability \in [Channels -> BOOLEAN] /\ index \subseteq Channels
      BY DEF Init
    <2>2. up \in [Updaters -> Calls]
      BY DEF Init, Calls, NoCall
    <2>3. edits \in 0 .. MaxEdits /\ tests \in 0 .. MaxTests
      BY StatusAssumption DEF Init
    <2> QED BY <1>2, <2>1, <2>2, <2>3 DEF Init, TypeOK, Calls
  <1>4. CallsNamed /\ LockHeld
    BY StatusAssumption DEF Init, CallsNamed, LockHeld, NoCall, Inside, Updaters, Syncers
  <1>5. \A c \in Channels : KeysAgree(c, row[c])
    BY <1>1, StatusAssumption DEF KeysAgree
  <1>6. Unedited
    BY <1>5 DEF Init, Unedited, NoCall, Inside, Syncers
  <1>7. Planned /\ AbilitiesFollow /\ IndexSound
    BY DEF Init, Planned, AbilitiesFollow, IndexSound, NoCall, Enabled
  <1> QED BY <1>3, <1>4, <1>6, <1>7 DEF StatusInv, TypeInv

-----------------------------------------------------------------------------
(* The steps of UpdateChannelStatus.                                       *)

LEMMA TesterUpdates == Tester \in Updaters
  BY DEF Updaters

\* A return gives the lock back and leaves a call that holds nothing.
LEMMA ReturnType ==
    ASSUME TypeInv, NEW u \in Updaters, NEW b \in BOOLEAN, Return(u, b)
    PROVE  /\ up' \in [Updaters -> Calls] /\ lock' = None
           /\ up'[u].pc = "done"
           /\ \A v \in Updaters \ {u} : up'[v] = up[v]
  BY DEF TypeInv, TypeOK, Return, NoCall, Calls

LEMMA CacheKeeps ==
    ASSUME StatusInv, NEW u \in Updaters, UpCache(u)
    PROVE  StatusInv'
  <1> DEFINE c == up[u].channel
             t == up[u].target
  <1>1. c \in Channels /\ (c \in MultiKey => up[u].key \in Keys) /\ t \in {"enabled", "auto"}
    BY DEF StatusInv, TypeInv, TypeOK, CallsNamed, UpCache
  <1>2. CASE c \notin MultiKey /\ idm[c].status = t
    <2>1. Return(u, FALSE) /\ UNCHANGED <<row, ability, idm, index, syncPc, snap, adminRow, edits,
                                         running, testPc, todo, tests, faulted>>
      BY <1>2 DEF UpCache
    <2>2. up' \in [Updaters -> Calls] /\ lock' = None /\ up'[u].pc = "done"
          /\ \A v \in Updaters \ {u} : up'[v] = up[v]
      BY <2>1, ReturnType DEF StatusInv
    <2>3. TypeInv'
      <3>1. TypeOK'
        BY <2>1, <2>2 DEF StatusInv, TypeInv, TypeOK, Calls
      <3>2. CallsNamed'
        BY <2>1, <2>2, TesterUpdates DEF StatusInv, TypeInv, CallsNamed, Inside, UpCache
      <3> QED BY <3>1, <3>2 DEF TypeInv
    <2>4. LockHeld'
      BY <2>1, <2>2, StatusAssumption DEF StatusInv, LockHeld, UpCache, Inside
    <2>5. (Unedited /\ Planned /\ AbilitiesFollow /\ IndexSound)'
      BY <2>1, <2>2 DEF StatusInv, Unedited, Planned, AbilitiesFollow, IndexSound, Apart, UpCache, Inside
    <2> QED BY <2>3, <2>4, <2>5 DEF StatusInv
  <1>3. CASE ~ (c \notin MultiKey /\ idm[c].status = t)
    <2>1. lock' = u /\ up' = [up EXCEPT ![u].pc = "read"] /\ lock = None
          /\ UNCHANGED <<row, ability, syncPc, snap, adminRow, edits,
                         running, testPc, todo, tests, faulted>>
      BY <1>3 DEF UpCache
    <2>2. IF c \in MultiKey
          THEN idm' = [idm EXCEPT ![c] = handlerMultiKeyUpdate(@, up[u].key, t)] /\ index' = index
          ELSE idm' = [idm EXCEPT ![c].status = t] /\ index' = IndexAfter(c, t)
      BY <1>3 DEF UpCache
    <2>3. up' \in [Updaters -> Calls]
      BY <2>1 DEF StatusInv, TypeInv, TypeOK, Calls
    <2>4. idm' \in [Channels -> Rows] /\ index' \subseteq Channels
      <3>1. idm[c] \in Rows /\ idm \in [Channels -> Rows] /\ index \subseteq Channels
        BY <1>1 DEF StatusInv, TypeInv, TypeOK
      <3>2. CASE c \in MultiKey
        BY <1>1, <2>2, <3>1, <3>2, NewRowType
      <3>3. CASE c \notin MultiKey
        <4>1. [idm[c] EXCEPT !.status = t] \in Rows
          BY <1>1, <3>1 DEF Rows, Status
        <4> QED BY <1>1, <2>2, <3>1, <3>3, <4>1 DEF IndexAfter
      <3> QED BY <3>2, <3>3
    <2>5. TypeInv'
      BY <1>1, <2>1, <2>3, <2>4 DEF StatusInv, TypeInv, TypeOK, CallsNamed, Calls, Inside, UpCache
    <2>6. LockHeld'
      <3>1. up'[u].pc = "read" /\ \A v \in Updaters \ {u} : up'[v].pc = up[v].pc
        BY <2>1 DEF StatusInv, TypeInv, TypeOK
      <3>2. \A v \in Updaters : up[v].pc \notin Inside
        BY <2>1, StatusAssumption DEF StatusInv, LockHeld, Updaters
      <3> QED BY <2>1, <3>1, <3>2 DEF LockHeld, Inside
    <2>7. (Unedited /\ Planned /\ AbilitiesFollow)'
      BY <2>1 DEF StatusInv, TypeInv, TypeOK, Unedited, Planned, AbilitiesFollow, Apart, Inside, UpCache
    <2>8. IndexSound'
      <3>1. \A d \in Channels \ {c} : idm'[d] = idm[d]
        BY <2>2 DEF StatusInv, TypeInv, TypeOK
      <3>2. index' \subseteq index /\ index \subseteq Channels
        BY <2>2 DEF StatusInv, TypeInv, TypeOK, IndexAfter
      <3>3. c \in index' \ MultiKey => Enabled(idm'[c])
        <4>1. idm[c] \in Rows /\ idm \in [Channels -> Rows]
          BY <1>1 DEF StatusInv, TypeInv, TypeOK
        <4>2. c \notin MultiKey => idm'[c].status = t
          BY <1>1, <2>2, <4>1 DEF Rows
        <4> QED BY <1>1, <2>2, <4>2 DEF IndexAfter, Enabled
      <3> QED BY <3>1, <3>2, <3>3 DEF StatusInv, IndexSound
    <2> QED BY <2>5, <2>6, <2>7, <2>8 DEF StatusInv
  <1> QED BY <1>2, <1>3

\* The call that holds the lock is alone: no other call is inside.
LEMMA Alone ==
    ASSUME StatusInv, NEW u \in Updaters, up[u].pc \in Inside
    PROVE  lock = u /\ \A v \in Updaters \ {u} : up[v].pc \notin Inside
  BY DEF StatusInv, LockHeld

\* What a return keeps, whatever was written before it.
LEMMA ReturnKeeps ==
    ASSUME StatusInv, NEW u \in Updaters, NEW b \in BOOLEAN, Return(u, b),
           up[u].pc \in Inside,
           row' \in [Channels -> Rows], ability' \in [Channels -> BOOLEAN], faulted' \in BOOLEAN,
           UNCHANGED <<idm, index, syncPc, snap, adminRow, edits, running, testPc, todo, tests>>
    PROVE  TypeInv' /\ LockHeld' /\ Planned' /\ IndexSound'
  <1>1. up' \in [Updaters -> Calls] /\ lock' = None /\ up'[u].pc = "done"
        /\ \A v \in Updaters \ {u} : up'[v] = up[v]
    BY ReturnType DEF StatusInv
  <1>2. lock = u /\ \A v \in Updaters \ {u} : up[v].pc \notin Inside
    BY Alone
  <1>3. TypeOK'
    BY <1>1 DEF StatusInv, TypeInv, TypeOK, Calls
  <1>4. CallsNamed'
    BY <1>1, TesterUpdates DEF StatusInv, TypeInv, CallsNamed, Inside
  <1>5. LockHeld'
    BY <1>1, <1>2, StatusAssumption DEF LockHeld, Inside, Updaters
  <1>6. Planned'
    BY <1>1, <1>2 DEF Planned, Inside
  <1>7. IndexSound'
    BY DEF StatusInv, IndexSound
  <1> QED BY <1>3, <1>4, <1>5, <1>6, <1>7 DEF TypeInv

LEMMA ReadKeeps ==
    ASSUME StatusInv, NEW u \in Updaters, UpRead(u)
    PROVE  StatusInv'
  <1> DEFINE c == up[u].channel
             k == up[u].key
             t == up[u].target
             r == row[c]
  <1>1. /\ c \in Channels /\ k \in Keys \cup {None} /\ (c \in MultiKey => k \in Keys)
        /\ t \in {"enabled", "auto"} /\ r \in Rows /\ up[u].pc = "read"
    BY DEF StatusInv, TypeInv, TypeOK, CallsNamed, Inside, UpRead
  <1>2. UNCHANGED <<row, ability, idm, index, syncPc, snap, adminRow, edits, running, testPc, todo, tests>>
    BY DEF UpRead
  <1>3. lock = u /\ \A v \in Updaters \ {u} : up[v].pc \notin Inside
    BY <1>1, Alone DEF Inside
  <1>4. CASE /\ r.status # t
             /\ up' = [up EXCEPT ![u].pc = "save", ![u].row = NewRow(r, c, k, t),
                                 ![u].ability = TouchesAbilities(r, c, k, t)]
             /\ UNCHANGED <<lock, faulted>>
    <2>1. NewRow(r, c, k, t) \in Rows /\ TouchesAbilities(r, c, k, t) \in BOOLEAN
      BY <1>1, NewRowType
    <2>2. /\ up' \in [Updaters -> Calls] /\ up'[u].pc = "save"
          /\ up'[u].row = NewRow(r, c, k, t) /\ up'[u].ability = TouchesAbilities(r, c, k, t)
          /\ up'[u].channel = c /\ up'[u].key = k /\ up'[u].target = t
          /\ \A v \in Updaters \ {u} : up'[v] = up[v]
      <3> DEFINE n == NewRow(r, c, k, t)
                 a == TouchesAbilities(r, c, k, t)
      <3>1. up' = [up EXCEPT ![u].pc = "save", ![u].row = n, ![u].ability = a]
        BY <1>4
      <3>2. n \in Rows /\ a \in BOOLEAN /\ up \in [Updaters -> Calls]
        BY <2>1 DEF StatusInv, TypeInv, TypeOK, Calls
      <3> HIDE DEF n, a
      <3>3. up'[u] = [up[u] EXCEPT !.pc = "save", !.row = n, !.ability = a] /\ up[u] \in Calls
            /\ \A v \in Updaters \ {u} : up'[v] = up[v]
        BY <3>1, <3>2
      <3>4. up'[u].pc = "save" /\ up'[u].row = n /\ up'[u].ability = a /\ up'[u] \in Calls
            /\ up'[u].channel = c /\ up'[u].key = k /\ up'[u].target = t
        BY <3>2, <3>3 DEF Calls
      <3> QED BY <3>1, <3>2, <3>3, <3>4 DEF n, a
    <2>3. TypeOK'
      BY <1>2, <1>4, <2>2 DEF StatusInv, TypeInv, TypeOK, Calls
    <2>4. CallsNamed'
      BY <1>1, <1>2, <2>1, <2>2, TesterUpdates DEF StatusInv, TypeInv, CallsNamed, Inside
    <2>5. LockHeld'
      BY <1>3, <1>4, <2>2 DEF LockHeld, Inside
    <2>6. Unedited'
      BY <1>1, <1>2, <2>2 DEF StatusInv, Unedited, Inside
    <2>7. Planned'
      BY <1>2, <1>3, <1>4, <2>2 DEF Planned, Inside
    <2>8. AbilitiesFollow'
      BY <1>1, <1>2, <1>4, <2>2 DEF StatusInv, AbilitiesFollow, Apart
    <2>9. IndexSound'
      BY <1>2 DEF StatusInv, IndexSound
    <2> QED BY <2>3, <2>4, <2>5, <2>6, <2>7, <2>8, <2>9 DEF StatusInv, TypeInv
  <1>5. CASE Return(u, FALSE) /\ (UNCHANGED faulted \/ faulted' = TRUE)
    <2>1. up'[u].pc = "done" /\ \A v \in Updaters \ {u} : up'[v] = up[v]
      BY <1>5, ReturnType DEF StatusInv
    <2>2. TypeInv' /\ LockHeld' /\ Planned' /\ IndexSound'
      BY <1>1, <1>2, <1>5, ReturnKeeps DEF StatusInv, TypeInv, TypeOK, Inside
    <2>3. Unedited'
      BY <1>2, <2>1 DEF StatusInv, Unedited, Inside
    <2>4. AbilitiesFollow'
      BY <1>1, <1>2, <1>5, <2>1 DEF StatusInv, AbilitiesFollow, Apart
    <2> QED BY <2>2, <2>3, <2>4 DEF StatusInv
  <1> QED BY <1>4, <1>5 DEF UpRead

\* Before any edit: the row a call saves keeps the keys and the status together, and
\* says whether the abilities have to follow.
LEMMA PlannedRow ==
    ASSUME StatusInv, edits = 0, NEW u \in Updaters, up[u].pc = "save"
    PROVE  /\ KeysAgree(up[u].channel, up[u].row)
           /\ up[u].ability => Enabled(up[u].row) = (up[u].target = "enabled")
           /\ ~ up[u].ability => Enabled(up[u].row) = Enabled(row[up[u].channel])
  <1> DEFINE c == up[u].channel
             k == up[u].key
             t == up[u].target
             r == row[c]
  <1>1. /\ c \in Channels /\ r \in Rows /\ t \in {"enabled", "auto"}
        /\ (c \in MultiKey => k \in Keys /\ t = "auto")
    BY DEF StatusInv, TypeInv, TypeOK, CallsNamed, Unedited, Inside
  <1>2. /\ r.status # t /\ up[u].row = NewRow(r, c, k, t)
        /\ up[u].ability = TouchesAbilities(r, c, k, t)
    BY DEF StatusInv, Planned
  <1>3. CASE c \in MultiKey
    <2>1. /\ KeysAgree(c, NewRow(r, c, k, "auto"))
          /\ NewRow(r, c, k, "auto").status \in {r.status, "auto"}
          /\ TouchesAbilities(r, c, k, "auto") <=> NewRow(r, c, k, "auto").status = "auto"
      BY <1>1, <1>2, <1>3, KeyOff
    <2> QED BY <1>1, <1>2, <1>3, <2>1 DEF Enabled
  <1>4. CASE c \notin MultiKey
    <2>1. NewRow(r, c, k, t).status = t /\ TouchesAbilities(r, c, k, t)
      BY <1>1, <1>4 DEF NewRow, TouchesAbilities, Rows
    <2> QED BY <1>2, <1>4, <2>1 DEF KeysAgree, Enabled
  <1> QED BY <1>3, <1>4

LEMMA SaveKeeps ==
    ASSUME StatusInv, NEW u \in Updaters, UpSave(u)
    PROVE  StatusInv'
  <1> DEFINE c == up[u].channel
  <1>1. c \in Channels /\ up[u].row \in Rows /\ up[u].pc = "save"
    BY DEF StatusInv, TypeInv, TypeOK, CallsNamed, Inside, UpSave
  <1>2. UNCHANGED <<ability, idm, index, syncPc, snap, adminRow, edits, running, testPc, todo, tests>>
    BY DEF UpSave
  <1>3. lock = u /\ \A v \in Updaters \ {u} : up[v].pc \notin Inside
    BY <1>1, Alone DEF Inside
  <1>4. PICK saved \in BOOLEAN :
          /\ row' = IF saved THEN [row EXCEPT ![c] = up[u].row] ELSE row
          /\ IF up[u].ability
             THEN up' = [up EXCEPT ![u].pc = "ability", ![u].ok = saved] /\ UNCHANGED lock
             ELSE Return(u, saved)
          /\ faulted' = (faulted \/ ~ saved)
    BY DEF UpSave
  <1>5. row' \in [Channels -> Rows] /\ (faulted' \in BOOLEAN) /\ (~ faulted' => saved /\ ~ faulted)
    BY <1>1, <1>4 DEF StatusInv, TypeInv, TypeOK
  <1>6. \A d \in Channels : row'[d] = IF saved /\ d = c THEN up[u].row ELSE row[d]
    BY <1>1, <1>4 DEF StatusInv, TypeInv, TypeOK
  <1>7. edits = 0 => \A d \in Channels : KeysAgree(d, row'[d])
    BY <1>1, <1>6, PlannedRow DEF StatusInv, Unedited
  <1>8. CASE up[u].ability
    <2>1. /\ up' \in [Updaters -> Calls] /\ up'[u].pc = "ability" /\ lock' = lock
          /\ up'[u].channel = c /\ up'[u].key = up[u].key /\ up'[u].target = up[u].target
          /\ \A v \in Updaters \ {u} : up'[v] = up[v]
      BY <1>4, <1>8 DEF StatusInv, TypeInv, TypeOK, Calls
    <2>2. TypeOK'
      BY <1>2, <1>5, <2>1 DEF StatusInv, TypeInv, TypeOK, Calls
    <2>3. CallsNamed'
      BY <1>1, <1>2, <2>1, TesterUpdates DEF StatusInv, TypeInv, CallsNamed, Inside
    <2>4. LockHeld'
      BY <1>3, <2>1 DEF LockHeld, Inside
    <2>5. Unedited'
      BY <1>1, <1>2, <1>7, <2>1 DEF StatusInv, Unedited, Inside
    <2>6. Planned'
      BY <1>3, <2>1 DEF Planned, Inside
    <2>7. AbilitiesFollow'
      <3> SUFFICES ASSUME edits = 0, ~ faulted' PROVE AbilitiesFollow'
        BY <1>2 DEF AbilitiesFollow
      <3>1. Enabled(row'[c]) = (up[u].target = "enabled")
        BY <1>1, <1>5, <1>6, <1>8, PlannedRow
      <3>2. \A d \in Channels \ {c} : ability[d] = Enabled(row[d])
        BY <1>3, <1>1, <1>5 DEF StatusInv, AbilitiesFollow, Apart, Inside
      <3> QED BY <1>2, <1>3, <1>6, <2>1, <3>1, <3>2 DEF AbilitiesFollow, Apart, Inside
    <2>8. IndexSound'
      BY <1>2 DEF StatusInv, IndexSound
    <2> QED BY <2>2, <2>3, <2>4, <2>5, <2>6, <2>7, <2>8 DEF StatusInv, TypeInv
  <1>9. CASE ~ up[u].ability
    <2>1. Return(u, saved)
      BY <1>4, <1>9
    <2>2. up'[u].pc = "done" /\ \A v \in Updaters \ {u} : up'[v] = up[v]
      BY <2>1, ReturnType DEF StatusInv
    <2>3. TypeInv' /\ LockHeld' /\ Planned' /\ IndexSound'
      BY <1>1, <1>2, <1>5, <2>1, ReturnKeeps DEF StatusInv, TypeInv, TypeOK, Inside
    <2>4. Unedited'
      BY <1>2, <1>7, <2>2 DEF StatusInv, Unedited, Inside
    <2>5. AbilitiesFollow'
      <3> SUFFICES ASSUME edits = 0, ~ faulted' PROVE AbilitiesFollow'
        BY <1>2 DEF AbilitiesFollow
      <3>1. Enabled(row'[c]) = Enabled(row[c])
        BY <1>1, <1>5, <1>6, <1>9, PlannedRow
      <3>2. \A d \in Channels : ability[d] = Enabled(row[d])
        BY <1>1, <1>3, <1>5 DEF StatusInv, AbilitiesFollow, Apart, Inside
      <3> QED BY <1>2, <1>3, <1>6, <2>2, <3>1, <3>2 DEF AbilitiesFollow, Apart, Inside
    <2> QED BY <2>3, <2>4, <2>5 DEF StatusInv
  <1> QED BY <1>8, <1>9

LEMMA AbilityKeeps ==
    ASSUME StatusInv, NEW u \in Updaters, UpAbility(u)
    PROVE  StatusInv'
  <1> DEFINE c == up[u].channel
  <1>1. c \in Channels /\ up[u].pc = "ability" /\ up[u].ok \in BOOLEAN
    BY DEF StatusInv, TypeInv, TypeOK, CallsNamed, Inside, UpAbility
  <1>2. Return(u, up[u].ok)
        /\ UNCHANGED <<row, idm, index, syncPc, snap, adminRow, edits, running, testPc, todo, tests>>
    BY DEF UpAbility
  <1>3. PICK saved \in BOOLEAN :
          /\ ability' = IF saved THEN [ability EXCEPT ![c] = up[u].target = "enabled"] ELSE ability
          /\ faulted' = (faulted \/ ~ saved)
    BY DEF UpAbility
  <1>4. ability' \in [Channels -> BOOLEAN] /\ (faulted' \in BOOLEAN) /\ (~ faulted' => saved /\ ~ faulted)
    BY <1>1, <1>3 DEF StatusInv, TypeInv, TypeOK
  <1>5. up'[u].pc = "done" /\ \A v \in Updaters \ {u} : up'[v] = up[v]
    BY <1>1, <1>2, ReturnType DEF StatusInv
  <1>6. TypeInv' /\ LockHeld' /\ Planned' /\ IndexSound'
    BY <1>1, <1>2, <1>4, ReturnKeeps DEF StatusInv, TypeInv, TypeOK, Inside
  <1>7. Unedited'
    BY <1>2, <1>5 DEF StatusInv, Unedited, Inside
  <1>8. AbilitiesFollow'
    <2> SUFFICES ASSUME edits = 0, ~ faulted' PROVE AbilitiesFollow'
      BY <1>2 DEF AbilitiesFollow
    <2>1. \A v \in Updaters \ {u} : up[v].pc \notin Inside
      BY <1>1, Alone DEF Inside
    <2>2. \A d \in Channels \ {c} : ability'[d] = ability[d] /\ ability[d] = Enabled(row[d])
      BY <1>1, <1>3, <1>4, <2>1 DEF StatusInv, TypeInv, TypeOK, AbilitiesFollow, Apart, Inside
    <2>3. ability'[c] = Enabled(row[c])
      BY <1>1, <1>3, <1>4 DEF StatusInv, TypeInv, TypeOK, AbilitiesFollow
    <2> QED BY <1>2, <1>5, <2>1, <2>2, <2>3 DEF AbilitiesFollow, Apart, Inside
  <1> QED BY <1>6, <1>7, <1>8 DEF StatusInv

-----------------------------------------------------------------------------
(* The callers, the administrator and the cache.                           *)

\* A call begins, of a goroutine that made none (or has ended one): nobody enters.
LEMMA BeginKeeps ==
    ASSUME StatusInv, NEW u \in Updaters, NEW x \in Calls,
           up' = [up EXCEPT ![u] = x],
           up[u].pc \notin Inside, x.pc \notin Inside,
           x.pc = "cache" => x.channel \in Channels /\ (x.channel \in MultiKey => x.key \in Keys),
           x.pc = "cache" /\ edits = 0 => (x.channel \in MultiKey => x.target = "auto"),
           u = Tester => (x.pc = "idle" \/ testPc' = "call"),
           u # Tester => (testPc' # "call" => testPc # "call"),
           testPc' \in {"idle", "loop", "call"}, ~ running => testPc' = "idle", todo' \subseteq todo,
           UNCHANGED <<row, ability, idm, index, lock, syncPc, snap, adminRow, edits, running, tests, faulted>>
    PROVE  StatusInv'
  <1>1. /\ up' \in [Updaters -> Calls] /\ up'[u] = x
        /\ \A v \in Updaters \ {u} : up'[v] = up[v]
    BY DEF StatusInv, TypeInv, TypeOK, Calls
  <1>2. TypeOK'
    BY <1>1 DEF StatusInv, TypeInv, TypeOK, Calls
  <1>3. CallsNamed'
    BY <1>1, TesterUpdates DEF StatusInv, TypeInv, CallsNamed, Inside
  <1>4. LockHeld'
    BY <1>1 DEF StatusInv, LockHeld
  <1>5. Unedited'
    BY <1>1 DEF StatusInv, Unedited
  <1>6. Planned'
    BY <1>1 DEF StatusInv, Planned, Inside
  <1>7. AbilitiesFollow'
    BY <1>1 DEF StatusInv, AbilitiesFollow, Apart, Inside
  <1>8. IndexSound'
    BY DEF StatusInv, IndexSound
  <1> QED BY <1>2, <1>3, <1>4, <1>5, <1>6, <1>7, <1>8 DEF StatusInv, TypeInv

LEMMA DisableKeeps ==
    ASSUME StatusInv, NEW u \in Workers, NEW c \in Channels, NEW k \in Keys \cup {None},
           DisableChannel(u, c, k)
    PROVE  StatusInv'
  <1> DEFINE x == Call(c, k, "auto")
  <1>1. x \in Calls /\ x.pc = "cache" /\ x.channel = c /\ x.key = k /\ x.target = "auto"
    BY DEF Call, NoCall, Calls
  <1>2. u \in Updaters /\ u # Tester
    BY StatusAssumption DEF Updaters
  <1>3. c \in MultiKey => k \in Keys
    BY DEF DisableChannel
  <1>4. /\ up' = [up EXCEPT ![u] = x] /\ up[u].pc = "idle"
        /\ UNCHANGED <<row, ability, idm, index, lock, syncPc, snap, adminRow, edits,
                       running, testPc, todo, tests, faulted>>
    BY DEF DisableChannel
  <1>5. testPc \in {"idle", "loop", "call"} /\ (~ running => testPc = "idle")
    BY DEF StatusInv, TypeInv, TypeOK, CallsNamed
  <1> HIDE DEF x
  <1> QED BY <1>1, <1>2, <1>3, <1>4, <1>5, BeginKeeps DEF Inside

LEMMA TestKeeps ==
    ASSUME StatusInv, TestStart \/ TestNext \/ TestEnd \/ \E x \in todo : TestChannel(x)
    PROVE  StatusInv'
  <1>1. CASE TestStart
    <2>1. UNCHANGED <<row, ability, idm, index, lock, up, syncPc, snap, adminRow, edits>>
      BY <1>1 DEF TestStart
    <2>2. TypeOK'
      <3>1. (faulted' \in BOOLEAN) /\ (testPc' \in {"idle", "loop", "call"})
        BY <1>1 DEF StatusInv, TypeInv, TypeOK, TestStart
      <3>2. tests' \in 0 .. MaxTests
        <4>1. tests \in 0 .. MaxTests /\ tests' = tests + 1 /\ tests < MaxTests /\ MaxTests \in Nat
          BY <1>1, StatusAssumption DEF StatusInv, TypeInv, TypeOK, TestStart
        <4> QED BY <4>1
      <3>3. todo' \subseteq [channel : Channels, row : Rows] /\ running' = TRUE
        BY <1>1 DEF StatusInv, TypeInv, TypeOK, TestStart
      <3> QED BY <2>1, <3>1, <3>2, <3>3 DEF StatusInv, TypeInv, TypeOK
    <2>3. CallsNamed' /\ LockHeld'
      BY <1>1, <2>1 DEF StatusInv, TypeInv, TypeOK, CallsNamed, LockHeld, TestStart
    <2>4. Unedited'
      BY <1>1, <2>1 DEF StatusInv, Unedited, TestStart
    <2>5. (Planned /\ AbilitiesFollow /\ IndexSound)'
      BY <1>1, <2>1 DEF StatusInv, TypeInv, TypeOK, Planned, AbilitiesFollow, IndexSound, Apart, TestStart
    <2> QED BY <2>2, <2>3, <2>4, <2>5 DEF StatusInv, TypeInv
  <1>2. CASE TestNext
    <2>1. NoCall \in Calls /\ NoCall.pc = "idle"
      BY DEF NoCall, Calls
    <2>2. /\ up' = [up EXCEPT ![Tester] = NoCall] /\ up[Tester].pc = "done" /\ testPc' = "loop" /\ running
          /\ UNCHANGED <<row, ability, idm, index, lock, syncPc, snap, adminRow, edits,
                         running, todo, tests, faulted>>
      BY <1>2 DEF StatusInv, TypeInv, TypeOK, CallsNamed, TestNext
    <2> QED BY <2>1, <2>2, TesterUpdates, BeginKeeps DEF Inside
  <1>3. CASE TestEnd
    <2>1. testPc = "loop" /\ testPc' = "idle" /\ running' = FALSE
          /\ UNCHANGED <<row, ability, idm, index, lock, up, syncPc, snap, adminRow, edits, todo, tests, faulted>>
      BY <1>3 DEF TestEnd
    <2>2. TypeOK' /\ CallsNamed'
      BY <2>1 DEF StatusInv, TypeInv, TypeOK, CallsNamed
    <2> QED BY <2>1, <2>2 DEF StatusInv, TypeInv, LockHeld, Unedited, Planned, AbilitiesFollow, IndexSound, Apart
  <1>4. ASSUME NEW x \in todo, TestChannel(x) PROVE StatusInv'
    <2>1. /\ testPc = "loop" /\ todo' = todo \ {x} /\ up[Tester].pc = "idle" /\ running
          /\ x.channel \in Channels /\ x.row \in Rows
          /\ UNCHANGED <<row, ability, idm, index, lock, syncPc, snap, adminRow, edits, running, tests, faulted>>
      BY <1>4 DEF StatusInv, TypeInv, TypeOK, CallsNamed, TestChannel
    <2>2. CASE UNCHANGED <<up, testPc>>
      <3>1. TypeOK'
        BY <2>1, <2>2 DEF StatusInv, TypeInv, TypeOK
      <3>2. CallsNamed' /\ LockHeld'
        BY <2>1, <2>2 DEF StatusInv, TypeInv, CallsNamed, LockHeld
      <3>3. Unedited'
        BY <2>1, <2>2 DEF StatusInv, Unedited
      <3> QED BY <2>1, <2>2, <3>1, <3>2, <3>3 DEF StatusInv, TypeInv, Planned, AbilitiesFollow, IndexSound, Apart
    <2>3. ASSUME x.row.status = "auto", testPc' = "call", NEW k \in UsableKeys(x.channel, x.row),
                 up' = [up EXCEPT ![Tester] = Call(x.channel, k, "enabled")]
          PROVE  StatusInv'
      <3> DEFINE y == Call(x.channel, k, "enabled")
      <3>1. k \in Keys \cup {None} /\ (x.channel \in MultiKey => k \in Keys \ x.row.off)
        BY <2>3 DEF UsableKeys
      <3>2. edits = 0 => x.channel \notin MultiKey
        BY <2>3, <3>1 DEF StatusInv, Unedited, KeysAgree
      <3>3. y \in Calls /\ y.pc = "cache" /\ y.channel = x.channel /\ y.key = k /\ y.target = "enabled"
        BY <2>1, <3>1 DEF Call, NoCall, Calls
      <3>4. up' = [up EXCEPT ![Tester] = y]
        BY <2>3
      <3> HIDE DEF y
      <3> QED BY <2>1, <2>3, <3>1, <3>2, <3>3, <3>4, TesterUpdates, BeginKeeps DEF Inside
    <2> QED BY <1>4, <2>2, <2>3 DEF TestChannel
  <1> QED BY <1>1, <1>2, <1>3, <1>4

LEMMA AdminKeeps ==
    ASSUME StatusInv, AdminStep \/ \E c \in EditedChannels : AdminRead(c)
    PROVE  StatusInv'
  <1> Admin \in Syncers
    BY DEF Syncers
  <1>1. ASSUME NEW c \in EditedChannels, AdminRead(c) PROVE StatusInv'
    <2>1. c \in Channels /\ row[c] \in Rows
      BY StatusAssumption DEF StatusInv, TypeInv, TypeOK
    <2>2. PICK r \in Edited(c) : adminRow' = [channel |-> c, row |-> r]
      BY <1>1 DEF AdminRead
    <2>3. r \in Rows
      BY <2>1, <2>2 DEF Edited, Rows, Status
    <2>4. /\ edits' = edits + 1 /\ edits < MaxEdits /\ syncPc' = [syncPc EXCEPT ![Admin] = "write"]
          /\ UNCHANGED <<row, ability, idm, index, lock, up, snap, running, testPc, todo, tests, faulted>>
      BY <1>1 DEF AdminRead
    <2>5. edits' \in 0 .. MaxEdits /\ edits' # 0
      BY <2>4, StatusAssumption DEF StatusInv, TypeInv, TypeOK
    <2>6. adminRow' \in [channel : Channels, row : Rows]
      BY <2>1, <2>2, <2>3
    <2>7. TypeOK'
      BY <2>4, <2>5, <2>6 DEF StatusInv, TypeInv, TypeOK
    <2>8. CallsNamed' /\ LockHeld' /\ IndexSound'
      BY <2>4, <2>6 DEF StatusInv, TypeInv, TypeOK, CallsNamed, LockHeld, IndexSound
    <2> QED BY <2>5, <2>7, <2>8 DEF StatusInv, TypeInv, Unedited, Planned, AbilitiesFollow
  <1>2. CASE AdminStep
    <2>1. /\ edits # 0 /\ edits' = edits /\ adminRow \in [channel : Channels, row : Rows]
          /\ UNCHANGED <<idm, index, lock, up, snap, running, testPc, todo, tests, faulted>>
      BY <1>2 DEF StatusInv, TypeInv, TypeOK, CallsNamed, Unedited, AdminStep, AdminWrite, AdminReload, AdminAbility
    <2>2. TypeOK'
      BY <1>2, <2>1 DEF StatusInv, TypeInv, TypeOK, AdminStep, AdminWrite, AdminReload, AdminAbility
    <2>3. CallsNamed'
      BY <1>2, <2>1 DEF StatusInv, TypeInv, TypeOK, CallsNamed, AdminStep, AdminWrite, AdminReload, AdminAbility
    <2>4. LockHeld' /\ IndexSound'
      BY <2>1 DEF StatusInv, LockHeld, IndexSound
    <2> QED BY <2>1, <2>2, <2>3, <2>4 DEF StatusInv, TypeInv, Unedited, Planned, AbilitiesFollow
  <1> QED BY <1>1, <1>2

LEMMA SyncKeeps ==
    ASSUME StatusInv, NEW s \in Syncers, SyncRead(s) \/ SyncPublish(s)
    PROVE  StatusInv'
  <1>1. CASE SyncRead(s)
    <2>1. /\ snap' = [snap EXCEPT ![s] = row] /\ syncPc' = [syncPc EXCEPT ![s] = "publish"]
          /\ UNCHANGED <<row, ability, idm, index, lock, up, adminRow, edits, running, testPc, todo, tests, faulted>>
      BY <1>1 DEF SyncRead
    <2>2. TypeOK'
      BY <2>1 DEF StatusInv, TypeInv, TypeOK
    <2>3. CallsNamed'
      BY <2>1 DEF StatusInv, TypeInv, TypeOK, CallsNamed, Syncers
    <2>4. Unedited'
      BY <2>1 DEF StatusInv, TypeInv, TypeOK, Unedited, Syncers
    <2> QED BY <2>1, <2>2, <2>3, <2>4 DEF StatusInv, TypeInv, LockHeld, Planned, AbilitiesFollow, Apart, IndexSound
  <1>2. CASE SyncPublish(s)
    <2>1. /\ snap' = [snap EXCEPT ![s] = None] /\ syncPc' = [syncPc EXCEPT ![s] = "idle"]
          /\ idm' = snap[s] /\ index' = {c \in Channels : snap[s][c].status = "enabled"}
          /\ snap[s] \in [Channels -> Rows]
          /\ UNCHANGED <<row, ability, lock, up, adminRow, edits, running, testPc, todo, tests, faulted>>
      BY <1>2 DEF SyncPublish, PublishIdm, PublishIndex, StatusInv, TypeInv, TypeOK, CallsNamed
    <2>2. TypeOK'
      BY <2>1 DEF StatusInv, TypeInv, TypeOK
    <2>3. CallsNamed'
      BY <2>1 DEF StatusInv, TypeInv, TypeOK, CallsNamed, Syncers
    <2>4. Unedited'
      BY <2>1 DEF StatusInv, TypeInv, TypeOK, Unedited, Syncers
    <2>5. IndexSound'
      BY <2>1 DEF IndexSound, Enabled
    <2> QED BY <2>1, <2>2, <2>3, <2>4, <2>5 DEF StatusInv, TypeInv, LockHeld, Planned, AbilitiesFollow, Apart
  <1> QED BY <1>1, <1>2

-----------------------------------------------------------------------------
LEMMA NextStatusInv == StatusInv /\ [Next]_vars => StatusInv'
  <1> SUFFICES ASSUME StatusInv, [Next]_vars PROVE StatusInv'
    OBVIOUS
  <1>1. ASSUME NEW u \in Updaters, Up(u) PROVE StatusInv'
    BY <1>1, CacheKeeps, ReadKeeps, SaveKeeps, AbilityKeeps DEF Up
  <1>2. CASE UNCHANGED vars
    BY <1>2 DEF StatusInv, TypeInv, TypeOK, CallsNamed, LockHeld, Unedited, Planned,
                AbilitiesFollow, Apart, IndexSound, vars
  <1> QED BY <1>1, <1>2, DisableKeeps, TestKeeps, AdminKeeps, SyncKeeps DEF Next

LEMMA StatusInvImplies == StatusInv => TypeOK /\ SwitchedTogether
  <1> SUFFICES ASSUME StatusInv PROVE TypeOK /\ SwitchedTogether
    OBVIOUS
  <1>1. AbilityAgrees
    BY StatusAssumption DEF StatusInv, AbilityAgrees, AbilitiesFollow, Apart, LockHeld, Inside, Updaters
  <1>2. LastKeyOnly
    BY StatusAssumption DEF StatusInv, LastKeyOnly, Unedited, KeysAgree
  <1> QED BY <1>1, <1>2 DEF StatusInv, TypeInv, SwitchedTogether

\* Type correctness of the channel rows, their copies and the calls that change them.
THEOREM StatusTypeCorrect == Spec => []TypeOK
  BY InitStatusInv, NextStatusInv, StatusInvImplies, PTL DEF Spec

\* UpdateChannelStatus, called from any number of failing requests and the test loop,
\* writes the row, the abilities and the key statuses of a channel together, and no
\* rebuild of the cache puts a disabled channel back into the index.
THEOREM SwitchedTogetherThm == Spec => []SwitchedTogether
  BY InitStatusInv, NextStatusInv, StatusInvImplies, PTL DEF Spec

-----------------------------------------------------------------------------
(***************************************************************************)
(* Channel affinity.  The records are shared between groups and may be old,*)
(* so nothing is claimed of them: what is kept is that a request is given  *)
(* to a channel only after its own group and model were looked up, the     *)
(* remembered channel and every retry included, and that these two do not  *)
(* change while it is served.                                              *)
(***************************************************************************)

\* Every request has all the fields of a request.
Shaped(q) ==
    q = [pc |-> q.pc, model |-> q.model, group |-> q.group, val |-> q.val, meta |-> q.meta,
         pref |-> q.pref, first |-> q.first, ch |-> q.ch, tries |-> q.tries, ok |-> q.ok]
RequestShape == rq = [r \in Clients |-> rq[r]] /\ \A r \in Clients : Shaped(rq[r])

Allowed(q, c) == \E g \in GroupsAsked(q.group) : <<g, q.model>> \in Serves[c]

AffinityInv == RequestShape /\ \A r \in Clients : rq[r].pc = "serving" => Allowed(rq[r], rq[r].ch)

\* One request goes on to q.
LEMMA OneRequest ==
    ASSUME AffinityInv, NEW r \in Clients, NEW q, Shaped(q), rq' = [rq EXCEPT ![r] = q],
           q.pc = "serving" => Allowed(q, q.ch)
    PROVE  AffinityInv'
  <1>1. /\ rq' = [s \in Clients |-> rq'[s]]
        /\ \A s \in Clients : rq'[s] = IF s = r THEN q ELSE rq[s]
    BY DEF AffinityInv, RequestShape
  <1>2. RequestShape'
    BY <1>1 DEF AffinityInv, RequestShape, Shaped
  <1>3. \A s \in Clients : rq'[s].pc = "serving" => Allowed(rq'[s], rq'[s].ch)
    BY <1>1 DEF AffinityInv
  <1> QED BY <1>2, <1>3 DEF AffinityInv, Allowed

\* The record's other fields stay.
LEMMA ShapeOf ==
    ASSUME AffinityInv, NEW r \in Clients
    PROVE  Shaped(rq[r])
  BY DEF AffinityInv, RequestShape, Shaped

\* What a request becomes when some of its fields are set.
LEMMA SetFields ==
    ASSUME NEW p, Shaped(p)
    PROVE  \E at, model, group, val, meta, pref, first, ch, tries, ok :
              /\ p = [pc |-> at, model |-> model, group |-> group, val |-> val, meta |-> meta, pref |-> pref,
                      first |-> first, ch |-> ch, tries |-> tries, ok |-> ok]
              /\ at = p.pc /\ model = p.model /\ group = p.group /\ val = p.val /\ meta = p.meta
              /\ pref = p.pref /\ first = p.first /\ ch = p.ch /\ tries = p.tries /\ ok = p.ok
  BY DEF Shaped

\* A channel is taken for the request's own group and model.
LEMMA TakeKeeps ==
    ASSUME AffinityInv, NEW r \in Clients, NEW c, Allowed(rq[r], c), Take(r, c)
    PROVE  AffinityInv'
  <1>1. PICK p : p = rq[r]
    OBVIOUS
  <1>2. PICK q : q = [p EXCEPT !.pc = "serving", !.first = c, !.ch = c]
    OBVIOUS
  <1>3. q = [pc |-> "serving", model |-> p.model, group |-> p.group, val |-> p.val, meta |-> p.meta,
             pref |-> p.pref, first |-> c, ch |-> c, tries |-> p.tries, ok |-> p.ok]
    <2>1. Shaped(p)
      BY <1>1, ShapeOf
    <2>2. PICK at, model, group, val, meta, pref, first, ch, tries, okay :
           /\ p = [pc |-> at, model |-> model, group |-> group, val |-> val, meta |-> meta, pref |-> pref,
                   first |-> first, ch |-> ch, tries |-> tries, ok |-> okay]
           /\ at = p.pc /\ model = p.model /\ group = p.group /\ val = p.val /\ meta = p.meta
           /\ pref = p.pref /\ first = p.first /\ ch = p.ch /\ tries = p.tries /\ okay = p.ok
      BY <2>1, SetFields
    <2> QED BY <1>2, <2>2
  <1>4. Shaped(q) /\ q.pc = "serving" /\ q.ch = c /\ q.group = p.group /\ q.model = p.model
    BY <1>3 DEF Shaped
  <1>5. rq' = [rq EXCEPT ![r] = q]
    BY <1>1, <1>2 DEF Take, AffinityInv, RequestShape
  <1> QED BY <1>1, <1>4, <1>5, OneRequest DEF Allowed

LEMMA AnswerKeeps ==
    ASSUME AffinityInv, NEW r \in Clients, NEW ok \in BOOLEAN, Answer(r, ok)
    PROVE  AffinityInv'
  <1>1. PICK p : p = rq[r]
    OBVIOUS
  <1>2. PICK d : d = IF ok THEN p.ch ELSE NoChannel
    OBVIOUS
  <1>3. PICK q : q = [p EXCEPT !.pc = "answered", !.ok = ok, !.ch = d]
    OBVIOUS
  <1>4. q = [pc |-> "answered", model |-> p.model, group |-> p.group, val |-> p.val, meta |-> p.meta,
             pref |-> p.pref, first |-> p.first, ch |-> d, tries |-> p.tries, ok |-> ok]
    <2>1. Shaped(p)
      BY <1>1, ShapeOf
    <2>2. PICK at, model, group, val, meta, pref, first, ch, tries, okay :
           /\ p = [pc |-> at, model |-> model, group |-> group, val |-> val, meta |-> meta, pref |-> pref,
                   first |-> first, ch |-> ch, tries |-> tries, ok |-> okay]
           /\ at = p.pc /\ model = p.model /\ group = p.group /\ val = p.val /\ meta = p.meta
           /\ pref = p.pref /\ first = p.first /\ ch = p.ch /\ tries = p.tries /\ okay = p.ok
      BY <2>1, SetFields
    <2> QED BY <1>3, <2>2
  <1>5. Shaped(q) /\ q.pc = "answered"
    BY <1>4 DEF Shaped
  <1>6. rq' = [rq EXCEPT ![r] = q]
    BY <1>1, <1>2, <1>3 DEF Answer, AffinityInv, RequestShape
  <1> QED BY <1>5, <1>6, OneRequest

LEMMA ArriveKeeps == ASSUME AffinityInv, NEW r \in Clients, Arrive(r) PROVE AffinityInv'
  <1>1. PICK m \in AffineModels, g \in Asked, v \in Values :
           rq' = [rq EXCEPT ![r] = [Idle EXCEPT !.pc = "arrived", !.model = m, !.group = g, !.val = v]]
    BY DEF Arrive
  <1>2. PICK q : q = [Idle EXCEPT !.pc = "arrived", !.model = m, !.group = g, !.val = v]
    OBVIOUS
  <1>3. q = [pc |-> "arrived", model |-> m, group |-> g, val |-> v, meta |-> NoMeta, pref |-> NoChannel,
             first |-> NoChannel, ch |-> NoChannel, tries |-> 0, ok |-> FALSE]
    BY <1>2 DEF Idle
  <1>4. Shaped(q) /\ q.pc = "arrived"
    BY <1>3 DEF Shaped
  <1> QED BY <1>1, <1>2, <1>4, OneRequest

LEMMA PreferredKeeps ==
    ASSUME AffinityInv, NEW r \in Clients, GetPreferredChannelByAffinity(r)
    PROVE  AffinityInv'
  <1>1. PICK p : p = rq[r]
    OBVIOUS
  <1>2. PICK n, c : rq' = [rq EXCEPT ![r].pc = "preferred", ![r].meta = n, ![r].pref = c]
    BY DEF GetPreferredChannelByAffinity
  <1>3. PICK q : q = [p EXCEPT !.pc = "preferred", !.meta = n, !.pref = c]
    OBVIOUS
  <1>4. q = [pc |-> "preferred", model |-> p.model, group |-> p.group, val |-> p.val, meta |-> n,
             pref |-> c, first |-> p.first, ch |-> p.ch, tries |-> p.tries, ok |-> p.ok]
    <2>1. Shaped(p)
      BY <1>1, ShapeOf
    <2>2. PICK at, model, group, val, meta, pref, first, ch, tries, okay :
           /\ p = [pc |-> at, model |-> model, group |-> group, val |-> val, meta |-> meta, pref |-> pref,
                   first |-> first, ch |-> ch, tries |-> tries, ok |-> okay]
           /\ at = p.pc /\ model = p.model /\ group = p.group /\ val = p.val /\ meta = p.meta
           /\ pref = p.pref /\ first = p.first /\ ch = p.ch /\ tries = p.tries /\ okay = p.ok
      BY <2>1, SetFields
    <2> QED BY <1>3, <2>2
  <1>5. Shaped(q) /\ q.pc = "preferred"
    BY <1>4 DEF Shaped
  <1>6. rq' = [rq EXCEPT ![r] = q]
    BY <1>1, <1>2, <1>3 DEF AffinityInv, RequestShape
  <1> QED BY <1>5, <1>6, OneRequest

LEMMA DistributeKeeps == ASSUME AffinityInv, NEW r \in Clients, DistributePreferred(r) PROVE AffinityInv'
  <1>1. \A c : EnabledFor(c, rq[r]) => Allowed(rq[r], c)
    BY DEF EnabledFor, Allowed
  <1>2. Answer(r, FALSE) \/ \E c : EnabledFor(c, rq[r]) /\ Take(r, c)
    BY DEF DistributePreferred
  <1> QED BY <1>1, <1>2, AnswerKeeps, TakeKeeps

LEMMA AttemptKeeps == ASSUME AffinityInv, NEW r \in Clients, AffineAttempt(r) PROVE AffinityInv'
  <1>1. \/ Answer(r, TRUE) \/ Answer(r, FALSE)
        \/ \E c : EnabledFor(c, rq[r]) /\ rq' = [rq EXCEPT ![r].ch = c, ![r].tries = @ + 1]
    BY DEF AffineAttempt
  <1>2. rq[r].pc = "serving"
    BY DEF AffineAttempt
  <1>3. ASSUME NEW c, EnabledFor(c, rq[r]), rq' = [rq EXCEPT ![r].ch = c, ![r].tries = @ + 1]
        PROVE  AffinityInv'
    <2>1. PICK p : p = rq[r]
      OBVIOUS
    <2>2. PICK q : q = [p EXCEPT !.ch = c, !.tries = p.tries + 1]
      OBVIOUS
    <2>3. q = [pc |-> p.pc, model |-> p.model, group |-> p.group, val |-> p.val, meta |-> p.meta,
               pref |-> p.pref, first |-> p.first, ch |-> c, tries |-> p.tries + 1, ok |-> p.ok]
      <3>1. Shaped(p)
        BY <2>1, ShapeOf
      <3>2. PICK at, model, group, val, meta, pref, first, ch, tries, okay :
           /\ p = [pc |-> at, model |-> model, group |-> group, val |-> val, meta |-> meta, pref |-> pref,
                   first |-> first, ch |-> ch, tries |-> tries, ok |-> okay]
           /\ at = p.pc /\ model = p.model /\ group = p.group /\ val = p.val /\ meta = p.meta
           /\ pref = p.pref /\ first = p.first /\ ch = p.ch /\ tries = p.tries /\ okay = p.ok
        BY <3>1, SetFields
      <3> QED BY <2>2, <3>2
    <2>4. Shaped(q) /\ q.ch = c /\ q.group = p.group /\ q.model = p.model
      BY <2>3 DEF Shaped
    <2>5. rq' = [rq EXCEPT ![r] = q]
      BY <1>3, <2>1, <2>2, <2>3, ShapeOf DEF AffinityInv, RequestShape, Shaped
    <2>6. Allowed(q, c)
      BY <1>3, <2>1, <2>4 DEF EnabledFor, Allowed
    <2> QED BY <2>4, <2>5, <2>6, OneRequest
  <1> QED BY <1>1, <1>3, AnswerKeeps

LEMMA RecordKeeps == ASSUME AffinityInv, NEW r \in Clients, RecordChannelAffinity(r) PROVE AffinityInv'
  <1>1. Shaped(Idle) /\ Idle.pc = "idle"
    BY DEF Idle, Shaped
  <1>2. rq' = [rq EXCEPT ![r] = Idle]
    BY DEF RecordChannelAffinity
  <1> QED BY <1>1, <1>2, OneRequest

LEMMA AffinityStart == InitAffinity => AffinityInv
  <1> SUFFICES ASSUME InitAffinity PROVE AffinityInv
    OBVIOUS
  <1>1. Shaped(Idle) /\ Idle.pc = "idle"
    BY DEF Idle, Shaped
  <1>2. \A r \in Clients : rq[r] = Idle
    BY DEF InitAffinity
  <1>3. rq = [r \in Clients |-> rq[r]]
    BY DEF InitAffinity
  <1> QED BY <1>1, <1>2, <1>3 DEF AffinityInv, RequestShape, Shaped

LEMMA AffinityStep == AffinityInv /\ [NextAffinity]_afvars => AffinityInv'
  <1> SUFFICES ASSUME AffinityInv, [NextAffinity]_afvars PROVE AffinityInv'
    OBVIOUS
  <1>1. CASE UNCHANGED rq
    BY <1>1 DEF AffinityInv, RequestShape, Allowed
  <1>2. CASE Expire \/ ClearList \/ ClearDelete \/ ChannelChanges
    BY <1>1, <1>2 DEF Expire, ClearList, ClearDelete, ChannelChanges
  <1>3. CASE UNCHANGED afvars
    BY <1>1, <1>3 DEF afvars
  <1> QED BY <1>2, <1>3, ArriveKeeps, PreferredKeeps, DistributeKeeps, AttemptKeeps, RecordKeeps
          DEF NextAffinity

\* Whatever the rules, however old the record a request finds and whoever made it, and
\* while channels go off and on between its attempts, Distribute and the retries give a
\* request only to channels that serve its own group and model.
THEOREM AffinityRespectsGroups == SpecAffinity => []AffinityKeepsGroups
  <1>1. AffinityInv => AffinityKeepsGroups
    BY DEF AffinityInv, Allowed, AffinityKeepsGroups
  <1> QED BY <1>1, AffinityStart, AffinityStep, PTL DEF SpecAffinity

=============================================================================
