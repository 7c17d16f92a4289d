---------------------------- MODULE ChannelTable ----------------------------
(***************************************************************************)
(* The channels and abilities tables under the administrator's handlers     *)
(* (controller/channel.go, model/channel.go, model/ability.go), and the     *)
(* cache rebuilt from both (model/channel_cache.go, main.go).  Most         *)
(* handlers write the channels first and the abilities in a later           *)
(* statement, and either may fail; InitChannelCache reads the two tables    *)
(* one after the other, and panics when an enabled channel has a group that *)
(* no ability has: under HTTP the panic is recovered, in the periodic       *)
(* synchronisation it ends the process.                                     *)
(* A channel serves one model here, so an ability is a channel's group.     *)
(***************************************************************************)
EXTENDS Naturals, FiniteSets

CONSTANTS
    MaxChannels,    \* ids are handed out once, 1 .. MaxChannels
    ChannelGroups,  \* values of channels.group: sets of groups
    Tags,           \* "" is no tag
    MaxHandlers,    \* bound on the administrator's requests
    MaxFixes        \* bound on the repairs asked for

VARIABLES
    rows,       \* table channels: [ids -> [on, groups, tag]]
    abilities,  \* table abilities: [id, group, on, tag]
    nextId,
    handler,    \* the handler between its two writes
    fix,        \* FixAbility in progress
    init,       \* calls of InitChannelCache in progress: [{"loop", "handler", "fix"}]
    tableIndex, \* group2model2channels: <<group, id>>
    alive,      \* the process runs
    handlers, fixes

ctvars == <<rows, abilities, nextId, handler, fix, init, tableIndex, alive, handlers, fixes>>

NoHandler == [op |-> "none"]
NoFix == [pc |-> "idle", todo |-> <<>>, calm |-> TRUE, failed |-> FALSE]
NoInit == [pc |-> "idle", rows |-> <<>>]

(* AddAbilities: one ability per group of the channel, with its status and tag. *)
AbilitiesOf(id, r) == {[id |-> id, group |-> g, on |-> r.on, tag |-> r.tag] : g \in r.groups}

Derived(rs) == UNION {AbilitiesOf(id, rs[id]) : id \in DOMAIN rs}
Without(ids) == {a \in abilities : a.id \notin ids}

(* What InitChannelCache builds, and when it cannot: the inner map of a     *)
(* group exists only if some ability has the group.                         *)
IndexOf(rs) == {p \in (UNION {rs[id].groups : id \in DOMAIN rs}) \X DOMAIN rs :
                   rs[p[2]].on /\ p[1] \in rs[p[2]].groups}
Panics(rs) == \E p \in IndexOf(rs) : ~\E a \in abilities : a.group = p[1]

InitTable ==
    /\ rows = [id \in {1} |-> [on |-> TRUE, groups |-> CHOOSE g \in ChannelGroups : TRUE, tag |-> ""]]
    /\ abilities = Derived(rows) /\ tableIndex = IndexOf(rows)
    /\ nextId = 2 /\ handler = NoHandler /\ fix = NoFix
    /\ init = [k \in {"loop", "handler", "fix"} |-> NoInit]
    /\ alive = TRUE /\ handlers = 0 /\ fixes = 0

(* A handler begins, unless validateChannel refuses the request, and a      *)
(* repair in progress is disturbed from here on.                            *)
Enter ==
    /\ alive /\ handler = NoHandler /\ init["handler"].pc = "idle" /\ handlers < MaxHandlers
    /\ handlers' = handlers + 1
    /\ fix' = IF fix.pc = "idle" THEN fix ELSE [fix EXCEPT !.calm = FALSE]
    /\ UNCHANGED <<tableIndex, alive, fixes>>
Begin == Enter /\ UNCHANGED nextId

(* The handler is done and calls InitChannelCache, or fails without it. *)
Refresh == handler' = NoHandler /\ init' = [init EXCEPT !["handler"].pc = "start"]
Failed == handler' = NoHandler /\ UNCHANGED init

(* AddChannel and CopyChannel: row and abilities in one transaction; only   *)
(* the copy refreshes the cache.                                            *)
BatchInsertChannels ==
    /\ Enter /\ nextId <= MaxChannels
    /\ \E g \in ChannelGroups, t \in Tags, copied \in BOOLEAN :
        LET r == IF copied /\ rows # <<>> THEN rows[CHOOSE id \in DOMAIN rows : TRUE]
                 ELSE [on |-> TRUE, groups |-> g, tag |-> t]
        IN /\ rows' = [id \in DOMAIN rows \cup {nextId} |-> IF id = nextId THEN r ELSE rows[id]]
           /\ abilities' = abilities \cup AbilitiesOf(nextId, r)
           /\ IF copied THEN Refresh ELSE Failed
    /\ nextId' = nextId + 1

(* Channel.Delete: the row first, its abilities next. *)
DeleteChannel(id) ==
    /\ Begin /\ id \in DOMAIN rows
    /\ rows' = [i \in DOMAIN rows \ {id} |-> rows[i]]
    /\ handler' = [op |-> "delete", id |-> id]
    /\ UNCHANGED <<abilities, init>>

(* DeleteDisabledChannel deletes rows only. *)
DeleteDisabledChannel ==
    /\ Begin
    /\ rows' = [id \in {i \in DOMAIN rows : rows[i].on} |-> rows[id]]
    /\ Refresh /\ UNCHANGED abilities

(* BatchDeleteChannels: one transaction. *)
BatchDeleteChannels(ids) ==
    /\ Begin /\ ids # {}
    /\ rows' = [id \in DOMAIN rows \ ids |-> rows[id]]
    /\ abilities' = Without(ids)
    /\ Refresh

(* EnableChannelByTag, DisableChannelByTag: the rows by their tag, then the *)
(* abilities by theirs.                                                     *)
SetStatusByTag(t, on) ==
    /\ Begin
    /\ rows' = [id \in DOMAIN rows |-> IF rows[id].tag = t THEN [rows[id] EXCEPT !.on = on] ELSE rows[id]]
    /\ handler' = [op |-> "tagStatus", tag |-> t, on |-> on]
    /\ UNCHANGED <<abilities, init>>

(* EditChannelByTag: with new groups the abilities of every channel that    *)
(* has the new tag are made again, without them the abilities of the old    *)
(* tag are retagged.                                                        *)
EditChannelByTag(t, newTag, groups) ==
    /\ Begin
    /\ rows' = [id \in DOMAIN rows |->
                  IF rows[id].tag # t THEN rows[id]
                  ELSE [rows[id] EXCEPT !.tag = newTag, !.groups = IF groups = {} THEN @ ELSE groups]]
    /\ handler' = IF groups = {} THEN [op |-> "retag", tag |-> t, new |-> newTag]
                  ELSE [op |-> "reread", tag |-> newTag]
    /\ UNCHANGED <<abilities, init>>

(* BatchSetChannelTag: the channels are read again outside the transaction, *)
(* so their abilities are made again with the old tag.                      *)
BatchSetChannelTag(ids, t) ==
    /\ Begin /\ ids # {}
    /\ rows' = [id \in DOMAIN rows |-> IF id \in ids THEN [rows[id] EXCEPT !.tag = t] ELSE rows[id]]
    /\ abilities' = Without(ids \cap DOMAIN rows)
                    \cup UNION {AbilitiesOf(id, rows[id]) : id \in ids \cap DOMAIN rows}
    /\ Refresh

(* Channel.Update: the row, a second read of it, the abilities of what was  *)
(* read.                                                                    *)
UpdateChannel(id, on, groups) ==
    /\ Begin /\ id \in DOMAIN rows
    /\ rows' = [rows EXCEPT ![id].on = on, ![id].groups = groups]
    /\ handler' = [op |-> "reload", id |-> id]
    /\ UNCHANGED <<abilities, init>>

(* The handler's second statement; a rewrite is UpdateAbilities of the      *)
(* channels as they were read.                                              *)
HandlerWrites ==
    /\ alive /\ handler.op \in {"delete", "tagStatus", "retag", "rewrite"}
    /\ abilities' =
        CASE handler.op = "delete" -> Without({handler.id})
          [] handler.op = "tagStatus" ->
                {IF a.tag = handler.tag THEN [a EXCEPT !.on = handler.on] ELSE a : a \in abilities}
          [] handler.op = "retag" ->
                {IF a.tag = handler.tag THEN [a EXCEPT !.tag = handler.new] ELSE a : a \in abilities}
          [] handler.op = "rewrite" -> Without(DOMAIN handler.rows) \cup Derived(handler.rows)
    /\ Refresh
    /\ UNCHANGED <<rows, nextId, fix, tableIndex, alive, handlers, fixes>>

HandlerReads ==
    /\ alive /\ handler.op \in {"reload", "reread"}
    /\ LET ids == IF handler.op = "reload" THEN {handler.id} \cap DOMAIN rows
                  ELSE {id \in DOMAIN rows : rows[id].tag = handler.tag}
       IN handler' = [op |-> "rewrite", rows |-> [id \in ids |-> rows[id]]]
    /\ UNCHANGED <<rows, abilities, nextId, fix, init, tableIndex, alive, handlers, fixes>>

(* The second statement fails: the handler answers with the error. *)
HandlerFails ==
    /\ alive /\ handler # NoHandler /\ Failed
    /\ UNCHANGED <<rows, abilities, nextId, fix, tableIndex, alive, handlers, fixes>>

\* The abilities are repaired channel by channel, nothing else is removed.
FixWithoutTruncate ==
    /\ alive /\ fix.pc = "idle" /\ fixes < MaxFixes /\ init["fix"].pc = "idle"
    /\ fix' = [NoFix EXCEPT !.pc = "read", !.calm = (handler = NoHandler)]
    /\ fixes' = fixes + 1
    /\ UNCHANGED <<rows, abilities, nextId, handler, init, tableIndex, alive, handlers>>

(* FixAbility, one at a time (fixLock.TryLock). *)
FixTruncate ==
    /\ alive /\ fix.pc = "idle" /\ fixes < MaxFixes /\ init["fix"].pc = "idle"
    /\ abilities' = {}
    /\ fix' = [NoFix EXCEPT !.pc = "read", !.calm = (handler = NoHandler)]
    /\ fixes' = fixes + 1
    /\ UNCHANGED <<rows, nextId, handler, init, tableIndex, alive, handlers>>

FixRead ==
    /\ alive /\ fix.pc = "read"
    /\ fix' = IF rows = <<>> THEN NoFix ELSE [fix EXCEPT !.pc = "add", !.todo = rows]
    /\ abilities' = Without(DOMAIN rows)
    /\ UNCHANGED <<rows, nextId, handler, init, tableIndex, alive, handlers, fixes>>

(* The abilities of one channel are added; those already there stay         *)
(* (OnConflict DoNothing).  A failure is counted and the loop goes on.      *)
FixAdd ==
    /\ alive /\ fix.pc = "add" /\ fix.todo # <<>>
    /\ LET id == CHOOSE i \in DOMAIN fix.todo : \A j \in DOMAIN fix.todo : i <= j
           new == {a \in AbilitiesOf(id, fix.todo[id]) :
                     ~\E b \in abilities : b.id = id /\ b.group = a.group}
           rest == [i \in DOMAIN fix.todo \ {id} |-> fix.todo[i]]
       IN \/ abilities' = abilities \cup new /\ fix' = [fix EXCEPT !.todo = rest]
          \/ UNCHANGED abilities /\ fix' = [fix EXCEPT !.todo = rest, !.failed = TRUE]
    /\ UNCHANGED <<rows, nextId, handler, init, tableIndex, alive, handlers, fixes>>

FixEnd ==
    /\ alive /\ fix.pc = "add" /\ fix.todo = <<>>
    /\ fix' = NoFix /\ init' = [init EXCEPT !["fix"].pc = "start"]
    /\ UNCHANGED <<rows, abilities, nextId, handler, tableIndex, alive, handlers, fixes>>

(* InitChannelCache: the periodic one starts by itself. *)
InitReadsRows(k) ==
    /\ alive /\ init[k].pc = IF k = "loop" THEN "idle" ELSE "start"
    /\ init' = [init EXCEPT ![k] = [pc |-> "rows", rows |-> rows]]
    /\ UNCHANGED <<rows, abilities, nextId, handler, fix, tableIndex, alive, handlers, fixes>>

InitBuilds(k) ==
    /\ alive /\ init[k].pc = "rows" /\ ~Panics(init[k].rows)
    /\ tableIndex' = IndexOf(init[k].rows) /\ init' = [init EXCEPT ![k] = NoInit]
    /\ UNCHANGED <<rows, abilities, nextId, handler, fix, alive, handlers, fixes>>

(* gin's recovery answers 500 and the cache stays; the loop has none.  What *)
(* the process was doing is lost.                                           *)
InitPanics(k) ==
    /\ alive /\ init[k].pc = "rows" /\ Panics(init[k].rows)
    /\ IF k = "loop"
       THEN /\ alive' = FALSE /\ handler' = NoHandler /\ fix' = NoFix
            /\ init' = [x \in DOMAIN init |-> NoInit] /\ tableIndex' = {}
       ELSE init' = [init EXCEPT ![k] = NoInit] /\ UNCHANGED <<alive, handler, fix, tableIndex>>
    /\ UNCHANGED <<rows, abilities, nextId, handlers, fixes>>

\* The panic at the start is recovered, and nothing is repaired.
StartUnrepaired ==
    /\ ~alive /\ alive' = TRUE
    /\ tableIndex' = IF Panics(rows) THEN tableIndex ELSE IndexOf(rows)
    /\ UNCHANGED <<rows, abilities, nextId, handler, fix, init, handlers, fixes>>

(* main: the first InitChannelCache; when it panics, FixAbility repairs the *)
(* abilities and calls it again.  No handler runs yet.                      *)
StartProcess ==
    /\ ~alive /\ alive' = TRUE
    /\ abilities' = IF Panics(rows) THEN Derived(rows) ELSE abilities
    /\ tableIndex' = IndexOf(rows)
    /\ UNCHANGED <<rows, nextId, handler, fix, init, handlers, fixes>>

Handle ==
    \/ BatchInsertChannels \/ DeleteDisabledChannel
    \/ \E id \in 1..MaxChannels :
        \/ DeleteChannel(id)
        \/ \E on \in BOOLEAN, g \in ChannelGroups : UpdateChannel(id, on, g)
    \/ \E ids \in SUBSET (1..MaxChannels) :
        BatchDeleteChannels(ids) \/ \E t \in Tags : BatchSetChannelTag(ids, t)
    \/ \E t \in Tags \ {""} :
        \/ \E on \in BOOLEAN : SetStatusByTag(t, on)
        \/ \E u \in Tags \ {""}, g \in ChannelGroups \cup {{}} : EditChannelByTag(t, u, g)

Advance ==
    \/ HandlerReads \/ HandlerWrites \/ FixRead \/ FixAdd \/ FixEnd \/ StartProcess
    \/ \E k \in DOMAIN init : InitReadsRows(k) \/ InitBuilds(k) \/ InitPanics(k)

NextTable == Handle \/ HandlerFails \/ FixTruncate \/ Advance

SpecTable == InitTable /\ [][NextTable]_ctvars

----------------------------------------------------------------------------
(* A repair that nothing disturbed and none of whose statements failed      *)
(* leaves exactly the abilities the channels imply: no orphan of a deleted  *)
(* channel, none missing, none with an outdated status or tag.              *)
FixRestores ==
    fix.pc = "add" /\ fix.todo = <<>> /\ fix.calm /\ ~fix.failed => abilities = Derived(rows)
=============================================================================
