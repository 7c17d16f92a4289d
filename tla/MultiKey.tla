------------------------------ MODULE MultiKey ------------------------------
(***************************************************************************)
(* A channel with several keys: the administrator's operations on its keys  *)
(* (ManageMultiKeys and UpdateChannel of controller/channel.go,             *)
(* Channel.Update of model/channel.go), the requests that take a key in     *)
(* turn or at random (GetNextEnabledKey), and the failing requests that     *)
(* disable the key they used (UpdateChannelStatus).  The statuses are kept  *)
(* by position in the key list, so whatever moves keys must move statuses.  *)
(* The row is read before the channel's polling lock is taken, the cache    *)
(* keeps a copy with the polling position (MemoryCacheEnabled).             *)
(***************************************************************************)
EXTENDS Naturals, Sequences, FiniteSets, SequencesExt

CONSTANTS
    FirstKeys,      \* the key list at the start
    NewKeys,        \* lists the administrator enters
    Flaky,          \* the keys that may fail
    Requests,       \* requests in progress at a time
    MaxOperations   \* bound on the administrator's operations

VARIABLES
    mode,       \* MultiKeyMode: "random" or "polling"
    row,        \* the channels row: [keys, off, on]; off: MultiKeyStatusList, by position
    cached,     \* channelsIDM: [keys, off, next]
    oper,       \* the administrator's operation
    using,      \* the key each request uses, "" without one
    worker,     \* UpdateChannelStatus in progress
    operations,
    failed, manual, \* history: the keys that failed, the keys the administrator disabled
    carried,    \* history: statuses were left to keys they were not meant for
    picks       \* history: the latest positions picked since the enabled keys changed

mkvars == <<mode, row, cached, oper, using, worker, operations, failed, manual, carried, picks>>

NoOper == [pc |-> "idle", act |-> "", arg |-> 0, seen |-> <<>>]
NoWorker == [pc |-> "idle", key |-> "", seen |-> <<>>]
Empty == [i \in {} |-> ""]

InitKeys ==
    /\ mode \in {"random", "polling"}
    /\ row = [keys |-> FirstKeys, off |-> Empty, on |-> TRUE]
    /\ cached = [keys |-> FirstKeys, off |-> Empty, next |-> 1]
    /\ oper = NoOper /\ using = [r \in Requests |-> ""] /\ worker = NoWorker /\ operations = 0
    /\ failed = {} /\ manual = {} /\ carried = FALSE /\ picks = <<>>

Enabled(c) == {i \in DOMAIN c.keys : i \notin DOMAIN c.off}
Without(off, i) == [j \in DOMAIN off \ {i} |-> off[j]]
With(off, i, s) == [j \in DOMAIN off \cup {i} |-> IF j = i THEN s ELSE off[j]]

(* The positions kept, in order, and the statuses moved along with them. *)
Kept(c, stay) == SelectSeq([i \in DOMAIN c.keys |-> i], LAMBDA i : i \in stay)
KeysAt(c, pos) == [n \in DOMAIN pos |-> c.keys[pos[n]]]

\* The remaining keys keep their old positions in the status list.
OffAt_Stale(c, pos) == [i \in {n \in DOMAIN c.off : n <= Len(pos)} |-> c.off[i]]

OffAt(c, pos) == [n \in {k \in DOMAIN pos : pos[k] \in DOMAIN c.off} |-> c.off[pos[n]]]

Leave(c, stay) ==
    LET pos == Kept(c, stay) IN [c EXCEPT !.keys = KeysAt(c, pos), !.off = OffAt(c, pos)]

(* Channel.Update: statuses beyond the key list are dropped; an empty key   *)
(* is a zero value that Updates leaves alone.                               *)
Update(new, old) ==
    LET keys == IF new.keys = <<>> THEN old.keys ELSE new.keys
    IN [keys |-> keys, on |-> new.on,
        off |-> [i \in DOMAIN new.off \cap DOMAIN keys |-> new.off[i]]]

(* "append": the new keys that are not in the list yet. *)
Append2(keys, more) ==
    keys \o SelectSeq(more, LAMBDA k : k \notin ToSet(keys))

(* What ManageMultiKeys and UpdateChannel make of the row they read. *)
Changed(c, act, arg) ==
    CASE act = "disable_key" -> [c EXCEPT !.off = With(c.off, arg, "manual")]
      [] act = "enable_key" -> [c EXCEPT !.off = Without(c.off, arg)]
      [] act = "enable_all_keys" -> [c EXCEPT !.off = Empty]
      [] act = "disable_all_keys" ->
            [c EXCEPT !.off = [i \in DOMAIN c.keys |-> IF i \in DOMAIN c.off THEN c.off[i] ELSE "manual"]]
      [] act = "delete_key" -> Leave(c, DOMAIN c.keys \ {arg})
      [] act = "delete_disabled_keys" ->
            Leave(c, {i \in DOMAIN c.keys : i \in Enabled(c) \/ c.off[i] # "auto"})
      [] act = "append" -> [c EXCEPT !.keys = Append2(c.keys, arg)]
      [] act = "replace" -> [c EXCEPT !.keys = arg]

Refused(c, act, arg) ==
    \/ act \in {"disable_key", "enable_key", "delete_key"} /\ arg \notin DOMAIN c.keys
    \/ act = "delete_key" /\ Len(c.keys) = 1
    \/ act = "disable_all_keys" /\ Enabled(c) = {}
    \/ act = "delete_disabled_keys" /\ ~\E i \in DOMAIN c.off : c.off[i] = "auto"

(* GetChannelById, before GetChannelPollingLock. *)
OperRead ==
    /\ oper.pc = "idle" /\ operations < MaxOperations
    /\ \E act \in {"disable_key", "enable_key", "delete_key", "enable_all_keys",
                   "disable_all_keys", "delete_disabled_keys", "append", "replace"} :
        \E arg \in IF act \in {"append", "replace"} THEN NewKeys
                   ELSE IF act \in {"disable_key", "enable_key", "delete_key"} THEN DOMAIN row.keys
                   ELSE {0} :
            oper' = [pc |-> "read", act |-> act, arg |-> arg, seen |-> row]
    /\ operations' = operations + 1
    /\ UNCHANGED <<mode, row, cached, using, worker, failed, manual, carried, picks>>

ManualAfter(c, act, arg) ==
    CASE act = "disable_key" -> manual \cup {c.keys[arg]}
      [] act = "disable_all_keys" -> manual \cup {c.keys[i] : i \in Enabled(c)}
      [] act = "enable_key" -> manual \ {c.keys[arg]}
      [] act = "enable_all_keys" -> {}
      [] OTHER -> manual

(* Under the polling lock: the changed row is saved and read again. *)
OperWrite ==
    /\ oper.pc = "read"
    /\ IF Refused(oper.seen, oper.act, oper.arg)
       THEN oper' = NoOper /\ UNCHANGED <<row, manual, carried>>
       ELSE LET new == Changed(oper.seen, oper.act, oper.arg) IN
            /\ row' = Update(new, row)
            /\ oper' = [NoOper EXCEPT !.pc = "saved"]
            /\ manual' = ManualAfter(oper.seen, oper.act, oper.arg)
            /\ carried' = (carried \/ row # oper.seen \/ new.keys = <<>>
                           \/ (oper.act = "replace" /\ DOMAIN row.off # {}))
    /\ UNCHANGED <<mode, cached, using, worker, operations, failed, picks>>

(* The positions picked are forgotten when the enabled keys change. *)
PicksAfter(new) == IF new.keys = cached.keys /\ new.off = cached.off THEN picks ELSE <<>>

(* InitChannelCache: the row as it is, the polling position of before. *)
InitChannelCache ==
    /\ cached' = [keys |-> row.keys, off |-> row.off, next |-> cached.next]
    /\ picks' = PicksAfter(row)

OperRefresh ==
    /\ oper.pc = "saved" /\ InitChannelCache /\ oper' = NoOper
    /\ UNCHANGED <<mode, row, using, worker, operations, failed, manual, carried>>

SyncKeys ==
    /\ InitChannelCache
    /\ UNCHANGED <<mode, row, oper, using, worker, operations, failed, manual, carried>>

(* GetNextEnabledKey; the lock is the administrator's between his save and  *)
(* his refresh.                                                             *)
GetNextEnabledKey(r) ==
    /\ using[r] = "" /\ oper.pc # "saved" /\ Enabled(cached) # {}
    /\ LET n == Len(cached.keys)
           start == IF cached.next > n THEN 1 ELSE cached.next
           turn(k) == ((start + k - 2) % n) + 1
           first == CHOOSE k \in 1..n : /\ turn(k) \in Enabled(cached)
                                        /\ \A j \in 1..(k - 1) : turn(j) \notin Enabled(cached)
       IN \E i \in IF mode = "polling" THEN {turn(first)} ELSE Enabled(cached) :
            /\ using' = [using EXCEPT ![r] = cached.keys[i]]
            /\ cached' = IF mode = "polling" THEN [cached EXCEPT !.next = (i % n) + 1] ELSE cached
            /\ picks' = IF mode = "random" THEN <<>>
                        ELSE LET p == Append(picks, i)   \* the last n - 1 and this one
                             IN SubSeq(p, IF Len(p) > n THEN Len(p) - n + 1 ELSE 1, Len(p))
    /\ UNCHANGED <<mode, row, oper, worker, operations, failed, manual, carried>>

Answered(r) ==
    /\ using[r] # "" /\ using' = [using EXCEPT ![r] = ""]
    /\ UNCHANGED <<mode, row, cached, oper, worker, operations, failed, manual, carried, picks>>

(* handlerMultiKeyUpdate: a key that is no longer in the list counts as the *)
(* first.                                                                   *)
PositionOf(c, k) ==
    IF k \in ToSet(c.keys) THEN CHOOSE i \in DOMAIN c.keys : c.keys[i] = k ELSE 1
handlerMultiKeyUpdate(c, k) == With(c.off, PositionOf(c, k), "auto")

(* A failing request disables its key: first in the cache, then, from a     *)
(* fresh copy of the row, in the database (without the key column).         *)
UpdateCached(r) ==
    /\ using[r] \in Flaky /\ worker = NoWorker /\ oper.pc # "saved"
    /\ failed' = failed \cup {using[r]}
    /\ cached' = [cached EXCEPT !.off = handlerMultiKeyUpdate(cached, using[r])]
    /\ picks' = PicksAfter(cached')
    /\ worker' = [NoWorker EXCEPT !.pc = "cached", !.key = using[r]]
    /\ using' = [using EXCEPT ![r] = ""]
    /\ UNCHANGED <<mode, row, oper, operations, manual, carried>>

UpdateRead ==
    /\ worker.pc = "cached"
    /\ worker' = IF row.on THEN [worker EXCEPT !.pc = "read", !.seen = row] ELSE NoWorker
    /\ UNCHANGED <<mode, row, cached, oper, using, operations, failed, manual, carried, picks>>

UpdateSave ==
    /\ worker.pc = "read"
    /\ LET off == handlerMultiKeyUpdate(worker.seen, worker.key)
       IN row' = [keys |-> row.keys, off |-> off,
                  on |-> Cardinality(DOMAIN off) < Len(worker.seen.keys)]
    /\ carried' = (carried \/ row # worker.seen \/ worker.key \notin ToSet(row.keys))
    /\ worker' = NoWorker
    /\ UNCHANGED <<mode, cached, oper, using, operations, failed, manual, picks>>

NextKeys ==
    \/ OperRead \/ OperWrite \/ OperRefresh \/ SyncKeys \/ UpdateRead \/ UpdateSave
    \/ \E r \in Requests : GetNextEnabledKey(r) \/ Answered(r) \/ UpdateCached(r)

----------------------------------------------------------------------------
(* However keys are added, deleted and moved, a key is only disabled        *)
(* automatically if it failed itself, and one the administrator disabled    *)
(* stays so.  Statuses reach other keys in four ways only, which `carried`  *)
(* records: a handler overtaken between its read and its save, a failed     *)
(* request whose key was removed meanwhile, a list replaced while statuses  *)
(* were set, and the deletion of disabled keys when all are.                *)
StatusesFollowKeys ==
    ~carried => \A i \in DOMAIN row.keys :
        /\ i \in DOMAIN row.off /\ row.off[i] = "auto" => row.keys[i] \in failed
        /\ row.keys[i] \in manual => i \in DOMAIN row.off

(* In polling mode the enabled keys take turns: no position comes again     *)
(* before every other enabled one had its turn, refreshes of the cache in   *)
(* between included.                                                        *)
EveryKeyItsTurn ==
    \A i, j \in DOMAIN picks :
        i < j /\ j - i < Cardinality(Enabled(cached)) => picks[i] # picks[j]

(* The list of keys may change under the requests that use it: statuses stay  *)
(* with their keys and the enabled keys keep taking turns.                    *)
KeysInOrder == StatusesFollowKeys /\ EveryKeyItsTurn
=============================================================================
