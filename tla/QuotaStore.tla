----------------------------- MODULE QuotaStore -----------------------------
(***************************************************************************)
(* One quota counter (users.quota of a user, tokens.remain_quota of a      *)
(* token) and the three places its value lives in: the database row, the   *)
(* batch-update maps of every node (model/utils.go) and the Redis hash     *)
(* (model/user_cache.go, model/token_cache.go, common/redis.go).           *)
(*                                                                         *)
(* Increase/DecreaseUserQuota and Increase/DecreaseTokenQuota start a      *)
(* goroutine for the hash and then either update the row or add to the     *)
(* node's map.  The goroutine asks for the TTL of the key and updates the  *)
(* hash in a second round trip.  Readers that miss the hash read the row   *)
(* and fill the hash in a goroutine of their own.                          *)
(***************************************************************************)
EXTENDS Integers, FiniteSets

CONSTANTS
    Nodes,          \* processes of the deployment
    Calls,          \* quota changes, each made once
    Readers,        \* reads, each made once
    Deltas,         \* amounts: negative for Decrease, positive for Increase
    BatchNodes,     \* nodes with common.BatchUpdateEnabled
    Redis,          \* common.RedisEnabled
    Faults,         \* TRUE when a database update may fail
    Crashes,        \* TRUE when a node may stop and restart
    InitQuota,
    Absent          \* the Redis key does not exist

ASSUME StoreAssumption ==
    /\ Deltas \subseteq Int
    /\ BatchNodes \subseteq Nodes
    /\ Redis \in BOOLEAN
    /\ Faults \in BOOLEAN /\ Crashes \in BOOLEAN
    /\ InitQuota \in Int
    /\ Absent \notin Int

VARIABLES
    db,         \* the column of the row
    pending,    \* [Nodes]: batchUpdateStores[type][id]
    swapped,    \* [Nodes]: the value in the map batchUpdate took over
    cache,      \* the quota field of the hash, or Absent
    expires,    \* the key has a TTL
    callPc,     \* [Calls]: the cache goroutine of a change
    callNode, delta,
    readPc, readVal,    \* [Readers]: the goroutine that fills the hash
    issued,     \* history, [Nodes]: sum of the changes the callers were told of
    applied,    \* history, [Nodes]: what reached the row
    lost        \* history, [Nodes]: accepted changes that never will

vars == <<db, pending, swapped, cache, expires, callPc, callNode, delta, readPc, readVal,
          issued, applied, lost>>
hash  == <<cache, expires>>
calls == <<callPc, callNode, delta>>
reads == <<readPc, readVal>>

TypeOK ==
    /\ db \in Int
    /\ pending \in [Nodes -> Int] /\ swapped \in [Nodes -> Int]
    /\ cache \in Int \cup {Absent} /\ expires \in BOOLEAN
    /\ callPc \in [Calls -> {"idle", "ttl", "exec", "end"}]
    /\ callNode \in [Calls -> Nodes] /\ delta \in [Calls -> Int]
    /\ readPc \in [Readers -> {"idle", "fill", "end"}]
    /\ readVal \in [Readers -> Int]
    /\ issued \in [Nodes -> Int] /\ applied \in [Nodes -> Int]
    /\ lost \in [Nodes -> Int]

Init ==
    /\ db = InitQuota
    /\ pending = [n \in Nodes |-> 0] /\ swapped = [n \in Nodes |-> 0]
    /\ cache \in (IF Redis THEN {Absent, InitQuota} ELSE {Absent})
    /\ expires = (cache # Absent)
    /\ callPc = [c \in Calls |-> "idle"]
    /\ callNode \in [Calls -> Nodes]
    /\ delta = [c \in Calls |-> 0]
    /\ readPc = [x \in Readers |-> "idle"] /\ readVal = [x \in Readers |-> 0]
    /\ issued = [n \in Nodes |-> 0] /\ applied = [n \in Nodes |-> 0]
    /\ lost = [n \in Nodes |-> 0]

Put(f, i, v) == [f EXCEPT ![i] = v]
Add(f, i, v) == [f EXCEPT ![i] = @ + v]

\* Start of Increase/Decrease...Quota: the goroutine for the hash is spawned
\* whatever becomes of the database update.
Spawn(c, d) ==
    /\ callPc[c] = "idle"
    /\ callPc' = Put(callPc, c, IF Redis THEN "ttl" ELSE "end")
    /\ delta' = Put(delta, c, d)
    /\ UNCHANGED callNode

\* The change is recorded in the node's map; the caller is told it is done.
addNewRecord(c, d) ==
    /\ callNode[c] \in BatchNodes
    /\ Spawn(c, d)
    /\ pending' = Add(pending, callNode[c], d)
    /\ issued' = Add(issued, callNode[c], d)
    /\ UNCHANGED <<db, swapped, hash, reads, applied, lost>>

\* increaseUserQuota and friends: quota = quota + ? in one statement.
UpdateRow(c, d) ==
    /\ callNode[c] \notin BatchNodes
    /\ Spawn(c, d)
    /\ db' = db + d
    /\ issued' = Add(issued, callNode[c], d)
    /\ applied' = Add(applied, callNode[c], d)
    /\ UNCHANGED <<pending, swapped, hash, reads, lost>>

\* The statement fails and the caller is told; the hash is changed all the same.
UpdateRowFails(c, d) ==
    /\ callNode[c] \notin BatchNodes /\ Faults
    /\ Spawn(c, d)
    /\ UNCHANGED <<db, pending, swapped, hash, reads, issued, applied, lost>>

\* RedisHIncrBy, first round trip: nothing is done to a key without a TTL.
HasTTL == cache # Absent /\ expires
CacheTTL(c) ==
    /\ callPc[c] = "ttl"
    /\ callPc' = Put(callPc, c, IF HasTTL THEN "exec" ELSE "end")
    /\ UNCHANGED <<db, pending, swapped, hash, callNode, delta, reads, issued,
                   applied, lost>>

\* RedisHIncrBy, second round trip: HINCRBY creates the field of a key that has
\* expired in between; EXPIRE gives it the TTL read before.
CacheIncr(c) ==
    /\ callPc[c] = "exec"
    /\ cache' = (IF cache = Absent THEN 0 ELSE cache) + delta[c]
    /\ expires' = TRUE
    /\ callPc' = Put(callPc, c, "end")
    /\ UNCHANGED <<db, pending, swapped, callNode, delta, reads, issued, applied,
                   lost>>

\* GetUserCache / GetTokenByKey miss the hash and read the row.
ReadRow(x) ==
    /\ readPc[x] = "idle"
    /\ Redis /\ cache = Absent
    /\ readVal' = Put(readVal, x, db)
    /\ readPc' = Put(readPc, x, "fill")
    /\ UNCHANGED <<db, pending, swapped, hash, calls, issued, applied, lost>>

\* updateUserCache / cacheSetToken in the goroutine of the reader: RedisHSetObj
\* writes every field and sets the expiration.
FillCache(x) ==
    /\ readPc[x] = "fill"
    /\ cache' = readVal[x] /\ expires' = TRUE
    /\ readPc' = Put(readPc, x, "end")
    /\ UNCHANGED <<db, pending, swapped, calls, readVal, issued, applied, lost>>

\* The TTL of the key runs out.  No update of the hash extends it.
ExpireCache ==
    /\ cache # Absent /\ expires
    /\ cache' = Absent /\ expires' = FALSE
    /\ UNCHANGED <<db, pending, swapped, calls, reads, issued, applied, lost>>

\* batchUpdate takes the map over and installs an empty one under the lock ...
BatchSwap_CreditsOnly(n) ==
    /\ pending[n] > 0 /\ swapped[n] = 0
    /\ swapped' = Put(swapped, n, pending[n])
    /\ pending' = Put(pending, n, 0)
    /\ UNCHANGED <<db, hash, calls, reads, issued, applied, lost>>
BatchSwap(n) ==
    /\ pending[n] # 0 /\ swapped[n] = 0
    /\ swapped' = Put(swapped, n, pending[n])
    /\ pending' = Put(pending, n, 0)
    /\ UNCHANGED <<db, hash, calls, reads, issued, applied, lost>>

\* ... and applies it without the lock.
BatchApply_LateReset(n) ==
    /\ swapped[n] # 0
    /\ db' = db + swapped[n]
    /\ applied' = Add(applied, n, swapped[n])
    /\ swapped' = Put(swapped, n, 0)
    /\ pending' = Put(pending, n, 0)
    /\ UNCHANGED <<hash, calls, reads, issued, lost>>
BatchApply(n) ==
    /\ swapped[n] # 0
    /\ db' = db + swapped[n]
    /\ applied' = Add(applied, n, swapped[n])
    /\ swapped' = Put(swapped, n, 0)
    /\ UNCHANGED <<pending, hash, calls, reads, issued, lost>>

\* The update fails: the error is logged and the value is gone.
BatchApplyFails(n) ==
    /\ Faults /\ swapped[n] # 0
    /\ lost' = Add(lost, n, swapped[n])
    /\ swapped' = Put(swapped, n, 0)
    /\ UNCHANGED <<db, pending, hash, calls, reads, issued, applied>>

\* A node stops: its maps and its goroutines are gone.
Crash(n) ==
    /\ Crashes
    /\ lost' = Add(lost, n, pending[n] + swapped[n])
    /\ pending' = Put(pending, n, 0)
    /\ swapped' = Put(swapped, n, 0)
    /\ callPc' = [c \in Calls |->
                    IF callNode[c] = n /\ callPc[c] # "idle" THEN "end" ELSE callPc[c]]
    /\ UNCHANGED <<db, hash, callNode, delta, reads, issued, applied>>

Goroutines ==
    \/ \E c \in Calls : CacheTTL(c) \/ CacheIncr(c)
    \/ \E x \in Readers : FillCache(x)

Batcher(n) == BatchSwap(n) \/ BatchApply(n) \/ BatchApplyFails(n)

Next ==
    \/ \E c \in Calls, d \in Deltas :
         addNewRecord(c, d) \/ UpdateRow(c, d) \/ UpdateRowFails(c, d)
    \/ \E x \in Readers : ReadRow(x)
    \/ Goroutines
    \/ ExpireCache
    \/ \E n \in Nodes : Batcher(n) \/ Crash(n)

\* Goroutines run, the batch loop wakes up every BatchUpdateInterval and Redis
\* expires the key.  Nothing makes a client call or read.
Fairness ==
    /\ WF_vars(Goroutines)
    /\ \A n \in Nodes : WF_vars(Batcher(n))
    /\ WF_vars(ExpireCache)

Spec == Init /\ [][Next]_vars /\ Fairness

-----------------------------------------------------------------------------
(* Properties.                                                             *)

\* No change is lost or counted twice between a node's map, the map the batch
\* loop took over and the row, except by a failed update or a stopped node.
BatchBooks ==
    \A n \in Nodes :
        issued[n] = pending[n] + swapped[n] + applied[n] + lost[n]

\* The changes the callers were told of reach the row, unless an update failed or the
\* node stopped.  And however changes, refills and expiry interleave (a refill may write
\* a row value older than changes already made, a change may hit a key that has just
\* expired), the hash does not stay wrong: in the end it is absent or equal to the row.
StoreConverges ==
    <>[](/\ \A n \in Nodes : issued[n] = applied[n] + lost[n]
         /\ cache \in {Absent, db})

=============================================================================
