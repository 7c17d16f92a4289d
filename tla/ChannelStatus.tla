---------------------------- MODULE ChannelStatus ----------------------------
(***************************************************************************)
(* The status of upstream channels and its four copies: the channels row   *)
(* and the abilities rows in the database, channelsIDM and                 *)
(* group2model2channels in memory (model/channel.go, model/ability.go,     *)
(* model/channel_cache.go).  Requests that fail start a goroutine that     *)
(* disables the channel or one of its keys (service/channel.go), the test  *)
(* loop of controller/channel-test.go enables it again, the administrator  *)
(* edits it, and InitChannelCache rebuilds the cache from the database.    *)
(*                                                                         *)
(* UpdateChannelStatus holds channelStatusLock from start to end; the      *)
(* administrator's handlers and InitChannelCache do not take it.           *)
(* MemoryCacheEnabled is TRUE.  The key list of a channel does not change. *)
(***************************************************************************)
EXTENDS Naturals, FiniteSets

CONSTANTS
    Channels,
    MultiKey,       \* channels in multi-key mode
    Keys,           \* keys of a multi-key channel
    Workers,        \* goroutines started by failing requests, each runs once
    Tester,         \* the goroutine of testAllChannels
    Ticker,         \* SyncChannelCache
    Admin,          \* the administrator's handler
    Faults,         \* TRUE when a database statement may fail
    InitStatus,     \* statuses the channels may have at the start
    EditedChannels, \* the channels the administrator edits
    MaxEdits,       \* bound on the administrator's edits
    MaxTests,       \* bound on the test passes
    None

ASSUME StatusAssumption ==
    /\ MultiKey \subseteq Channels /\ EditedChannels \subseteq Channels
    /\ Keys # {} /\ IsFiniteSet(Keys)
    /\ Tester \notin Workers /\ Ticker # Admin
    /\ InitStatus \subseteq {"enabled", "manual", "auto"}
    /\ Faults \in BOOLEAN /\ MaxEdits \in Nat /\ MaxTests \in Nat
    /\ None \notin Channels \cup Workers \cup {Tester}

Status == {"enabled", "manual", "auto"}
Rows == [status : Status, off : SUBSET Keys]   \* off: keys in MultiKeyStatusList
Updaters == Workers \cup {Tester}
Syncers == {Ticker, Admin}

VARIABLES
    row,        \* [Channels]: the row of table channels
    ability,    \* [Channels]: abilities.enabled
    idm,        \* [Channels]: channelsIDM
    index,      \* the channels of group2model2channels
    lock,       \* holder of channelStatusLock
    up,         \* [Updaters]: a call of UpdateChannelStatus
    syncPc, snap,   \* [Syncers]: a call of InitChannelCache
    adminRow,   \* the row the administrator's handler is saving
    running,    \* testAllChannelsRunning
    testPc,     \* the goroutine of testAllChannels
    todo,       \* channels it has not tested yet, as it read them
    edits, tests,
    faulted     \* history: a database statement has failed

vars == <<row, ability, idm, index, lock, up, syncPc, snap, adminRow, running,
          testPc, todo, edits, tests, faulted>>
cacheVars == <<idm, index>>
syncVars == <<syncPc, snap, adminRow, edits>>
testVars == <<running, testPc, todo, tests, faulted>>
loopVars == <<running, testPc, todo, tests>>

NoCall == [pc |-> "idle", channel |-> None, key |-> None, target |-> "auto",
           row |-> None, ability |-> FALSE, ok |-> FALSE]

TypeOK ==
    /\ row \in [Channels -> Rows] /\ idm \in [Channels -> Rows]
    /\ ability \in [Channels -> BOOLEAN]
    /\ index \subseteq Channels
    /\ lock \in Updaters \cup {None}
    /\ up \in [Updaters ->
          [pc : {"idle", "cache", "read", "save", "ability", "done"},
           channel : Channels \cup {None}, key : Keys \cup {None},
           target : {"enabled", "auto"}, row : Rows \cup {None},
           ability : BOOLEAN, ok : BOOLEAN]]
    /\ syncPc \in [Syncers -> {"idle", "write", "reload", "ability", "read", "publish"}]
    /\ snap \in [Syncers -> [Channels -> Rows] \cup {None}]
    /\ adminRow \in [channel : Channels, row : Rows] \cup {None}
    /\ running \in BOOLEAN /\ testPc \in {"idle", "loop", "call"}
    /\ todo \subseteq [channel : Channels, row : Rows]
    /\ edits \in 0 .. MaxEdits /\ tests \in 0 .. MaxTests /\ faulted \in BOOLEAN

\* The process has started and built its cache.
Init ==
    /\ \E s \in [Channels -> InitStatus] :
          row = [c \in Channels |->
                   [status |-> s[c],
                    off |-> IF c \in MultiKey /\ s[c] = "auto" THEN Keys ELSE {}]]
    /\ ability = [c \in Channels |-> row[c].status = "enabled"]
    /\ idm = row
    /\ index = {c \in Channels : row[c].status = "enabled"}
    /\ lock = None
    /\ up = [u \in Updaters |-> NoCall]
    /\ syncPc = [s \in Syncers |-> "idle"] /\ snap = [s \in Syncers |-> None]
    /\ adminRow = None
    /\ running = FALSE /\ testPc = "idle" /\ todo = {}
    /\ edits = 0 /\ tests = 0 /\ faulted = FALSE

-----------------------------------------------------------------------------
(* UpdateChannelStatus(channelId, usingKey, status, reason).               *)

Call(c, k, target) ==
    [NoCall EXCEPT !.pc = "cache", !.channel = c, !.key = k, !.target = target]

\* One key is marked; the channel follows when no key is left.  Nothing here
\* returns a channel to "enabled".
handlerMultiKeyUpdate(r, k, target) ==
    LET off == IF target = "enabled" THEN r.off \ {k} ELSE r.off \cup {k}
    IN  [status |-> IF Cardinality(off) >= Cardinality(Keys) THEN "auto" ELSE r.status,
         off |-> off]

\* CacheUpdateChannelStatus on the index: a channel is taken out, never put in.
IndexAfter(c, target) == IF target = "enabled" THEN index ELSE index \ {c}

Return(u, success) ==
    /\ up' = [up EXCEPT ![u] = [NoCall EXCEPT !.pc = "done", !.ok = success,
                                             !.channel = up[u].channel]]
    /\ lock' = None

\* The lock, the cached channel and the early return when it has the status already.
UpCache(u) ==
    LET c == up[u].channel
        t == up[u].target
    IN  /\ up[u].pc = "cache" /\ lock = None
        /\ IF c \notin MultiKey /\ idm[c].status = t
           THEN Return(u, FALSE) /\ UNCHANGED cacheVars
           ELSE /\ lock' = u
                /\ up' = [up EXCEPT ![u].pc = "read"]
                /\ IF c \in MultiKey
                   THEN /\ idm' = [idm EXCEPT ![c] = handlerMultiKeyUpdate(@, up[u].key, t)]
                        /\ UNCHANGED index
                   ELSE /\ idm' = [idm EXCEPT ![c].status = t]
                        /\ index' = IndexAfter(c, t)
        /\ UNCHANGED <<row, ability, syncVars, testVars>>

\* What SaveWithoutKey will write: the row as it was read, with the change.
NewRow(r, c, k, t) ==
    IF c \in MultiKey THEN handlerMultiKeyUpdate(r, k, t) ELSE [r EXCEPT !.status = t]

\* The abilities are forgotten for a channel that is enabled again.
TouchesAbilities_Disable(r, c, k, t) == t # "enabled"

\* shouldUpdateAbilities
TouchesAbilities(r, c, k, t) ==
    c \in MultiKey => NewRow(r, c, k, t).status # r.status

\* GetChannelById and the second early return.
UpRead(u) ==
    LET c == up[u].channel
        t == up[u].target
        r == row[c]
    IN  /\ up[u].pc = "read"
        /\ \/ /\ r.status # t
              /\ up' = [up EXCEPT ![u].pc = "save",
                                  ![u].row = NewRow(r, c, up[u].key, t),
                                  ![u].ability = TouchesAbilities(r, c, up[u].key, t)]
              /\ UNCHANGED <<lock, faulted>>
           \/ r.status = t /\ Return(u, FALSE) /\ UNCHANGED faulted
           \/ Faults /\ Return(u, FALSE) /\ faulted' = TRUE
        /\ UNCHANGED <<row, ability, cacheVars, syncVars, loopVars>>

\* SaveWithoutKey writes every column.  The deferred ability update runs even when
\* the save failed.
UpSave(u) ==
    /\ up[u].pc = "save"
    /\ \E saved \in IF Faults THEN BOOLEAN ELSE {TRUE} :
        /\ row' = IF saved THEN [row EXCEPT ![up[u].channel] = up[u].row] ELSE row
        /\ IF up[u].ability
           THEN up' = [up EXCEPT ![u].pc = "ability", ![u].ok = saved] /\ UNCHANGED lock
           ELSE Return(u, saved)
        /\ faulted' = (faulted \/ ~ saved)
    /\ UNCHANGED <<ability, cacheVars, syncVars, loopVars>>

UpAbility(u) ==
    /\ up[u].pc = "ability"
    /\ \E saved \in IF Faults THEN BOOLEAN ELSE {TRUE} :
        /\ ability' = IF saved THEN [ability EXCEPT ![up[u].channel] = up[u].target = "enabled"]
                      ELSE ability
        /\ faulted' = (faulted \/ ~ saved)
    /\ Return(u, up[u].ok)
    /\ UNCHANGED <<row, cacheVars, syncVars, loopVars>>

Up(u) == UpCache(u) \/ UpRead(u) \/ UpSave(u) \/ UpAbility(u)

-----------------------------------------------------------------------------
(* Who calls it.                                                           *)

\* processChannelError: a request that failed on a channel starts a goroutine.  The
\* request may have chosen the channel long ago.
DisableChannel(u, c, k) ==
    /\ up[u].pc = "idle"
    /\ (c \in MultiKey) <=> (k # None)
    /\ up' = [up EXCEPT ![u] = Call(c, k, "auto")]
    /\ UNCHANGED <<row, ability, cacheVars, lock, syncVars, testVars>>

\* testAllChannels: the flag is taken, then the channels are read.  When the read
\* fails the function returns and no goroutine is started.
TestStart ==
    /\ ~ running /\ tests < MaxTests
    /\ tests' = tests + 1 /\ running' = TRUE
    /\ \/ /\ testPc' = "loop"
          /\ todo' = {[channel |-> c, row |-> row[c]] : c \in Channels}
          /\ UNCHANGED faulted
       \/ Faults /\ faulted' = TRUE /\ UNCHANGED <<testPc, todo>>
    /\ UNCHANGED <<row, ability, cacheVars, lock, up, syncVars>>

\* The key a test or a request uses: GetNextEnabledKey on the row it holds.
UsableKeys(c, r) == IF c \in MultiKey THEN Keys \ r.off ELSE {None}

\* One channel of the loop.  A channel that answers and was auto-disabled is enabled;
\* one that fails and was enabled is reported like a failing request (DisableChannel).
TestChannel(x) ==
    /\ testPc = "loop" /\ x \in todo
    /\ todo' = todo \ {x}
    /\ \/ /\ x.row.status = "auto"
          /\ \E k \in UsableKeys(x.channel, x.row) :
                up' = [up EXCEPT ![Tester] = Call(x.channel, k, "enabled")]
          /\ testPc' = "call"
       \/ UNCHANGED <<up, testPc>>
    /\ UNCHANGED <<row, ability, cacheVars, lock, syncVars, running, tests, faulted>>

\* EnableChannel returned (and told the administrator, when it was successful).
TestNext ==
    /\ testPc = "call" /\ up[Tester].pc = "done"
    /\ testPc' = "loop"
    /\ up' = [up EXCEPT ![Tester] = NoCall]
    /\ UNCHANGED <<row, ability, cacheVars, lock, syncVars, running, todo, tests, faulted>>

TestEnd ==
    /\ testPc = "loop" /\ todo = {}
    /\ testPc' = "idle" /\ running' = FALSE
    /\ UNCHANGED <<row, ability, cacheVars, lock, up, syncVars, todo, tests, faulted>>

-----------------------------------------------------------------------------
(* The administrator's handlers: UpdateChannel sets the status and writes  *)
(* the key list back as it was read; ManageMultiKeys changes the key list  *)
(* and writes the status back as it was read.                              *)

Edited(c) ==
    {[status |-> s, off |-> row[c].off] : s \in {"enabled", "manual"}}
    \cup (IF c \in MultiKey
          THEN {[status |-> row[c].status, off |-> o] :
                    o \in {row[c].off \cup {k} : k \in Keys} \cup {row[c].off \ {k} : k \in Keys}
                          \cup {{}, Keys}}
          ELSE {})

AdminRead(c) ==
    /\ syncPc[Admin] = "idle" /\ edits < MaxEdits /\ edits' = edits + 1
    /\ \E r \in Edited(c) : adminRow' = [channel |-> c, row |-> r]
    /\ syncPc' = [syncPc EXCEPT ![Admin] = "write"]
    /\ UNCHANGED <<row, ability, cacheVars, lock, up, snap, testVars>>

\* channel.Update(): Updates, then First, then UpdateAbilities.
AdminWrite ==
    /\ syncPc[Admin] = "write"
    /\ row' = [row EXCEPT ![adminRow.channel] = adminRow.row]
    /\ syncPc' = [syncPc EXCEPT ![Admin] = "reload"]
    /\ UNCHANGED <<ability, cacheVars, lock, up, snap, adminRow, edits, testVars>>

AdminReload ==
    /\ syncPc[Admin] = "reload"
    /\ adminRow' = [adminRow EXCEPT !.row = row[adminRow.channel]]
    /\ syncPc' = [syncPc EXCEPT ![Admin] = "ability"]
    /\ UNCHANGED <<row, ability, cacheVars, lock, up, snap, edits, testVars>>

\* UpdateAbilities deletes the channel's abilities and creates them anew.
AdminAbility ==
    /\ syncPc[Admin] = "ability"
    /\ ability' = [ability EXCEPT ![adminRow.channel] = adminRow.row.status = "enabled"]
    /\ syncPc' = [syncPc EXCEPT ![Admin] = "read"]
    /\ adminRow' = None
    /\ UNCHANGED <<row, cacheVars, lock, up, snap, edits, testVars>>

AdminStep == AdminWrite \/ AdminReload \/ AdminAbility

-----------------------------------------------------------------------------
(* InitChannelCache: read the tables, then publish under channelSyncLock.  *)

SyncRead(s) ==
    /\ syncPc[s] = "read" \/ (s = Ticker /\ syncPc[s] = "idle")
    /\ snap' = [snap EXCEPT ![s] = row]
    /\ syncPc' = [syncPc EXCEPT ![s] = "publish"]
    /\ UNCHANGED <<row, ability, cacheVars, lock, up, adminRow, edits, testVars>>

PublishIdm(s) == snap[s]

PublishIndex(s) == {c \in Channels : snap[s][c].status = "enabled"}

SyncPublish(s) ==
    /\ syncPc[s] = "publish"
    /\ idm' = PublishIdm(s) /\ index' = PublishIndex(s)
    /\ syncPc' = [syncPc EXCEPT ![s] = "idle"]
    /\ snap' = [snap EXCEPT ![s] = None]
    /\ UNCHANGED <<row, ability, lock, up, adminRow, edits, testVars>>

-----------------------------------------------------------------------------
Next ==
    \/ \E u \in Updaters : Up(u)
    \/ \E u \in Workers, c \in Channels, k \in Keys \cup {None} : DisableChannel(u, c, k)
    \/ TestStart \/ TestNext \/ TestEnd
    \/ \E x \in todo : TestChannel(x)
    \/ \E c \in EditedChannels : AdminRead(c)
    \/ AdminStep
    \/ \E s \in Syncers : SyncRead(s) \/ SyncPublish(s)

Spec == Init /\ [][Next]_vars

-----------------------------------------------------------------------------
(* Properties.                                                             *)

Enabled(r) == r.status = "enabled"

\* The abilities table, from which channels are chosen without the cache, says of a
\* channel what its row says whenever no status update is under way: the row and the
\* abilities are written in two statements, held together by channelStatusLock.
\* (A failed statement and the administrator's handlers, which do not take the lock,
\* break this.)
AbilityAgrees ==
    (lock = None /\ ~ faulted /\ edits = 0)
    => \A c \in Channels : ability[c] = Enabled(row[c])

\* A disabled channel with one key cannot be chosen: it is in the index only while
\* channelsIDM has it enabled, whatever cache rebuilds and status updates overlap.
IndexSound == \A c \in index \ MultiKey : Enabled(idm[c])

\* A channel with several keys is switched off exactly when its last key is: however
\* the updates of its keys overlap, none is lost and none switches off a channel that
\* still has a key.  (The administrator's handlers write a row read without the lock.)
LastKeyOnly ==
    edits = 0 => \A c \in MultiKey : row[c].status = "auto" <=> row[c].off = Keys

(* The row of a channel, its abilities, the statuses of its keys and the    *)
(* index of the cache are switched together, however the updates of failing *)
(* requests, the test loop and rebuilds of the cache overlap.               *)
SwitchedTogether == AbilityAgrees /\ IndexSound /\ LastKeyOnly

\* No status update and no edit is under way.
Quiet ==
    /\ \A u \in Updaters : up[u].pc \in {"idle", "done"}
    /\ syncPc[Admin] = "idle"
Converged == idm = row /\ index = {c \in Channels : Enabled(row[c])}

\* EnableChannel tells the administrator "the channel has been enabled" when
\* UpdateChannelStatus returned true.
ToldEnabled ==
    (up[Tester].pc = "done" /\ up[Tester].ok) => Enabled(row[up[Tester].channel])

=============================================================================
