------------------------------ MODULE RateLimit ------------------------------
(***************************************************************************)
(* The rate limiters, one key of one of them in a behaviour:               *)
(*   memory  InMemoryRateLimiter.Request, under its mutex                  *)
(*   redis   redisRateLimiter: length, then push and trim                  *)
(*   success the limit of successful model requests: checked before the    *)
(*           request, recorded after it                                    *)
(*   bucket  the token bucket of all model requests, a script in Redis     *)
(*   email   the counter with an expiry of the verification mails          *)
(*   notify  checkRedisLimit of the notifications: get, then set or incr   *)
(*   notemem checkMemoryLimit: load, then store                            *)
(* Concurrent requests interleave between the commands.                    *)
(***************************************************************************)
EXTENDS Integers, Sequences, FiniteSets

CONSTANTS
    Threads,
    Max, Duration,  \* the limit and its window
    MaxTime         \* bound on the clock

Kinds == {"memory", "redis", "success", "bucket", "email", "notify", "notemem"}

VARIABLES
    kind, now,
    list,       \* times in the list of the key, oldest first
    tokens,     \* tokens of the bucket, or -1 without a bucket
    last,       \* last_time of the bucket
    count,      \* value of the counter, or 0 without a key
    until,      \* time at which the counter's key expires, or 0 for never
    th,         \* [Threads]: [pc, seen]
    log         \* history: times of the last requests that were let through

vars == <<kind, now, list, tokens, last, count, until, th, log>>
store == <<list, tokens, last, count, until>>
Idle == [pc |-> "idle", seen |-> 0]

Init ==
    /\ kind \in Kinds /\ now = 0
    /\ list = <<>> /\ tokens = -1 /\ last = 0 /\ count = 0 /\ until = 0
    /\ th = [t \in Threads |-> Idle] /\ log = <<>>

Recent == SelectSeq(log, LAMBDA x : now - x < Duration)
Admit == log' = Append(Recent, now)
Refuse == UNCHANGED log
GoTo(t, pc, seen) == th' = [th EXCEPT ![t] = [pc |-> pc, seen |-> seen]]

-----------------------------------------------------------------------------
\* The oldest entry is compared with > in place of >=.
Aged_Early(old) == now - old >= Duration - 1
\* The oldest entry has left the window.
Aged(old) == now - old >= Duration

Request(t) ==
    /\ kind = "memory" /\ th[t].pc = "idle"
    /\ IF Len(list) < Max THEN list' = Append(list, now) /\ Admit
       ELSE IF Aged(list[1]) THEN list' = Append(Tail(list), now) /\ Admit
       ELSE UNCHANGED list /\ Refuse
    /\ UNCHANGED <<kind, now, tokens, last, count, until, th>>

\* Keys whose newest entry is older than the expiry are dropped; it is longer than the window.
clearExpiredItems ==
    /\ kind = "memory" /\ list # <<>> /\ now - list[Len(list)] > Duration
    /\ list' = <<>>
    /\ UNCHANGED <<kind, now, tokens, last, count, until, th, log>>

\* LLen, and LIndex when the list is full.
redisRateLimiter(t) ==
    /\ kind = "redis" /\ th[t].pc = "idle"
    /\ IF Len(list) < Max THEN GoTo(t, "push", 0)
       ELSE IF Aged(list[1]) THEN GoTo(t, "trim", 0) ELSE UNCHANGED th
    /\ UNCHANGED <<kind, now, store, log>>

\* LTrim keeps the newest Max entries.
Trimmed(s) == IF Len(s) > Max THEN SubSeq(s, Len(s) - Max + 1, Len(s)) ELSE s

\* LPush, and LTrim in the second branch only.
PushAndTrim(t) ==
    /\ kind = "redis" /\ th[t].pc \in {"push", "trim"}
    /\ list' = IF th[t].pc = "trim" THEN Trimmed(Append(list, now)) ELSE Append(list, now)
    /\ Admit /\ GoTo(t, "idle", 0)
    /\ UNCHANGED <<kind, now, tokens, last, count, until>>

\* redisRateLimitHandler: checkRedisRateLimit, the request, recordRedisRequest if it succeeded.
checkRedisRateLimit(t) ==
    /\ kind = "success" /\ th[t].pc = "idle" /\ (Len(list) >= Max => Aged(list[1]))
    /\ GoTo(t, "serving", 0)
    /\ UNCHANGED <<kind, now, store, log>>
recordRedisRequest(t) ==
    /\ kind = "success" /\ th[t].pc = "serving"
    /\ list' = Trimmed(Append(list, now)) /\ Admit /\ GoTo(t, "idle", 0)
    /\ UNCHANGED <<kind, now, tokens, last, count, until>>
RequestFails(t) ==
    /\ kind = "success" /\ th[t].pc = "serving" /\ GoTo(t, "idle", 0)
    /\ UNCHANGED <<kind, now, store, log>>

\* The script: Max tokens a second, Duration tokens a request, room for Max * Duration.
Allow(t) ==
    LET sum == tokens + (now - last) * Max
        full == Max * Duration
        have == IF tokens = -1 \/ sum > full THEN full ELSE sum
        granted == have >= Duration
    IN  /\ kind = "bucket" /\ th[t].pc = "idle"
        /\ tokens' = IF granted THEN have - Duration ELSE have
        /\ last' = now
        /\ IF granted THEN Admit ELSE Refuse
        /\ UNCHANGED <<kind, now, list, count, until, th>>

\* All counts above the limit are alike.
Up(n) == IF n > Max THEN n ELSE n + 1

Gone == until # 0 /\ now >= until

\* Incr; the first request sets the expiry in a second command.
redisEmailVerificationRateLimiter(t) ==
    /\ kind = "email" /\ th[t].pc = "idle"
    /\ count' = IF Gone THEN 1 ELSE Up(count)
    /\ until' = IF Gone THEN 0 ELSE until
    /\ GoTo(t, IF count' = 1 THEN "expire" ELSE "idle", 0)
    /\ IF count' <= Max THEN Admit ELSE Refuse
    /\ UNCHANGED <<kind, now, list, tokens, last>>
SetExpiry(t) ==
    /\ kind = "email" /\ th[t].pc = "expire"
    /\ until' = now + Duration /\ GoTo(t, "idle", 0)
    /\ UNCHANGED <<kind, now, list, tokens, last, count, log>>

\* The count is read; the key holds the hour, and expires.
CheckNotificationLimit(t) ==
    /\ kind \in {"notify", "notemem"} /\ th[t].pc = "idle"
    /\ GoTo(t, "counted", IF Gone THEN 0 ELSE count)
    /\ UNCHANGED <<kind, now, store, log>>

\* Without a key it is set to one, else incremented when below the limit.
checkRedisLimit(t) ==
    LET seen == th[t].seen
    IN  /\ kind = "notify" /\ th[t].pc = "counted"
        /\ count' = IF seen = 0 THEN 1 ELSE IF seen < Max THEN (IF Gone THEN 0 ELSE count) + 1 ELSE count
        /\ until' = IF seen = 0 THEN now + Duration ELSE until
        /\ IF seen < Max THEN Admit ELSE Refuse
        /\ GoTo(t, "idle", 0)
        /\ UNCHANGED <<kind, now, list, tokens, last>>

\* The count that was read, plus one, is stored in any case.
checkMemoryLimit(t) ==
    /\ kind = "notemem" /\ th[t].pc = "counted"
    /\ count' = Up(th[t].seen)
    /\ until' = IF th[t].seen = 0 THEN now + Duration ELSE until
    /\ IF count' <= Max THEN Admit ELSE Refuse
    /\ GoTo(t, "idle", 0)
    /\ UNCHANGED <<kind, now, list, tokens, last>>

\* A second is long for the commands of one request; a model request may take longer.
Tick ==
    /\ now < MaxTime /\ now' = now + 1
    /\ \A t \in Threads : th[t].pc \in {"idle", "serving"}
    /\ UNCHANGED <<kind, store, th, log>>

Next ==
    \/ Tick \/ clearExpiredItems
    \/ \E t \in Threads :
         \/ Request(t) \/ redisRateLimiter(t) \/ PushAndTrim(t)
         \/ checkRedisRateLimit(t) \/ recordRedisRequest(t) \/ RequestFails(t)
         \/ Allow(t) \/ redisEmailVerificationRateLimiter(t) \/ SetExpiry(t)
         \/ CheckNotificationLimit(t) \/ checkRedisLimit(t) \/ checkMemoryLimit(t)

-----------------------------------------------------------------------------
\* What a window of Duration seconds lets through: the limit where the check and the count
\* are one step, one more for every other request under way where they are two (and once
\* more for each where the first branch leaves the list untrimmed), and twice the limit
\* for the bucket and the counters, whose windows do not slide; a stale count of the
\* notifications lets every request start the count anew.
Bound ==
    CASE kind = "memory" -> Max
      [] kind = "redis" -> Max + 2 * (Cardinality(Threads) - 1)
      [] kind = "success" -> Max + Cardinality(Threads) - 1
      [] kind \in {"bucket", "email"} -> 2 * Max
      [] kind \in {"notify", "notemem"} -> 2 * Max * Cardinality(Threads)

AdmittedBound ==
    Cardinality({i \in DOMAIN log : now - log[i] < Duration}) <= Bound
=============================================================================
