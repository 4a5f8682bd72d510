---------------------------- MODULE RateLimiter ----------------------------
(***************************************************************************)
(* The fixed-window rate limiter (middleware/ratelimit.go).  A request is  *)
(* charged to a counter of its key and minute: one in Redis that all       *)
(* servers share or, when the call to Redis returns an error, one in the   *)
(* memory of its server.  The ticket it draws there decides whether it is  *)
(* let in.  Redis transactions and mutex sections are indivisible; reading *)
(* the clock and using the reading are not.  A counter in Redis expires    *)
(* two minutes after its last increment, which is longer than any call     *)
(* waits: expiry is left out.                                              *)
(***************************************************************************)
EXTENDS Naturals, FiniteSets

CONSTANTS
    Servers, Keys,     \* a key is a client address and a route
    Requests,          \* each made once
    Limit,             \* requests let in per counter
    CleanupSize,       \* buckets in memory from which old ones are swept
    RedisEnabled,
    MayFail,           \* Redis calls may fail or lose their answer
    LastMinute,        \* bound on the clock
    MaxLost            \* bound on the increments whose answer is lost

ASSUME LimitAssumption == Limit \in Nat /\ CleanupSize \in Nat
ASSUME ModeAssumption == RedisEnabled \in BOOLEAN /\ MayFail \in BOOLEAN
ASSUME BoundsAssumption == LastMinute \in Nat /\ MaxLost \in Nat
ASSUME StoresAssumption == "redis" \notin Servers

VARIABLES
    now,       \* the minute of the wall clock
    shared,    \* Redis: the counter of each key and minute
    local,     \* each server's map from key to bucket
    stage,     \* where each request is
    server, key, minute,  \* of a request; `minute' is its counter's
    store,     \* the counter's place: "redis" or a server's memory
    ticket,    \* what the increment returned
    lost       \* increments whose answer was lost

vars == <<now, shared, local, stage, server, key, minute, store, ticket, lost>>

Minutes == 0 .. LastMinute
Stores == Servers \cup {"redis"}

(* A key without an entry reads as the zero bucket, older than any window. *)
NoBucket == [tracked |-> FALSE, window |-> 0, count |-> 0]
Bucket(window, count) == [tracked |-> TRUE, window |-> window, count |-> count]

Init ==
    /\ now = 0
    /\ shared = [k \in Keys |-> [m \in Minutes |-> 0]]
    /\ local = [s \in Servers |-> [k \in Keys |-> NoBucket]]
    /\ stage = [r \in Requests |-> "idle"]
    /\ server \in [Requests -> Servers]
    /\ key \in [Requests -> Keys]
    /\ minute = [r \in Requests |-> 0]
    /\ store = [r \in Requests |-> "redis"]
    /\ ticket = [r \in Requests |-> 0]
    /\ lost = 0

Tick ==
    /\ now < LastMinute
    /\ now' = now + 1
    /\ UNCHANGED <<shared, local, stage, server, key, minute, store, ticket, lost>>

(* Mutant: the minute of X-RateLimit-Reset names the counter.              *)
NameCounterByReset(r) ==
    /\ stage[r] = "idle"
    /\ stage' = [stage EXCEPT ![r] = IF RedisEnabled THEN "call" ELSE "fallback"]
    /\ minute' = [minute EXCEPT ![r] = now + 1]
    /\ UNCHANGED <<now, shared, local, server, key, store, ticket, lost>>

(* increment reads the clock to name the counter, and then calls Redis.    *)
NameCounter(r) ==
    /\ stage[r] = "idle"
    /\ stage' = [stage EXCEPT ![r] = IF RedisEnabled THEN "call" ELSE "fallback"]
    /\ minute' = [minute EXCEPT ![r] = now]
    /\ UNCHANGED <<now, shared, local, server, key, store, ticket, lost>>

Increased(r) == [shared EXCEPT ![key[r]][minute[r]] = @ + 1]

Charge(r, place, window, count) ==
    /\ stage' = [stage EXCEPT ![r] = "charged"]
    /\ store' = [store EXCEPT ![r] = place]
    /\ minute' = [minute EXCEPT ![r] = window]
    /\ ticket' = [ticket EXCEPT ![r] = count]

Increment(r) ==
    /\ stage[r] = "call"
    /\ shared' = Increased(r)
    /\ Charge(r, "redis", minute[r], shared[key[r]][minute[r]] + 1)
    /\ UNCHANGED <<now, local, server, key, lost>>

(* The call fails without effect, or its answer is lost; go-redis sends a  *)
(* lost call again, and increment returns an error when it gives up.       *)
IncrementFails(r) ==
    /\ stage[r] = "call" /\ MayFail
    /\ \/ /\ stage' = [stage EXCEPT ![r] = "fallback"]
          /\ UNCHANGED <<shared, lost>>
       \/ /\ lost < MaxLost
          /\ lost' = lost + 1
          /\ shared' = Increased(r)
          /\ \E next \in {"call", "fallback"} : stage' = [stage EXCEPT ![r] = next]
    /\ UNCHANGED <<now, local, server, key, minute, store, ticket>>

Tracked(s) == {k \in Keys : local[s][k].tracked}

(* Mutant: the sweep removes every bucket.                                 *)
SweepsAll(s, k, window) == Cardinality(Tracked(s)) >= CleanupSize

(* cleanupLocal removes the buckets of earlier minutes from a large map.   *)
Swept(s, k, window) ==
    /\ Cardinality(Tracked(s)) >= CleanupSize
    /\ local[s][k].window < window

(* The bucket's count after cleanup, if it is one of this minute.          *)
Standing(s, k, window) ==
    IF local[s][k].tracked /\ local[s][k].window = window /\ ~ Swept(s, k, window)
    THEN local[s][k].count ELSE 0

(* The whole of incrementLocal, under the mutex, with the given reading of *)
(* the clock.                                                              *)
CountLocally(r, window) ==
    LET s == server[r]
        count == Standing(s, key[r], window) + 1
    IN  /\ stage[r] = "fallback"
        /\ local' = [local EXCEPT ![s] =
                       [k \in Keys |-> IF k = key[r] THEN Bucket(window, count)
                                       ELSE IF Swept(s, k, window) THEN NoBucket
                                       ELSE local[s][k]]]
        /\ Charge(r, s, window, count)
        /\ UNCHANGED <<now, shared, server, key, lost>>

(* Mutant: the clock is read before the mutex is taken.                    *)
IncrementLocalStale(r) == CountLocally(r, minute[r])

(* The clock is read again, with the mutex held.                           *)
IncrementLocal(r) == CountLocally(r, now)

(* Mutant: the request that reaches the limit is refused already.          *)
LetInBelow(r) == stage[r] = "charged" /\ ticket[r] < Limit

LetIn(r) == stage[r] = "charged" /\ ticket[r] <= Limit
Refused(r) == stage[r] = "charged" /\ ~ LetIn(r)

Next == Tick \/ \E r \in Requests :
            NameCounter(r) \/ Increment(r) \/ IncrementFails(r) \/ IncrementLocal(r)

Spec == Init /\ [][Next]_vars

-----------------------------------------------------------------------------
BucketType == [tracked : BOOLEAN, window : Minutes, count : Nat]

TypeOK ==
    /\ now \in Minutes
    /\ shared \in [Keys -> [Minutes -> Nat]]
    /\ local \in [Servers -> [Keys -> BucketType]]
    /\ stage \in [Requests -> {"idle", "call", "fallback", "charged"}]
    /\ server \in [Requests -> Servers]
    /\ key \in [Requests -> Keys]
    /\ minute \in [Requests -> 0 .. now]
    /\ store \in [Requests -> Stores]
    /\ ticket \in [Requests -> Nat]
    /\ lost \in 0 .. MaxLost

SameCounter(q, r) == key[q] = key[r] /\ minute[q] = minute[r] /\ store[q] = store[r]

(* No two requests draw the same ticket from one counter, although buckets *)
(* are swept, the minute turns between reading the clock and counting, and *)
(* several servers count.                                                  *)
TicketsUnique ==
    \A q, r \in Requests :
        /\ stage[q] = "charged" /\ stage[r] = "charged" /\ q # r
        /\ SameCounter(q, r)
        => ticket[q] # ticket[r]

LetInFor(k, m) == {r \in Requests : LetIn(r) /\ key[r] = k /\ minute[r] = m}

(* While calls to Redis fail now and then, counts are split between Redis  *)
(* and the memory of each server, and each of these lets in Limit at most. *)
OneLimitPerStore ==
    \A k \in Keys, m \in Minutes, p \in Stores :
        Cardinality({r \in LetInFor(k, m) : store[r] = p}) <= Limit

(* Nobody is refused early: a request is turned away only when its counter *)
(* let in Limit others, less those whose ticket was lost on the way; so    *)
(* while Redis is in order, all servers together let in exactly Limit.     *)
RefusedAtLimit ==
    \A r \in Requests :
        Refused(r) =>
            Cardinality({q \in LetInFor(key[r], minute[r]) : store[q] = store[r]}) + lost >= Limit

=============================================================================
