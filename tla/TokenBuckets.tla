----------------------------- MODULE TokenBuckets -----------------------------
(***************************************************************************)
(* The token buckets of the chat API on their two backends                 *)
(* (anti_abuse.py).                                                        *)
(*                                                                         *)
(* The in-memory backend consumes under a lock and forgets idle buckets.   *)
(* On Redis a caller of any worker reads the clock once, then reads and    *)
(* writes the bucket in an optimistic transaction that it repeats on a     *)
(* conflict.  Global and per-agent policies share buckets: the key of a    *)
(* bucket does not name the policy.                                        *)
(***************************************************************************)
EXTENDS Naturals, FiniteSets, Sequences, FiniteSetsExt

CONSTANTS
    BucketKeys,     \* SESSION:IP:UA and ip:IP
    Policies,       \* the [rps, burst] in force: the global one, those of agents
    Callers,        \* requests, of any worker, that consume from Redis,
    Observed,       \* and the buckets they consume: there, buckets do not interact
    MaxBuckets,     \* TOKEN_BUCKET_MAX_ENTRIES
    IdleTicks,      \* TOKEN_BUCKET_IDLE_SECONDS
    Tries,          \* RedisBucketBackend._MAX_RETRIES
    LastTick,       \* bound of the clock
    MaxGrants       \* bound of the history

ASSUME BucketsAssumption ==
    /\ Observed \subseteq BucketKeys
    /\ Policies \subseteq [rps: Nat, burst: Nat \ {0}]
    /\ Policies # {} /\ IsFiniteSet(Policies)
    /\ {MaxBuckets, IdleTicks, Tries, LastTick, MaxGrants} \subseteq Nat \ {0}

VARIABLES
    tick,       \* the clock
    shared,     \* the backend is Redis (ABUSE_STORAGE_URI is set)
    buckets,    \* the buckets the backend has
    caller,     \* of each caller: its attempt to consume, or << >>
    grants,     \* history: of each bucket since it was made, the requests it admitted
    setback     \* history: of each bucket, the ticks its clock was put back

bucketVars == <<tick, shared, buckets, caller, grants, setback>>

Bucket == [tokens: Nat, last: Nat, seen: Nat]

\* A caller has read the clock, or WATCHes a bucket it has read, which somebody else
\* may have written since.
Attempt ==
    [at: {"ready", "watching", "beaten"}, key: BucketKeys, policy: Policies,
     now: Nat, tries: 0..Tries, read: Bucket \cup {<< >>}]

BucketTypeOK ==
    /\ tick \in 0..LastTick
    /\ shared \in BOOLEAN
    /\ DOMAIN buckets \subseteq BucketKeys
    /\ \A k \in DOMAIN buckets : buckets[k] \in Bucket
    /\ caller \in [Callers -> Attempt \cup {<< >>}]
    /\ grants \in [BucketKeys -> Seq([now: Nat, setback: Nat])]
    /\ setback \in [BucketKeys -> Nat]

BucketInit ==
    /\ tick = 0
    /\ shared \in BOOLEAN
    /\ buckets = << >>
    /\ caller = [c \in Callers |-> << >>]
    /\ grants = [k \in BucketKeys |-> << >>]
    /\ setback = [k \in BucketKeys |-> 0]

BucketTick ==
    /\ tick < LastTick
    /\ tick' = tick + 1
    /\ UNCHANGED <<shared, buckets, caller, grants, setback>>

-----------------------------------------------------------------------------
Full(p, now) == [tokens |-> p.burst, last |-> now, seen |-> now]

\* The bucket at time now; a clock that went back refills nothing.
Refilled(b, p, now) ==
    [tokens |-> Min({p.burst, b.tokens + Max({0, now - b.last}) * p.rps}),
     last |-> now, seen |-> now]

\* One token less, if there is one.
Taken(b) == [b EXCEPT !.tokens = IF @ = 0 THEN 0 ELSE @ - 1]

\* The history after bucket b of key k, which had been admitted past, was asked at now.
Asked(past, k, b, now) ==
    IF b.tokens = 0 THEN past
    ELSE [past EXCEPT ![k] = Append(@, [now |-> now, setback |-> setback'[k]])]

\* _maybe_evict_locked: the buckets that may remain when k is new.  Some insertions look
\* for idle ones; beyond the cap the least recently used one goes.
Kept(bs, k) ==
    UNION {IF Cardinality(some) <= MaxBuckets THEN {some}
           ELSE {some \ {o} : o \in {o \in some \ {k} :
                                      \A q \in some \ {k} : bs[o].seen <= bs[q].seen}} :
           some \in {DOMAIN bs, {q \in DOMAIN bs : tick <= bs[q].seen + IdleTicks}}}

With(k, b) == [q \in DOMAIN buckets \cup {k} |-> IF q = k THEN b ELSE buckets[q]]

\* InMemoryBucketBackend.consume
Consume(k, p) ==
    LET known == k \in DOMAIN buckets
        b == IF known THEN Refilled(buckets[k], p, tick) ELSE Full(p, tick)
        all == With(k, Taken(b))
    IN  /\ ~shared
        /\ Len(grants[k]) < MaxGrants
        /\ UNCHANGED <<tick, shared, caller, setback>>
        /\ \E kept \in IF known THEN {DOMAIN all} ELSE Kept(all, k) :
            /\ buckets' = [q \in kept |-> all[q]]
            /\ grants' = Asked([q \in BucketKeys |-> IF q \in kept THEN grants[q] ELSE << >>],
                               k, b, tick)

\* RedisBucketBackend.consume reads the clock,
BeginConsume(c, k, p) ==
    /\ shared
    /\ caller[c] = << >>
    /\ Len(grants[k]) < MaxGrants
    /\ caller' = [caller EXCEPT ![c] =
        [at |-> "ready", key |-> k, policy |-> p, now |-> tick, tries |-> 0, read |-> << >>]]
    /\ UNCHANGED <<tick, shared, buckets, grants, setback>>

Stored(k) == IF k \in DOMAIN buckets THEN buckets[k] ELSE << >>

\* then WATCHes and reads the bucket,
Watch(c) ==
    /\ caller[c] # << >>
    /\ caller[c].at = "ready"
    /\ caller' = [caller EXCEPT ![c].at = "watching", ![c].read = Stored(caller[c].key)]
    /\ UNCHANGED <<tick, shared, buckets, grants, setback>>

\* Faulty variant of Beaten: no writer is told of another.
BeatenNobody(c, k) == caller' = [caller EXCEPT ![c] = << >>]

\* Whoever WATCHes bucket k has lost against its writer c, whatever was written.
Beaten(c, k) ==
    caller' = [d \in Callers |->
        CASE d = c -> << >>
          [] d # c /\ caller[d] # << >> /\ caller[d].key = k /\ caller[d].at = "watching" ->
                [caller[d] EXCEPT !.at = "beaten", !.read = << >>]
          [] OTHER -> caller[d]]

\* and writes it, also when it had no token to give,
Exec(c) ==
    LET a == caller[c]
        before == IF a.read = << >> THEN Full(a.policy, a.now) ELSE a.read
        b == Refilled(before, a.policy, a.now)
    IN  /\ a # << >>
        /\ a.at = "watching"
        /\ buckets' = With(a.key, Taken(b))
        /\ setback' = [setback EXCEPT ![a.key] = @ + Max({0, before.last - a.now})]
        /\ grants' = Asked(grants, a.key, b, a.now)
        /\ Beaten(c, a.key)
        /\ UNCHANGED <<tick, shared>>

\* unless somebody else has: WatchError, tried again, in the end denied.
Conflict(c) ==
    LET a == caller[c] IN
    /\ a # << >>
    /\ a.at = "beaten"
    /\ caller' = [caller EXCEPT ![c] =
            IF a.tries + 1 = Tries THEN << >> ELSE [a EXCEPT !.at = "ready", !.tries = @ + 1]]
    /\ UNCHANGED <<tick, shared, buckets, setback, grants>>

BucketNext ==
    \/ BucketTick
    \/ \E k \in BucketKeys, p \in Policies : Consume(k, p)
    \/ \E c \in Callers, k \in Observed, p \in Policies : BeginConsume(c, k, p)
    \/ \E c \in Callers : Watch(c) \/ Exec(c) \/ Conflict(c)

BucketSpec == BucketInit /\ [][BucketNext]_bucketVars

-----------------------------------------------------------------------------
MaxBurst == Max({p.burst : p \in Policies})
MaxRate == Max({p.rps : p \in Policies})

\* Over any stretch of time a bucket admits no more than the largest burst and what
\* the fastest policy refills in that time, however its callers interleave -- plus,
\* on Redis, what is refilled twice because a caller with an older reading of the
\* clock has put the bucket's clock back.
WithinBudget ==
    \A k \in BucketKeys : \A i, j \in DOMAIN grants[k] :
        LET first == grants[k][i]
            final == grants[k][j]
        IN  i <= j => j - i + 1 + MaxRate * (first.now + first.setback)
                        <= MaxBurst + MaxRate * (final.now + final.setback)
=============================================================================
