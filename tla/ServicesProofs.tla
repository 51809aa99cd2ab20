---------------------------- MODULE ServicesProofs ----------------------------
(***************************************************************************)
(* Proofs about components of the services that each have a few theorems:  *)
(* GatewayScopes, for any number of scopes and requests and any bounds     *)
(* that leave the eviction TTL above the session's; TokenBuckets, for any  *)
(* number of buckets, policies and callers, and a clock that may be read   *)
(* late; RagIndex, for any number of requests, documents and models;       *)
(* AgentStore, for any number of processes, keys and agents; AbusePolicy,  *)
(* for any policies, handlers and number of processes.                     *)
(***************************************************************************)
EXTENDS TokenBuckets, GatewayScopes, RagIndex, Stores,
        FoldTheorems, SequenceTheorems, FiniteSetTheorems, TLAPS

-----------------------------------------------------------------------------
(* Scopes: the inductive invariant *)

\* A build that is under way began within BuildTime, and keeps its scope's time of
\* access from being old enough for an eviction.
BuildsAreRecent ==
    \A r \in ScopeRequests :
        LET b == building[r] IN
        b.scope # NoScope =>
            /\ b.since <= hour /\ hour <= b.since + BuildTime
            /\ lastAccess[b.scope] # NoAccess
            /\ b.since <= lastAccess[b.scope]

\* Times of access are in the past, and a handler was last used no later than a build
\* takes after its scope's time of access: a build serves its request when it is done.
AccessIsRecorded ==
    \A s \in Scopes :
        /\ lastAccess[s] # NoAccess => lastAccess[s] <= hour
        /\ session[s].used <= hour
        /\ handlers[s] # 0 =>
              lastAccess[s] # NoAccess /\ session[s].used <= lastAccess[s] + BuildTime

\* A client whose session the transport still keeps finds its handler.
SessionsAreServed ==
    \A s \in Scopes :
        session[s].handler # 0 /\ hour - session[s].used <= SessionTTL
            => handlers[s] = session[s].handler

CacheIsBounded == IsFiniteSet(Cached) /\ Cardinality(Cached) <= MaxScopes

ScopesInv ==
    /\ ScopesTypeOK
    /\ BuildsAreRecent
    /\ AccessIsRecorded
    /\ SessionsAreServed
    /\ CacheIsBounded

-----------------------------------------------------------------------------
\* What is assumed of the constants, in one place.
LEMMA BoundsKnown ==
    /\ {MaxScopes, EvictionTTL, SessionTTL, LastHour, MaxHandlers} \subseteq Nat
    /\ BuildTime \in Nat
    /\ NoScope \notin Scopes
    /\ SessionTTL + BuildTime <= EvictionTTL
    /\ NoAccess \in Nat /\ NoAccess > LastHour
BY ScopesAssumption, TTLAssumption DEF NoAccess

\* Forgetting handlers keeps the cache within its bound.
LEMMA CacheShrinks ==
    ASSUME CacheIsBounded, Cached' \subseteq Cached, MaxScopes \in Nat
    PROVE  CacheIsBounded'
<1>1. IsFiniteSet(Cached') /\ Cardinality(Cached') <= Cardinality(Cached)
      BY FS_Subset DEF CacheIsBounded
<1>2. Cardinality(Cached) \in Nat /\ Cardinality(Cached') \in Nat
      BY <1>1, FS_CardinalityType DEF CacheIsBounded
<1>. QED BY <1>1, <1>2 DEF CacheIsBounded

\* The initial state satisfies the invariant.
LEMMA ScopesStart == ScopesInit => ScopesInv
<1>. SUFFICES ASSUME ScopesInit PROVE ScopesInv
     OBVIOUS
<1>. USE BoundsKnown DEF ScopesInit
<1>1. ScopesTypeOK BY DEF ScopesTypeOK, NotBuilding
<1>2. BuildsAreRecent BY DEF BuildsAreRecent, NotBuilding
<1>3. AccessIsRecorded BY DEF AccessIsRecorded
<1>4. SessionsAreServed BY DEF SessionsAreServed
<1>5. CacheIsBounded
  <2>1. Cached = {} BY DEF Cached
  <2>. QED BY <2>1, FS_EmptySet, ScopesAssumption DEF CacheIsBounded
<1>. QED BY <1>1, <1>2, <1>3, <1>4, <1>5 DEF ScopesInv

\* Each step preserves the types.
LEMMA ScopesTypeStep == ASSUME ScopesInv, [ScopesNext]_scopeVars PROVE ScopesTypeOK'
<1>. USE BoundsKnown DEF ScopesInv, ScopesTypeOK
<1>1. CASE HourPasses BY <1>1 DEF HourPasses
<1>2. ASSUME NEW r \in ScopeRequests, NEW s \in Scopes, ServeCached(r, s) PROVE ScopesTypeOK'
      BY <1>2 DEF ServeCached, ServedBy
<1>3. ASSUME NEW r \in ScopeRequests, NEW s \in Scopes, StartBuild(r, s) PROVE ScopesTypeOK'
      BY <1>3 DEF StartBuild, Idle
<1>4. ASSUME NEW r \in ScopeRequests, BuildFails(r) PROVE ScopesTypeOK'
      BY <1>4 DEF BuildFails, NotBuilding
<1>5. ASSUME NEW r \in ScopeRequests, UseCanonical(r) PROVE ScopesTypeOK'
      BY <1>5 DEF UseCanonical, NotBuilding, ServedBy, Idle
<1>6. ASSUME NEW r \in ScopeRequests, BuildRefused(r) PROVE ScopesTypeOK'
      BY <1>6 DEF BuildRefused, NotBuilding
<1>7. ASSUME NEW r \in ScopeRequests, RegisterHandler(r) PROVE ScopesTypeOK'
      BY <1>7 DEF RegisterHandler, NotBuilding, ServedBy, Idle
<1>8. CASE UNCHANGED scopeVars BY <1>8 DEF scopeVars
<1>. QED BY <1>1, <1>2, <1>3, <1>4, <1>5, <1>6, <1>7, <1>8 DEF ScopesNext

\* Time passes only as far as every build allows.
LEMMA HourInv == ASSUME ScopesInv, HourPasses PROVE ScopesInv'
<1>. USE BoundsKnown DEF ScopesInv, ScopesTypeOK, HourPasses
<1>1. ScopesTypeOK' BY ScopesTypeStep DEF ScopesNext
<1>2. BuildsAreRecent' BY DEF BuildsAreRecent, Idle
<1>3. AccessIsRecorded' BY DEF AccessIsRecorded
<1>4. SessionsAreServed' BY DEF SessionsAreServed
<1>5. CacheIsBounded' BY DEF CacheIsBounded, Cached
<1>. QED BY <1>1, <1>2, <1>3, <1>4, <1>5

\* A request is served by its scope's handler.
LEMMA ServeInv ==
    ASSUME ScopesInv, NEW r \in ScopeRequests, NEW s \in Scopes, ServeCached(r, s)
    PROVE  ScopesInv'
<1>. USE BoundsKnown DEF ScopesInv, ScopesTypeOK, ServeCached, ServedBy
<1>1. ScopesTypeOK' BY ScopesTypeStep DEF ScopesNext
<1>2. BuildsAreRecent' BY DEF BuildsAreRecent
<1>3. AccessIsRecorded' BY DEF AccessIsRecorded
<1>4. SessionsAreServed' BY DEF SessionsAreServed
<1>5. CacheIsBounded' BY DEF CacheIsBounded, Cached
<1>. QED BY <1>1, <1>2, <1>3, <1>4, <1>5

\* What is evicted has been idle for longer than a session lives, even if its handler
\* took BuildTime to make after the scope was accessed.
LEMMA StartInv ==
    ASSUME ScopesInv, NEW r \in ScopeRequests, NEW s \in Scopes, StartBuild(r, s)
    PROVE  ScopesInv'
<1>. USE BoundsKnown DEF ScopesInv, ScopesTypeOK
<1>1. ScopesTypeOK' BY ScopesTypeStep DEF ScopesNext
<1>2. BuildsAreRecent' BY DEF BuildsAreRecent, StartBuild, Evictable, Idle
<1>3. AccessIsRecorded' BY DEF AccessIsRecorded, StartBuild, Evictable
<1>4. SessionsAreServed'
  <2>1. ASSUME NEW q \in Evictable, handlers[q] # 0
        PROVE  hour - session[q].used > SessionTTL
        BY <2>1 DEF Evictable, AccessIsRecorded
  <2>2. ASSUME NEW q \in Scopes PROVE handlers'[q] = handlers[q] \/ (q \in Evictable /\ handlers'[q] = 0)
        BY DEF StartBuild
  <2>. QED BY <2>1, <2>2 DEF SessionsAreServed, StartBuild
<1>5. CacheIsBounded'
  <2>1. Cached' \subseteq Cached BY DEF Cached, StartBuild
  <2>. QED BY <2>1, CacheShrinks
<1>. QED BY <1>1, <1>2, <1>3, <1>4, <1>5

\* A build that comes to nothing, or finds the scope's handler there.
LEMMA GiveUpInv ==
    ASSUME ScopesInv, NEW r \in ScopeRequests, BuildFails(r) \/ BuildRefused(r)
    PROVE  ScopesInv'
<1>. USE BoundsKnown DEF ScopesInv, ScopesTypeOK, BuildFails, BuildRefused
<1>1. ScopesTypeOK' BY ScopesTypeStep DEF ScopesNext
<1>2. BuildsAreRecent' BY DEF BuildsAreRecent, NotBuilding
<1>3. AccessIsRecorded' BY DEF AccessIsRecorded
<1>4. SessionsAreServed' BY DEF SessionsAreServed
<1>5. CacheIsBounded' BY DEF CacheIsBounded, Cached
<1>. QED BY <1>1, <1>2, <1>3, <1>4, <1>5

\* A build that found its scope served meanwhile uses the handler that is there.
LEMMA CanonicalInv ==
    ASSUME ScopesInv, NEW r \in ScopeRequests, UseCanonical(r)
    PROVE  ScopesInv'
<1>. USE BoundsKnown DEF ScopesInv, ScopesTypeOK, UseCanonical, ServedBy, Idle
<1>1. ScopesTypeOK' BY ScopesTypeStep DEF ScopesNext
<1>2. BuildsAreRecent' BY DEF BuildsAreRecent, NotBuilding
<1>3. AccessIsRecorded'
  <2>1. building[r].scope \in Scopes OBVIOUS
  <2>2. hour <= lastAccess[building[r].scope] + BuildTime
        BY <2>1 DEF BuildsAreRecent
  <2>. QED BY <2>1, <2>2 DEF AccessIsRecorded
<1>4. SessionsAreServed' BY DEF SessionsAreServed
<1>5. CacheIsBounded' BY DEF CacheIsBounded, Cached
<1>. QED BY <1>1, <1>2, <1>3, <1>4, <1>5

\* A finished build registers its handler only below the bound.
LEMMA RegisterInv ==
    ASSUME ScopesInv, NEW r \in ScopeRequests, RegisterHandler(r)
    PROVE  ScopesInv'
<1>. USE BoundsKnown DEF ScopesInv, ScopesTypeOK
<1>. DEFINE s == building[r].scope
<1>0. s \in Scopes BY DEF RegisterHandler, Idle
<1>1. ScopesTypeOK' BY ScopesTypeStep DEF ScopesNext
<1>2. BuildsAreRecent' BY DEF BuildsAreRecent, RegisterHandler, NotBuilding
<1>3. AccessIsRecorded'
  <2>1. lastAccess[s] # NoAccess /\ hour <= lastAccess[s] + BuildTime
        BY <1>0 DEF BuildsAreRecent
  <2>. QED BY <1>0, <2>1 DEF AccessIsRecorded, RegisterHandler, ServedBy
<1>4. SessionsAreServed' BY <1>0 DEF SessionsAreServed, RegisterHandler, ServedBy
<1>5. CacheIsBounded'
  <2>1. Cached' = Cached \cup {s} BY <1>0 DEF Cached, RegisterHandler
  <2>2. Cardinality(Cached) \in Nat BY FS_CardinalityType DEF CacheIsBounded
  <2>3. /\ IsFiniteSet(Cached \cup {s})
        /\ Cardinality(Cached \cup {s}) \in {Cardinality(Cached), Cardinality(Cached) + 1}
    <3>. HIDE DEF s
    <3>. QED BY FS_AddElement DEF CacheIsBounded
  <2>4. Cardinality(Cached) < MaxScopes BY DEF RegisterHandler
  <2>5. Cardinality(Cached \cup {s}) \in Nat BY <2>3, FS_CardinalityType
  <2>. QED BY <2>1, <2>2, <2>3, <2>4, <2>5 DEF CacheIsBounded
<1>. QED BY <1>1, <1>2, <1>3, <1>4, <1>5

\* Every step of the registry preserves the invariant.
LEMMA ScopesStep == ASSUME ScopesInv, [ScopesNext]_scopeVars PROVE ScopesInv'
<1>1. CASE UNCHANGED scopeVars
  <2>. USE <1>1 DEF ScopesInv, scopeVars
  <2>1. ScopesTypeOK' BY ScopesTypeStep
  <2>2. BuildsAreRecent' BY DEF BuildsAreRecent
  <2>3. AccessIsRecorded' BY DEF AccessIsRecorded
  <2>4. SessionsAreServed' BY DEF SessionsAreServed
  <2>5. CacheIsBounded' BY DEF CacheIsBounded, Cached
  <2>. QED BY <2>1, <2>2, <2>3, <2>4, <2>5
<1>2. CASE ScopesNext
      BY <1>2, HourInv, ServeInv, StartInv, GiveUpInv, CanonicalInv, RegisterInv DEF ScopesNext
<1>. QED BY <1>1, <1>2

-----------------------------------------------------------------------------
(* Scopes: the theorems *)

\* The strengthening behind the two theorems below holds in every state.
THEOREM ScopesStaySound == ScopesSpec => []ScopesInv
BY ScopesStart, ScopesStep, PTL DEF ScopesSpec

\* The registry keeps its types.
THEOREM ScopesStayTyped == ScopesSpec => []ScopesTypeOK
<1>1. ScopesInv => ScopesTypeOK BY DEF ScopesInv
<1>. QED BY <1>1, ScopesStaySound, PTL

\* However builds overlap, fail and are evicted around it, a client whose session the
\* transport still keeps finds its handler, and the registry keeps to its bound: for any
\* number of scopes and requests, if the eviction TTL leaves room for a build beside
\* the session's.
THEOREM SessionsKeepTheirs == ScopesSpec => []SessionsKeepTheirHandler
<1>1. ScopesInv => SessionsKeepTheirHandler
      BY DEF ScopesInv, SessionsAreServed, CacheIsBounded, AccessIsRecorded,
             SessionsKeepTheirHandler, Cached
<1>. QED BY <1>1, ScopesStaySound, PTL

-----------------------------------------------------------------------------
(* Buckets: the inductive invariant *)

Grant == [now: Nat, setback: Nat]

\* What history g leaves of the budget at the bucket's own time v: the requests since
\* any one of them and the tokens that are left are paid for by then.
Funded(g, tokens, v) ==
    \A i \in DOMAIN g :
        Len(g) - i + 1 + tokens + MaxRate * (g[i].now + g[i].setback) <= MaxBurst + MaxRate * v

\* What WithinBudget says of one history.
Budgeted(g) ==
    \A i, j \in DOMAIN g : i <= j =>
        j - i + 1 + MaxRate * (g[i].now + g[i].setback)
            <= MaxBurst + MaxRate * (g[j].now + g[j].setback)

\* What a bucket has to give was earned.
BucketsFunded ==
    \A k \in DOMAIN buckets :
        /\ buckets[k].tokens <= MaxBurst
        /\ Funded(grants[k], buckets[k].tokens, buckets[k].last + setback[k])

\* A bucket that is forgotten takes its history with it.
ForgottenWhole == \A k \in BucketKeys \ DOMAIN buckets : grants[k] = << >>

\* In memory the clock is read under the lock, so that it never goes back.
ClockIsAhead == ~shared => \A k \in DOMAIN buckets : buckets[k].last <= tick

\* On Redis, who is about to write a bucket has read what is there, and has tries left.
WatchersKnow ==
    \A c \in Callers : caller[c] # << >> =>
        /\ shared
        /\ caller[c].tries < Tries
        /\ caller[c].at = "watching" => caller[c].read = Stored(caller[c].key)

BucketInv ==
    /\ BucketTypeOK
    /\ BucketsFunded
    /\ ForgottenWhole
    /\ ClockIsAhead
    /\ WatchersKnow
    /\ \A k \in BucketKeys : Budgeted(grants[k])

-----------------------------------------------------------------------------
(* Buckets: numbers *)

\* No policy is larger, or faster, than the largest and the fastest.
LEMMA PolicyBounds ==
    /\ MaxBurst \in Nat /\ MaxRate \in Nat
    /\ \A p \in Policies : p.burst \in Nat /\ p.rps \in Nat /\ p.burst <= MaxBurst /\ p.rps <= MaxRate
<1> DEFINE Bursts == {p.burst : p \in Policies}
           Rates == {p.rps : p \in Policies}
<1>1. Bursts \subseteq Nat /\ Rates \subseteq Nat /\ Bursts # {} /\ Rates # {}
  BY BucketsAssumption
<1>2. IsFiniteSet(Bursts) /\ IsFiniteSet(Rates)
  <2> DEFINE f == [p \in Policies |-> p.burst]
             g == [p \in Policies |-> p.rps]
  <2>1. {f[p] : p \in Policies} = Bursts /\ {g[p] : p \in Policies} = Rates
    OBVIOUS
  <2>2. f \in [Policies -> Bursts] /\ g \in [Policies -> Rates]
    OBVIOUS
  <2>3. f \in Surjection(Policies, Bursts) /\ g \in Surjection(Policies, Rates)
    BY <2>1, <2>2 DEF Surjection
  <2> HIDE DEF f, g, Bursts, Rates
  <2>4. QED
    BY <2>3, BucketsAssumption, FS_Surjection
<1>3. \E x \in Bursts : \A y \in Bursts : x >= y
  BY <1>1, <1>2, FiniteMax
<1>4. \E x \in Rates : \A y \in Rates : x >= y
  BY <1>1, <1>2, FiniteMax
<1>5. Max(Bursts) \in Bursts /\ \A y \in Bursts : Max(Bursts) >= y
  BY <1>3 DEF Max
<1>6. Max(Rates) \in Rates /\ \A y \in Rates : Max(Rates) >= y
  BY <1>4 DEF Max
<1>7. MaxBurst = Max(Bursts) /\ MaxRate = Max(Rates)
  BY DEF MaxBurst, MaxRate
<1>8. \A p \in Policies : p.burst \in Bursts /\ p.rps \in Rates
  OBVIOUS
<1> HIDE DEF Bursts, Rates
<1>9. QED
  BY <1>1, <1>5, <1>6, <1>7, <1>8

\* The ticks by which asking bucket b at time now puts its clock back.
PutBack(b, now) == Max({0, b.last - now})

\* History g after bucket r was asked at time now, at w ticks of set-back.
After(g, r, now, w) ==
    IF r.tokens = 0 THEN g ELSE Append(g, [now |-> now, setback |-> w])

\* The larger and the smaller of two.
LEMMA MinMaxOfTwo ==
    ASSUME NEW a \in Int, NEW b \in Int
    PROVE  /\ Min({a, b}) = IF a <= b THEN a ELSE b
           /\ Max({a, b}) = IF a <= b THEN b ELSE a
BY DEF Min, Max

\* What a bucket gains by being asked at time now, it gains in its own time, which is the
\* clock plus what was put back.
LEMMA RefillIsEarned ==
    ASSUME NEW b \in Bucket, b.tokens <= MaxBurst, NEW p \in Policies, NEW now \in Nat
    PROVE  /\ Refilled(b, p, now) \in Bucket
           /\ Refilled(b, p, now).last = now
           /\ Refilled(b, p, now).tokens <= MaxBurst
           /\ Max({0, b.last - now}) \in Nat
           /\ b.last <= now => Max({0, b.last - now}) = 0
           /\ Refilled(b, p, now).tokens + MaxRate * b.last
                <= b.tokens + MaxRate * (now + Max({0, b.last - now}))
<1> DEFINE gain == Max({0, now - b.last})
           lost == Max({0, b.last - now})
           t == Min({p.burst, b.tokens + gain * p.rps})
<1>1. b.tokens \in Nat /\ b.last \in Nat /\ b.seen \in Nat
  BY DEF Bucket
<1>2. /\ MaxBurst \in Nat /\ MaxRate \in Nat
      /\ p.burst \in Nat /\ p.rps \in Nat /\ p.burst <= MaxBurst /\ p.rps <= MaxRate
  BY PolicyBounds
<1>3. /\ gain \in Nat /\ lost \in Nat /\ b.last + gain = now + lost
      /\ b.last <= now => lost = 0
  <2>1. now - b.last \in Int /\ b.last - now \in Int /\ 0 \in Int
    BY <1>1
  <2>2. /\ gain = IF 0 <= now - b.last THEN now - b.last ELSE 0
        /\ lost = IF 0 <= b.last - now THEN b.last - now ELSE 0
    BY <2>1, MinMaxOfTwo
  <2> HIDE DEF gain, lost
  <2>3. QED
    BY <1>1, <2>2
<1>4. gain * p.rps \in Nat
  BY <1>2, <1>3
<1>5. t \in Nat /\ t <= p.burst /\ t <= b.tokens + gain * p.rps
  <2>1. p.burst \in Int /\ b.tokens + gain * p.rps \in Nat
    BY <1>1, <1>2, <1>4
  <2> HIDE DEF gain
  <2>2. t = IF p.burst <= b.tokens + gain * p.rps THEN p.burst ELSE b.tokens + gain * p.rps
    <3> DEFINE e == b.tokens + gain * p.rps
    <3>1. e \in Int /\ t = Min({p.burst, e})
      BY <2>1
    <3> HIDE DEF e, t
    <3>2. t = IF p.burst <= e THEN p.burst ELSE e
      BY <2>1, <3>1, MinMaxOfTwo
    <3>3. QED
      BY <3>2 DEF e
  <2> HIDE DEF t
  <2>3. QED
    BY <1>2, <2>1, <2>2
<1>6. Refilled(b, p, now) = [tokens |-> t, last |-> now, seen |-> now]
  BY DEF Refilled
<1> HIDE DEF gain, lost, t
<1>7. gain * p.rps <= gain * MaxRate /\ gain * MaxRate \in Nat
  BY <1>2, <1>3
<1>8. MaxRate * b.last + gain * MaxRate = MaxRate * (now + lost)
  <2>1. MaxRate * b.last + gain * MaxRate = MaxRate * (b.last + gain)
    BY <1>1, <1>2, <1>3
  <2>2. QED
    BY <1>3, <2>1
<1>9. MaxRate * b.last \in Nat /\ MaxRate * (now + lost) \in Nat
  BY <1>1, <1>2, <1>3
<1>10. t + MaxRate * b.last <= b.tokens + MaxRate * (now + lost)
  BY <1>1, <1>4, <1>5, <1>7, <1>8, <1>9
<1>11. QED
  BY <1>2, <1>3, <1>5, <1>6, <1>10 DEF Bucket, lost

\* Time in which nothing is admitted only adds to what is funded.
LEMMA FundedLater ==
    ASSUME NEW g \in Seq(Grant), NEW t \in Nat, NEW u \in Nat, NEW v \in Nat, NEW w \in Nat,
           Funded(g, t, v), u + MaxRate * v <= t + MaxRate * w
    PROVE  Funded(g, u, w)
<1>1. MaxBurst \in Nat /\ MaxRate \in Nat
  BY PolicyBounds
<1>2. SUFFICES ASSUME NEW i \in DOMAIN g
               PROVE  Len(g) - i + 1 + u + MaxRate * (g[i].now + g[i].setback)
                        <= MaxBurst + MaxRate * w
  BY DEF Funded
<1>3. g[i] \in Grant /\ i \in Nat /\ Len(g) \in Nat
  OBVIOUS
<1> DEFINE x == MaxRate * (g[i].now + g[i].setback)
<1>4. x \in Nat /\ MaxRate * v \in Nat /\ MaxRate * w \in Nat
  BY <1>1, <1>3 DEF Grant
<1>5. Len(g) - i + 1 + t + x <= MaxBurst + MaxRate * v
  BY DEF Funded
<1> HIDE DEF x
<1>6. Len(g) - i + 1 + u + x <= MaxBurst + MaxRate * w
  BY SMTT(30), <1>1, <1>3, <1>4, <1>5
<1>7. QED
  BY <1>6 DEF x

\* A request that is admitted takes a token and enters the history.
LEMMA GrantIsFunded ==
    ASSUME NEW g \in Seq(Grant), NEW t \in Nat, t <= MaxBurst, t # 0,
           NEW now \in Nat, NEW s \in Nat, Funded(g, t, now + s), Budgeted(g),
           NEW h, h = Append(g, [now |-> now, setback |-> s])
    PROVE  h \in Seq(Grant) /\ Funded(h, t - 1, now + s) /\ Budgeted(h)
<1>1. MaxBurst \in Nat /\ MaxRate \in Nat
  BY PolicyBounds
<1> DEFINE n == Len(g)
           x == MaxRate * (now + s)
<1>2. /\ h \in Seq(Grant) /\ n \in Nat /\ Len(h) = n + 1 /\ DOMAIN h = 1 .. n + 1
      /\ \A i \in 1 .. n : h[i] = g[i]
      /\ h[n + 1].now = now /\ h[n + 1].setback = s
      /\ DOMAIN g = 1 .. n
  BY DEF Grant
<1>3. x \in Nat
  BY <1>1
<1>4. ASSUME NEW i \in 1 .. n
      PROVE  n - i + 1 + t + MaxRate * (h[i].now + h[i].setback) <= MaxBurst + x
  BY <1>2, <1>4 DEF Funded
<1>5. MaxRate * (h[n + 1].now + h[n + 1].setback) = x
  BY <1>2
<1>6. \A i \in 1 .. n + 1 : MaxRate * (h[i].now + h[i].setback) \in Nat
  <2>1. SUFFICES ASSUME NEW i \in 1 .. n + 1 PROVE MaxRate * (h[i].now + h[i].setback) \in Nat
    OBVIOUS
  <2>2. h[i] \in Grant
    BY <1>2
  <2>3. h[i].now \in Nat /\ h[i].setback \in Nat
    BY <2>2 DEF Grant
  <2>4. h[i].now + h[i].setback \in Nat
    BY <2>3
  <2>5. QED
    BY SMTT(30), <1>1, <2>4
<1>7. Funded(h, t - 1, now + s)
  <2>1. SUFFICES ASSUME NEW i \in 1 .. n + 1
                 PROVE  (n + 1) - i + 1 + (t - 1) + MaxRate * (h[i].now + h[i].setback)
                          <= MaxBurst + x
    BY <1>2 DEF Funded
  <2> DEFINE y == MaxRate * (h[i].now + h[i].setback)
  <2>2. y \in Nat
    BY <1>6
  <2>3. CASE i = n + 1
    <3>1. y = x
      BY <1>5, <2>3
    <3> HIDE DEF x, y, n
    <3>2. (n + 1) - i + 1 + (t - 1) + y <= MaxBurst + x
      BY <1>1, <1>2, <1>3, <2>3, <3>1
    <3>3. QED
      BY <3>2 DEF y
  <2>4. CASE i \in 1 .. n
    <3>1. n - i + 1 + t + y <= MaxBurst + x
      BY <1>4, <2>4
    <3> HIDE DEF x, y
    <3>2. (n + 1) - i + 1 + (t - 1) + y <= MaxBurst + x
      BY <1>1, <1>2, <1>3, <2>2, <3>1
    <3>3. QED
      BY <3>2 DEF y
  <2>5. QED
    BY <1>2, <2>3, <2>4
<1>8. Budgeted(h)
  <2>1. SUFFICES ASSUME NEW i \in 1 .. n + 1, NEW j \in 1 .. n + 1, i <= j
                 PROVE  j - i + 1 + MaxRate * (h[i].now + h[i].setback)
                          <= MaxBurst + MaxRate * (h[j].now + h[j].setback)
    BY <1>2 DEF Budgeted
  <2>2. CASE j \in 1 .. n
    <3>1. i \in 1 .. n
      BY <1>2, <2>1, <2>2
    <3>2. QED
      BY <1>2, <2>1, <2>2, <3>1 DEF Budgeted
  <2>3. CASE j = n + 1
    <3> DEFINE y == MaxRate * (h[i].now + h[i].setback)
    <3>1. (n + 1) - i + 1 + (t - 1) + y <= MaxBurst + x /\ y \in Nat
      BY <1>2, <1>6, <1>7 DEF Funded
    <3>2. MaxRate * (h[j].now + h[j].setback) = x
      BY <1>5, <2>3
    <3> HIDE DEF x, y
    <3>3. j - i + 1 + y <= MaxBurst + x
      BY <1>1, <1>2, <1>3, <2>3, <3>1
    <3>4. QED
      BY <3>2, <3>3 DEF y
  <2>4. QED
    BY <1>2, <2>2, <2>3
<1>9. QED
  BY <1>2, <1>7, <1>8

\* A bucket is a record, and so is an attempt: neither is << >>.
LEMMA NotNothing ==
    /\ \A b \in Bucket : b # << >>
    /\ \A a \in Attempt : a # << >>
BY DEF Bucket, Attempt

LEMMA Distributes ==
    ASSUME NEW r \in Nat, NEW a \in Nat, NEW b \in Nat
    PROVE  r * (a + b) = r * a + r * b /\ r * a \in Nat /\ r * b \in Nat
OBVIOUS

\* A token less, and nothing else.
LEMMA OneTaken ==
    ASSUME NEW r \in Bucket
    PROVE  /\ Taken(r) \in Bucket /\ Taken(r).last = r.last
           /\ Taken(r).tokens = IF r.tokens = 0 THEN 0 ELSE r.tokens - 1
BY DEF Taken, Bucket

\* Whoever asks bucket k at time now leaves it funded, and its history within the budget.
LEMMA AskedIsFunded ==
    ASSUME NEW b \in Bucket, b.tokens <= MaxBurst, NEW p \in Policies, NEW now \in Nat,
           NEW v \in Nat, NEW g \in Seq(Grant), Funded(g, b.tokens, b.last + v), Budgeted(g),
           NEW w \in Nat, w = v + PutBack(b, now),
           NEW r, r = Refilled(b, p, now),
           NEW h, h = After(g, r, now, w)
    PROVE  /\ h \in Seq(Grant) /\ Budgeted(h)
           /\ Taken(r) \in Bucket /\ Taken(r).last = now /\ Taken(r).tokens <= MaxBurst
           /\ Funded(h, Taken(r).tokens, now + w)
<1>1. MaxBurst \in Nat /\ MaxRate \in Nat
  BY PolicyBounds
<1> DEFINE lost == PutBack(b, now)
<1>2. /\ r \in Bucket /\ r.last = now /\ r.tokens <= MaxBurst /\ lost \in Nat
      /\ r.tokens + MaxRate * b.last <= b.tokens + MaxRate * (now + lost)
  BY RefillIsEarned DEF PutBack
<1>3. b.tokens \in Nat /\ b.last \in Nat /\ r.tokens \in Nat
  BY <1>2 DEF Bucket
<1>4. r.tokens + MaxRate * (b.last + v) <= b.tokens + MaxRate * (now + w)
  <2> HIDE DEF lost
  <2>1. w = v + lost
    BY DEF lost
  <2>2. /\ MaxRate * (b.last + v) = MaxRate * b.last + MaxRate * v
        /\ MaxRate * b.last \in Nat /\ MaxRate * v \in Nat
    BY <1>1, <1>3, Distributes
  <2>3. now + w = (now + lost) + v /\ now + lost \in Nat
    BY <1>2, <2>1
  <2>4. /\ MaxRate * (now + w) = MaxRate * (now + lost) + MaxRate * v
        /\ MaxRate * (now + lost) \in Nat
    BY <1>1, <2>3, Distributes
  <2> DEFINE x == MaxRate * b.last
             y == MaxRate * v
             z == MaxRate * (now + lost)
  <2>5. r.tokens + x <= b.tokens + z /\ x \in Nat /\ y \in Nat /\ z \in Nat
    BY <1>2, <2>2, <2>4
  <2> HIDE DEF x, y, z
  <2>6. r.tokens + (x + y) <= b.tokens + (z + y)
    BY SMTT(30), <1>3, <2>5
  <2>7. QED
    BY <2>2, <2>4, <2>6 DEF x, y, z
<1>5. Funded(g, r.tokens, now + w)
  <2>1. b.last + v \in Nat /\ now + w \in Nat
    BY <1>3
  <2> HIDE DEF lost
  <2>2. QED
    BY <1>3, <1>4, <2>1, FundedLater
<1>6. /\ Taken(r) \in Bucket /\ Taken(r).last = now /\ Taken(r).tokens <= MaxBurst
      /\ Taken(r).tokens = IF r.tokens = 0 THEN 0 ELSE r.tokens - 1
  <2>1. /\ Taken(r) \in Bucket /\ Taken(r).last = r.last
        /\ Taken(r).tokens = IF r.tokens = 0 THEN 0 ELSE r.tokens - 1
    BY <1>2, OneTaken
  <2> HIDE DEF lost
  <2>2. QED
    BY <1>1, <1>2, <1>3, <2>1
<1>8. CASE r.tokens = 0
  BY <1>5, <1>6, <1>8 DEF After
<1>9. CASE r.tokens # 0
  <2>1. h = Append(g, [now |-> now, setback |-> w])
    BY <1>9 DEF After
  <2>2. h \in Seq(Grant) /\ Funded(h, r.tokens - 1, now + w) /\ Budgeted(h)
    BY <1>2, <1>3, <1>5, <1>9, <2>1, GrantIsFunded
  <2>3. QED
    BY <1>6, <1>9, <2>2
<1>10. QED
  BY <1>8, <1>9

\* A bucket that is made now starts full, and with an empty history.
LEMMA FullIsFunded ==
    ASSUME NEW p \in Policies, NEW now \in Nat, NEW v \in Nat
    PROVE  /\ Full(p, now) \in Bucket /\ Full(p, now).tokens <= MaxBurst
           /\ Full(p, now).last = now
           /\ Max({0, Full(p, now).last - now}) = 0
           /\ << >> \in Seq(Grant) /\ Budgeted(<< >>)
           /\ Funded(<< >>, Full(p, now).tokens, now + v)
<1>1. /\ p.burst \in Nat /\ p.burst <= MaxBurst
  BY PolicyBounds
<1>2. /\ Full(p, now) \in Bucket /\ Full(p, now).tokens = p.burst /\ Full(p, now).last = now
  BY <1>1 DEF Full, Bucket
<1>3. Max({0, now - now}) = 0
  <2>1. now - now = 0
    OBVIOUS
  <2>2. QED
    BY <2>1, MinMaxOfTwo
<1>4. DOMAIN << >> = {}
  OBVIOUS
<1>5. QED
  BY <1>1, <1>2, <1>3, <1>4 DEF Funded, Budgeted

-----------------------------------------------------------------------------
(* Buckets: steps *)

\* There are no buckets, or no requests, to begin with.
LEMMA InitBuckets == ASSUME BucketInit PROVE BucketInv
<1>1. DOMAIN buckets = {} /\ \A k \in BucketKeys : grants[k] = << >>
  BY DEF BucketInit
<1>2. BucketTypeOK
  BY <1>1, BucketsAssumption DEF BucketInit, BucketTypeOK
<1>3. \A k \in BucketKeys : Budgeted(grants[k])
  BY <1>1 DEF Budgeted
<1>4. QED
  BY <1>1, <1>2, <1>3 DEF BucketInit, BucketInv, BucketsFunded, ForgottenWhole, ClockIsAhead, WatchersKnow

\* The clock goes on.
LEMMA TickBuckets == ASSUME BucketInv, BucketTick PROVE BucketInv'
<1> USE DEF BucketInv, BucketTick
<1>1. BucketTypeOK'
  BY BucketsAssumption DEF BucketTypeOK
<1>2. BucketsFunded' /\ ForgottenWhole' /\ WatchersKnow'
  BY DEF BucketsFunded, ForgottenWhole, WatchersKnow, Stored
<1>3. ClockIsAhead'
  BY DEF ClockIsAhead, BucketTypeOK, Bucket
<1>4. QED
  BY <1>1, <1>2, <1>3

\* A step of a caller before it writes.
LEMMA CallerBuckets ==
    ASSUME BucketInv, NEW c \in Callers, NEW a \in Attempt \cup {<< >>},
           caller' = [caller EXCEPT ![c] = a],
           a # << >> => shared /\ a.tries < Tries /\ (a.at = "watching" => a.read = Stored(a.key)),
           UNCHANGED <<tick, shared, buckets, grants, setback>>
    PROVE  BucketInv'
<1> USE DEF BucketInv
<1>1. BucketTypeOK'
  BY DEF BucketTypeOK
<1>2. BucketsFunded' /\ ForgottenWhole' /\ ClockIsAhead'
  BY DEF BucketsFunded, ForgottenWhole, ClockIsAhead
<1>3. WatchersKnow'
  BY DEF BucketTypeOK, WatchersKnow, Stored
<1>4. QED
  BY <1>1, <1>2, <1>3

LEMMA BeginBuckets ==
    ASSUME BucketInv, NEW c \in Callers, NEW k \in Observed, NEW p \in Policies, BeginConsume(c, k, p)
    PROVE  BucketInv'
<1> DEFINE a == [at |-> "ready", key |-> k, policy |-> p, now |-> tick, tries |-> 0, read |-> << >>]
<1>1. k \in BucketKeys /\ tick \in Nat /\ Tries \in Nat \ {0}
  BY BucketsAssumption DEF BucketInv, BucketTypeOK
<1>2. a \in Attempt /\ a.tries < Tries /\ a.at # "watching"
  BY <1>1 DEF Attempt
<1>3. caller' = [caller EXCEPT ![c] = a] /\ UNCHANGED <<tick, shared, buckets, grants, setback>>
  BY DEF BeginConsume
<1> HIDE DEF a
<1>4. shared
  BY DEF BeginConsume
<1>5. QED
  BY <1>2, <1>3, <1>4, CallerBuckets

LEMMA WatchBuckets ==
    ASSUME BucketInv, NEW c \in Callers, Watch(c) PROVE BucketInv'
<1>1. shared /\ caller[c] \in Attempt /\ caller[c].tries < Tries
  BY DEF BucketInv, BucketTypeOK, WatchersKnow, Watch
<1>2. Stored(caller[c].key) \in Bucket \cup {<< >>}
  BY DEF Stored, BucketInv, BucketTypeOK
<1> DEFINE a == [caller[c] EXCEPT !.at = "watching", !.read = Stored(caller[c].key)]
<1>3. a \in Attempt /\ a.tries < Tries /\ a.read = Stored(a.key)
  BY <1>1, <1>2 DEF Attempt
<1>4. caller' = [caller EXCEPT ![c] = a] /\ UNCHANGED <<tick, shared, buckets, grants, setback>>
  BY <1>1 DEF Watch, BucketInv, BucketTypeOK
<1> HIDE DEF a
<1>5. QED
  BY <1>1, <1>3, <1>4, CallerBuckets

LEMMA ConflictBuckets ==
    ASSUME BucketInv, NEW c \in Callers, Conflict(c) PROVE BucketInv'
<1>1. shared /\ caller[c] \in Attempt /\ caller[c].tries < Tries /\ Tries \in Nat
  BY BucketsAssumption DEF BucketInv, BucketTypeOK, WatchersKnow, Conflict
<1>2. UNCHANGED <<tick, shared, buckets, grants, setback>>
  BY DEF Conflict
<1>3. CASE caller[c].tries + 1 = Tries
  BY <1>2, <1>3, CallerBuckets DEF Conflict
<1>4. CASE caller[c].tries + 1 # Tries
  <2> DEFINE a == [caller[c] EXCEPT !.at = "ready", !.tries = caller[c].tries + 1]
  <2> DEFINE n == caller[c].tries + 1
  <2>1. n \in 0 .. Tries /\ n < Tries
    BY <1>1, <1>4 DEF Attempt
  <2> HIDE DEF n
  <2>2. a \in Attempt /\ a.tries = n /\ a.at = "ready"
    BY <1>1, <2>1 DEF Attempt, n
  <2>3. caller' = [caller EXCEPT ![c] = a]
    BY <1>4 DEF Conflict
  <2> HIDE DEF a
  <2>4. QED
    BY <1>1, <1>2, <2>1, <2>2, <2>3, CallerBuckets
<1>5. QED
  BY <1>3, <1>4

\* A full bucket has nothing to gain at the time it was made.
LEMMA FullRefilled ==
    ASSUME NEW p \in Policies, NEW now \in Nat
    PROVE  Refilled(Full(p, now), p, now) = Full(p, now)
<1>1. p.burst \in Nat /\ p.rps \in Nat
  BY PolicyBounds
<1>2. Max({0, now - now}) = 0
  BY FullIsFunded DEF Full
<1>3. 0 * p.rps = 0 /\ p.burst + 0 = p.burst
  BY <1>1
<1>4. Min({p.burst, p.burst}) = p.burst
  BY <1>1, MinMaxOfTwo
<1>5. QED
  BY <1>1, <1>2, <1>3, <1>4 DEF Refilled, Full

\* What there is of bucket k when policy p asks for it at time now.
Before(k, p, now) == IF k \in DOMAIN buckets THEN buckets[k] ELSE Full(p, now)

\* Policy p asks bucket k at time now: it was b and is refilled to r, w ticks have been
\* put back by then, and its history becomes h.
Asks(k, p, now, b, r, w, h) ==
    /\ b = Before(k, p, now)
    /\ r = Refilled(b, p, now)
    /\ w = setback[k] + PutBack(b, now)
    /\ h = After(grants[k], r, now, w)

\* A bucket that is asked in a funded store stays funded.
LEMMA AskedInStore ==
    ASSUME BucketInv, NEW k \in BucketKeys, NEW p \in Policies, NEW now \in Nat,
           NEW b, NEW r, NEW w, NEW h, Asks(k, p, now, b, r, w, h)
    PROVE  /\ w \in Nat /\ (b.last <= now => w = setback[k])
           /\ h \in Seq(Grant) /\ Budgeted(h)
           /\ Taken(r) \in Bucket /\ Taken(r).last = now /\ Taken(r).tokens <= MaxBurst
           /\ Funded(h, Taken(r).tokens, now + w)
<1> USE DEF Asks
<1>1. grants[k] \in Seq(Grant) /\ Budgeted(grants[k]) /\ setback[k] \in Nat
  BY DEF BucketInv, BucketTypeOK, Grant
<1>2. b \in Bucket /\ b.tokens <= MaxBurst /\ Funded(grants[k], b.tokens, b.last + setback[k])
  <2>1. CASE k \in DOMAIN buckets
    BY <2>1 DEF BucketInv, BucketTypeOK, BucketsFunded, Before
  <2>2. CASE k \notin DOMAIN buckets
    <3>1. grants[k] = << >>
      BY <2>2 DEF BucketInv, ForgottenWhole
    <3>2. b = Full(p, now)
      BY <2>2 DEF Before
    <3>3. QED
      BY <1>1, <3>1, <3>2, FullIsFunded
  <2>3. QED
    BY <2>1, <2>2
<1> DEFINE lost == PutBack(b, now)
<1>3. lost \in Nat /\ (b.last <= now => lost = 0)
  BY <1>2, RefillIsEarned DEF PutBack
<1>4. w = setback[k] + lost
  OBVIOUS
<1> HIDE DEF lost
<1>5. w \in Nat /\ (b.last <= now => w = setback[k])
  BY <1>1, <1>3, <1>4
<1>6. PICK g, v : g = grants[k] /\ v = setback[k]
  OBVIOUS
<1>7. /\ g \in Seq(Grant) /\ Budgeted(g) /\ v \in Nat
      /\ Funded(g, b.tokens, b.last + v)
      /\ w = v + PutBack(b, now)
      /\ h = After(g, r, now, w)
  BY <1>1, <1>2, <1>6
<1>8. /\ h \in Seq(Grant) /\ Budgeted(h)
      /\ Taken(r) \in Bucket /\ Taken(r).last = now /\ Taken(r).tokens <= MaxBurst
      /\ Funded(h, Taken(r).tokens, now + w)
  BY <1>2, <1>5, <1>7, AskedIsFunded
<1>9. QED
  BY <1>5, <1>8

\* A store in which bucket k is t now, and of which the buckets D remain.
LEMMA StoreBuckets ==
    ASSUME BucketInv, NEW k \in BucketKeys, NEW D, k \in D, D \subseteq DOMAIN buckets \cup {k},
           NEW t \in Bucket, NEW h \in Seq(Grant), NEW w \in Nat,
           t.tokens <= MaxBurst, Funded(h, t.tokens, t.last + w), Budgeted(h),
           buckets' = [q \in D |-> IF q = k THEN t ELSE buckets[q]],
           grants' = [q \in BucketKeys |-> IF q = k THEN h ELSE IF q \in D THEN grants[q] ELSE << >>],
           setback' = [setback EXCEPT ![k] = w]
    PROVE  /\ DOMAIN buckets' \subseteq BucketKeys
           /\ \A q \in DOMAIN buckets' : buckets'[q] \in Bucket
           /\ grants' \in [BucketKeys -> Seq([now: Nat, setback: Nat])]
           /\ setback' \in [BucketKeys -> Nat]
           /\ BucketsFunded'
           /\ ForgottenWhole'
           /\ \A q \in BucketKeys : Budgeted(grants[q])'
<1>1. /\ DOMAIN buckets' = D /\ D \subseteq BucketKeys
      /\ buckets'[k] = t /\ grants'[k] = h /\ setback'[k] = w
      /\ \A q \in D \ {k} : q \in DOMAIN buckets /\ buckets'[q] = buckets[q]
                            /\ grants'[q] = grants[q] /\ setback'[q] = setback[q]
      /\ \A q \in BucketKeys \ D : grants'[q] = << >>
  BY DEF BucketInv, BucketTypeOK
<1>2. \A q \in DOMAIN buckets' : buckets'[q] \in Bucket
  BY <1>1 DEF BucketInv, BucketTypeOK
<1>3. /\ grants' \in [BucketKeys -> Seq([now: Nat, setback: Nat])]
      /\ setback' \in [BucketKeys -> Nat]
  BY DEF BucketInv, BucketTypeOK, Grant
<1>4. BucketsFunded'
  <2>1. SUFFICES ASSUME NEW q \in D
                 PROVE  /\ buckets'[q].tokens <= MaxBurst
                        /\ Funded(grants'[q], buckets'[q].tokens, buckets'[q].last + setback'[q])
    BY <1>1 DEF BucketsFunded
  <2>2. CASE q = k
    BY <1>1, <2>2
  <2>3. CASE q # k
    BY <1>1, <2>3 DEF BucketInv, BucketsFunded
  <2>4. QED
    BY <2>2, <2>3
<1>5. ForgottenWhole'
  BY <1>1 DEF ForgottenWhole
<1>6. \A q \in BucketKeys : Budgeted(grants[q])'
  <2>1. SUFFICES ASSUME NEW q \in BucketKeys PROVE Budgeted(grants'[q])
    OBVIOUS
  <2>2. CASE q = k
    BY <1>1, <2>2
  <2>3. CASE q \in D \ {k}
    BY <1>1, <2>3 DEF BucketInv
  <2>4. CASE q \notin D
    BY <1>1, <2>4 DEF Budgeted
  <2>5. QED
    BY <2>2, <2>3, <2>4
<1>7. QED
  BY <1>1, <1>2, <1>3, <1>4, <1>5, <1>6

\* The in-memory backend serves a request, and may forget buckets, never the one it made.
LEMMA ConsumeBuckets ==
    ASSUME BucketInv, NEW k \in BucketKeys, NEW p \in Policies, Consume(k, p)
    PROVE  BucketInv'
<1>1. ~shared /\ UNCHANGED <<tick, shared, caller, setback>> /\ tick \in Nat
  BY BucketsAssumption DEF Consume, BucketInv, BucketTypeOK
<1>2. PICK now, b, r, w, h : now = tick /\ Asks(k, p, now, b, r, w, h)
  BY DEF Asks
<1>3. /\ w \in Nat /\ (b.last <= now => w = setback[k])
      /\ h \in Seq(Grant) /\ Budgeted(h)
      /\ Taken(r) \in Bucket /\ Taken(r).last = now /\ Taken(r).tokens <= MaxBurst
      /\ Funded(h, Taken(r).tokens, now + w)
  BY <1>1, <1>2, AskedInStore
<1> DEFINE all == With(k, Taken(r))
<1>a. r = IF k \in DOMAIN buckets THEN Refilled(buckets[k], p, tick) ELSE Full(p, tick)
  BY <1>1, <1>2, FullRefilled DEF Before, Asks
<1>4. b.last <= tick
  BY <1>1, <1>2, FullIsFunded DEF BucketInv, ClockIsAhead, Before, BucketTypeOK, Full, Asks
<1>5. PICK D \in IF k \in DOMAIN buckets THEN {DOMAIN all} ELSE Kept(all, k) :
        /\ buckets' = [q \in D |-> all[q]]
        /\ grants' = Asked([q \in BucketKeys |-> IF q \in D THEN grants[q] ELSE << >>], k, r, tick)
  BY <1>a DEF Consume
<1>6. Taken(r).seen = tick
  BY <1>2 DEF Taken, Refilled, Asks
<1>7. DOMAIN all = DOMAIN buckets \cup {k} /\ all[k] = Taken(r)
  BY DEF With
<1>8. k \in D /\ D \subseteq DOMAIN buckets \cup {k}
  <2>1. CASE k \in DOMAIN buckets
    BY <1>5, <1>7, <2>1
  <2>2. CASE k \notin DOMAIN buckets
    <3>1. IdleTicks \in Nat
      BY BucketsAssumption
    <3>2. k \in {q \in DOMAIN all : tick <= all[q].seen + IdleTicks}
      BY <1>1, <1>6, <1>7, <3>1
    <3> HIDE DEF all
    <3>3. D \in Kept(all, k)
      BY <1>5, <2>2
    <3>4. PICK some \in {DOMAIN all, {q \in DOMAIN all : tick <= all[q].seen + IdleTicks}} :
            D = some \/ \E o \in some \ {k} : D = some \ {o}
      BY <3>3 DEF Kept
    <3>5. QED
      BY <1>7, <3>2, <3>4
  <2>3. QED
    BY <2>1, <2>2
<1>9. buckets' = [q \in D |-> IF q = k THEN Taken(r) ELSE buckets[q]]
  BY <1>5, <1>8 DEF With
<1>10. grants' = [q \in BucketKeys |-> IF q = k THEN h ELSE IF q \in D THEN grants[q] ELSE << >>]
  <2> DEFINE past == [q \in BucketKeys |-> IF q \in D THEN grants[q] ELSE << >>]
  <2>1. past[k] = grants[k] /\ setback'[k] = w
    BY <1>1, <1>2, <1>3, <1>4, <1>8
  <2>2. grants' = IF r.tokens = 0 THEN past
                  ELSE [past EXCEPT ![k] = Append(past[k], [now |-> tick, setback |-> w])]
    BY <1>5, <2>1 DEF Asked
  <2>3. h = IF r.tokens = 0 THEN past[k]
            ELSE Append(past[k], [now |-> tick, setback |-> w])
    BY <1>2, <2>1 DEF After, Asks
  <2>4. QED
    BY <1>8, <2>1, <2>2, <2>3
<1>11. setback' = [setback EXCEPT ![k] = w]
  BY <1>1, <1>2, <1>3, <1>4 DEF BucketInv, BucketTypeOK
<1> HIDE DEF all
<1>12. /\ DOMAIN buckets' \subseteq BucketKeys
       /\ \A q \in DOMAIN buckets' : buckets'[q] \in Bucket
       /\ grants' \in [BucketKeys -> Seq([now: Nat, setback: Nat])]
       /\ setback' \in [BucketKeys -> Nat]
       /\ BucketsFunded'
       /\ ForgottenWhole'
       /\ \A q \in BucketKeys : Budgeted(grants[q])'
  BY <1>3, <1>8, <1>9, <1>10, <1>11, StoreBuckets
<1>13. BucketTypeOK'
  BY <1>1, <1>12 DEF BucketInv, BucketTypeOK
<1>14. ClockIsAhead'
  BY <1>1, <1>2, <1>3, <1>8, <1>9 DEF BucketInv, ClockIsAhead
<1>15. WatchersKnow'
  BY <1>1 DEF BucketInv, WatchersKnow
<1>16. QED
  BY <1>12, <1>14, <1>15, <1>13 DEF BucketInv

\* A caller writes the bucket it has read.
LEMMA ExecBuckets ==
    ASSUME BucketInv, NEW c \in Callers, Exec(c) PROVE BucketInv'
<1>1. PICK a : a = caller[c] /\ a \in Attempt
  BY DEF Exec, BucketInv, BucketTypeOK
<1>2. PICK k \in BucketKeys, p \in Policies, now \in Nat : k = a.key /\ p = a.policy /\ now = a.now
  BY <1>1 DEF Attempt
<1>a. PICK b, r, w, h : Asks(k, p, now, b, r, w, h)
  BY DEF Asks
<1>3. b = IF a.read = << >> THEN Full(p, now) ELSE a.read
  <2>1. a.read = Stored(k)
    BY <1>1, <1>2 DEF Exec, BucketInv, WatchersKnow
  <2>2. \A q \in DOMAIN buckets : buckets[q] # << >>
    BY NotNothing DEF BucketInv, BucketTypeOK
  <2>3. QED
    BY <1>a, <2>1, <2>2 DEF Stored, Before, Asks
<1>4. /\ w \in Nat
      /\ h \in Seq(Grant) /\ Budgeted(h)
      /\ Taken(r) \in Bucket /\ Taken(r).last = now /\ Taken(r).tokens <= MaxBurst
      /\ Funded(h, Taken(r).tokens, now + w)
  BY <1>a, AskedInStore
<1>5. /\ buckets' = With(k, Taken(r))
      /\ setback' = [setback EXCEPT ![k] = w]
      /\ grants' = Asked(grants, k, r, now)
      /\ Beaten(c, k) /\ UNCHANGED <<tick, shared>> /\ shared
  BY <1>1, <1>2, <1>3, <1>a DEF Exec, BucketInv, WatchersKnow, PutBack, Asks
<1> DEFINE D == DOMAIN buckets \cup {k}
<1>6. buckets' = [q \in D |-> IF q = k THEN Taken(r) ELSE buckets[q]]
  BY <1>5 DEF With
<1>7. grants' = [q \in BucketKeys |-> IF q = k THEN h ELSE IF q \in D THEN grants[q] ELSE << >>]
  <2>1. grants \in [BucketKeys -> Seq(Grant)] /\ setback \in [BucketKeys -> Nat]
    BY DEF BucketInv, BucketTypeOK, Grant
  <2>2. \A q \in BucketKeys \ D : grants[q] = << >>
    BY DEF BucketInv, ForgottenWhole
  <2> HIDE DEF D
  <2>3. setback'[k] = w
    BY <1>5, <2>1
  <2>4. grants' = IF r.tokens = 0 THEN grants
                  ELSE [grants EXCEPT ![k] = Append(grants[k], [now |-> now, setback |-> w])]
    <3>1. grants' = Asked(grants, k, r, now)
      BY <1>5
    <3>2. QED
      BY <2>3, <3>1, Zenon DEF Asked
  <2>5. \A q \in BucketKeys :
           grants'[q] = IF q = k THEN h ELSE IF q \in D THEN grants[q] ELSE << >>
    BY <1>a, <2>1, <2>2, <2>4 DEF After, Asks
  <2>6. grants' = [q \in BucketKeys |-> grants'[q]]
    BY <2>1, <2>4
  <2>7. QED
    BY <2>5, <2>6
<1>8. k \in D /\ D \subseteq DOMAIN buckets \cup {k}
  OBVIOUS
<1> HIDE DEF D
<1>9. /\ DOMAIN buckets' \subseteq BucketKeys
      /\ \A q \in DOMAIN buckets' : buckets'[q] \in Bucket
      /\ grants' \in [BucketKeys -> Seq([now: Nat, setback: Nat])]
      /\ setback' \in [BucketKeys -> Nat]
      /\ BucketsFunded'
      /\ ForgottenWhole'
      /\ \A q \in BucketKeys : Budgeted(grants[q])'
  <2>1. Funded(h, Taken(r).tokens, Taken(r).last + w)
    BY <1>4
  <2>2. /\ w \in Nat /\ h \in Seq(Grant) /\ Budgeted(h)
        /\ Taken(r) \in Bucket /\ Taken(r).tokens <= MaxBurst
        /\ setback' = [setback EXCEPT ![k] = w]
    BY <1>4, <1>5
  <2>3. QED
    BY ZenonT(60), <1>6, <1>7, <1>8, <2>1, <2>2, StoreBuckets
<1>10. \A d \in Callers :
          \/ caller'[d] = << >>
          \/ d # c /\ caller'[d] = caller[d] /\ ~(caller[d].key = k /\ caller[d].at = "watching")
          \/ /\ d # c /\ caller[d] # << >>
             /\ caller'[d] = [caller[d] EXCEPT !.at = "beaten", !.read = << >>]
  BY <1>5 DEF Beaten
<1>11. \A d \in Callers : caller[d] # << >> =>
          /\ caller[d] \in Attempt
          /\ [caller[d] EXCEPT !.at = "beaten", !.read = << >>] \in Attempt
          /\ [caller[d] EXCEPT !.at = "beaten", !.read = << >>].tries = caller[d].tries
          /\ [caller[d] EXCEPT !.at = "beaten", !.read = << >>].at = "beaten"
  BY DEF BucketInv, BucketTypeOK, Attempt
<1>12. caller' \in [Callers -> Attempt \cup {<< >>}]
  <2>1. \A d \in Callers : caller'[d] \in Attempt \cup {<< >>}
    BY <1>10, <1>11
  <2>2. caller' = [d \in Callers |-> caller'[d]]
    BY <1>5 DEF Beaten
  <2>3. QED
    BY <2>1, <2>2
<1>13. BucketTypeOK'
  BY <1>5, <1>9, <1>12 DEF BucketInv, BucketTypeOK
<1>14. ClockIsAhead'
  BY <1>5 DEF ClockIsAhead
<1>15. WatchersKnow'
  <2>1. \A q \in BucketKeys \ {k} :
           Stored(q) = IF q \in DOMAIN buckets' THEN buckets'[q] ELSE << >>
    BY <1>6 DEF Stored, D
  <2>2. SUFFICES ASSUME NEW d \in Callers, caller'[d] # << >>
                 PROVE  /\ shared'
                        /\ caller'[d].tries < Tries
                        /\ caller'[d].at = "watching" =>
                              caller'[d].read = IF caller'[d].key \in DOMAIN buckets'
                                                THEN buckets'[caller'[d].key] ELSE << >>
    BY DEF WatchersKnow, Stored
  <2>3. CASE caller'[d] = caller[d] /\ ~(caller[d].key = k /\ caller[d].at = "watching")
    <3>1. caller[d] \in Attempt /\ caller[d].key \in BucketKeys
      BY <1>11, <2>2, <2>3 DEF Attempt
    <3>2. QED
      BY <1>5, <2>1, <2>2, <2>3, <3>1 DEF BucketInv, WatchersKnow
  <2>4. CASE /\ caller[d] # << >>
             /\ caller'[d] = [caller[d] EXCEPT !.at = "beaten", !.read = << >>]
    BY <1>5, <1>11, <2>4 DEF BucketInv, WatchersKnow
  <2>5. QED
    BY <1>10, <2>2, <2>3, <2>4
<1>16. QED
  BY <1>9, <1>13, <1>14, <1>15 DEF BucketInv

-----------------------------------------------------------------------------
(* Buckets: the theorems *)

\* Every step of the buckets, on either backend, keeps them funded.
LEMMA NextBuckets == ASSUME BucketInv, [BucketNext]_bucketVars PROVE BucketInv'
<1>1. CASE BucketTick
  BY <1>1, TickBuckets
<1>2. ASSUME NEW k \in BucketKeys, NEW p \in Policies, Consume(k, p) PROVE BucketInv'
  BY <1>2, ConsumeBuckets
<1>3. ASSUME NEW c \in Callers, NEW k \in Observed, NEW p \in Policies, BeginConsume(c, k, p)
      PROVE  BucketInv'
  BY <1>3, BeginBuckets
<1>4. ASSUME NEW c \in Callers, Watch(c) \/ Exec(c) \/ Conflict(c) PROVE BucketInv'
  BY <1>4, WatchBuckets, ExecBuckets, ConflictBuckets
<1>5. CASE UNCHANGED bucketVars
  BY <1>5 DEF bucketVars, BucketInv, BucketTypeOK, BucketsFunded, ForgottenWhole, ClockIsAhead,
              WatchersKnow, Stored
<1>6. QED
  BY <1>1, <1>2, <1>3, <1>4, <1>5 DEF BucketNext

\* What every bucket has admitted and still has to give was earned by its own clock, at all
\* times: the reason for the others.
THEOREM BucketsStayFunded == BucketSpec => []BucketInv
<1> QED
  BY InitBuckets, NextBuckets, PTL DEF BucketSpec

\* Over any stretch of time a bucket admits no more than the largest burst and what the
\* fastest policy refills, on either backend and however the callers of Redis interleave,
\* but for what is refilled twice after a late reading of the clock (anti_abuse.py, consume).
THEOREM BudgetHolds == BucketSpec => []WithinBudget
<1>1. BucketInv => WithinBudget
  BY DEF BucketInv, Budgeted, WithinBudget
<1> QED
  BY <1>1, BucketsStayFunded, PTL

-----------------------------------------------------------------------------
(* Index: the inductive invariant *)

\* An import's places after its row is written, a maker's and a user's of a pipeline.
Written == {"inserted", "half", "added"}
Making == {"reading", "embedding", "filling"}
Using == {"waiting", "found", "unindexed"} \cup Saving

\* What a request knows fits the place it is at.
PlaceFits(r) ==
    /\ rag[r].at \in {"new", "over"} \cup Making => rag[r].pipe = 0 /\ rag[r].found = Nil
    /\ rag[r].at \in Using => rag[r].pipe # 0
    /\ rag[r].at \in Saving => r \in Imports
    /\ rag[r].at \in {"found", "unindexed"} => r \in Deletes /\ rag[r].found # Nil
    /\ rag[r].at = "filling" => stored # Nil

PlacesFit == \A r \in RagRequests : PlaceFits(r)

\* Documents are listed under their own path, and only after their import wrote them.
RowsFit ==
    \A p \in Paths :
        /\ rows[p] # Nil => PathOf[rows[p]] = p /\ rag[rows[p]].at \in Written \cup {"over"}
        /\ durable[p] # Nil => PathOf[durable[p]] = p /\ rag[durable[p]].at = "over"

\* One pipeline is in use, or some are being made.
OnePipeline ==
    /\ current # 0 => pipes[current].coll = live
    /\ \A r \in RagRequests :
        /\ rag[r].at \in Making => current = 0
        /\ rag[r].at \in Using => current # 0 /\ rag[r].pipe = current
        /\ rag[r].at \in Saving => pipes[current].holder = r
        /\ rag[r].at \in {"embedding", "filling"} => rag[r].snapshot = Docs(rows)

\* The transaction is that of the import that holds the lock.
OneWriter ==
    /\ \A r \in RagRequests :
        /\ rag[r].at \in Written => rows[PathOf[r]] = r
        /\ rag[r].at \in {"ready", "dropped"} => rag[r].found = rows[PathOf[r]]
        /\ rag[r].found # Nil => rag[rag[r].found].at = "over"
        /\ rag[r].at \in Saving /\ rag[r].found # Nil => PathOf[rag[r].found] = PathOf[r]
    /\ \A p \in Paths :
        \/ rows[p] = durable[p]
        \/ rows[p] = Nil /\ "lost" \in faults
        \/ rows[p] # Nil /\ rag[rows[p]].at \in Written

Has(doc, part) == \E v \in vectors : v.doc = doc /\ v.part = part

\* A document lacks vectors only while somebody makes the collection anew, deletes it, or
\* is about to replace it; an import has added as much as its place says.
RowsAreIndexed ==
    /\ faults \cap {"lost", "cut", "crash"} = {} =>
        \A d \in Docs(durable) :
            \/ Has(d, 1) /\ Has(d, 2)
            \/ \E r \in RagRequests : rag[r].at = "filling"
            \/ \E r \in RagRequests :
                rag[r].found = d /\ rag[r].at \in {"unindexed", "dropped"} \cup Written
    /\ \A r \in RagRequests :
        /\ rag[r].at \in {"half", "added"} => Has(r, 1)
        /\ rag[r].at = "added" => Has(r, 2)

\* Vectors are of documents that are listed or about to be, and not of those that are
\* about to go.
VectorsAreListed ==
    faults \cap {"kept", "crash"} = {} =>
        /\ \A v \in vectors :
            /\ v.doc \in Docs(rows)
            /\ v.doc \in Docs(durable) \/ rag[v.doc].at \in Written
        /\ \A r \in RagRequests :
            rag[r].at \in {"unindexed", "dropped"} /\ rag[r].found # Nil
                => \A v \in vectors : v.doc # rag[r].found

\* The pipeline in use embeds with the collection's model.
OneModelInUse ==
    "skipped" \notin faults =>
        /\ \A v \in vectors : v.model = stored
        /\ current # 0 =>
            /\ pipes[current].loaded \in {Nil, stored}
            /\ pipes[current].loaded = Nil => stored = model

\* What holds until requests of two pipelines are under way together.
Alone ==
    /\ RowsFit
    /\ OnePipeline
    /\ OneWriter
    /\ RowsAreIndexed
    /\ VectorsAreListed
    /\ OneModelInUse

\* Types, and places that fit, whatever happens.
RagTyped == RagTypeOK /\ PlacesFit

RagInv == RagTyped /\ ("shared" \notin faults => Alone)

-----------------------------------------------------------------------------
(* Index: types *)

RagPlaces == {"new", "reading", "embedding", "filling", "waiting", "found", "unindexed", "over"}
                \cup Saving

LEMMA RagNames ==
    /\ Imports \cap Deletes = {}
    /\ PathOf \in [RagRequests -> Paths]
    /\ FirstModel \in Models
    /\ Nil \notin Imports /\ Nil \notin Deletes /\ Nil \notin Models
    /\ RagRequests = Imports \cup Deletes
    /\ MaxConfigs \in Nat /\ MaxCrashes \in Nat
BY RagAssumption DEF RagRequests

\* What the types say of each variable.
LEMMA RagTypes ==
    ASSUME RagTypeOK
    PROVE  /\ DOMAIN rag = RagRequests
           /\ \A r \in RagRequests :
                /\ rag[r].at \in RagPlaces
                /\ rag[r].pipe \in Nat /\ rag[r].pipe <= Len(pipes)
                /\ rag[r].found \in Imports \cup {Nil}
                /\ rag[r].snapshot \subseteq Imports
                /\ rag[r] = [at |-> rag[r].at, pipe |-> rag[r].pipe, found |-> rag[r].found,
                             snapshot |-> rag[r].snapshot]
           /\ Len(pipes) \in Nat /\ DOMAIN pipes = 1..Len(pipes)
           /\ current \in Nat /\ current <= Len(pipes)
           /\ \A i \in 1..Len(pipes) :
                /\ pipes[i].coll \in Nat
                /\ pipes[i].loaded \in Models \cup {Nil}
                /\ pipes[i].holder \in Imports \cup {Nil}
<1>1. /\ rag \in [RagRequests -> [at: RagPlaces, pipe: 0..Len(pipes), found: Imports \cup {Nil},
                                  snapshot: SUBSET Imports]]
      /\ pipes \in Seq([coll: Nat, loaded: Models \cup {Nil}, holder: Imports \cup {Nil}])
      /\ current \in 0..Len(pipes)
  BY DEF RagTypeOK, RagPlaces
<1>2. Len(pipes) \in Nat /\ DOMAIN pipes = 1..Len(pipes)
  BY <1>1
<1>3. \A i \in 1..Len(pipes) :
        pipes[i] \in [coll: Nat, loaded: Models \cup {Nil}, holder: Imports \cup {Nil}]
  BY <1>1, <1>2, ElementOfSeq
<1>4. \A r \in RagRequests :
        rag[r] \in [at: RagPlaces, pipe: 0..Len(pipes), found: Imports \cup {Nil},
                    snapshot: SUBSET Imports]
  BY <1>1
<1>5. DOMAIN rag = RagRequests
  BY <1>1
<1> HIDE <1>1
<1>6. \A r \in RagRequests :
        /\ rag[r].at \in RagPlaces
        /\ rag[r].pipe \in Nat /\ rag[r].pipe <= Len(pipes)
        /\ rag[r].found \in Imports \cup {Nil}
        /\ rag[r].snapshot \subseteq Imports
        /\ rag[r] = [at |-> rag[r].at, pipe |-> rag[r].pipe, found |-> rag[r].found,
                     snapshot |-> rag[r].snapshot]
  BY <1>2, <1>4
<1> QED
  BY <1>1, <1>2, <1>3, <1>5, <1>6

\* A step is one of request r, and leaves it at this place with this knowledge.
OnlyRag(r) == rag' = [rag EXCEPT ![r] = rag'[r]]
RagIs(r, at, pipe, found, snapshot) ==
    rag'[r] = [at |-> at, pipe |-> pipe, found |-> found, snapshot |-> snapshot]

\* The pipelines stay as many as they are.
LEMMA OneRequestTyped ==
    ASSUME RagTypeOK, NEW r \in RagRequests, OnlyRag(r),
           rag'[r] \in [at: RagPlaces, pipe: 0..Len(pipes), found: Imports \cup {Nil},
                        snapshot: SUBSET Imports],
           Len(pipes') = Len(pipes),
           pipes' \in Seq([coll: Nat, loaded: Models \cup {Nil}, holder: Imports \cup {Nil}]),
           model' \in Models, rows' \in [Paths -> Imports \cup {Nil}],
           durable' \in [Paths -> Imports \cup {Nil}],
           live' \in Nat, stored' \in Models \cup {Nil}, vectors' \subseteq Vector,
           current' = current, configs' = configs, crashes' = crashes, faults' \subseteq Faults
    PROVE  RagTypeOK'
<1>1. rag' \in [RagRequests -> [at: RagPlaces, pipe: 0..Len(pipes'), found: Imports \cup {Nil},
                                snapshot: SUBSET Imports]]
  BY DEF RagTypeOK, RagPlaces, OnlyRag
<1>2. current' \in 0..Len(pipes')
  BY DEF RagTypeOK
<1> QED
  BY <1>1, <1>2 DEF RagTypeOK, RagPlaces

LEMMA TypedInit ==
    RagInit => RagTyped
BY RagNames DEF RagInit, RagTyped, RagTypeOK, PlacesFit, PlaceFits, Saving, Making, Using, Faults

\* A pipeline more.
LEMMA PipesGrow ==
    ASSUME RagTypeOK, NEW coll \in Nat, NEW loaded \in Models \cup {Nil},
           pipes' = Append(pipes, [coll |-> coll, loaded |-> loaded, holder |-> Nil])
    PROVE  /\ pipes' \in Seq([coll: Nat, loaded: Models \cup {Nil}, holder: Imports \cup {Nil}])
           /\ Len(pipes') = Len(pipes) + 1
           /\ pipes'[Len(pipes')] = [coll |-> coll, loaded |-> loaded, holder |-> Nil]
BY DEF RagTypeOK

\* One of them is locked, unlocked or loads its model.
LEMMA PipeChanges ==
    ASSUME RagTypeOK, NEW i \in 1..Len(pipes),
           NEW x \in [coll: Nat, loaded: Models \cup {Nil}, holder: Imports \cup {Nil}],
           pipes' = [pipes EXCEPT ![i] = x]
    PROVE  /\ pipes' \in Seq([coll: Nat, loaded: Models \cup {Nil}, holder: Imports \cup {Nil}])
           /\ Len(pipes') = Len(pipes)
           /\ pipes'[i] = x
           /\ \A k \in 1..Len(pipes) : k # i => pipes'[k] = pipes[k]
BY DEF RagTypeOK

-----------------------------------------------------------------------------
(* Index: what the actions do *)

ArriveEffect(r) ==
    /\ rag[r].at = "new"
    /\ OnlyRag(r)
    /\ \/ current = 0 /\ RagIs(r, "reading", 0, Nil, rag[r].snapshot)
       \/ current # 0 /\ RagIs(r, "waiting", current, Nil, rag[r].snapshot)
    /\ UNCHANGED <<model, rows, durable, live, stored, vectors, pipes, current, configs,
                   crashes, faults>>

LEMMA ArriveDoes ==
    ASSUME RagTyped, NEW r \in RagRequests, ArriveRag(r)
    PROVE  ArriveEffect(r)
<1>1. rag[r].found = Nil
  BY RagTypes DEF ArriveRag, RagTyped, PlacesFit, PlaceFits, RagAt
<1>2. rag[r] = [at |-> rag[r].at, pipe |-> rag[r].pipe, found |-> Nil,
                snapshot |-> rag[r].snapshot]
  BY <1>1, RagTypes DEF RagTyped
<1>3. OnlyRag(r)
  BY RagTypes DEF ArriveRag, RagTyped, OnlyRag
<1>4. rag'[r] = [rag[r] EXCEPT !.at = IF current = 0 THEN "reading" ELSE "waiting",
                               !.pipe = current]
  BY RagTypes DEF ArriveRag, RagTyped
<1>5. rag'[r] = [[at |-> rag[r].at, pipe |-> rag[r].pipe, found |-> Nil,
                  snapshot |-> rag[r].snapshot]
                  EXCEPT !.at = IF current = 0 THEN "reading" ELSE "waiting", !.pipe = current]
  BY <1>2, <1>4
<1>6. RagIs(r, IF current = 0 THEN "reading" ELSE "waiting", current, Nil, rag[r].snapshot)
  BY <1>5 DEF RagIs
<1> QED
  BY <1>3, <1>6 DEF ArriveEffect, ArriveRag, RagAt, ragData, ragIndex, ragOperator

LEMMA MadeDoes ==
    ASSUME RagTyped, NEW r \in RagRequests, rag[r].at \in Making,
           NEW coll \in Nat, NEW loaded \in Models \cup {Nil}, Made(r, coll, loaded)
    PROVE  /\ OnlyRag(r)
           /\ RagIs(r, "waiting", Len(pipes'), Nil, {})
           /\ current' = Len(pipes')
           /\ pipes' \in Seq([coll: Nat, loaded: Models \cup {Nil}, holder: Imports \cup {Nil}])
           /\ Len(pipes') = Len(pipes) + 1
           /\ pipes'[current'] = [coll |-> coll, loaded |-> loaded, holder |-> Nil]
<1>1. pipes' = Append(pipes, [coll |-> coll, loaded |-> loaded, holder |-> Nil])
  BY DEF Made
<1>2. /\ pipes' \in Seq([coll: Nat, loaded: Models \cup {Nil}, holder: Imports \cup {Nil}])
      /\ Len(pipes') = Len(pipes) + 1
      /\ pipes'[Len(pipes')] = [coll |-> coll, loaded |-> loaded, holder |-> Nil]
  BY <1>1, PipesGrow DEF RagTyped
<1>3. rag[r].found = Nil
  BY DEF RagTyped, PlacesFit, PlaceFits
<1>4. rag[r] = [at |-> rag[r].at, pipe |-> rag[r].pipe, found |-> Nil,
                snapshot |-> rag[r].snapshot]
  BY <1>3, RagTypes DEF RagTyped
<1>5. OnlyRag(r)
  BY RagTypes DEF Made, RagTyped, OnlyRag
<1>6. rag'[r] = [rag[r] EXCEPT !.at = "waiting", !.pipe = Len(pipes'), !.snapshot = {}]
  BY RagTypes DEF Made, RagTyped
<1>7. rag'[r] = [[at |-> rag[r].at, pipe |-> rag[r].pipe, found |-> Nil,
                  snapshot |-> rag[r].snapshot]
                  EXCEPT !.at = "waiting", !.pipe = Len(pipes'), !.snapshot = {}]
  BY <1>4, <1>6
<1>8. RagIs(r, "waiting", Len(pipes'), Nil, {})
  BY <1>7 DEF RagIs
<1> QED
  BY <1>2, <1>5, <1>8 DEF Made

\* A reader makes the pipeline, or finds vectors of another model.
ReadEffect(r) ==
    /\ rag[r].at = "reading"
    /\ UNCHANGED <<model, rows, durable, live, vectors, configs, crashes>>
    /\ \/ /\ stored \in {Nil, model} \/ Docs(rows) = {}
          /\ Made(r, live, Nil)
          /\ stored' = IF stored = Nil THEN model ELSE stored
          /\ Fault(Twins(r) \cup IF stored' = model THEN {} ELSE {"skipped"})
       \/ /\ stored \notin {Nil, model}
          /\ OnlyRag(r)
          /\ RagIs(r, "embedding", 0, Nil, Docs(rows))
          /\ UNCHANGED <<stored, pipes, current, faults>>

LEMMA ReadDoes ==
    ASSUME RagTyped, NEW r \in RagRequests, ReadModel(r)
    PROVE  ReadEffect(r)
<1>1. rag[r].at = "reading"
  BY DEF ReadModel, RagAt
<1>2. rag[r] = [at |-> rag[r].at, pipe |-> 0, found |-> Nil, snapshot |-> rag[r].snapshot]
  BY <1>1, RagTypes DEF RagTyped, PlacesFit, PlaceFits, Making
<1>3. ASSUME rag' = [rag EXCEPT ![r].at = "embedding", ![r].snapshot = Docs(rows)]
      PROVE  OnlyRag(r) /\ RagIs(r, "embedding", 0, Nil, Docs(rows))
  <2>1. OnlyRag(r)
    BY <1>3, RagTypes DEF RagTyped, OnlyRag
  <2>2. rag'[r] = [rag[r] EXCEPT !.at = "embedding", !.snapshot = Docs(rows)]
    BY <1>3, RagTypes DEF RagTyped
  <2>3. rag'[r] = [[at |-> rag[r].at, pipe |-> 0, found |-> Nil, snapshot |-> rag[r].snapshot]
                    EXCEPT !.at = "embedding", !.snapshot = Docs(rows)]
    BY <1>2, <2>2
  <2>4. RagIs(r, "embedding", 0, Nil, Docs(rows))
    BY <2>3 DEF RagIs
  <2> QED
    BY <2>1, <2>4
<1> QED
  BY <1>1, <1>3 DEF ReadEffect, ReadModel, ragData, ragOperator

ReembedEffect(r) ==
    /\ rag[r].at = "embedding"
    /\ OnlyRag(r)
    /\ UNCHANGED <<model, rows, durable, pipes, current, configs, crashes, faults>>
    /\ \/ /\ RagIs(r, "filling", 0, Nil, rag[r].snapshot)
          /\ live' = live + 1
          /\ stored' = model
          /\ vectors' = {}
       \/ /\ RagIs(r, "over", 0, Nil, {})
          /\ UNCHANGED <<live, stored, vectors>>

LEMMA ReembedDoes ==
    ASSUME RagTyped, NEW r \in RagRequests, Reembed(r)
    PROVE  ReembedEffect(r)
<1>1. rag[r].at = "embedding"
  BY DEF Reembed, RagAt
<1>2. rag[r] = [at |-> rag[r].at, pipe |-> 0, found |-> Nil, snapshot |-> rag[r].snapshot]
  BY <1>1, RagTypes DEF RagTyped, PlacesFit, PlaceFits, Making
<1>3. ASSUME RagGo(r, "filling")
      PROVE  OnlyRag(r) /\ RagIs(r, "filling", 0, Nil, rag[r].snapshot)
  BY <1>2, <1>3, RagTypes DEF RagTyped, OnlyRag, RagIs, RagGo
<1>4. ASSUME RagEnds(r)
      PROVE  OnlyRag(r) /\ RagIs(r, "over", 0, Nil, {})
  BY <1>4, RagTypes DEF RagTyped, OnlyRag, RagIs, RagEnds, RagOver
<1> QED
  BY <1>1, <1>3, <1>4 DEF ReembedEffect, Reembed, ragData, ragIndex, ragOperator

LEMMA EndsDoes ==
    ASSUME RagTyped, NEW r \in RagRequests, RagEnds(r)
    PROVE  OnlyRag(r) /\ RagIs(r, "over", 0, Nil, {})
BY RagTypes DEF RagTyped, OnlyRag, RagIs, RagEnds, RagOver

LEMMA GoDoes ==
    ASSUME RagTyped, NEW r \in RagRequests, NEW place, RagGo(r, place)
    PROVE  OnlyRag(r) /\ RagIs(r, place, rag[r].pipe, rag[r].found, rag[r].snapshot)
BY RagTypes DEF RagTyped, OnlyRag, RagIs, RagGo

RefillEffect(r) ==
    /\ rag[r].at = "filling"
    /\ UNCHANGED <<model, rows, durable, live, stored, configs, crashes>>
    /\ \/ /\ vectors' = vectors \cup [doc: rag[r].snapshot, part: {1, 2}, model: {stored}]
          /\ Made(r, live, stored)
          /\ faults' = faults \cup Twins(r)
       \/ /\ \E part \in SUBSET {1} :
                 vectors' = vectors \cup [doc: rag[r].snapshot, part: part, model: {stored}]
          /\ OnlyRag(r)
          /\ RagIs(r, "over", 0, Nil, {})
          /\ faults' = faults \cup {"cut"}
          /\ UNCHANGED <<pipes, current>>

LEMMA RefillDoes ==
    ASSUME RagTyped, NEW r \in RagRequests, Refill(r)
    PROVE  RefillEffect(r)
BY EndsDoes DEF RefillEffect, Refill, RagAt, Fault, ragData, ragOperator

\* A user's pipeline is one of them; its lock is taken, given back, or its model loaded.
LEMMA LockTurns ==
    ASSUME RagTyped, NEW r \in RagRequests, rag[r].at \in Using,
           NEW h \in Imports \cup {Nil}, pipes' = [pipes EXCEPT ![rag[r].pipe].holder = h]
    PROVE  /\ pipes' \in Seq([coll: Nat, loaded: Models \cup {Nil}, holder: Imports \cup {Nil}])
           /\ Len(pipes') = Len(pipes)
           /\ pipes'[rag[r].pipe] = [Pipe(r) EXCEPT !.holder = h]
<1>1. rag[r].pipe \in 1..Len(pipes)
  BY RagTypes DEF RagTyped, PlacesFit, PlaceFits
<1>2. pipes[rag[r].pipe] \in [coll: Nat, loaded: Models \cup {Nil}, holder: Imports \cup {Nil}]
  BY <1>1, ElementOfSeq DEF RagTyped, RagTypeOK
<1>3. [Pipe(r) EXCEPT !.holder = h]
            \in [coll: Nat, loaded: Models \cup {Nil}, holder: Imports \cup {Nil}]
  BY <1>2 DEF Pipe
<1>4. pipes' = [pipes EXCEPT ![rag[r].pipe] = [Pipe(r) EXCEPT !.holder = h]]
  BY <1>1, RagTypes DEF Pipe, RagTyped
<1> HIDE DEF Pipe
<1> QED
  BY <1>1, <1>3, <1>4, PipeChanges DEF RagTyped

LockEffect(r) ==
    /\ rag[r].at = "waiting" /\ r \in Imports /\ Pipe(r).holder = Nil
    /\ OnlyRag(r)
    /\ RagIs(r, "ready", rag[r].pipe, rows[PathOf[r]], rag[r].snapshot)
    /\ pipes' \in Seq([coll: Nat, loaded: Models \cup {Nil}, holder: Imports \cup {Nil}])
    /\ Len(pipes') = Len(pipes)
    /\ pipes'[rag[r].pipe] = [Pipe(r) EXCEPT !.holder = r]
    /\ UNCHANGED <<model, rows, durable, live, stored, vectors, current, configs, crashes,
                   faults>>

LEMMA LockDoes ==
    ASSUME RagTyped, NEW r \in RagRequests, Lock(r)
    PROVE  LockEffect(r)
<1>1. rag[r].at = "waiting" /\ rag[r].at \in Using
  BY DEF Lock, RagAt, Using
<1>2. /\ pipes' \in Seq([coll: Nat, loaded: Models \cup {Nil}, holder: Imports \cup {Nil}])
      /\ Len(pipes') = Len(pipes)
      /\ pipes'[rag[r].pipe] = [Pipe(r) EXCEPT !.holder = r]
  BY <1>1, LockTurns DEF Lock
<1>3. rag[r] = [at |-> rag[r].at, pipe |-> rag[r].pipe, found |-> rag[r].found,
                snapshot |-> rag[r].snapshot]
  BY RagTypes DEF RagTyped
<1>4. OnlyRag(r)
  BY RagTypes DEF Lock, RagTyped, OnlyRag
<1>5. rag'[r] = [rag[r] EXCEPT !.at = "ready", !.found = rows[PathOf[r]]]
  BY RagTypes DEF Lock, RagTyped
<1>6. RagIs(r, "ready", rag[r].pipe, rows[PathOf[r]], rag[r].snapshot)
  BY <1>3, <1>5 DEF RagIs
<1> QED
  BY <1>1, <1>2, <1>4, <1>6 DEF LockEffect, Lock, ragData, ragIndex, ragOperator

DropOldEffect(r) ==
    /\ rag[r].at = "ready"
    /\ OnlyRag(r)
    /\ RagIs(r, "dropped", rag[r].pipe, rag[r].found, rag[r].snapshot)
    /\ UNCHANGED <<model, rows, durable, live, stored, pipes, current, configs, crashes>>
    /\ \/ /\ rag[r].found # Nil
          /\ vectors' = vectors \ VectorsOf(rag[r].found)
          /\ faults' = faults
       \/ /\ rag[r].found = Nil
          /\ UNCHANGED <<vectors, faults>>
       \/ /\ faults' = faults \cup {"kept"}
          /\ UNCHANGED vectors

LEMMA DropOldDoes ==
    ASSUME RagTyped, NEW r \in RagRequests, DropOld(r)
    PROVE  DropOldEffect(r)
<1>1. RagGo(r, "dropped")
  BY DEF DropOld
<1>2. OnlyRag(r) /\ RagIs(r, "dropped", rag[r].pipe, rag[r].found, rag[r].snapshot)
  BY <1>1, GoDoes
<1> QED
  BY <1>2 DEF DropOldEffect, DropOld, RagAt, DropVectors, Fault, ragData, ragOperator

\* An import at one of its places after it took the lock gives it back and is over.
EndsUnlocked(r) ==
    /\ OnlyRag(r)
    /\ RagIs(r, "over", 0, Nil, {})
    /\ pipes' \in Seq([coll: Nat, loaded: Models \cup {Nil}, holder: Imports \cup {Nil}])
    /\ Len(pipes') = Len(pipes)
    /\ pipes'[rag[r].pipe] = [Pipe(r) EXCEPT !.holder = Nil]

LEMMA UnlockDoes ==
    ASSUME RagTyped, NEW r \in RagRequests, rag[r].at \in Saving, RagEnds(r), Unlock(r)
    PROVE  EndsUnlocked(r) /\ r \in Imports
<1>1. rag[r].at \in Using
  BY DEF Using
<1>2. /\ pipes' \in Seq([coll: Nat, loaded: Models \cup {Nil}, holder: Imports \cup {Nil}])
      /\ Len(pipes') = Len(pipes)
      /\ pipes'[rag[r].pipe] = [Pipe(r) EXCEPT !.holder = Nil]
  BY <1>1, LockTurns DEF Unlock
<1> QED
  BY <1>2, EndsDoes DEF EndsUnlocked, RagTyped, PlacesFit, PlaceFits

InsertEffect(r) ==
    /\ rag[r].at = "dropped" /\ r \in Imports
    /\ UNCHANGED <<model, durable, live, stored, vectors, current, configs, crashes>>
    /\ \/ /\ OnlyRag(r)
          /\ RagIs(r, "inserted", rag[r].pipe, rag[r].found, rag[r].snapshot)
          /\ rows[PathOf[r]] \in {rag[r].found, Nil}
          /\ rows' = [rows EXCEPT ![PathOf[r]] = r]
          /\ UNCHANGED <<pipes, faults>>
       \/ /\ EndsUnlocked(r)
          /\ rows' \in {rows,
                 [rows EXCEPT ![PathOf[r]] = IF @ = rag[r].found THEN Nil ELSE @]}
          /\ faults' = faults \cup {"lost"}

LEMMA InsertDoes ==
    ASSUME RagTyped, NEW r \in RagRequests, Insert(r)
    PROVE  InsertEffect(r)
<1>1. rag[r].at = "dropped" /\ rag[r].at \in Saving
  BY DEF Insert, RagAt, Saving
<1>2. r \in Imports
  BY <1>1 DEF RagTyped, PlacesFit, PlaceFits
<1> QED
  BY <1>1, <1>2, GoDoes, UnlockDoes DEF InsertEffect, Insert, Fault, ragIndex, ragOperator

AddBatchEffect(r) ==
    \E at \in {"half", "added"} :
    /\ IF at = "half" THEN rag[r].at = "inserted" ELSE rag[r].at = "half"
    /\ r \in Imports /\ Pipe(r).coll = live
    /\ OnlyRag(r)
    /\ RagIs(r, at, rag[r].pipe, rag[r].found, rag[r].snapshot)
    /\ vectors' = vectors \cup {[doc |-> r, part |-> IF at = "half" THEN 1 ELSE 2,
                                 model |-> ModelLoaded(r)]}
    /\ ModelLoaded(r) \in Models
    /\ pipes' \in Seq([coll: Nat, loaded: Models \cup {Nil}, holder: Imports \cup {Nil}])
    /\ Len(pipes') = Len(pipes)
    /\ pipes'[rag[r].pipe] = [Pipe(r) EXCEPT !.loaded = ModelLoaded(r)]
    /\ UNCHANGED <<model, rows, durable, live, stored, current, configs, crashes, faults>>

LEMMA AddBatchDoes ==
    ASSUME RagTyped, NEW r \in RagRequests, AddBatch(r)
    PROVE  AddBatchEffect(r)
<1> DEFINE at == IF RagAt(r, "inserted") THEN "half" ELSE "added"
<1>1. rag[r].at \in {"inserted", "half"} /\ rag[r].at \in Saving /\ rag[r].at \in Using
  BY DEF AddBatch, Saving, Using
<1>2. r \in Imports
  BY <1>1 DEF RagTyped, PlacesFit, PlaceFits
<1>3. rag[r].pipe \in 1..Len(pipes)
  BY <1>1, RagTypes DEF RagTyped, PlacesFit, PlaceFits
<1>4. pipes[rag[r].pipe] \in [coll: Nat, loaded: Models \cup {Nil}, holder: Imports \cup {Nil}]
  BY <1>3, ElementOfSeq DEF RagTyped, RagTypeOK
<1>5. ModelLoaded(r) \in Models
  BY <1>4 DEF ModelLoaded, Pipe, RagTyped, RagTypeOK
<1>6. [Pipe(r) EXCEPT !.loaded = ModelLoaded(r)]
            \in [coll: Nat, loaded: Models \cup {Nil}, holder: Imports \cup {Nil}]
  BY <1>4, <1>5 DEF Pipe
<1>7. pipes' = [pipes EXCEPT ![rag[r].pipe] = [Pipe(r) EXCEPT !.loaded = ModelLoaded(r)]]
  BY <1>3, RagTypes DEF Pipe, RagTyped, AddBatch
<1>8. /\ pipes' \in Seq([coll: Nat, loaded: Models \cup {Nil}, holder: Imports \cup {Nil}])
      /\ Len(pipes') = Len(pipes)
      /\ pipes'[rag[r].pipe] = [Pipe(r) EXCEPT !.loaded = ModelLoaded(r)]
  BY <1>3, <1>6, <1>7, PipeChanges DEF RagTyped
<1>9. OnlyRag(r) /\ RagIs(r, at, rag[r].pipe, rag[r].found, rag[r].snapshot)
  BY GoDoes DEF AddBatch
<1>10. vectors' = vectors \cup {[doc |-> r, part |-> IF at = "half" THEN 1 ELSE 2,
                                 model |-> ModelLoaded(r)]}
  BY DEF AddBatch
<1>11. /\ Pipe(r).coll = live
       /\ UNCHANGED <<model, rows, durable, live, stored, current, configs, crashes, faults>>
  BY DEF AddBatch, Usable, ragData, ragOperator
<1>12. /\ at \in {"half", "added"}
       /\ IF at = "half" THEN rag[r].at = "inserted" ELSE rag[r].at = "half"
  BY <1>1 DEF RagAt
<1> HIDE DEF at
<1> QED
  BY <1>2, <1>5, <1>8, <1>9, <1>10, <1>11, <1>12 DEF AddBatchEffect

SaveFailsEffect(r) ==
    /\ rag[r].at \in Written /\ r \in Imports
    /\ EndsUnlocked(r)
    /\ rows' = durable
    /\ UNCHANGED <<model, durable, live, stored, current, configs, crashes>>
    /\ \/ /\ vectors' = vectors \ VectorsOf(r)
          /\ faults' = faults \cup Stripped(r)
       \/ /\ vectors' = vectors
          /\ faults' = faults \cup {"kept"} \cup Stripped(r)

LEMMA SaveFailsDoes ==
    ASSUME RagTyped, NEW r \in RagRequests, SaveFails(r)
    PROVE  SaveFailsEffect(r)
<1>1. rag[r].at \in Written /\ rag[r].at \in Saving
  BY DEF SaveFails, Saving, Written
<1>2. EndsUnlocked(r) /\ r \in Imports
  BY <1>1, UnlockDoes DEF SaveFails
<1> QED
  BY <1>1, <1>2 DEF SaveFailsEffect, SaveFails, Fault, ragOperator

CommitEffect(r) ==
    /\ rag[r].at = "added" /\ r \in Imports
    /\ EndsUnlocked(r)
    /\ durable' = rows
    /\ UNCHANGED <<model, rows, live, stored, vectors, current, configs, crashes, faults>>

LEMMA CommitDoes ==
    ASSUME RagTyped, NEW r \in RagRequests, Commit_(r)
    PROVE  CommitEffect(r)
<1>1. rag[r].at = "added" /\ rag[r].at \in Saving
  BY DEF Commit_, Saving, RagAt
<1>2. EndsUnlocked(r) /\ r \in Imports
  BY <1>1, UnlockDoes DEF Commit_
<1> QED
  BY <1>1, <1>2 DEF CommitEffect, Commit_, ragIndex, ragOperator

FindEffect(r) ==
    /\ rag[r].at = "waiting" /\ r \in Deletes /\ Pipe(r).holder = Nil
    /\ OnlyRag(r)
    /\ \/ RagIs(r, "over", 0, Nil, {})
       \/ /\ rows[PathOf[r]] # Nil
          /\ RagIs(r, "found", rag[r].pipe, rows[PathOf[r]], rag[r].snapshot)
    /\ UNCHANGED <<model, rows, durable, live, stored, vectors, pipes, current, configs,
                   crashes, faults>>

LEMMA FindDoes ==
    ASSUME RagTyped, NEW r \in RagRequests, FindDocument(r)
    PROVE  FindEffect(r)
<1>1. CASE rows[PathOf[r]] = Nil
  BY <1>1, EndsDoes DEF FindEffect, FindDocument, Unheld, RagAt, ragData, ragIndex, ragOperator
<1>2. CASE rows[PathOf[r]] # Nil
  <2>1. rag' = [rag EXCEPT ![r].at = "found", ![r].found = rows[PathOf[r]]]
    BY <1>2 DEF FindDocument
  <2>2. rag[r] = [at |-> rag[r].at, pipe |-> rag[r].pipe, found |-> rag[r].found,
                  snapshot |-> rag[r].snapshot]
    BY RagTypes DEF RagTyped
  <2>3. OnlyRag(r)
    BY <2>1, RagTypes DEF RagTyped, OnlyRag
  <2>4. rag'[r] = [rag[r] EXCEPT !.at = "found", !.found = rows[PathOf[r]]]
    BY <2>1, RagTypes DEF RagTyped
  <2>5. rag'[r] = [[at |-> rag[r].at, pipe |-> rag[r].pipe, found |-> rag[r].found,
                    snapshot |-> rag[r].snapshot]
                    EXCEPT !.at = "found", !.found = rows[PathOf[r]]]
    BY <2>2, <2>4
  <2>6. RagIs(r, "found", rag[r].pipe, rows[PathOf[r]], rag[r].snapshot)
    BY <2>5 DEF RagIs
  <2> QED
    BY <1>2, <2>3, <2>6 DEF FindEffect, FindDocument, Unheld, RagAt, ragData, ragIndex,
       ragOperator
<1> QED
  BY <1>1, <1>2

DeleteVectorsEffect(r) ==
    /\ rag[r].at = "found"
    /\ OnlyRag(r)
    /\ RagIs(r, "unindexed", rag[r].pipe, rag[r].found, rag[r].snapshot)
    /\ UNCHANGED <<model, rows, durable, live, stored, pipes, current, configs, crashes>>
    /\ \/ /\ vectors' = vectors \ VectorsOf(rag[r].found)
          /\ faults' = faults
       \/ /\ faults' = faults \cup {"kept"}
          /\ UNCHANGED vectors

LEMMA DeleteVectorsDoes ==
    ASSUME RagTyped, NEW r \in RagRequests, DeleteVectors(r)
    PROVE  DeleteVectorsEffect(r)
<1>1. OnlyRag(r) /\ RagIs(r, "unindexed", rag[r].pipe, rag[r].found, rag[r].snapshot)
  BY GoDoes DEF DeleteVectors
<1> QED
  BY <1>1 DEF DeleteVectorsEffect, DeleteVectors, RagAt, DropVectors, Fault, ragData, ragOperator

DeleteRecordEffect(r) ==
    /\ rag[r].at = "unindexed" /\ Pipe(r).holder = Nil
    /\ OnlyRag(r)
    /\ RagIs(r, "over", 0, Nil, {})
    /\ UNCHANGED <<model, live, stored, vectors, pipes, current, configs, crashes>>
    /\ \/ /\ rows' = [p \in Paths |-> IF rows[p] = rag[r].found THEN Nil ELSE rows[p]]
          /\ durable' = rows'
          /\ faults' = faults
       \/ /\ faults' = faults \cup {"lost"}
          /\ UNCHANGED <<rows, durable>>

LEMMA DeleteRecordDoes ==
    ASSUME RagTyped, NEW r \in RagRequests, DeleteRecord(r)
    PROVE  DeleteRecordEffect(r)
BY EndsDoes DEF DeleteRecordEffect, DeleteRecord, RagAt, Unheld, Fault, ragData, ragIndex,
   ragOperator

-----------------------------------------------------------------------------
(* Index: the types are kept *)

LEMMA OneRequestFits ==
    ASSUME RagTyped, NEW r \in RagRequests, OnlyRag(r), PlaceFits(r)',
           stored # Nil => stored' # Nil
    PROVE  PlacesFit'
BY RagTypes DEF RagTyped, PlacesFit, PlaceFits, OnlyRag

\* A step of one request that leaves the operator's state and the current pipeline alone.
LEMMA OneRequestKeepsTypes ==
    ASSUME RagTyped, NEW r \in RagRequests, OnlyRag(r),
           rag'[r] \in [at: RagPlaces, pipe: 0..Len(pipes), found: Imports \cup {Nil},
                        snapshot: SUBSET Imports],
           Len(pipes') = Len(pipes),
           pipes' \in Seq([coll: Nat, loaded: Models \cup {Nil}, holder: Imports \cup {Nil}]),
           rows' \in [Paths -> Imports \cup {Nil}], durable' \in [Paths -> Imports \cup {Nil}],
           live' \in Nat, stored' \in Models \cup {Nil}, vectors' \subseteq Vector,
           faults' \subseteq Faults,
           UNCHANGED <<model, current, configs, crashes>>,
           PlaceFits(r)', stored # Nil => stored' # Nil
    PROVE  RagTyped'
<1>1. RagTypeOK'
  <2>1. model \in Models
    BY DEF RagTyped, RagTypeOK
  <2> QED
    BY <2>1, OneRequestTyped DEF RagTyped
<1> QED
  BY <1>1, OneRequestFits DEF RagTyped

\* The types of what most steps leave alone, and of request r.
LEMMA TypesAtHand ==
    ASSUME RagTyped, NEW r \in RagRequests
    PROVE  /\ pipes \in Seq([coll: Nat, loaded: Models \cup {Nil}, holder: Imports \cup {Nil}])
           /\ rows \in [Paths -> Imports \cup {Nil}]
           /\ durable \in [Paths -> Imports \cup {Nil}]
           /\ live \in Nat /\ stored \in Models \cup {Nil} /\ vectors \subseteq Vector
           /\ model \in Models /\ faults \subseteq Faults
           /\ current \in 0..Len(pipes) /\ 0 \in 0..Len(pipes)
           /\ rag[r].pipe \in 0..Len(pipes)
           /\ rag[r].found \in Imports \cup {Nil} /\ rag[r].snapshot \subseteq Imports
           /\ PlaceFits(r)
           /\ Docs(rows) \subseteq Imports
           /\ PathOf[r] \in Paths /\ rows[PathOf[r]] \in Imports \cup {Nil}
BY RagTypes, RagNames DEF RagTyped, RagTypeOK, PlacesFit, Docs

LEMMA TypedArrive ==
    ASSUME RagTyped, NEW r \in RagRequests, ArriveRag(r)
    PROVE  RagTyped'
<1>1. ArriveEffect(r)
  BY ArriveDoes
<1>2. PlaceFits(r)'
  BY <1>1 DEF ArriveEffect, PlaceFits, RagIs, Making, Using, Saving
<1>3. rag'[r] \in [at: RagPlaces, pipe: 0..Len(pipes), found: Imports \cup {Nil},
                   snapshot: SUBSET Imports]
  BY <1>1, TypesAtHand DEF ArriveEffect, RagIs, RagPlaces
<1> QED
  BY <1>1, <1>2, <1>3, TypesAtHand, OneRequestKeepsTypes DEF ArriveEffect

LEMMA TypedMade ==
    ASSUME RagTyped, NEW r \in RagRequests, rag[r].at \in Making,
           NEW loaded \in Models \cup {Nil}, Made(r, live, loaded),
           UNCHANGED <<model, rows, durable, live, configs, crashes>>,
           stored' \in Models, vectors' \subseteq Vector, faults' \subseteq Faults
    PROVE  RagTyped'
<1>1. live \in Nat
  BY DEF RagTyped, RagTypeOK
<1>2. /\ OnlyRag(r)
      /\ RagIs(r, "waiting", Len(pipes'), Nil, {})
      /\ current' = Len(pipes')
      /\ pipes' \in Seq([coll: Nat, loaded: Models \cup {Nil}, holder: Imports \cup {Nil}])
      /\ Len(pipes') = Len(pipes) + 1
  BY <1>1, MadeDoes
<1>3. Len(pipes) \in Nat
  BY RagTypes DEF RagTyped
<1>4. rag' \in [RagRequests -> [at: RagPlaces, pipe: 0..Len(pipes'), found: Imports \cup {Nil},
                                snapshot: SUBSET Imports]]
  <2>1. rag'[r] \in [at: RagPlaces, pipe: 0..Len(pipes'), found: Imports \cup {Nil},
                     snapshot: SUBSET Imports]
    BY <1>2, <1>3 DEF RagIs, RagPlaces
  <2>2. \A q \in RagRequests :
            rag[q] \in [at: RagPlaces, pipe: 0..Len(pipes'), found: Imports \cup {Nil},
                        snapshot: SUBSET Imports]
    BY <1>2, <1>3, RagTypes DEF RagTyped
  <2>3. rag' = [q \in RagRequests |-> IF q = r THEN rag'[r] ELSE rag[q]]
    BY <1>2, RagTypes DEF RagTyped, OnlyRag
  <2> QED
    BY <2>1, <2>2, <2>3
<1>5. current' \in 0..Len(pipes')
  BY <1>2, <1>3
<1>6. RagTypeOK'
  BY <1>2, <1>4, <1>5 DEF RagTypeOK, RagTyped, RagPlaces
<1>7. PlaceFits(r)'
  BY <1>2, <1>3 DEF PlaceFits, RagIs, Making, Using, Saving
<1>8. stored' # Nil
  BY RagNames
<1> QED
  BY <1>2, <1>6, <1>7, <1>8, OneRequestFits DEF RagTyped

LEMMA TypedReadModel ==
    ASSUME RagTyped, NEW r \in RagRequests, ReadModel(r)
    PROVE  RagTyped'
<1>1. ReadEffect(r)
  BY ReadDoes
<1>2. ASSUME Made(r, live, Nil), stored' = IF stored = Nil THEN model ELSE stored,
             Fault(Twins(r) \cup IF stored' = model THEN {} ELSE {"skipped"})
      PROVE  RagTyped'
  <2>1. stored' \in Models
    BY <1>2, TypesAtHand
  <2>2. faults' \subseteq Faults
    BY <1>2, TypesAtHand DEF Fault, Faults, Twins
  <2>3. /\ rag[r].at \in Making
        /\ UNCHANGED <<model, rows, durable, live, vectors, configs, crashes>>
    BY <1>1 DEF ReadEffect, Making
  <2> QED
    BY <1>2, <2>1, <2>2, <2>3, TypesAtHand, TypedMade
<1>3. ASSUME OnlyRag(r), RagIs(r, "embedding", 0, Nil, Docs(rows)),
             UNCHANGED <<stored, pipes, current, faults>>
      PROVE  RagTyped'
  <2>1. PlaceFits(r)'
    BY <1>3 DEF PlaceFits, RagIs, Making, Using, Saving
  <2>2. rag'[r] \in [at: RagPlaces, pipe: 0..Len(pipes), found: Imports \cup {Nil},
                     snapshot: SUBSET Imports]
    BY <1>3, TypesAtHand DEF RagIs, RagPlaces
  <2>3. UNCHANGED <<model, rows, durable, live, vectors, configs, crashes>>
    BY <1>1 DEF ReadEffect
  <2> QED
    BY <1>3, <2>1, <2>2, <2>3, TypesAtHand, OneRequestKeepsTypes
<1> QED
  BY <1>1, <1>2, <1>3 DEF ReadEffect

LEMMA TypedReembed ==
    ASSUME RagTyped, NEW r \in RagRequests, Reembed(r)
    PROVE  RagTyped'
<1>1. ReembedEffect(r)
  BY ReembedDoes
<1>2. live' \in Nat /\ stored' \in Models \cup {Nil} /\ vectors' \subseteq Vector
  BY <1>1, TypesAtHand DEF ReembedEffect
<1>3. stored # Nil => stored' # Nil
  BY <1>1, TypesAtHand, RagNames DEF ReembedEffect
<1>4. PlaceFits(r)'
  BY <1>1, TypesAtHand, RagNames DEF ReembedEffect, PlaceFits, RagIs, Making, Using, Saving
<1>5. rag'[r] \in [at: RagPlaces, pipe: 0..Len(pipes), found: Imports \cup {Nil},
                   snapshot: SUBSET Imports]
  BY <1>1, TypesAtHand DEF ReembedEffect, RagIs, RagPlaces
<1> QED
  BY <1>1, <1>2, <1>3, <1>4, <1>5, TypesAtHand, OneRequestKeepsTypes DEF ReembedEffect

LEMMA TypedRefill ==
    ASSUME RagTyped, NEW r \in RagRequests, Refill(r)
    PROVE  RagTyped'
<1>1. RefillEffect(r)
  BY RefillDoes
<1>2. stored \in Models
  BY <1>1, TypesAtHand DEF RefillEffect, PlaceFits
<1>3. [doc: rag[r].snapshot, part: {1, 2}, model: {stored}] \subseteq Vector
  BY <1>2, TypesAtHand DEF Vector
<1>4. \A part \in SUBSET {1} : [doc: rag[r].snapshot, part: part, model: {stored}] \subseteq Vector
  BY <1>3
<1>5. vectors' \subseteq Vector
  BY <1>1, <1>3, <1>4, TypesAtHand DEF RefillEffect
<1>6. faults' \subseteq Faults
  BY <1>1, TypesAtHand DEF RefillEffect, Faults, Twins
<1>7. /\ rag[r].at \in Making
      /\ UNCHANGED <<model, rows, durable, live, stored, configs, crashes>>
  BY <1>1 DEF RefillEffect, Making
<1>8. CASE Made(r, live, stored)
  BY <1>2, <1>5, <1>6, <1>7, <1>8, TypedMade
<1>9. ASSUME OnlyRag(r), RagIs(r, "over", 0, Nil, {}), UNCHANGED <<pipes, current>>
      PROVE  RagTyped'
  <2>1. PlaceFits(r)'
    BY <1>9 DEF PlaceFits, RagIs, Making, Using, Saving
  <2>2. rag'[r] \in [at: RagPlaces, pipe: 0..Len(pipes), found: Imports \cup {Nil},
                     snapshot: SUBSET Imports]
    BY <1>9, TypesAtHand DEF RagIs, RagPlaces
  <2> QED
    BY <1>5, <1>6, <1>7, <1>9, <2>1, <2>2, TypesAtHand, OneRequestKeepsTypes
<1> QED
  BY <1>1, <1>8, <1>9 DEF RefillEffect
LEMMA TypedLock ==
    ASSUME RagTyped, NEW r \in RagRequests, Lock(r)
    PROVE  RagTyped'
<1>1. LockEffect(r)
  BY LockDoes
<1>2. PlaceFits(r)'
  BY <1>1, TypesAtHand, RagNames DEF LockEffect, PlaceFits, RagIs, Making, Using, Saving, Written
<1>3. rag'[r] \in [at: RagPlaces, pipe: 0..Len(pipes), found: Imports \cup {Nil},
                   snapshot: SUBSET Imports]
  BY <1>1, TypesAtHand DEF LockEffect, RagIs, RagPlaces, Saving
<1>4. /\ pipes' \in Seq([coll: Nat, loaded: Models \cup {Nil}, holder: Imports \cup {Nil}])
      /\ Len(pipes') = Len(pipes)
  BY <1>1, TypesAtHand DEF LockEffect
<1>5. /\ rows' \in [Paths -> Imports \cup {Nil}] /\ durable' \in [Paths -> Imports \cup {Nil}]
      /\ vectors' \subseteq Vector /\ faults' \subseteq Faults
  BY <1>1, TypesAtHand, RagNames DEF LockEffect, Vector, Faults, Stripped, VectorsOf
<1>6. OnlyRag(r) /\ UNCHANGED <<model, live, stored, current, configs, crashes>>
  BY <1>1 DEF LockEffect
<1> QED
  BY <1>3, <1>2, <1>4, <1>5, <1>6, TypesAtHand, OneRequestKeepsTypes

LEMMA TypedDropOld ==
    ASSUME RagTyped, NEW r \in RagRequests, DropOld(r)
    PROVE  RagTyped'
<1>1. DropOldEffect(r)
  BY DropOldDoes
<1>2. PlaceFits(r)'
  BY <1>1, TypesAtHand, RagNames DEF DropOldEffect, PlaceFits, RagIs, Making, Using, Saving,
     Written
<1>3. rag'[r] \in [at: RagPlaces, pipe: 0..Len(pipes), found: Imports \cup {Nil},
                   snapshot: SUBSET Imports]
  BY <1>1, TypesAtHand DEF DropOldEffect, RagIs, RagPlaces, Saving
<1>4. /\ pipes' \in Seq([coll: Nat, loaded: Models \cup {Nil}, holder: Imports \cup {Nil}])
      /\ Len(pipes') = Len(pipes)
  BY <1>1, TypesAtHand DEF DropOldEffect
<1>5. /\ rows' \in [Paths -> Imports \cup {Nil}] /\ durable' \in [Paths -> Imports \cup {Nil}]
      /\ vectors' \subseteq Vector /\ faults' \subseteq Faults
  BY <1>1, TypesAtHand, RagNames DEF DropOldEffect, Vector, Faults, Stripped, VectorsOf
<1>6. OnlyRag(r) /\ UNCHANGED <<model, live, stored, current, configs, crashes>>
  BY <1>1 DEF DropOldEffect
<1> QED
  BY <1>3, <1>2, <1>4, <1>5, <1>6, TypesAtHand, OneRequestKeepsTypes

LEMMA TypedInsert ==
    ASSUME RagTyped, NEW r \in RagRequests, Insert(r)
    PROVE  RagTyped'
<1>1. InsertEffect(r)
  BY InsertDoes
<1>2. PlaceFits(r)'
  <2>1. rag[r].at = "dropped" /\ r \in Imports
    BY <1>1 DEF InsertEffect
  <2>2. \/ RagIs(r, "inserted", rag[r].pipe, rag[r].found, rag[r].snapshot)
        \/ RagIs(r, "over", 0, Nil, {})
    BY <1>1 DEF InsertEffect, EndsUnlocked
  <2>3. rag[r].pipe # 0
    BY <2>1, TypesAtHand DEF PlaceFits, Using, Saving
  <2> QED
    BY <2>1, <2>2, <2>3 DEF PlaceFits, RagIs, Making, Using, Saving
<1>3. rag'[r] \in [at: RagPlaces, pipe: 0..Len(pipes), found: Imports \cup {Nil},
                   snapshot: SUBSET Imports]
  BY <1>1, TypesAtHand DEF InsertEffect, RagIs, RagPlaces, Saving, EndsUnlocked
<1>4. /\ pipes' \in Seq([coll: Nat, loaded: Models \cup {Nil}, holder: Imports \cup {Nil}])
      /\ Len(pipes') = Len(pipes)
  BY <1>1, TypesAtHand DEF InsertEffect, EndsUnlocked
<1>5. /\ rows' \in [Paths -> Imports \cup {Nil}] /\ durable' \in [Paths -> Imports \cup {Nil}]
      /\ vectors' \subseteq Vector /\ faults' \subseteq Faults
  BY <1>1, TypesAtHand, RagNames DEF InsertEffect, Vector, Faults, Stripped, VectorsOf
<1>6. OnlyRag(r) /\ UNCHANGED <<model, live, stored, current, configs, crashes>>
  BY <1>1 DEF InsertEffect, EndsUnlocked
<1> QED
  BY <1>3, <1>2, <1>4, <1>5, <1>6, TypesAtHand, OneRequestKeepsTypes

LEMMA TypedAddBatch ==
    ASSUME RagTyped, NEW r \in RagRequests, AddBatch(r)
    PROVE  RagTyped'
<1>1. AddBatchEffect(r)
  BY AddBatchDoes
<1>2. PlaceFits(r)'
  BY <1>1, TypesAtHand, RagNames DEF AddBatchEffect, PlaceFits, RagIs, Making, Using, Saving,
     Written
<1>3. rag'[r] \in [at: RagPlaces, pipe: 0..Len(pipes), found: Imports \cup {Nil},
                   snapshot: SUBSET Imports]
  BY <1>1, TypesAtHand DEF AddBatchEffect, RagIs, RagPlaces, Saving
<1>4. /\ pipes' \in Seq([coll: Nat, loaded: Models \cup {Nil}, holder: Imports \cup {Nil}])
      /\ Len(pipes') = Len(pipes)
  BY <1>1, TypesAtHand DEF AddBatchEffect
<1>5. /\ rows' \in [Paths -> Imports \cup {Nil}] /\ durable' \in [Paths -> Imports \cup {Nil}]
      /\ vectors' \subseteq Vector /\ faults' \subseteq Faults
  BY <1>1, TypesAtHand, RagNames DEF AddBatchEffect, Vector, Faults, Stripped, VectorsOf
<1>6. OnlyRag(r) /\ UNCHANGED <<model, live, stored, current, configs, crashes>>
  BY <1>1 DEF AddBatchEffect
<1> QED
  BY <1>3, <1>2, <1>4, <1>5, <1>6, TypesAtHand, OneRequestKeepsTypes

LEMMA TypedSaveFails ==
    ASSUME RagTyped, NEW r \in RagRequests, SaveFails(r)
    PROVE  RagTyped'
<1>1. SaveFailsEffect(r)
  BY SaveFailsDoes
<1>2. PlaceFits(r)'
  BY <1>1, TypesAtHand, RagNames DEF SaveFailsEffect, PlaceFits, RagIs, Making, Using, Saving,
     Written, EndsUnlocked
<1>3. rag'[r] \in [at: RagPlaces, pipe: 0..Len(pipes), found: Imports \cup {Nil},
                   snapshot: SUBSET Imports]
  BY <1>1, TypesAtHand DEF SaveFailsEffect, RagIs, RagPlaces, Saving, EndsUnlocked
<1>4. /\ pipes' \in Seq([coll: Nat, loaded: Models \cup {Nil}, holder: Imports \cup {Nil}])
      /\ Len(pipes') = Len(pipes)
  BY <1>1, TypesAtHand DEF SaveFailsEffect, EndsUnlocked
<1>5. /\ rows' \in [Paths -> Imports \cup {Nil}] /\ durable' \in [Paths -> Imports \cup {Nil}]
      /\ vectors' \subseteq Vector /\ faults' \subseteq Faults
  BY <1>1, TypesAtHand, RagNames DEF SaveFailsEffect, Vector, Faults, Stripped, VectorsOf
<1>6. OnlyRag(r) /\ UNCHANGED <<model, live, stored, current, configs, crashes>>
  BY <1>1 DEF SaveFailsEffect, EndsUnlocked
<1> QED
  BY <1>3, <1>2, <1>4, <1>5, <1>6, TypesAtHand, OneRequestKeepsTypes

LEMMA TypedCommit ==
    ASSUME RagTyped, NEW r \in RagRequests, Commit_(r)
    PROVE  RagTyped'
<1>1. CommitEffect(r)
  BY CommitDoes
<1>2. PlaceFits(r)'
  BY <1>1, TypesAtHand, RagNames DEF CommitEffect, PlaceFits, RagIs, Making, Using, Saving,
     Written, EndsUnlocked
<1>3. rag'[r] \in [at: RagPlaces, pipe: 0..Len(pipes), found: Imports \cup {Nil},
                   snapshot: SUBSET Imports]
  BY <1>1, TypesAtHand DEF CommitEffect, RagIs, RagPlaces, Saving, EndsUnlocked
<1>4. /\ pipes' \in Seq([coll: Nat, loaded: Models \cup {Nil}, holder: Imports \cup {Nil}])
      /\ Len(pipes') = Len(pipes)
  BY <1>1, TypesAtHand DEF CommitEffect, EndsUnlocked
<1>5. /\ rows' \in [Paths -> Imports \cup {Nil}] /\ durable' \in [Paths -> Imports \cup {Nil}]
      /\ vectors' \subseteq Vector /\ faults' \subseteq Faults
  BY <1>1, TypesAtHand, RagNames DEF CommitEffect, Vector, Faults, Stripped, VectorsOf
<1>6. OnlyRag(r) /\ UNCHANGED <<model, live, stored, current, configs, crashes>>
  BY <1>1 DEF CommitEffect, EndsUnlocked
<1> QED
  BY <1>3, <1>2, <1>4, <1>5, <1>6, TypesAtHand, OneRequestKeepsTypes

LEMMA TypedFind ==
    ASSUME RagTyped, NEW r \in RagRequests, FindDocument(r)
    PROVE  RagTyped'
<1>1. FindEffect(r)
  BY FindDoes
<1>2. PlaceFits(r)'
  BY <1>1, TypesAtHand, RagNames DEF FindEffect, PlaceFits, RagIs, Making, Using, Saving, Written
<1>3. rag'[r] \in [at: RagPlaces, pipe: 0..Len(pipes), found: Imports \cup {Nil},
                   snapshot: SUBSET Imports]
  BY <1>1, TypesAtHand DEF FindEffect, RagIs, RagPlaces, Saving
<1>4. /\ pipes' \in Seq([coll: Nat, loaded: Models \cup {Nil}, holder: Imports \cup {Nil}])
      /\ Len(pipes') = Len(pipes)
  BY <1>1, TypesAtHand DEF FindEffect
<1>5. /\ rows' \in [Paths -> Imports \cup {Nil}] /\ durable' \in [Paths -> Imports \cup {Nil}]
      /\ vectors' \subseteq Vector /\ faults' \subseteq Faults
  BY <1>1, TypesAtHand, RagNames DEF FindEffect, Vector, Faults, Stripped, VectorsOf
<1>6. OnlyRag(r) /\ UNCHANGED <<model, live, stored, current, configs, crashes>>
  BY <1>1 DEF FindEffect
<1> QED
  BY <1>3, <1>2, <1>4, <1>5, <1>6, TypesAtHand, OneRequestKeepsTypes

LEMMA TypedDeleteVectors ==
    ASSUME RagTyped, NEW r \in RagRequests, DeleteVectors(r)
    PROVE  RagTyped'
<1>1. DeleteVectorsEffect(r)
  BY DeleteVectorsDoes
<1>2. PlaceFits(r)'
  BY <1>1, TypesAtHand, RagNames DEF DeleteVectorsEffect, PlaceFits, RagIs, Making, Using,
     Saving, Written
<1>3. rag'[r] \in [at: RagPlaces, pipe: 0..Len(pipes), found: Imports \cup {Nil},
                   snapshot: SUBSET Imports]
  BY <1>1, TypesAtHand DEF DeleteVectorsEffect, RagIs, RagPlaces, Saving
<1>4. /\ pipes' \in Seq([coll: Nat, loaded: Models \cup {Nil}, holder: Imports \cup {Nil}])
      /\ Len(pipes') = Len(pipes)
  BY <1>1, TypesAtHand DEF DeleteVectorsEffect
<1>5. /\ rows' \in [Paths -> Imports \cup {Nil}] /\ durable' \in [Paths -> Imports \cup {Nil}]
      /\ vectors' \subseteq Vector /\ faults' \subseteq Faults
  BY <1>1, TypesAtHand, RagNames DEF DeleteVectorsEffect, Vector, Faults, Stripped, VectorsOf
<1>6. OnlyRag(r) /\ UNCHANGED <<model, live, stored, current, configs, crashes>>
  BY <1>1 DEF DeleteVectorsEffect
<1> QED
  BY <1>3, <1>2, <1>4, <1>5, <1>6, TypesAtHand, OneRequestKeepsTypes

LEMMA TypedDeleteRecord ==
    ASSUME RagTyped, NEW r \in RagRequests, DeleteRecord(r)
    PROVE  RagTyped'
<1>1. DeleteRecordEffect(r)
  BY DeleteRecordDoes
<1>2. PlaceFits(r)'
  BY <1>1, TypesAtHand, RagNames DEF DeleteRecordEffect, PlaceFits, RagIs, Making, Using,
     Saving, Written
<1>3. rag'[r] \in [at: RagPlaces, pipe: 0..Len(pipes), found: Imports \cup {Nil},
                   snapshot: SUBSET Imports]
  BY <1>1, TypesAtHand DEF DeleteRecordEffect, RagIs, RagPlaces, Saving
<1>4. /\ pipes' \in Seq([coll: Nat, loaded: Models \cup {Nil}, holder: Imports \cup {Nil}])
      /\ Len(pipes') = Len(pipes)
  BY <1>1, TypesAtHand DEF DeleteRecordEffect
<1>5. /\ rows' \in [Paths -> Imports \cup {Nil}] /\ durable' \in [Paths -> Imports \cup {Nil}]
      /\ vectors' \subseteq Vector /\ faults' \subseteq Faults
  BY <1>1, TypesAtHand, RagNames DEF DeleteRecordEffect, Vector, Faults, Stripped, VectorsOf
<1>6. OnlyRag(r) /\ UNCHANGED <<model, live, stored, current, configs, crashes>>
  BY <1>1 DEF DeleteRecordEffect
<1> QED
  BY <1>3, <1>2, <1>4, <1>5, <1>6, TypesAtHand, OneRequestKeepsTypes

LEMMA TypedPutConfig ==
    ASSUME RagTyped, NEW m \in Models, PutConfig(m)
    PROVE  RagTyped'
<1>1. UNCHANGED <<rows, durable, live, stored, vectors, pipes, rag, crashes>> /\ model' \in Models
  BY DEF PutConfig, ragData, ragIndex
<1>2. configs' \in 0..MaxConfigs
  BY RagNames DEF PutConfig, RagTyped, RagTypeOK
<1>3. current' \in 0..Len(pipes')
  BY <1>1, RagTypes DEF PutConfig, RagTyped
<1>4. faults' \subseteq Faults
  BY DEF PutConfig, RagTyped, RagTypeOK, Fault, Faults
<1>5. RagTypeOK'
  BY <1>1, <1>2, <1>3, <1>4 DEF RagTyped, RagTypeOK
<1>6. PlacesFit'
  BY <1>1 DEF RagTyped, PlacesFit, PlaceFits
<1> QED
  BY <1>5, <1>6 DEF RagTyped

LEMMA TypedCrash ==
    ASSUME RagTyped, RagCrash
    PROVE  RagTyped'
<1>1. /\ UNCHANGED <<durable, live, stored, vectors, configs>>
      /\ model' \in Models /\ rows' = durable /\ pipes' = << >> /\ current' = 0
  BY RagNames DEF RagCrash, ragIndex
<1>2. crashes' \in 0..MaxCrashes
  BY RagNames DEF RagCrash, RagTyped, RagTypeOK
<1>3. faults' \subseteq Faults
  BY DEF RagCrash, RagTyped, RagTypeOK, Fault, Faults
<1>4. \A q \in RagRequests :
        /\ rag'[q].at \in {"new", "over"} /\ rag'[q].pipe = 0 /\ rag'[q].found = Nil
        /\ rag'[q] \in [at: RagPlaces, pipe: 0..0, found: Imports \cup {Nil},
                        snapshot: SUBSET Imports]
  <2> TAKE q \in RagRequests
  <2>1. CASE RagAt(q, "new")
    <3>1. rag'[q] = rag[q]
      BY <2>1 DEF RagCrash
    <3>2. rag[q].at = "new" /\ rag[q].pipe = 0 /\ rag[q].found = Nil
      BY <2>1 DEF RagTyped, PlacesFit, PlaceFits, RagAt
    <3>3. rag[q] = [at |-> "new", pipe |-> 0, found |-> Nil, snapshot |-> rag[q].snapshot]
      BY <3>2, RagTypes DEF RagTyped
    <3>4. rag[q].snapshot \subseteq Imports
      BY RagTypes DEF RagTyped
    <3> QED
      BY <3>1, <3>2, <3>3, <3>4 DEF RagPlaces
  <2>2. CASE ~RagAt(q, "new")
    BY <2>2 DEF RagCrash, RagOver, RagPlaces
  <2> QED
    BY <2>1, <2>2
<1>5. rag' = [q \in RagRequests |-> rag'[q]]
  BY DEF RagCrash
<1>6. Len(pipes') = 0
  BY <1>1
<1>7. rag' \in [RagRequests -> [at: RagPlaces, pipe: 0..Len(pipes'), found: Imports \cup {Nil},
                                snapshot: SUBSET Imports]]
  BY <1>4, <1>5, <1>6
<1>8. pipes' \in Seq([coll: Nat, loaded: Models \cup {Nil}, holder: Imports \cup {Nil}])
  BY <1>1
<1>9. current' \in 0..Len(pipes')
  BY <1>1, <1>6
<1>10. RagTypeOK'
  BY <1>1, <1>2, <1>3, <1>7, <1>8, <1>9 DEF RagTyped, RagTypeOK, RagPlaces
<1>11. PlacesFit'
  BY <1>4 DEF PlacesFit, PlaceFits, Making, Using, Saving
<1> QED
  BY <1>10, <1>11 DEF RagTyped

LEMMA RagTypedStep ==
    RagTyped /\ [RagNext]_ragVars => RagTyped'
<1> SUFFICES ASSUME RagTyped, [RagNext]_ragVars
             PROVE  RagTyped'
  OBVIOUS
<1>1. ASSUME NEW r \in RagRequests,
             \/ ArriveRag(r) \/ ReadModel(r) \/ Reembed(r) \/ Refill(r)
             \/ Lock(r) \/ DropOld(r) \/ Insert(r) \/ AddBatch(r) \/ SaveFails(r) \/ Commit_(r)
             \/ FindDocument(r) \/ DeleteVectors(r) \/ DeleteRecord(r)
      PROVE  RagTyped'
  BY <1>1, TypedArrive, TypedReadModel, TypedReembed, TypedRefill, TypedLock, TypedDropOld,
     TypedInsert, TypedAddBatch, TypedSaveFails, TypedCommit, TypedFind, TypedDeleteVectors,
     TypedDeleteRecord
<1>2. ASSUME NEW m \in Models, PutConfig(m)
      PROVE  RagTyped'
  BY <1>2, TypedPutConfig
<1>3. CASE RagCrash
  BY <1>3, TypedCrash
<1>4. CASE UNCHANGED ragVars
  BY <1>4 DEF ragVars, RagTyped, RagTypeOK, PlacesFit, PlaceFits
<1> QED
  BY <1>1, <1>2, <1>3, <1>4 DEF RagNext

-----------------------------------------------------------------------------
(* Index: one pipeline at a time *)

LEMMA OthersStay ==
    ASSUME RagTyped, NEW r \in RagRequests, OnlyRag(r)
    PROVE  \A q \in RagRequests : q # r => rag'[q] = rag[q]
BY RagTypes DEF RagTyped, OnlyRag

\* Documents are requests, and so are those that are listed.
LEMMA Listed ==
    ASSUME RagTyped
    PROVE  /\ \A p \in Paths : rows[p] # Nil => rows[p] \in RagRequests
           /\ \A p \in Paths : durable[p] # Nil => durable[p] \in RagRequests
           /\ \A v \in vectors : v.doc \in RagRequests
           /\ \A q \in RagRequests : rag[q].found # Nil => rag[q].found \in RagRequests
           /\ \A q \in RagRequests : PathOf[q] \in Paths /\ q # Nil
BY RagNames, RagTypes DEF RagTyped, RagTypeOK, Vector

\* A user has the pipeline in use, nobody makes one, and who saves holds its lock.
LEMMA UserAlone ==
    ASSUME RagTyped, Alone, NEW r \in RagRequests, rag[r].at \in Using
    PROVE  /\ current # 0 /\ rag[r].pipe = current /\ Pipe(r) = pipes[current]
           /\ Pipe(r).coll = live
           /\ \A q \in RagRequests : rag[q].at \notin Making
           /\ \A q \in RagRequests : rag[q].at \in Saving => Pipe(r).holder = q
           /\ rag[r].at \in Saving =>
                \A q \in RagRequests : q # r => rag[q].at \notin Saving
BY DEF Alone, OnePipeline, Pipe

LEMMA UserPipe ==
    ASSUME RagTyped, NEW r \in RagRequests, rag[r].at \in Using
    PROVE  Pipe(r) \in [coll: Nat, loaded: Models \cup {Nil}, holder: Imports \cup {Nil}]
<1>1. rag[r].pipe \in 1..Len(pipes)
  BY RagTypes DEF RagTyped, PlacesFit, PlaceFits
<1> QED
  BY <1>1, ElementOfSeq DEF Pipe, RagTyped, RagTypeOK

\* What an import that ends leaves of the pipeline in use.
LEMMA UnlockedAlone ==
    ASSUME RagTyped, Alone, NEW r \in RagRequests, rag[r].at \in Saving, EndsUnlocked(r),
           current' = current, live' = live
    PROVE  /\ \A q \in RagRequests : q # r => rag'[q] = rag[q]
           /\ rag'[r].at = "over" /\ rag'[r].found = Nil
           /\ \A q \in RagRequests : q # r => rag[q].at \notin Saving
           /\ \A q \in RagRequests : rag'[q].at \notin Saving
           /\ OnePipeline'
           /\ pipes'[current].loaded = pipes[current].loaded
<1>1. \A q \in RagRequests : q # r => rag'[q] = rag[q]
  BY OthersStay DEF EndsUnlocked
<1>2. rag[r].at \in Using
  BY DEF Using
<1>3. /\ current # 0 /\ rag[r].pipe = current /\ Pipe(r) = pipes[current] /\ Pipe(r).coll = live
      /\ \A q \in RagRequests : rag[q].at \notin Making
      /\ \A q \in RagRequests : q # r => rag[q].at \notin Saving
  BY <1>2, UserAlone
<1>4. pipes'[current] = [Pipe(r) EXCEPT !.holder = Nil]
  BY <1>3 DEF EndsUnlocked
<1>5. pipes'[current].coll = live /\ pipes'[current].loaded = pipes[current].loaded
  BY <1>2, <1>3, <1>4, UserPipe
<1>6. rag'[r].at = "over" /\ rag'[r].found = Nil
  BY DEF EndsUnlocked, RagIs
<1>7. \A q \in RagRequests : rag'[q].at \notin Saving
  BY <1>1, <1>3, <1>6 DEF Saving
<1>8. OnePipeline'
  BY <1>1, <1>3, <1>5, <1>6, <1>7 DEF Alone, OnePipeline, Making, Using, Saving
<1> QED
  BY <1>1, <1>3, <1>5, <1>6, <1>7, <1>8

\* While somebody makes a pipeline nobody uses one, and no row is uncommitted.
LEMMA MakerAlone ==
    ASSUME RagTyped, Alone, NEW r \in RagRequests, rag[r].at \in Making
    PROVE  /\ current = 0
           /\ \A q \in RagRequests : rag[q].at \notin Using
           /\ \A p \in Paths : rows[p] = durable[p] \/ (rows[p] = Nil /\ "lost" \in faults)
<1>1. /\ current = 0
      /\ \A q \in RagRequests : rag[q].at \notin Using
  BY DEF Alone, OnePipeline
<1>2. \A q \in RagRequests : rag[q].at \notin Written
  BY <1>1 DEF Using, Saving, Written
<1> QED
  BY <1>1, <1>2, Listed DEF Alone, OneWriter

\* Nobody is under way but r.
LEMMA NoTwins ==
    ASSUME RagTyped, NEW r \in RagRequests, Twins(r) \subseteq faults', "shared" \notin faults'
    PROVE  \A q \in RagRequests : q # r => rag[q].at \in {"new", "over"}
BY DEF Twins, Busy

-----------------------------------------------------------------------------
(* Index: steps of one pipeline at a time *)

LEMMA AloneArrive ==
    ASSUME RagTyped, Alone, NEW r \in RagRequests, ArriveRag(r), "shared" \notin faults'
    PROVE  Alone'
<1>1. ArriveEffect(r)
  BY ArriveDoes
<1>2. \A q \in RagRequests : q # r => rag'[q] = rag[q]
  BY <1>1, OthersStay DEF ArriveEffect
<1>3. /\ rag[r].at = "new" /\ rag'[r].found = Nil /\ rag'[r].at \in {"reading", "waiting"}
      /\ rag'[r].at = "reading" => current = 0
      /\ rag'[r].at = "waiting" => current # 0 /\ rag'[r].pipe = current
      /\ UNCHANGED <<model, rows, durable, live, stored, vectors, pipes, current, faults>>
  BY <1>1 DEF ArriveEffect, RagIs
<1>4. RowsFit'
  BY <1>2, <1>3, Listed DEF Alone, RowsFit, Written
<1>5. OnePipeline'
  <2>1. \A q \in RagRequests :
            /\ rag'[q].at \in Making => current' = 0
            /\ rag'[q].at \in Using => current' # 0 /\ rag'[q].pipe = current'
            /\ rag'[q].at \in Saving => pipes'[current'].holder = q
            /\ rag'[q].at \in {"embedding", "filling"} => rag'[q].snapshot = Docs(rows')
    BY <1>2, <1>3 DEF Alone, OnePipeline, Making, Using, Saving
  <2> QED
    BY <1>3, <2>1 DEF Alone, OnePipeline, Docs
<1>6. OneWriter'
  BY <1>2, <1>3, Listed DEF Alone, OneWriter, Written, Saving
<1>7. RowsAreIndexed'
  BY <1>2, <1>3 DEF Alone, RowsAreIndexed, Written, Docs, Has
<1>8. VectorsAreListed'
  BY <1>2, <1>3, Listed DEF Alone, VectorsAreListed, Written, Docs
<1>9. OneModelInUse'
  BY <1>3 DEF Alone, OneModelInUse
<1> QED
  BY <1>4, <1>5, <1>6, <1>7, <1>8, <1>9 DEF Alone

LEMMA AloneMade ==
    ASSUME RagTyped, Alone, NEW r \in RagRequests, rag[r].at \in Making,
           NEW loaded \in Models \cup {Nil}, Made(r, live, loaded),
           UNCHANGED <<model, rows, durable, live>>,
           faults \subseteq faults', Twins(r) \subseteq faults', "shared" \notin faults'
    PROVE  /\ RowsFit' /\ OnePipeline' /\ OneWriter'
           /\ \A q \in RagRequests : rag'[q].at \in {"new", "over", "waiting"}
           /\ \A q \in RagRequests : q # r => rag'[q] = rag[q]
           /\ rag'[r].at = "waiting"
           /\ current' # 0 /\ pipes'[current'].loaded = loaded
<1>1. live \in Nat
  BY DEF RagTyped, RagTypeOK
<1>2. /\ OnlyRag(r)
      /\ RagIs(r, "waiting", Len(pipes'), Nil, {})
      /\ current' = Len(pipes')
      /\ Len(pipes') = Len(pipes) + 1
      /\ pipes'[current'] = [coll |-> live, loaded |-> loaded, holder |-> Nil]
  BY <1>1, MadeDoes
<1>3. \A q \in RagRequests : q # r => rag'[q] = rag[q]
  BY <1>2, OthersStay
<1>4. /\ rag'[r].at = "waiting" /\ rag'[r].found = Nil /\ rag'[r].pipe = current'
      /\ current' # 0
      /\ pipes'[current'].coll = live' /\ pipes'[current'].loaded = loaded
  BY <1>2, RagTypes DEF RagIs, RagTyped
<1>5. \A q \in RagRequests : q # r => rag'[q].at \in {"new", "over"}
  BY <1>3, NoTwins
<1>6. RowsFit'
  BY <1>3, <1>4, Listed DEF Alone, RowsFit, Written, Making
<1>7. OnePipeline'
  BY <1>4, <1>5 DEF OnePipeline, Making, Using, Saving
<1>8. OneWriter'
  <2>1. \A p \in Paths : rows'[p] = durable'[p] \/ (rows'[p] = Nil /\ "lost" \in faults')
    BY MakerAlone
  <2>2. \A q \in RagRequests : rag'[q].found = Nil
    BY <1>3, <1>4, <1>5 DEF RagTyped, PlacesFit, PlaceFits
  <2>3. \A q \in RagRequests : rag'[q].at \notin Saving
    BY <1>4, <1>5 DEF Saving
  <2> QED
    BY <2>1, <2>2, <2>3 DEF OneWriter, Saving, Written
<1> QED
  BY <1>3, <1>4, <1>5, <1>6, <1>7, <1>8

LEMMA AloneReadModel ==
    ASSUME RagTyped, Alone, NEW r \in RagRequests, ReadModel(r), "shared" \notin faults'
    PROVE  Alone'
<1>1. ReadEffect(r)
  BY ReadDoes
<1>2. /\ rag[r].at = "reading" /\ rag[r].at \in Making
      /\ UNCHANGED <<model, rows, durable, live, vectors>>
  BY <1>1 DEF ReadEffect, Making
<1>3. ASSUME Made(r, live, Nil), stored' = IF stored = Nil THEN model ELSE stored,
             Fault(Twins(r) \cup IF stored' = model THEN {} ELSE {"skipped"})
      PROVE  Alone'
  <2>1. /\ faults \subseteq faults' /\ Twins(r) \subseteq faults'
        /\ "skipped" \notin faults' => stored' = model
    BY <1>3 DEF Fault
  <2>2. /\ RowsFit' /\ OnePipeline' /\ OneWriter'
        /\ \A q \in RagRequests : rag'[q].at \in {"new", "over", "waiting"}
        /\ \A q \in RagRequests : q # r => rag'[q] = rag[q]
        /\ rag'[r].at = "waiting"
        /\ current' # 0 /\ pipes'[current'].loaded = Nil
    BY <1>2, <1>3, <2>1, AloneMade
  <2>3. \A q \in RagRequests : q # r => rag[q].at \in {"new", "over"}
    BY <2>1, NoTwins
  <2>4. RowsAreIndexed'
    BY <1>2, <2>1, <2>2, <2>3 DEF Alone, RowsAreIndexed, Written, Docs, Has
  <2>5. VectorsAreListed'
    BY <1>2, <2>1, <2>2, <2>3, Listed DEF Alone, VectorsAreListed, Written, Docs
  <2>6. OneModelInUse'
    <3>1. \A v \in vectors : v.model # Nil
      BY RagNames DEF RagTyped, RagTypeOK, Vector
    <3> QED
      BY <1>2, <1>3, <2>1, <2>2, <3>1 DEF Alone, OneModelInUse
  <2> QED
    BY <2>2, <2>4, <2>5, <2>6 DEF Alone
<1>4. ASSUME OnlyRag(r), RagIs(r, "embedding", 0, Nil, Docs(rows)),
             UNCHANGED <<stored, pipes, current, faults>>
      PROVE  Alone'
  <2>1. \A q \in RagRequests : q # r => rag'[q] = rag[q]
    BY <1>4, OthersStay
  <2>2. /\ rag'[r].at = "embedding" /\ rag'[r].found = Nil /\ rag'[r].snapshot = Docs(rows)
        /\ Docs(rows') = Docs(rows)
    BY <1>2, <1>4 DEF RagIs, Docs
  <2>3. RowsFit'
    BY <1>2, <2>1, <2>2, Listed DEF Alone, RowsFit, Written
  <2>4. OnePipeline'
    BY <1>2, <1>4, <2>1, <2>2 DEF Alone, OnePipeline, Making, Using, Saving
  <2>5. OneWriter'
    BY <1>2, <1>4, <2>1, <2>2, Listed DEF Alone, OneWriter, Written, Saving
  <2>6. RowsAreIndexed'
    BY <1>2, <1>4, <2>1, <2>2 DEF Alone, RowsAreIndexed, Written, Docs, Has
  <2>7. VectorsAreListed'
    BY <1>2, <1>4, <2>1, <2>2, Listed DEF Alone, VectorsAreListed, Written, Docs
  <2>8. OneModelInUse'
    BY <1>2, <1>4 DEF Alone, OneModelInUse
  <2> QED
    BY <2>3, <2>4, <2>5, <2>6, <2>7, <2>8 DEF Alone
<1> QED
  BY <1>1, <1>3, <1>4 DEF ReadEffect

LEMMA AloneReembed ==
    ASSUME RagTyped, Alone, NEW r \in RagRequests, Reembed(r), "shared" \notin faults'
    PROVE  Alone'
<1>1. ReembedEffect(r)
  BY ReembedDoes
<1>2. \A q \in RagRequests : q # r => rag'[q] = rag[q]
  BY <1>1, OthersStay DEF ReembedEffect
<1>3. /\ rag[r].at = "embedding" /\ rag[r].at \in Making
      /\ rag'[r].found = Nil
      /\ \/ rag'[r].at = "filling" /\ rag'[r].snapshot = rag[r].snapshot /\ vectors' = {}
         \/ rag'[r].at = "over" /\ UNCHANGED <<live, stored, vectors>>
      /\ UNCHANGED <<model, rows, durable, pipes, current, faults>>
  BY <1>1 DEF ReembedEffect, RagIs, Making
<1>4. current = 0 /\ \A q \in RagRequests : rag[q].at \notin Using
  BY <1>3, MakerAlone
<1>5. RowsFit'
  BY <1>2, <1>3, Listed DEF Alone, RowsFit, Written
<1>6. OnePipeline'
  <2>1. Docs(rows') = Docs(rows)
    BY <1>3 DEF Docs
  <2> QED
    BY <1>2, <1>3, <1>4, <2>1 DEF Alone, OnePipeline, Making, Using, Saving
<1>7. OneWriter'
  BY <1>2, <1>3, Listed DEF Alone, OneWriter, Written, Saving
<1>8. RowsAreIndexed'
  <2>1. \A q \in RagRequests : rag'[q].at \notin {"half", "added"}
    BY <1>2, <1>3, <1>4 DEF Using, Saving
  <2>2. CASE rag'[r].at = "filling"
    BY <2>1, <2>2 DEF RowsAreIndexed
  <2>3. CASE rag'[r].at = "over" /\ UNCHANGED vectors
    BY <1>2, <1>3, <2>1, <2>3 DEF Alone, RowsAreIndexed, Written, Docs, Has
  <2> QED
    BY <1>3, <2>2, <2>3
<1>9. VectorsAreListed'
  BY <1>2, <1>3, Listed DEF Alone, VectorsAreListed, Written, Docs
<1>10. OneModelInUse'
  BY <1>3, <1>4 DEF Alone, OneModelInUse
<1> QED
  BY <1>5, <1>6, <1>7, <1>8, <1>9, <1>10 DEF Alone

LEMMA AloneRefill ==
    ASSUME RagTyped, Alone, NEW r \in RagRequests, Refill(r), "shared" \notin faults'
    PROVE  Alone'
<1>1. RefillEffect(r)
  BY RefillDoes
<1>2. /\ rag[r].at = "filling" /\ rag[r].at \in Making
      /\ UNCHANGED <<model, rows, durable, live, stored>>
  BY <1>1 DEF RefillEffect, Making
<1>3. /\ current = 0
      /\ \A q \in RagRequests : rag[q].at \notin Using
      /\ \A p \in Paths : rows[p] = durable[p] \/ (rows[p] = Nil /\ "lost" \in faults)
  BY <1>2, MakerAlone
<1>4. rag[r].snapshot = Docs(rows) /\ Docs(rows') = Docs(rows) /\ Docs(durable') = Docs(durable)
  BY <1>2 DEF Alone, OnePipeline, Docs
<1>5. /\ Docs(rows) \subseteq Docs(durable)
      /\ "lost" \notin faults => Docs(durable) = Docs(rows)
  BY <1>3 DEF Docs
<1>6. ASSUME vectors' = vectors \cup [doc: rag[r].snapshot, part: {1, 2}, model: {stored}],
             Made(r, live, stored), faults' = faults \cup Twins(r)
      PROVE  Alone'
  <2>1. stored \in Models
    BY <1>2, TypesAtHand DEF PlaceFits
  <2>2. /\ RowsFit' /\ OnePipeline' /\ OneWriter'
        /\ \A q \in RagRequests : rag'[q].at \in {"new", "over", "waiting"}
        /\ current' # 0 /\ pipes'[current'].loaded = stored
    BY <1>2, <1>6, <2>1, AloneMade
  <2>3. \A d \in Docs(rows) : Has(d, 1)' /\ Has(d, 2)'
    <3> TAKE d \in Docs(rows)
    <3>1. \A part \in {1, 2} : [doc |-> d, part |-> part, model |-> stored] \in vectors'
      BY <1>4, <1>6
    <3> QED
      BY <3>1 DEF Has
  <2>4. RowsAreIndexed'
    BY <1>4, <1>5, <1>6, <2>2, <2>3 DEF RowsAreIndexed
  <2>5. \A v \in vectors' : v \in vectors \/ (v.doc \in Docs(rows) /\ v.model = stored)
    BY <1>4, <1>6
  <2>6. \A q \in RagRequests : rag[q].at \notin Written
    BY <1>3 DEF Using, Saving, Written
  <2>7. VectorsAreListed'
    <3>1. \A q \in RagRequests : rag'[q].at \notin {"unindexed", "dropped"} \cup Written
      BY <2>2 DEF Written
    <3>2. ASSUME faults' \cap {"kept", "crash"} = {}, NEW v \in vectors'
          PROVE  v.doc \in Docs(rows)
      BY <1>6, <2>5, <3>2 DEF Alone, VectorsAreListed
    <3> QED
      BY <1>4, <1>5, <3>1, <3>2 DEF VectorsAreListed
  <2>8. OneModelInUse'
    BY <1>2, <1>6, <2>1, <2>2, <2>5, RagNames DEF Alone, OneModelInUse
  <2> QED
    BY <2>2, <2>4, <2>7, <2>8 DEF Alone
<1>7. ASSUME NEW part \in SUBSET {1},
             vectors' = vectors \cup [doc: rag[r].snapshot, part: part, model: {stored}],
             OnlyRag(r), RagIs(r, "over", 0, Nil, {}), faults' = faults \cup {"cut"},
             UNCHANGED <<pipes, current>>
      PROVE  Alone'
  <2>1. \A q \in RagRequests : q # r => rag'[q] = rag[q]
    BY <1>7, OthersStay
  <2>2. rag'[r].at = "over" /\ rag'[r].found = Nil
    BY <1>7 DEF RagIs
  <2>3. \A q \in RagRequests : rag'[q].at \notin Using
    BY <1>3, <2>1, <2>2 DEF Using, Saving
  <2>4. \A v \in vectors' : v \in vectors \/ (v.doc \in Docs(rows) /\ v.model = stored)
    BY <1>4, <1>7
  <2>5. RowsFit'
    BY <1>2, <2>1, <2>2, Listed DEF Alone, RowsFit, Written
  <2>6. OnePipeline'
    BY <1>2, <1>3, <1>4, <1>7, <2>1, <2>2 DEF Alone, OnePipeline, Making, Using, Saving
  <2>7. OneWriter'
    BY <1>2, <1>7, <2>1, <2>2, Listed DEF Alone, OneWriter, Written, Saving
  <2>8. RowsAreIndexed'
    <3>1. \A q \in RagRequests : rag'[q].at \notin {"half", "added"}
      BY <2>3 DEF Using, Saving
    <3> QED
      BY <1>7, <3>1 DEF RowsAreIndexed
  <2>9. VectorsAreListed'
    <3>1. \A q \in RagRequests : rag'[q].at \notin {"unindexed", "dropped"} \cup Written
      BY <2>3 DEF Using, Saving, Written
    <3>2. ASSUME faults' \cap {"kept", "crash"} = {}, NEW v \in vectors'
          PROVE  v.doc \in Docs(rows)
      BY <1>7, <2>4, <3>2 DEF Alone, VectorsAreListed
    <3> QED
      BY <1>4, <1>5, <3>1, <3>2 DEF VectorsAreListed
  <2>10. OneModelInUse'
    BY <1>2, <1>3, <1>7, <2>4 DEF Alone, OneModelInUse
  <2> QED
    BY <2>5, <2>6, <2>7, <2>8, <2>9, <2>10 DEF Alone
<1> QED
  BY <1>1, <1>6, <1>7 DEF RefillEffect

LEMMA AloneLock ==
    ASSUME RagTyped, Alone, NEW r \in RagRequests, Lock(r), "shared" \notin faults'
    PROVE  Alone'
<1>1. LockEffect(r)
  BY LockDoes
<1>2. \A q \in RagRequests : q # r => rag'[q] = rag[q]
  BY <1>1, OthersStay DEF LockEffect
<1>3. /\ rag[r].at = "waiting" /\ rag[r].at \in Using /\ Pipe(r).holder = Nil
      /\ rag'[r].at = "ready" /\ rag'[r].pipe = rag[r].pipe /\ rag'[r].found = rows[PathOf[r]]
      /\ UNCHANGED <<model, rows, durable, live, stored, vectors, current, faults>>
  BY <1>1 DEF LockEffect, RagIs, Using
<1>4. /\ current # 0 /\ rag[r].pipe = current /\ Pipe(r) = pipes[current] /\ Pipe(r).coll = live
      /\ \A q \in RagRequests : rag[q].at \notin Making /\ rag[q].at \notin Saving
  BY <1>3, UserAlone, Listed
<1>5. pipes'[current] = [Pipe(r) EXCEPT !.holder = r]
  BY <1>1, <1>4 DEF LockEffect
<1>6. Pipe(r) \in [coll: Nat, loaded: Models \cup {Nil}, holder: Imports \cup {Nil}]
  BY <1>3, UserPipe
<1>7. /\ pipes'[current].holder = r /\ pipes'[current].coll = live
      /\ pipes'[current].loaded = pipes[current].loaded
  BY <1>4, <1>5, <1>6
<1>8. RowsFit'
  BY <1>2, <1>3, Listed DEF Alone, RowsFit, Written
<1>9. OnePipeline'
  BY <1>2, <1>3, <1>4, <1>7 DEF Alone, OnePipeline, Making, Using, Saving
<1>10. OneWriter'
  <2>1. \A q \in RagRequests :
            /\ rag'[q].at \in Written => rows'[PathOf[q]] = q
            /\ rag'[q].at \in {"ready", "dropped"} => rag'[q].found = rows'[PathOf[q]]
    BY <1>2, <1>3 DEF Alone, OneWriter, Written
  <2>2. /\ rows[PathOf[r]] # Nil => rag[rows[PathOf[r]]].at = "over"
        /\ rows[PathOf[r]] # Nil => PathOf[rows[PathOf[r]]] = PathOf[r]
    BY <1>4, Listed DEF Alone, RowsFit, Written, Saving
  <2>3. \A q \in RagRequests :
            /\ rag'[q].found # Nil => rag'[rag'[q].found].at = "over"
            /\ rag'[q].at \in Saving /\ rag'[q].found # Nil => PathOf[rag'[q].found] = PathOf[q]
    BY <1>2, <1>3, <2>2, Listed DEF Alone, OneWriter, Saving
  <2>4. \A p \in Paths :
          \/ rows'[p] = durable'[p]
          \/ rows'[p] = Nil /\ "lost" \in faults'
          \/ rows'[p] # Nil /\ rag'[rows'[p]].at \in Written
    BY <1>2, <1>3, Listed DEF Alone, OneWriter, Written
  <2> QED
    BY <2>1, <2>3, <2>4 DEF OneWriter
<1>11. RowsAreIndexed'
  BY <1>2, <1>3 DEF Alone, RowsAreIndexed, Written, Docs, Has
<1>12. VectorsAreListed'
  BY <1>2, <1>3, Listed DEF Alone, VectorsAreListed, Written, Docs
<1>13. OneModelInUse'
  BY <1>3, <1>7 DEF Alone, OneModelInUse
<1> QED
  BY <1>8, <1>9, <1>10, <1>11, <1>12, <1>13 DEF Alone

LEMMA AloneDropOld ==
    ASSUME RagTyped, Alone, NEW r \in RagRequests, DropOld(r), "shared" \notin faults'
    PROVE  Alone'
<1>1. DropOldEffect(r)
  BY DropOldDoes
<1>2. \A q \in RagRequests : q # r => rag'[q] = rag[q]
  BY <1>1, OthersStay DEF DropOldEffect
<1>3. /\ rag[r].at = "ready" /\ rag[r].at \in Using /\ rag[r].at \in Saving
      /\ rag'[r].at = "dropped" /\ rag'[r].pipe = rag[r].pipe /\ rag'[r].found = rag[r].found
      /\ UNCHANGED <<model, rows, durable, live, stored, pipes, current>>
  BY <1>1 DEF DropOldEffect, RagIs, Using, Saving
<1>4. /\ vectors' \subseteq vectors /\ faults \subseteq faults'
      /\ \A v \in vectors : v.doc # rag[r].found => v \in vectors'
      /\ "kept" \notin faults' /\ rag[r].found # Nil => \A v \in vectors' : v.doc # rag[r].found
      /\ \A d : d \in {"lost", "cut", "crash", "skipped"} => (d \in faults' <=> d \in faults)
  BY <1>1 DEF DropOldEffect, VectorsOf
<1>5. \A q \in RagRequests : q # r => rag[q].at \notin Saving
  BY <1>3, UserAlone
<1>6. RowsFit'
  BY <1>2, <1>3, Listed DEF Alone, RowsFit, Written
<1>7. OnePipeline'
  BY <1>2, <1>3 DEF Alone, OnePipeline, Making, Using, Saving, Docs
<1>8. OneWriter'
  BY <1>2, <1>3, <1>4, Listed DEF Alone, OneWriter, Written, Saving
<1>9. RowsAreIndexed'
  <2>1. \A q \in RagRequests : rag'[q].at \notin {"half", "added"}
    BY <1>2, <1>3, <1>5 DEF Saving
  <2>2. ASSUME faults' \cap {"lost", "cut", "crash"} = {}, NEW d \in Docs(durable)
        PROVE  \/ Has(d, 1)' /\ Has(d, 2)'
               \/ \E q \in RagRequests : rag'[q].at = "filling"
               \/ \E q \in RagRequests :
                    rag'[q].found = d /\ rag'[q].at \in {"unindexed", "dropped"} \cup Written
    <3>1. CASE d = rag[r].found
      BY <1>3, <3>1
    <3>2. CASE d # rag[r].found /\ Has(d, 1) /\ Has(d, 2)
      BY <1>4, <3>2 DEF Has
    <3>3. CASE \E q \in RagRequests : rag[q].at = "filling"
      BY <1>2, <1>3, <3>3
    <3>4. CASE \E q \in RagRequests :
                    rag[q].found = d /\ rag[q].at \in {"unindexed", "dropped"} \cup Written
      BY <1>2, <1>3, <3>4
    <3> QED
      BY <1>4, <2>2, <3>1, <3>2, <3>3, <3>4 DEF Alone, RowsAreIndexed
  <2>3. Docs(durable') = Docs(durable)
    BY <1>3 DEF Docs
  <2> QED
    BY <2>1, <2>2, <2>3 DEF RowsAreIndexed
<1>10. VectorsAreListed'
  BY <1>2, <1>3, <1>4, Listed DEF Alone, VectorsAreListed, Written, Docs
<1>11. OneModelInUse'
  BY <1>3, <1>4 DEF Alone, OneModelInUse
<1> QED
  BY <1>6, <1>7, <1>8, <1>9, <1>10, <1>11 DEF Alone

LEMMA AloneInsert ==
    ASSUME RagTyped, Alone, NEW r \in RagRequests, Insert(r), "shared" \notin faults'
    PROVE  Alone'
<1>1. InsertEffect(r)
  BY InsertDoes
<1>2. /\ rag[r].at = "dropped" /\ rag[r].at \in Using /\ rag[r].at \in Saving /\ r \in Imports
      /\ UNCHANGED <<model, durable, live, stored, vectors, current>>
      /\ Docs(durable') = Docs(durable)
  BY <1>1 DEF InsertEffect, Using, Saving, Docs
<1>3. \A q \in RagRequests : q # r => rag[q].at \notin Saving
  BY <1>2, UserAlone
<1>4. /\ PathOf[r] \in Paths /\ r # Nil
      /\ rag[r].found = rows[PathOf[r]]
  BY <1>2, Listed DEF Alone, OneWriter
<1>5. rows \in [Paths -> Imports \cup {Nil}] /\ \A p \in Paths : rows[p] # r
  <2>1. \A p \in Paths : rows[p] # r
    BY <1>2, <1>4 DEF Alone, RowsFit, Written
  <2> QED
    BY <2>1 DEF RagTyped, RagTypeOK
<1>6. \A p \in Paths : rows[p] # Nil => rag[rows[p]].at = "over"
  BY <1>2, <1>3, <1>5, Listed DEF Alone, RowsFit, Written, Saving
<1>7. ASSUME faults' \cap {"kept", "crash"} = {}, faults \subseteq faults', NEW v \in vectors
      PROVE  \E p \in Paths : p # PathOf[r] /\ v.doc = rows[p] /\ rows[p] # Nil
  <2>1. v.doc \in Docs(rows)
    BY <1>7 DEF Alone, VectorsAreListed
  <2>2. PICK p \in Paths : v.doc = rows[p] /\ rows[p] # Nil
    BY <2>1 DEF Docs
  <2>3. p # PathOf[r]
    BY <1>2, <1>4, <1>7, <2>2 DEF Alone, VectorsAreListed
  <2> QED
    BY <2>2, <2>3
<1>8. ASSUME OnlyRag(r), RagIs(r, "inserted", rag[r].pipe, rag[r].found, rag[r].snapshot),
             rows' = [rows EXCEPT ![PathOf[r]] = r], UNCHANGED <<pipes, faults>>
      PROVE  Alone'
  <2>1. \A q \in RagRequests : q # r => rag'[q] = rag[q]
    BY <1>8, OthersStay
  <2>2. /\ rag'[r].at = "inserted" /\ rag'[r].pipe = rag[r].pipe /\ rag'[r].found = rag[r].found
        /\ rows'[PathOf[r]] = r
        /\ \A p \in Paths : p # PathOf[r] => rows'[p] = rows[p]
    BY <1>4, <1>5, <1>8 DEF RagIs
  <2>3. RowsFit'
    BY <1>2, <1>4, <1>6, <2>1, <2>2, Listed DEF Alone, RowsFit, Written
  <2>4. OnePipeline'
    <3>1. \A q \in RagRequests : rag'[q].at \notin Making
      BY <1>2, <2>1, <2>2, UserAlone DEF Making
    <3> QED
      BY <1>2, <1>8, <2>1, <2>2, <3>1 DEF Alone, OnePipeline, Making, Using, Saving
  <2>5. OneWriter'
    <3>1. \A q \in RagRequests :
            /\ rag'[q].at \in Written => rows'[PathOf[q]] = q
            /\ rag'[q].at \in {"ready", "dropped"} => rag'[q].found = rows'[PathOf[q]]
      BY <1>3, <2>1, <2>2 DEF Written, Saving
    <3>2. \A q \in RagRequests :
            /\ rag'[q].found # Nil => rag'[rag'[q].found].at = "over"
            /\ rag'[q].at \in Saving /\ rag'[q].found # Nil => PathOf[rag'[q].found] = PathOf[q]
      BY <1>2, <2>1, <2>2, Listed DEF Alone, OneWriter, Saving
    <3>3. \A p \in Paths :
            \/ rows'[p] = durable'[p]
            \/ rows'[p] = Nil /\ "lost" \in faults'
            \/ rows'[p] # Nil /\ rag'[rows'[p]].at \in Written
      BY <1>2, <1>4, <1>5, <1>6, <1>8, <2>1, <2>2, Listed DEF Alone, OneWriter, Written
    <3> QED
      BY <3>1, <3>2, <3>3 DEF OneWriter
  <2>6. RowsAreIndexed'
    BY <1>2, <1>8, <2>1, <2>2 DEF Alone, RowsAreIndexed, Written, Has
  <2>7. VectorsAreListed'
    <3>1. ASSUME faults' \cap {"kept", "crash"} = {}, NEW v \in vectors
          PROVE  v.doc \in Docs(rows')
      BY <1>7, <1>8, <2>2, <3>1 DEF Docs
    <3>2. ASSUME faults' \cap {"kept", "crash"} = {}, NEW v \in vectors
          PROVE  v.doc \in Docs(durable) \/ rag'[v.doc].at \in Written
      BY <1>2, <1>8, <2>1, <2>2, <3>2, Listed DEF Alone, VectorsAreListed, Written
    <3>3. ASSUME faults' \cap {"kept", "crash"} = {}, NEW q \in RagRequests,
                 rag'[q].at \in {"unindexed", "dropped"}, rag'[q].found # Nil, NEW v \in vectors
          PROVE  v.doc # rag'[q].found
      BY <1>8, <2>1, <2>2, <3>3 DEF Alone, VectorsAreListed
    <3> QED
      BY <1>2, <3>1, <3>2, <3>3 DEF VectorsAreListed
  <2>8. OneModelInUse'
    BY <1>2, <1>8 DEF Alone, OneModelInUse
  <2> QED
    BY <2>3, <2>4, <2>5, <2>6, <2>7, <2>8 DEF Alone
<1>9. ASSUME EndsUnlocked(r), faults' = faults \cup {"lost"},
             rows' \in {rows, [rows EXCEPT ![PathOf[r]] = IF @ = rag[r].found THEN Nil ELSE @]}
      PROVE  Alone'
  <2>1. /\ \A q \in RagRequests : q # r => rag'[q] = rag[q]
        /\ rag'[r].at = "over" /\ rag'[r].found = Nil
        /\ \A q \in RagRequests : rag'[q].at \notin Saving
        /\ OnePipeline'
        /\ pipes'[current].loaded = pipes[current].loaded
    BY <1>2, <1>9, UnlockedAlone
  <2>2. \A p \in Paths :
            /\ p # PathOf[r] => rows'[p] = rows[p]
            /\ rows'[p] \in {rows[p], Nil}
    BY <1>4, <1>5, <1>9
  <2>3. RowsFit'
    BY <1>2, <1>5, <1>6, <2>1, <2>2, Listed DEF Alone, RowsFit, Written
  <2>4. OneWriter'
    <3>1. \A q \in RagRequests : rag'[q].found # Nil => rag'[rag'[q].found].at = "over"
      BY <1>2, <2>1, Listed DEF Alone, OneWriter
    <3>2. \A p \in Paths : rows'[p] = durable'[p] \/ (rows'[p] = Nil /\ "lost" \in faults')
      BY <1>2, <1>6, <1>9, <2>2 DEF Alone, OneWriter, Written
    <3> QED
      BY <2>1, <3>1, <3>2 DEF OneWriter, Saving, Written
  <2>5. RowsAreIndexed'
    BY <1>9, <2>1 DEF RowsAreIndexed, Saving
  <2>6. VectorsAreListed'
    <3>1. ASSUME faults' \cap {"kept", "crash"} = {}, NEW v \in vectors
          PROVE  v.doc \in Docs(rows')
      BY <1>7, <1>9, <2>2, <3>1 DEF Docs
    <3>2. ASSUME faults' \cap {"kept", "crash"} = {}, NEW v \in vectors
          PROVE  v.doc \in Docs(durable) \/ rag'[v.doc].at \in Written
      BY <1>2, <1>9, <2>1, <3>2, Listed DEF Alone, VectorsAreListed, Written
    <3>3. ASSUME faults' \cap {"kept", "crash"} = {}, NEW q \in RagRequests,
                 rag'[q].at \in {"unindexed", "dropped"}, rag'[q].found # Nil, NEW v \in vectors
          PROVE  v.doc # rag'[q].found
      BY <1>9, <2>1, <3>3 DEF Alone, VectorsAreListed
    <3> QED
      BY <1>2, <3>1, <3>2, <3>3 DEF VectorsAreListed
  <2>7. OneModelInUse'
    BY <1>2, <1>9, <2>1 DEF Alone, OneModelInUse
  <2> QED
    BY <2>1, <2>3, <2>4, <2>5, <2>6, <2>7 DEF Alone
<1> QED
  BY <1>1, <1>8, <1>9 DEF InsertEffect

LEMMA AloneAddBatch ==
    ASSUME RagTyped, Alone, NEW r \in RagRequests, AddBatch(r), "shared" \notin faults'
    PROVE  Alone'
<1>1. AddBatchEffect(r)
  BY AddBatchDoes
<1>2. PICK at \in {"half", "added"} :
        /\ IF at = "half" THEN rag[r].at = "inserted" ELSE rag[r].at = "half"
        /\ r \in Imports /\ Pipe(r).coll = live
        /\ OnlyRag(r)
        /\ RagIs(r, at, rag[r].pipe, rag[r].found, rag[r].snapshot)
        /\ vectors' = vectors \cup {[doc |-> r, part |-> IF at = "half" THEN 1 ELSE 2,
                                     model |-> ModelLoaded(r)]}
        /\ pipes'[rag[r].pipe] = [Pipe(r) EXCEPT !.loaded = ModelLoaded(r)]
        /\ UNCHANGED <<model, rows, durable, live, stored, current, faults>>
  BY <1>1 DEF AddBatchEffect
<1>3. \A q \in RagRequests : q # r => rag'[q] = rag[q]
  BY <1>2, OthersStay
<1>4. /\ rag[r].at \in Using /\ rag[r].at \in Saving /\ rag[r].at \in Written
      /\ rag'[r].at = at /\ rag'[r].pipe = rag[r].pipe /\ rag'[r].found = rag[r].found
      /\ Docs(durable') = Docs(durable) /\ Docs(rows') = Docs(rows)
  BY <1>2 DEF RagIs, Using, Saving, Written, Docs
<1>5. /\ current # 0 /\ rag[r].pipe = current /\ Pipe(r) = pipes[current] /\ Pipe(r).coll = live
      /\ \A q \in RagRequests : rag[q].at \notin Making
      /\ \A q \in RagRequests : q # r => rag[q].at \notin Saving
      /\ Pipe(r).holder = r
  BY <1>4, UserAlone
<1>6. /\ pipes'[current].coll = live /\ pipes'[current].holder = r
      /\ pipes'[current].loaded = ModelLoaded(r)
  BY <1>2, <1>4, <1>5, UserPipe
<1>7. rows[PathOf[r]] = r /\ PathOf[r] \in Paths /\ r # Nil
  BY <1>4, Listed DEF Alone, OneWriter
<1>8. RowsFit'
  BY <1>2, <1>3, <1>4, Listed DEF Alone, RowsFit, Written
<1>9. OnePipeline'
  BY <1>2, <1>3, <1>4, <1>5, <1>6 DEF Alone, OnePipeline, Making, Using, Saving
<1>10. OneWriter'
  <2>1. \A q \in RagRequests :
            /\ rag'[q].at \in Written => rows'[PathOf[q]] = q
            /\ rag'[q].at \in {"ready", "dropped"} => rag'[q].found = rows'[PathOf[q]]
    BY <1>2, <1>3, <1>4, <1>7 DEF Alone, OneWriter, Written
  <2>2. \A q \in RagRequests :
            /\ rag'[q].found # Nil => rag'[rag'[q].found].at = "over"
            /\ rag'[q].at \in Saving /\ rag'[q].found # Nil => PathOf[rag'[q].found] = PathOf[q]
    BY <1>2, <1>3, <1>4, Listed DEF Alone, OneWriter, Saving, Written
  <2>3. \A p \in Paths :
          \/ rows'[p] = durable'[p]
          \/ rows'[p] = Nil /\ "lost" \in faults'
          \/ rows'[p] # Nil /\ rag'[rows'[p]].at \in Written
    BY <1>2, <1>3, <1>4, Listed DEF Alone, OneWriter, Written
  <2> QED
    BY <2>1, <2>2, <2>3 DEF OneWriter
<1>11. RowsAreIndexed'
  <2>1. \A d, part : Has(d, part) => Has(d, part)'
    BY <1>2 DEF Has
  <2>2. Has(r, IF at = "half" THEN 1 ELSE 2)'
    <3>1. [doc |-> r, part |-> IF at = "half" THEN 1 ELSE 2, model |-> ModelLoaded(r)] \in vectors'
      BY <1>2
    <3> QED
      BY <3>1 DEF Has
  <2>3. \A q \in RagRequests :
            /\ rag'[q].at \in {"half", "added"} => Has(q, 1)'
            /\ rag'[q].at = "added" => Has(q, 2)'
    BY <1>2, <1>3, <1>4, <2>1, <2>2 DEF Alone, RowsAreIndexed
  <2>4. ASSUME faults' \cap {"lost", "cut", "crash"} = {}, NEW d \in Docs(durable)
        PROVE  \/ Has(d, 1)' /\ Has(d, 2)'
               \/ \E q \in RagRequests : rag'[q].at = "filling"
               \/ \E q \in RagRequests :
                    rag'[q].found = d /\ rag'[q].at \in {"unindexed", "dropped"} \cup Written
    <3>1. CASE Has(d, 1) /\ Has(d, 2)
      BY <2>1, <3>1
    <3>2. CASE \E q \in RagRequests : rag[q].at = "filling"
      BY <1>5, <3>2 DEF Making
    <3>3. CASE \E q \in RagRequests :
                    rag[q].found = d /\ rag[q].at \in {"unindexed", "dropped"} \cup Written
      BY <1>2, <1>3, <1>4, <3>3 DEF Written
    <3> QED
      BY <1>2, <2>4, <3>1, <3>2, <3>3 DEF Alone, RowsAreIndexed
  <2> QED
    BY <1>4, <2>3, <2>4 DEF RowsAreIndexed
<1>12. VectorsAreListed'
  <2>1. r \in Docs(rows)
    BY <1>7 DEF Docs
  <2>2. \A v \in vectors' : v \in vectors \/ v.doc = r
    BY <1>2
  <2>3. rag'[r].at \in Written
    BY <1>4 DEF Written
  <2>4. ASSUME faults' \cap {"kept", "crash"} = {}, NEW v \in vectors'
        PROVE  /\ v.doc \in Docs(rows)
               /\ v.doc \in Docs(durable) \/ rag'[v.doc].at \in Written
    BY <1>2, <1>3, <2>1, <2>2, <2>3, <2>4, Listed DEF Alone, VectorsAreListed
  <2>5. ASSUME faults' \cap {"kept", "crash"} = {}, NEW q \in RagRequests,
               rag'[q].at \in {"unindexed", "dropped"}, rag'[q].found # Nil, NEW v \in vectors'
        PROVE  v.doc # rag'[q].found
    <3>1. q # r
      BY <1>4, <2>5
    <3>2. rag[rag[q].found].at = "over" /\ rag'[q] = rag[q]
      BY <1>3, <2>5, <3>1 DEF Alone, OneWriter
    <3>3. rag[q].found # r
      BY <1>4, <3>2 DEF Written
    <3> QED
      BY <1>2, <2>2, <2>5, <3>2, <3>3 DEF Alone, VectorsAreListed
  <2> QED
    BY <1>4, <2>4, <2>5 DEF VectorsAreListed
<1>13. OneModelInUse'
  <2>1. "skipped" \notin faults => ModelLoaded(r) = stored
    BY <1>5 DEF Alone, OneModelInUse, ModelLoaded
  <2>2. \A v \in vectors' : v \in vectors \/ v.model = ModelLoaded(r)
    BY <1>2
  <2>3. ModelLoaded(r) # Nil
    BY <1>1, RagNames DEF AddBatchEffect
  <2> QED
    BY <1>2, <1>6, <2>1, <2>2, <2>3 DEF Alone, OneModelInUse
<1> QED
  BY <1>8, <1>9, <1>10, <1>11, <1>12, <1>13 DEF Alone

LEMMA AloneSaveFails ==
    ASSUME RagTyped, Alone, NEW r \in RagRequests, SaveFails(r), "shared" \notin faults'
    PROVE  Alone'
<1>1. SaveFailsEffect(r)
  BY SaveFailsDoes
<1>2. /\ rag[r].at \in Written /\ rag[r].at \in Saving /\ EndsUnlocked(r) /\ rows' = durable
      /\ UNCHANGED <<model, durable, live, stored, current>>
      /\ Docs(durable') = Docs(durable) /\ Docs(rows') = Docs(durable)
  BY <1>1 DEF SaveFailsEffect, Written, Saving, Docs
<1>3. /\ \A q \in RagRequests : q # r => rag'[q] = rag[q]
      /\ rag'[r].at = "over" /\ rag'[r].found = Nil
      /\ \A q \in RagRequests : q # r => rag[q].at \notin Saving
      /\ \A q \in RagRequests : rag'[q].at \notin Saving
      /\ OnePipeline'
      /\ pipes'[current].loaded = pipes[current].loaded
  BY <1>2, UnlockedAlone
<1>4. /\ vectors' \subseteq vectors /\ faults \subseteq faults'
      /\ \A v \in vectors : v.doc # r => v \in vectors'
      /\ "kept" \notin faults' => \A v \in vectors' : v.doc # r
      /\ "lost" \notin faults' => rag[r].found = Nil
      /\ \A d \in {"cut", "crash", "skipped"} : d \in faults' <=> d \in faults
  BY <1>1 DEF SaveFailsEffect, VectorsOf, Stripped
<1>5. \A q \in RagRequests : q # r => rag[q].at \notin Written
  BY <1>3 DEF Written, Saving
<1>6. RowsFit'
  BY <1>2, <1>3, Listed DEF Alone, RowsFit
<1>7. OneWriter'
  <2>1. \A q \in RagRequests : rag'[q].found # Nil => rag'[rag'[q].found].at = "over"
    BY <1>3, Listed DEF Alone, OneWriter
  <2> QED
    BY <1>2, <1>3, <2>1 DEF OneWriter, Saving, Written
<1>8. RowsAreIndexed'
  <2>1. ASSUME faults' \cap {"lost", "cut", "crash"} = {}, NEW d \in Docs(durable)
        PROVE  \/ Has(d, 1)' /\ Has(d, 2)'
               \/ \E q \in RagRequests : rag'[q].at = "filling"
               \/ \E q \in RagRequests :
                    rag'[q].found = d /\ rag'[q].at \in {"unindexed", "dropped"} \cup Written
    <3>1. d # r /\ d # Nil
      BY <1>2, Listed DEF Docs, Alone, RowsFit, Written
    <3>2. CASE Has(d, 1) /\ Has(d, 2)
      BY <1>4, <3>1, <3>2 DEF Has
    <3>3. CASE \E q \in RagRequests : rag[q].at = "filling"
      BY <1>2, <1>3, <3>3 DEF Written
    <3>4. CASE \E q \in RagRequests :
                    rag[q].found = d /\ rag[q].at \in {"unindexed", "dropped"} \cup Written
      BY <1>3, <1>4, <2>1, <3>1, <3>4
    <3> QED
      BY <1>4, <2>1, <3>2, <3>3, <3>4 DEF Alone, RowsAreIndexed
  <2> QED
    BY <1>2, <1>3, <2>1 DEF RowsAreIndexed, Saving
<1>9. VectorsAreListed'
  <2>1. ASSUME faults' \cap {"kept", "crash"} = {}, NEW v \in vectors'
        PROVE  v.doc \in Docs(durable)
    BY <1>4, <1>5, <2>1, Listed DEF Alone, VectorsAreListed
  <2>2. ASSUME faults' \cap {"kept", "crash"} = {}, NEW q \in RagRequests,
               rag'[q].at \in {"unindexed", "dropped"}, rag'[q].found # Nil, NEW v \in vectors'
        PROVE  v.doc # rag'[q].found
    BY <1>3, <1>4, <2>2 DEF Alone, VectorsAreListed
  <2> QED
    BY <1>2, <2>1, <2>2 DEF VectorsAreListed
<1>10. OneModelInUse'
  BY <1>2, <1>3, <1>4 DEF Alone, OneModelInUse
<1> QED
  BY <1>3, <1>6, <1>7, <1>8, <1>9, <1>10 DEF Alone

LEMMA AloneCommit ==
    ASSUME RagTyped, Alone, NEW r \in RagRequests, Commit_(r), "shared" \notin faults'
    PROVE  Alone'
<1>1. CommitEffect(r)
  BY CommitDoes
<1>2. /\ rag[r].at = "added" /\ rag[r].at \in Written /\ rag[r].at \in Saving
      /\ EndsUnlocked(r) /\ durable' = rows
      /\ UNCHANGED <<model, rows, live, stored, vectors, current, faults>>
      /\ Docs(durable') = Docs(rows) /\ Docs(rows') = Docs(rows)
  BY <1>1 DEF CommitEffect, Written, Saving, Docs
<1>3. /\ \A q \in RagRequests : q # r => rag'[q] = rag[q]
      /\ rag'[r].at = "over" /\ rag'[r].found = Nil
      /\ \A q \in RagRequests : q # r => rag[q].at \notin Saving
      /\ \A q \in RagRequests : rag'[q].at \notin Saving
      /\ OnePipeline'
      /\ pipes'[current].loaded = pipes[current].loaded
  BY <1>2, UnlockedAlone
<1>4. \A q \in RagRequests : q # r => rag[q].at \notin Written
  BY <1>3 DEF Written, Saving
<1>5. RowsFit'
  BY <1>2, <1>3, <1>4, Listed DEF Alone, RowsFit
<1>6. OneWriter'
  <2>1. \A q \in RagRequests : rag'[q].found # Nil => rag'[rag'[q].found].at = "over"
    BY <1>3, Listed DEF Alone, OneWriter
  <2> QED
    BY <1>2, <1>3, <2>1 DEF OneWriter, Saving, Written
<1>7. RowsAreIndexed'
  <2>1. ASSUME faults' \cap {"lost", "cut", "crash"} = {}, NEW d \in Docs(rows)
        PROVE  \/ Has(d, 1)' /\ Has(d, 2)'
               \/ \E q \in RagRequests : rag'[q].at = "filling"
               \/ \E q \in RagRequests :
                    rag'[q].found = d /\ rag'[q].at \in {"unindexed", "dropped"} \cup Written
    <3>1. PICK p \in Paths : d = rows[p] /\ rows[p] # Nil
      BY DEF Docs
    <3>2. CASE d = r
      BY <1>2, <3>2 DEF Alone, RowsAreIndexed, Has
    <3>3. CASE d # r
      <4>1. d \in Docs(durable) /\ rag[d].at = "over"
        BY <1>2, <1>4, <2>1, <3>1, <3>3, Listed DEF Alone, OneWriter, RowsFit, Docs
      <4>2. CASE Has(d, 1) /\ Has(d, 2)
        BY <1>2, <4>2 DEF Has
      <4>3. CASE \E q \in RagRequests : rag[q].at = "filling"
        BY <1>2, <1>3, <4>3 DEF Written
      <4>4. CASE \E q \in RagRequests :
                    rag[q].found = d /\ rag[q].at \in {"unindexed", "dropped"} \cup Written
        <5>1. PICK q \in RagRequests :
                    rag[q].found = d /\ rag[q].at \in {"unindexed", "dropped"} \cup Written
          BY <4>4
        <5>2. PathOf[d] = p
          BY <3>1 DEF Alone, RowsFit
        <5>3. q # r
          BY <1>2, <3>1, <3>3, <5>1, <5>2 DEF Alone, OneWriter
        <5> QED
          BY <1>3, <5>1, <5>3
      <4> QED
        BY <1>2, <2>1, <4>1, <4>2, <4>3, <4>4 DEF Alone, RowsAreIndexed
    <3> QED
      BY <3>2, <3>3
  <2> QED
    BY <1>2, <1>3, <2>1 DEF RowsAreIndexed, Saving
<1>8. VectorsAreListed'
  <2>1. ASSUME faults' \cap {"kept", "crash"} = {}, NEW v \in vectors
        PROVE  v.doc \in Docs(rows)
    BY <1>2, <2>1 DEF Alone, VectorsAreListed
  <2>2. ASSUME faults' \cap {"kept", "crash"} = {}, NEW q \in RagRequests,
               rag'[q].at \in {"unindexed", "dropped"}, rag'[q].found # Nil, NEW v \in vectors
        PROVE  v.doc # rag'[q].found
    BY <1>2, <1>3, <2>2 DEF Alone, VectorsAreListed
  <2> QED
    BY <1>2, <2>1, <2>2 DEF VectorsAreListed
<1>9. OneModelInUse'
  BY <1>2, <1>3 DEF Alone, OneModelInUse
<1> QED
  BY <1>3, <1>5, <1>6, <1>7, <1>8, <1>9 DEF Alone

LEMMA AloneFind ==
    ASSUME RagTyped, Alone, NEW r \in RagRequests, FindDocument(r), "shared" \notin faults'
    PROVE  Alone'
<1>1. FindEffect(r)
  BY FindDoes
<1>2. \A q \in RagRequests : q # r => rag'[q] = rag[q]
  BY <1>1, OthersStay DEF FindEffect
<1>3. /\ rag[r].at = "waiting" /\ rag[r].at \in Using /\ Pipe(r).holder = Nil
      /\ \/ rag'[r].at = "over" /\ rag'[r].found = Nil
         \/ /\ rag'[r].at = "found" /\ rag'[r].pipe = rag[r].pipe
            /\ rag'[r].found = rows[PathOf[r]] /\ rows[PathOf[r]] # Nil
      /\ UNCHANGED <<model, rows, durable, live, stored, vectors, pipes, current, faults>>
  BY <1>1 DEF FindEffect, RagIs, Using
<1>4. \A q \in RagRequests : rag[q].at \notin Saving
  BY <1>3, UserAlone, Listed
<1>5. rows[PathOf[r]] # Nil => rag[rows[PathOf[r]]].at = "over"
  BY <1>4, Listed DEF Alone, RowsFit, Written, Saving
<1>6. RowsFit'
  BY <1>2, <1>3, Listed DEF Alone, RowsFit, Written
<1>7. OnePipeline'
  BY <1>2, <1>3 DEF Alone, OnePipeline, Making, Using, Saving, Docs
<1>8. OneWriter'
  <2>1. \A q \in RagRequests : rag'[q].at \notin Saving
    BY <1>2, <1>3, <1>4 DEF Saving
  <2>2. \A q \in RagRequests : rag'[q].found # Nil => rag'[rag'[q].found].at = "over"
    BY <1>2, <1>3, <1>5, Listed DEF Alone, OneWriter
  <2>3. \A p \in Paths : rows'[p] = durable'[p] \/ (rows'[p] = Nil /\ "lost" \in faults')
    BY <1>3, <1>4, Listed DEF Alone, OneWriter, Written, Saving
  <2> QED
    BY <2>1, <2>2, <2>3 DEF OneWriter, Written, Saving
<1>9. RowsAreIndexed'
  BY <1>2, <1>3 DEF Alone, RowsAreIndexed, Written, Docs, Has
<1>10. VectorsAreListed'
  BY <1>2, <1>3, Listed DEF Alone, VectorsAreListed, Written, Docs
<1>11. OneModelInUse'
  BY <1>3 DEF Alone, OneModelInUse
<1> QED
  BY <1>6, <1>7, <1>8, <1>9, <1>10, <1>11 DEF Alone

LEMMA AloneDeleteVectors ==
    ASSUME RagTyped, Alone, NEW r \in RagRequests, DeleteVectors(r), "shared" \notin faults'
    PROVE  Alone'
<1>1. DeleteVectorsEffect(r)
  BY DeleteVectorsDoes
<1>2. \A q \in RagRequests : q # r => rag'[q] = rag[q]
  BY <1>1, OthersStay DEF DeleteVectorsEffect
<1>3. /\ rag[r].at = "found"
      /\ rag'[r].at = "unindexed" /\ rag'[r].pipe = rag[r].pipe /\ rag'[r].found = rag[r].found
      /\ UNCHANGED <<model, rows, durable, live, stored, pipes, current>>
      /\ Docs(durable') = Docs(durable)
  BY <1>1 DEF DeleteVectorsEffect, RagIs, Docs
<1>4. /\ vectors' \subseteq vectors /\ faults \subseteq faults'
      /\ \A v \in vectors : v.doc # rag[r].found => v \in vectors'
      /\ "kept" \notin faults' => \A v \in vectors' : v.doc # rag[r].found
      /\ \A d \in {"lost", "cut", "crash", "skipped"} : d \in faults' <=> d \in faults
  BY <1>1 DEF DeleteVectorsEffect, VectorsOf
<1>5. rag[r].found # Nil
  BY <1>3 DEF RagTyped, PlacesFit, PlaceFits
<1>6. RowsFit'
  BY <1>2, <1>3, Listed DEF Alone, RowsFit, Written
<1>7. OnePipeline'
  BY <1>2, <1>3 DEF Alone, OnePipeline, Making, Using, Saving, Docs
<1>8. OneWriter'
  BY <1>2, <1>3, <1>4, Listed DEF Alone, OneWriter, Written, Saving
<1>9. RowsAreIndexed'
  <2>1. \A d, part : d # rag[r].found /\ Has(d, part) => Has(d, part)'
    BY <1>4 DEF Has
  <2>2. rag[rag[r].found].at = "over"
    BY <1>5 DEF Alone, OneWriter
  <2>3. \A q \in RagRequests :
            /\ rag'[q].at \in {"half", "added"} => Has(q, 1)'
            /\ rag'[q].at = "added" => Has(q, 2)'
    BY <1>2, <1>3, <2>1, <2>2 DEF Alone, RowsAreIndexed
  <2>4. ASSUME faults' \cap {"lost", "cut", "crash"} = {}, NEW d \in Docs(durable)
        PROVE  \/ Has(d, 1)' /\ Has(d, 2)'
               \/ \E q \in RagRequests : rag'[q].at = "filling"
               \/ \E q \in RagRequests :
                    rag'[q].found = d /\ rag'[q].at \in {"unindexed", "dropped"} \cup Written
    <3>1. CASE d = rag[r].found
      BY <1>3, <3>1
    <3>2. CASE d # rag[r].found /\ Has(d, 1) /\ Has(d, 2)
      BY <2>1, <3>2
    <3>3. CASE \E q \in RagRequests : rag[q].at = "filling"
      BY <1>2, <1>3, <3>3
    <3>4. CASE \E q \in RagRequests :
                    rag[q].found = d /\ rag[q].at \in {"unindexed", "dropped"} \cup Written
      BY <1>2, <1>3, <3>4 DEF Written
    <3> QED
      BY <1>4, <2>4, <3>1, <3>2, <3>3, <3>4 DEF Alone, RowsAreIndexed
  <2> QED
    BY <1>3, <2>3, <2>4 DEF RowsAreIndexed
<1>10. VectorsAreListed'
  BY <1>2, <1>3, <1>4, Listed DEF Alone, VectorsAreListed, Written, Docs
<1>11. OneModelInUse'
  BY <1>3, <1>4 DEF Alone, OneModelInUse
<1> QED
  BY <1>6, <1>7, <1>8, <1>9, <1>10, <1>11 DEF Alone

LEMMA AloneDeleteRecord ==
    ASSUME RagTyped, Alone, NEW r \in RagRequests, DeleteRecord(r), "shared" \notin faults'
    PROVE  Alone'
<1>1. DeleteRecordEffect(r)
  BY DeleteRecordDoes
<1>2. \A q \in RagRequests : q # r => rag'[q] = rag[q]
  BY <1>1, OthersStay DEF DeleteRecordEffect
<1>3. /\ rag[r].at = "unindexed" /\ rag[r].at \in Using /\ Pipe(r).holder = Nil
      /\ rag'[r].at = "over" /\ rag'[r].found = Nil
      /\ UNCHANGED <<model, live, stored, vectors, pipes, current>>
  BY <1>1 DEF DeleteRecordEffect, RagIs, Using
<1>4. /\ \A q \in RagRequests : rag[q].at \notin Making /\ rag[q].at \notin Saving
      /\ \A q \in RagRequests : rag[q].at \notin Written
  BY <1>3, UserAlone, Listed DEF Written, Saving
<1>5. /\ \A q \in RagRequests : rag'[q].at \notin Making /\ rag'[q].at \notin Saving
      /\ \A q \in RagRequests : rag'[q].at \notin Written
  BY <1>2, <1>3, <1>4 DEF Making, Saving, Written
<1>6. OnePipeline'
  BY <1>2, <1>3, <1>5 DEF Alone, OnePipeline, Making, Using, Saving
<1>7. \A q \in RagRequests : rag'[q].found # Nil => rag'[rag'[q].found].at = "over"
  BY <1>2, <1>3, Listed DEF Alone, OneWriter
<1>8. rag[r].found # Nil
  BY <1>3 DEF RagTyped, PlacesFit, PlaceFits
<1>9. ASSUME rows' = [p \in Paths |-> IF rows[p] = rag[r].found THEN Nil ELSE rows[p]],
             durable' = rows', faults' = faults
      PROVE  Alone'
  <2>1. RowsFit'
    BY <1>2, <1>3, <1>4, <1>9, Listed DEF Alone, RowsFit
  <2>2. OneWriter'
    BY <1>5, <1>7, <1>9 DEF OneWriter, Saving, Written
  <2>3. /\ \A d : d \in Docs(rows') <=> d \in Docs(rows) /\ d # rag[r].found
        /\ Docs(durable') = Docs(rows')
    BY <1>8, <1>9 DEF Docs
  <2>4. RowsAreIndexed'
    <3>1. ASSUME faults' \cap {"lost", "cut", "crash"} = {}, NEW d \in Docs(durable')
          PROVE  \/ Has(d, 1)' /\ Has(d, 2)'
                 \/ \E q \in RagRequests :
                      rag'[q].found = d /\ rag'[q].at \in {"unindexed", "dropped"} \cup Written
      <4>1. d # rag[r].found /\ d \in Docs(rows)
        BY <2>3
      <4>2. d \in Docs(durable)
        BY <1>4, <1>9, <3>1, <4>1, Listed DEF Docs, Alone, OneWriter
      <4>3. \A q \in RagRequests : rag[q].at # "filling"
        BY <1>4 DEF Making
      <4>4. CASE Has(d, 1) /\ Has(d, 2)
        BY <1>3, <4>4 DEF Has
      <4>5. CASE \E q \in RagRequests :
                    rag[q].found = d /\ rag[q].at \in {"unindexed", "dropped"} \cup Written
        BY <1>2, <4>1, <4>5
      <4> QED
        BY <1>9, <3>1, <4>2, <4>3, <4>4, <4>5 DEF Alone, RowsAreIndexed
    <3> QED
      BY <1>5, <3>1 DEF RowsAreIndexed, Saving
  <2>5. VectorsAreListed'
    <3>1. ASSUME faults' \cap {"kept", "crash"} = {}, NEW v \in vectors
          PROVE  v.doc \in Docs(rows')
      BY <1>3, <1>8, <1>9, <2>3, <3>1 DEF Alone, VectorsAreListed
    <3>2. ASSUME faults' \cap {"kept", "crash"} = {}, NEW q \in RagRequests,
                 rag'[q].at \in {"unindexed", "dropped"}, rag'[q].found # Nil, NEW v \in vectors
          PROVE  v.doc # rag'[q].found
      BY <1>2, <1>3, <1>9, <3>2 DEF Alone, VectorsAreListed
    <3> QED
      BY <1>3, <2>3, <3>1, <3>2 DEF VectorsAreListed
  <2>6. OneModelInUse'
    BY <1>3, <1>9 DEF Alone, OneModelInUse
  <2> QED
    BY <1>6, <2>1, <2>2, <2>4, <2>5, <2>6 DEF Alone
<1>10. ASSUME faults' = faults \cup {"lost"}, UNCHANGED <<rows, durable>>
       PROVE  Alone'
  <2>1. RowsFit'
    BY <1>2, <1>3, <1>4, <1>10, Listed DEF Alone, RowsFit
  <2>2. \A p \in Paths : rows'[p] = durable'[p] \/ (rows'[p] = Nil /\ "lost" \in faults')
    BY <1>4, <1>10, Listed DEF Alone, OneWriter
  <2>3. OneWriter'
    BY <1>5, <1>7, <2>2 DEF OneWriter, Saving, Written
  <2>4. RowsAreIndexed'
    BY <1>5, <1>10 DEF RowsAreIndexed, Saving
  <2>5. Docs(rows') = Docs(rows) /\ Docs(durable') = Docs(durable)
    BY <1>10 DEF Docs
  <2>6. VectorsAreListed'
    <3>1. ASSUME faults' \cap {"kept", "crash"} = {}, NEW v \in vectors
          PROVE  v.doc \in Docs(rows) /\ v.doc \in Docs(durable)
      BY <1>4, <1>10, <3>1, Listed DEF Alone, VectorsAreListed
    <3>2. ASSUME faults' \cap {"kept", "crash"} = {}, NEW q \in RagRequests,
                 rag'[q].at \in {"unindexed", "dropped"}, rag'[q].found # Nil, NEW v \in vectors
          PROVE  v.doc # rag'[q].found
      BY <1>2, <1>3, <1>10, <3>2 DEF Alone, VectorsAreListed
    <3> QED
      BY <1>3, <2>5, <3>1, <3>2 DEF VectorsAreListed
  <2>7. OneModelInUse'
    BY <1>3, <1>10 DEF Alone, OneModelInUse
  <2> QED
    BY <1>6, <2>1, <2>3, <2>4, <2>6, <2>7 DEF Alone
<1> QED
  BY <1>1, <1>9, <1>10 DEF DeleteRecordEffect

LEMMA AlonePutConfig ==
    ASSUME RagTyped, Alone, NEW m \in Models, PutConfig(m), "shared" \notin faults'
    PROVE  Alone'
<1>1. /\ current' = 0 /\ faults' = faults
      /\ UNCHANGED <<rows, durable, live, stored, vectors, pipes, rag>>
      /\ \A r \in RagRequests : rag[r].at \in {"new", "over"}
  BY DEF PutConfig, Fault, Busy, ragData, ragIndex
<1>2. RowsFit' /\ OneWriter'
  BY <1>1 DEF Alone, RowsFit, OneWriter
<1>3. OnePipeline'
  BY <1>1 DEF OnePipeline, Making, Using, Saving
<1>4. RowsAreIndexed' /\ VectorsAreListed'
  BY <1>1 DEF Alone, RowsAreIndexed, VectorsAreListed, Docs, Has
<1>5. OneModelInUse'
  BY <1>1 DEF Alone, OneModelInUse
<1> QED
  BY <1>2, <1>3, <1>4, <1>5 DEF Alone

LEMMA AloneCrash ==
    ASSUME RagTyped, Alone, RagCrash, "shared" \notin faults'
    PROVE  Alone'
<1>1. /\ UNCHANGED <<durable, live, stored, vectors>> /\ rows' = durable /\ current' = 0
      /\ faults \subseteq faults'
      /\ \A d \in Faults \ {"crash"} : d \in faults' <=> d \in faults
      /\ "crash" \notin faults' => \A r \in RagRequests : rag[r].at \in {"new", "over"}
  BY DEF RagCrash, ragIndex, Fault, Busy
<1>2. \A q \in RagRequests :
        /\ rag'[q].at \in {"new", "over"} /\ rag'[q].found = Nil
        /\ rag[q].at = "over" => rag'[q].at = "over"
  <2> TAKE q \in RagRequests
  <2>1. CASE RagAt(q, "new")
    <3>1. rag'[q] = rag[q]
      BY <2>1 DEF RagCrash
    <3> QED
      BY <2>1, <3>1 DEF RagTyped, PlacesFit, PlaceFits, RagAt
  <2>2. CASE ~RagAt(q, "new")
    BY <2>2 DEF RagCrash, RagOver
  <2> QED
    BY <2>1, <2>2
<1>3. RowsFit'
  BY <1>1, <1>2, Listed DEF Alone, RowsFit
<1>4. OnePipeline'
  BY <1>1, <1>2 DEF OnePipeline, Making, Using, Saving
<1>5. OneWriter'
  BY <1>1, <1>2 DEF OneWriter, Written, Saving
<1>6. Docs(rows') = Docs(durable) /\ Docs(durable') = Docs(durable)
  BY <1>1 DEF Docs
<1>7. RowsAreIndexed'
  <2>1. ASSUME faults' \cap {"lost", "cut", "crash"} = {}, NEW d \in Docs(durable)
        PROVE  Has(d, 1)' /\ Has(d, 2)'
    BY <1>1, <2>1 DEF Alone, RowsAreIndexed, Has, Written
  <2> QED
    BY <1>2, <1>6, <2>1 DEF RowsAreIndexed
<1>8. VectorsAreListed'
  <2>1. ASSUME faults' \cap {"kept", "crash"} = {}, NEW v \in vectors
        PROVE  v.doc \in Docs(durable)
    BY <1>1, <2>1, Listed DEF Alone, VectorsAreListed, Written
  <2> QED
    BY <1>1, <1>2, <1>6, <2>1 DEF VectorsAreListed
<1>9. OneModelInUse'
  BY <1>1 DEF Alone, OneModelInUse, Faults
<1> QED
  BY <1>3, <1>4, <1>5, <1>7, <1>8, <1>9 DEF Alone

-----------------------------------------------------------------------------
(* Index: the theorems *)

LEMMA AloneInit ==
    RagInit => Alone
<1> SUFFICES ASSUME RagInit
             PROVE  Alone
  OBVIOUS
<1>1. /\ \A p \in Paths : rows[p] = Nil /\ durable[p] = Nil
      /\ vectors = {} /\ current = 0 /\ Docs(durable) = {}
      /\ \A r \in RagRequests : rag[r].at = "new" /\ rag[r].found = Nil
  BY DEF RagInit, Docs
<1> QED
  BY <1>1 DEF Alone, RowsFit, OnePipeline, OneWriter, RowsAreIndexed, VectorsAreListed,
     OneModelInUse,
     Written, Saving, Using, Making

LEMMA AloneStep ==
    RagTyped /\ Alone /\ [RagNext]_ragVars /\ "shared" \notin faults' => Alone'
<1> SUFFICES ASSUME RagTyped, Alone, [RagNext]_ragVars, "shared" \notin faults'
             PROVE  Alone'
  OBVIOUS
<1>1. ASSUME NEW r \in RagRequests,
             \/ ArriveRag(r) \/ ReadModel(r) \/ Reembed(r) \/ Refill(r)
             \/ Lock(r) \/ DropOld(r) \/ Insert(r) \/ AddBatch(r) \/ SaveFails(r) \/ Commit_(r)
             \/ FindDocument(r) \/ DeleteVectors(r) \/ DeleteRecord(r)
      PROVE  Alone'
  BY <1>1, AloneArrive, AloneReadModel, AloneReembed, AloneRefill, AloneLock, AloneDropOld,
     AloneInsert, AloneAddBatch, AloneSaveFails, AloneCommit, AloneFind, AloneDeleteVectors,
     AloneDeleteRecord
<1>2. ASSUME NEW m \in Models, PutConfig(m)
      PROVE  Alone'
  BY <1>2, AlonePutConfig
<1>3. CASE RagCrash
  BY <1>3, AloneCrash
<1>4. CASE UNCHANGED ragVars
  <2>1. UNCHANGED <<model, rows, durable, live, stored, vectors, pipes, current, rag, faults>>
    BY <1>4 DEF ragVars
  <2>2. RowsFit' /\ OneWriter'
    BY <2>1 DEF Alone, RowsFit, OneWriter
  <2>3. OnePipeline'
    BY <2>1 DEF Alone, OnePipeline, Docs
  <2>4. RowsAreIndexed'
    BY <2>1 DEF Alone, RowsAreIndexed, Docs, Has
  <2>5. VectorsAreListed'
    BY <2>1 DEF Alone, VectorsAreListed, Docs
  <2>6. OneModelInUse'
    BY <2>1 DEF Alone, OneModelInUse
  <2> QED
    BY <2>2, <2>3, <2>4, <2>5, <2>6 DEF Alone
<1> QED
  BY <1>1, <1>2, <1>3, <1>4 DEF RagNext

\* Faults are remembered.
LEMMA FaultsRemain ==
    RagTyped /\ [RagNext]_ragVars => faults \subseteq faults'
<1> SUFFICES ASSUME RagTyped, [RagNext]_ragVars
             PROVE  faults \subseteq faults'
  OBVIOUS
<1>1. ASSUME NEW r \in RagRequests
      PROVE  /\ ArriveRag(r) \/ ReadModel(r) \/ Reembed(r) \/ Refill(r) => faults \subseteq faults'
             /\ Lock(r) \/ DropOld(r) \/ Insert(r) \/ AddBatch(r) => faults \subseteq faults'
             /\ SaveFails(r) \/ Commit_(r) => faults \subseteq faults'
             /\ FindDocument(r) \/ DeleteVectors(r) \/ DeleteRecord(r) => faults \subseteq faults'
  BY DEF ArriveRag, ReadModel, Reembed, Refill, Lock, DropOld, Insert, AddBatch, SaveFails,
     Commit_,
     FindDocument, DeleteVectors, DeleteRecord, DropVectors, Fault, Made
<1>2. ASSUME NEW m \in Models, PutConfig(m)
      PROVE  faults \subseteq faults'
  BY <1>2 DEF PutConfig, Fault
<1>3. CASE RagCrash
  BY <1>3 DEF RagCrash, Fault
<1>4. CASE UNCHANGED ragVars
  BY <1>4 DEF ragVars
<1> QED
  BY <1>1, <1>2, <1>3, <1>4 DEF RagNext

\* What the invariant says is what the operator asked for.
LEMMA AloneIsSound ==
    RagTyped /\ ("shared" \notin faults => Alone) => IndexIsSound
<1> SUFFICES ASSUME RagTyped, "shared" \notin faults => Alone
             PROVE  IndexIsSound
  OBVIOUS
<1>1. ASSUME Busy = {}
      PROVE  \A r \in RagRequests : rag[r].at \in {"new", "over"}
  BY <1>1 DEF Busy
<1>2. ListedIsIndexed
  <2> SUFFICES ASSUME Busy = {}, faults \cap {"lost", "shared", "cut", "crash"} = {},
                      NEW d \in Docs(durable)
               PROVE  {v.part : v \in VectorsOf(d)} = {1, 2}
    BY DEF ListedIsIndexed
  <2>1. Has(d, 1) /\ Has(d, 2)
    BY <1>1 DEF Alone, RowsAreIndexed, Written
  <2>2. \A v \in vectors : v.part \in {1, 2}
    BY DEF RagTyped, RagTypeOK, Vector
  <2> QED
    BY <2>1, <2>2 DEF Has, VectorsOf
<1>3. FoundIsListed
  <2> SUFFICES ASSUME Busy = {}, faults \cap {"kept", "shared", "crash"} = {}, NEW v \in vectors
               PROVE  v.doc \in Docs(durable)
    BY DEF FoundIsListed
  <2> QED
    BY <1>1, Listed DEF Alone, VectorsAreListed, Written
<1>4. OneModel
  BY DEF Alone, OneModelInUse, OneModel
<1> QED
  BY <1>2, <1>3, <1>4 DEF IndexIsSound, IndexAgrees

\* The invariant is one: rows, vectors and pipelines agree as far as the places of the
\* requests under way say.
THEOREM RagStaysSound ==
    RagSpec => []RagInv
<1>1. RagInit => RagInv
  BY TypedInit, AloneInit DEF RagInv
<1>2. RagInv /\ [RagNext]_ragVars => RagInv'
  BY RagTypedStep, AloneStep, FaultsRemain DEF RagInv
<1> QED
  BY <1>1, <1>2, PTL DEF RagSpec

\* When nobody is under way, what is listed is indexed and what is indexed is listed, and
\* the vectors are of one model, but for the faults the code lets happen (service.py,
\* __init__.py): for any imports, deletes, paths and models, and any number of
\* configuration changes and crashes.
THEOREM IndexStaysSound ==
    RagSpec => []IndexIsSound
<1>1. RagInv => IndexIsSound
  BY AloneIsSound DEF RagInv
<1> QED
  BY <1>1, RagStaysSound, PTL

-----------------------------------------------------------------------------
(* The agents' store *)

\* What may be stored, and what is acknowledged: never what a reader is shown for a secret.
StoredValues == [cipher : CipherKeys \cup {NoCipher}, secret : Secrets \cup {Absent}]
StoredRows   == [row : BOOLEAN, llm : StoredValues]
AckedRows    == [row : BOOLEAN, llm : Secrets \cup {Absent}]

\* What a process may have at hand: nothing, the rows to migrate, or the row of an update.
Jobs ==
    {NoRequest}
    \cup [at : {"rows"}, name : {Absent}, llm : {Absent}, rows : [AgentNames -> StoredRows]]
    \cup [at : {"update"}, name : AgentNames, llm : Secrets \cup {Absent}, rows : StoredRows]

Processes ==
    [phase : {"down", "migrating", "validating", "up"},
     key : CipherKeys \cup {NoCipher}, job : Jobs]

StoreIsTyped ==
    /\ agents \in [AgentNames -> StoredRows]
    /\ acked \in [AgentNames -> AckedRows]
    /\ procs \in [StoreWorkers -> Processes]
    /\ used \subseteq CipherKeys \cup {NoCipher}
    /\ starts \in 0 .. MaxStarts
    /\ mixed \in BOOLEAN /\ raced \subseteq AgentNames

\* A migration has its rows, an update that carries its secret over has read it.
JobFits(p) ==
    /\ p.phase = "migrating" <=> p.job.at = "rows"
    /\ p.phase \in {"migrating", "validating"} => p.key # NoCipher
    /\ p.job.at = "update" =>
          /\ p.phase = "up"
          /\ p.job.llm = Absent /\ IsSet(p.job.rows.llm) => Decrypts(p.key, p.job.rows.llm)

ProcessesFit ==
    /\ \A w \in StoreWorkers : JobFits(procs[w]) /\ (Alive(w) => procs[w].key \in used)
    /\ ~mixed => \A v, w \in StoreWorkers :
          Alive(v) /\ Alive(w) => (procs[v].key = NoCipher <=> procs[w].key = NoCipher)

\* The rows as a process with this key at this phase knows them to be: all plaintext when
\* it has no key; else what is plaintext is what it is going to migrate, and nothing after.
RowsAsKnown(p) ==
    /\ p.phase # "down" /\ p.key = NoCipher =>
          \A n \in AgentNames : agents[n].row /\ IsSet(agents[n].llm)
                                  => agents[n].llm.cipher = NoCipher
    /\ p.phase = "migrating" =>
          \A n \in AgentNames : agents[n].row /\ IsPlain(agents[n].llm)
                                  => p.job.rows[n].row /\ IsPlain(p.job.rows[n].llm)
    /\ p.phase \in {"validating", "up"} /\ p.key # NoCipher =>
          \A n \in AgentNames : agents[n].row => ~IsPlain(agents[n].llm)

RowsAreKnown == ~mixed => \A w \in StoreWorkers : RowsAsKnown(procs[w])

StoreInv ==
    /\ StoreIsTyped /\ ProcessesFit /\ RowsAreKnown
    /\ RowsAreAcked /\ SecretsAreKept /\ RestsEncrypted

-----------------------------------------------------------------------------
\* What is known of a process and of a value.
LEMMA ProcessMeans ==
    ASSUME NEW p \in Processes
    PROVE  /\ p.phase \in {"down", "migrating", "validating", "up"}
           /\ p.key \in CipherKeys \cup {NoCipher} /\ p.job \in Jobs
           /\ p.job = NoRequest => p.job.at = "idle"
           /\ p.job.at = "rows" => p.job.rows \in [AgentNames -> StoredRows]
           /\ p.job.at = "update" => /\ p.job.name \in AgentNames
                                     /\ p.job.llm \in Secrets \cup {Absent}
                                     /\ p.job.rows \in StoredRows
BY DEF Processes, Jobs, NoRequest

\* A secret is stored under the key of who stores it.
LEMMA ValueMeans ==
    ASSUME NEW k \in CipherKeys \cup {NoCipher}, NEW s \in Secrets \cup {Absent}
    PROVE  /\ Encrypt(k, s) \in StoredValues /\ Encrypt(k, s).secret = s
           /\ IsSet(Encrypt(k, s)) => Encrypt(k, s).cipher = k
           /\ IsPlain(Encrypt(k, s)) => k = NoCipher
BY AgentStoreAssumption DEF Encrypt, StoredValues, NoValue, IsSet, IsPlain

\* What a process reads it can write back, when it has the key.
LEMMA CarryMeans ==
    ASSUME NEW k \in CipherKeys \cup {NoCipher}, NEW v \in StoredValues
    PROVE  /\ \E s \in Secrets \cup {Absent} : Carry(k, v) = Encrypt(k, s)
           /\ v.cipher = k \/ ~IsSet(v) => Carry(k, v).secret = v.secret
<1>1. Read(k, v) \in Secrets \cup {Absent}
  BY DEF Read, StoredValues
<1>2. Carry(k, v) = Encrypt(k, Read(k, v)) /\ Carry(k, v).secret = Read(k, v)
  BY <1>1, ValueMeans DEF Carry
<1>3. v.cipher = k \/ ~IsSet(v) => Read(k, v) = v.secret
  BY DEF Read, IsSet
<1>4. QED
  BY <1>1, <1>2, <1>3

\* A step of one process that leaves the rows alone.
LEMMA ProcessSteps ==
    ASSUME StoreInv, NEW w \in StoreWorkers, NEW p \in Processes,
           procs' = [procs EXCEPT ![w] = p], UNCHANGED <<agents, used, starts, mixed, raced, acked>>,
           JobFits(p), p.phase # "down" => Alive(w) /\ p.key = procs[w].key,
           ~mixed => RowsAsKnown(p),
           p.phase = "up" /\ ~Up(w) => Unreadable(p.key) = {}
    PROVE  StoreInv'
<1>1. \A v \in StoreWorkers : procs'[v] = IF v = w THEN p ELSE procs[v]
  BY DEF StoreInv, StoreIsTyped
<1>2. StoreIsTyped'
  BY DEF StoreInv, StoreIsTyped
<1>3. ProcessesFit'
  BY <1>1 DEF StoreInv, ProcessesFit, Alive, JobFits
<1>4. RowsAreKnown'
  BY <1>1 DEF StoreInv, RowsAreKnown, RowsAsKnown
<1>5. RestsEncrypted'
  <2> SUFFICES ASSUME NEW v \in StoreWorkers, Up(v)', procs'[v].key # NoCipher, ~mixed,
                      NEW n \in LlmRows, used \subseteq {NoCipher, procs'[v].key}
               PROVE  agents[n].llm.cipher = procs'[v].key
    BY DEF RestsEncrypted, LlmRows
  <2>1. CASE Up(v) /\ procs'[v].key = procs[v].key
    BY <2>1 DEF StoreInv, RestsEncrypted
  <2>2. CASE ~(Up(v) /\ procs'[v].key = procs[v].key)
    <3>1. v = w /\ p = procs'[w] /\ p.phase = "up" /\ ~Up(w) /\ p.key # NoCipher
      BY <1>1, <2>2 DEF Up, Alive
    <3>2. agents[n].llm.cipher \in {NoCipher, p.key}
      BY <3>1 DEF Unreadable
    <3>3. ~IsPlain(agents[n].llm) /\ IsSet(agents[n].llm)
      BY <3>1 DEF RowsAsKnown, LlmRows
    <3>4. QED
      BY <3>1, <3>2, <3>3 DEF IsPlain
  <2>3. QED
    BY <2>1, <2>2
<1>6. RowsAreAcked' /\ SecretsAreKept'
  BY DEF StoreInv, RowsAreAcked, SecretsAreKept
<1>7. QED
  BY <1>2, <1>3, <1>4, <1>5, <1>6 DEF StoreInv

\* A process serves only rows it can read.
LEMMA ValidateKeeps == ASSUME StoreInv, NEW w \in StoreWorkers, Validate(w) PROVE StoreInv'
<1> DEFINE p == IF Unreadable(procs[w].key) = {} THEN [procs[w] EXCEPT !.phase = "up"] ELSE Down
<1>1. /\ procs[w].phase = "validating" /\ procs' = [procs EXCEPT ![w] = p]
      /\ UNCHANGED <<agents, used, starts, mixed, raced, acked>>
  BY DEF Validate
<1>2. procs[w] \in Processes
  BY DEF StoreInv, StoreIsTyped
<1>3. JobFits(procs[w]) /\ (~mixed => RowsAsKnown(procs[w])) /\ Alive(w) /\ ~Up(w)
  BY <1>1 DEF StoreInv, ProcessesFit, RowsAreKnown, Alive, Up
<1>4. CASE Unreadable(procs[w].key) = {}
  <2> DEFINE q == [procs[w] EXCEPT !.phase = "up"]
  <2>1. q \in Processes /\ q.phase = "up" /\ q.key = procs[w].key /\ q.job = procs[w].job
    BY <1>2 DEF Processes
  <2>2. JobFits(q) /\ (~mixed => RowsAsKnown(q))
    BY <1>1, <1>3, <2>1 DEF JobFits, RowsAsKnown
  <2>3. procs' = [procs EXCEPT ![w] = q]
    BY <1>1, <1>4
  <2> HIDE DEF q
  <2>4. QED
    BY <1>1, <1>3, <1>4, <2>1, <2>2, <2>3, ProcessSteps
<1>5. CASE Unreadable(procs[w].key) # {}
  <2>1. Down \in Processes /\ JobFits(Down) /\ RowsAsKnown(Down) /\ Down.phase = "down"
    BY DEF Down, NoRequest, Processes, Jobs, JobFits, RowsAsKnown
  <2>2. procs' = [procs EXCEPT ![w] = Down]
    BY <1>1, <1>5
  <2>3. QED
    BY <1>1, <2>1, <2>2, ProcessSteps
<1>6. QED
  BY <1>4, <1>5

\* A process that dies takes nothing with it.
LEMMA CrashKeeps == ASSUME StoreInv, NEW w \in StoreWorkers, Crash(w) PROVE StoreInv'
<1>1. Down \in Processes /\ JobFits(Down) /\ RowsAsKnown(Down) /\ Down.phase = "down"
  BY DEF Down, NoRequest, Processes, Jobs, JobFits, RowsAsKnown
<1>2. QED
  BY <1>1, ProcessSteps DEF Crash

\* An update remembers a row it can carry over.
LEMMA UpdateReadsKeeps ==
    ASSUME StoreInv, NEW w \in StoreWorkers, NEW n \in AgentNames,
           NEW llm \in Secrets \cup {Masked, Absent}, UpdateReads(w, n, llm)
    PROVE  StoreInv'
<1> DEFINE j == [at |-> "update", name |-> n, llm |-> llm, rows |-> agents[n]]
           p == [procs[w] EXCEPT !.job = j]
<1>1. /\ Up(w) /\ llm # Masked /\ CanCarry(w, n, llm)
      /\ procs' = [procs EXCEPT ![w] = p] /\ UNCHANGED <<agents, used, starts, mixed, raced, acked>>
  BY DEF UpdateReads, Ready, Accepted, IsMasked
<1>2. procs[w] \in Processes /\ agents[n] \in StoredRows
  BY DEF StoreInv, StoreIsTyped
<1>3. j \in Jobs
  BY <1>1, <1>2 DEF Jobs
<1>4. p \in Processes /\ p.phase = "up" /\ p.key = procs[w].key /\ p.job = j
  BY <1>1, <1>2, <1>3 DEF Processes, Up
<1>5. JobFits(p)
  BY <1>1, <1>4 DEF JobFits, CanCarry
<1>6. ~mixed => RowsAsKnown(p)
  BY <1>1, <1>4 DEF StoreInv, RowsAreKnown, RowsAsKnown, Up
<1> HIDE DEF p
<1>7. QED
  BY <1>1, <1>4, <1>5, <1>6, ProcessSteps DEF Up, Alive

\* A step of one process that writes rows, each value it writes under its own key.
LEMMA RowSteps ==
    ASSUME StoreInv, NEW w \in StoreWorkers, NEW p \in Processes, Alive(w),
           procs' = [procs EXCEPT ![w] = p], UNCHANGED <<used, starts, mixed>>,
           JobFits(p), p.key = procs[w].key,
           \/ p.phase = procs[w].phase /\ p.phase = "up"
           \/ /\ procs[w].phase = "migrating" /\ p.phase = "validating"
              /\ \A n \in AgentNames : agents'[n].row /\ IsPlain(agents'[n].llm)
                    => agents'[n] = agents[n] /\ ~(procs[w].job.rows[n].row /\ IsPlain(procs[w].job.rows[n].llm)),
           agents' \in [AgentNames -> StoredRows], acked' \in [AgentNames -> AckedRows],
           raced' \subseteq AgentNames,
           \A n \in AgentNames : agents'[n].row /\ IsSet(agents'[n].llm)
               => agents'[n] = agents[n] \/ agents'[n].llm.cipher = procs[w].key,
           RowsAreAcked', SecretsAreKept'
    PROVE  StoreInv'
<1>1. /\ \A v \in StoreWorkers : procs'[v] = IF v = w THEN p ELSE procs[v]
      /\ procs[w].key \in used
  BY DEF StoreInv, StoreIsTyped, ProcessesFit
<1>2. StoreIsTyped'
  BY DEF StoreInv, StoreIsTyped
<1>3. ProcessesFit'
  BY <1>1 DEF StoreInv, ProcessesFit, Alive, JobFits
<1>4. RowsAreKnown'
  <2> SUFFICES ASSUME ~mixed, NEW v \in StoreWorkers PROVE RowsAsKnown(procs[v])'
    BY DEF RowsAreKnown
  <2>1. RowsAsKnown(procs[v]) /\ RowsAsKnown(procs[w])
    BY DEF StoreInv, RowsAreKnown
  <2>2. JobFits(procs[v])
    BY DEF StoreInv, ProcessesFit
  <2>3. /\ procs'[v].key = procs[v].key
        /\ procs'[v].phase # "down" => procs[v].phase # "down"
        /\ procs'[v].phase = "migrating" => procs'[v].job = procs[v].job /\ procs[v].phase = "migrating"
    BY <1>1 DEF Alive
  <2>4. procs'[v].phase # "down" => (procs[v].key = NoCipher <=> procs[w].key = NoCipher)
    BY <2>3 DEF StoreInv, ProcessesFit, Alive
  <2>5. procs'[v].phase # "down" /\ procs'[v].key = NoCipher =>
          \A n \in AgentNames : agents'[n].row /\ IsSet(agents'[n].llm)
                                  => agents'[n].llm.cipher = NoCipher
    BY <2>1, <2>3, <2>4 DEF RowsAsKnown
  <2>6. procs'[v].phase = "migrating" =>
          \A n \in AgentNames : agents'[n].row /\ IsPlain(agents'[n].llm)
                => procs'[v].job.rows[n].row /\ IsPlain(procs'[v].job.rows[n].llm)
    <3> SUFFICES ASSUME procs'[v].phase = "migrating", NEW n \in AgentNames,
                        agents'[n].row, IsPlain(agents'[n].llm)
                 PROVE  procs'[v].job.rows[n].row /\ IsPlain(procs'[v].job.rows[n].llm)
      OBVIOUS
    <3>1. procs[w].key # NoCipher
      BY <2>2, <2>3, <2>4 DEF JobFits
    <3>2. agents'[n] = agents[n]
      BY <3>1 DEF IsPlain
    <3>3. QED
      BY <2>1, <2>3, <3>2 DEF RowsAsKnown
  <2>7. procs'[v].phase \in {"validating", "up"} /\ procs'[v].key # NoCipher =>
          \A n \in AgentNames : agents'[n].row => ~IsPlain(agents'[n].llm)
    <3> SUFFICES ASSUME procs'[v].phase \in {"validating", "up"}, procs'[v].key # NoCipher,
                        NEW n \in AgentNames, agents'[n].row, IsPlain(agents'[n].llm)
                 PROVE  FALSE
      OBVIOUS
    <3>1. procs[w].key # NoCipher
      BY <2>3, <2>4
    <3>2. agents'[n] = agents[n]
      BY <3>1 DEF IsPlain
    <3>3. CASE v = w /\ procs[w].phase = "migrating"
      BY <1>1, <2>1, <3>2, <3>3 DEF RowsAsKnown
    <3>4. CASE ~(v = w /\ procs[w].phase = "migrating")
      <4>1. procs[v].phase = procs'[v].phase
        BY <1>1, <3>4
      <4>2. QED
        BY <2>1, <2>3, <3>2, <4>1 DEF RowsAsKnown
    <3>5. QED
      BY <3>3, <3>4
  <2>8. QED
    BY <2>5, <2>6, <2>7 DEF RowsAsKnown, IsSet, IsPlain
<1>5. RestsEncrypted'
  <2> SUFFICES ASSUME NEW v \in StoreWorkers, Up(v)', procs'[v].key # NoCipher, ~mixed,
                      NEW n \in AgentNames, agents'[n].row, IsSet(agents'[n].llm),
                      used \subseteq {NoCipher, procs'[v].key}
               PROVE  agents'[n].llm.cipher = procs'[v].key
    BY DEF RestsEncrypted, LlmRows, IsSet
  <2>1. Up(v) /\ procs'[v].key = procs[v].key
    BY <1>1 DEF Up
  <2>2. procs[w].key = procs[v].key
    BY <1>1, <2>1 DEF StoreInv, ProcessesFit, Alive, Up
  <2>3. QED
    BY <2>1, <2>2 DEF StoreInv, RestsEncrypted, LlmRows
<1>6. QED
  BY <1>2, <1>3, <1>4, <1>5 DEF StoreInv

\* A new row holds what was given.
LEMMA CreateKeeps ==
    ASSUME StoreInv, NEW w \in StoreWorkers, NEW n \in AgentNames,
           NEW llm \in Secrets \cup {Masked, Absent}, CreateAgent(w, n, llm)
    PROVE  StoreInv'
<1> DEFINE v == Encrypt(procs[w].key, llm)
<1>1. /\ Ready(w) /\ llm \in Secrets \cup {Absent}
      /\ agents' = [agents EXCEPT ![n] = [row |-> TRUE, llm |-> v]]
      /\ acked' = [acked EXCEPT ![n] = [row |-> TRUE, llm |-> llm]]
      /\ raced' = raced \ {n} /\ UNCHANGED <<procs, used, starts, mixed>>
  BY DEF CreateAgent, Accepted, IsMasked
<1>2. /\ procs[w] \in Processes /\ JobFits(procs[w]) /\ Alive(w) /\ procs[w].phase = "up"
      /\ procs' = [procs EXCEPT ![w] = procs[w]]
  BY <1>1 DEF StoreInv, StoreIsTyped, ProcessesFit, Ready, Up, Alive
<1>3. v \in StoredValues /\ v.secret = llm /\ (IsSet(v) => v.cipher = procs[w].key)
  BY <1>1, <1>2, ValueMeans, ProcessMeans
<1> HIDE DEF v
<1>4. /\ agents \in [AgentNames -> StoredRows] /\ acked \in [AgentNames -> AckedRows]
      /\ raced \subseteq AgentNames
  BY DEF StoreInv, StoreIsTyped
<1>5. [row |-> TRUE, llm |-> v] \in StoredRows /\ [row |-> TRUE, llm |-> llm] \in AckedRows
  BY <1>1, <1>3 DEF StoredRows, AckedRows
<1>6. /\ agents' \in [AgentNames -> StoredRows] /\ acked' \in [AgentNames -> AckedRows]
      /\ raced' \subseteq AgentNames
  BY <1>1, <1>4, <1>5
<1>7. \A m \in AgentNames :
        /\ agents'[m] = IF m = n THEN [row |-> TRUE, llm |-> v] ELSE agents[m]
        /\ acked'[m] = IF m = n THEN [row |-> TRUE, llm |-> llm] ELSE acked[m]
  BY <1>1, <1>4
<1>8. RowsAreAcked' /\ SecretsAreKept'
  <2>1. ASSUME NEW m \in AgentNames PROVE agents'[m].row = acked'[m].row
    <3>1. CASE m = n
      <4>1. agents'[m] = [row |-> TRUE, llm |-> v] /\ acked'[m] = [row |-> TRUE, llm |-> llm]
        BY <1>7, <3>1
      <4>2. QED
        BY <4>1
    <3>2. CASE m # n
      BY <1>7, <3>2 DEF StoreInv, RowsAreAcked
    <3>3. QED
      BY <3>1, <3>2
  <2>2. ASSUME ~mixed, NEW m \in AgentNames, m \notin raced'
        PROVE  agents'[m].llm.secret = acked'[m].llm
    BY <1>1, <1>3, <1>7, <2>2 DEF StoreInv, SecretsAreKept
  <2>3. QED
    BY <1>1, <2>1, <2>2 DEF RowsAreAcked, SecretsAreKept
<1>9. \A m \in AgentNames : agents'[m].row /\ IsSet(agents'[m].llm)
         => agents'[m] = agents[m] \/ agents'[m].llm.cipher = procs[w].key
  BY <1>3, <1>7
<1>10. QED
  BY <1>1, <1>2, <1>6, <1>8, <1>9, RowSteps

\* A row that is deleted is gone.
LEMMA DeleteKeeps ==
    ASSUME StoreInv, NEW w \in StoreWorkers, NEW n \in AgentNames, DeleteAgent(w, n)
    PROVE  StoreInv'
<1>1. /\ Ready(w) /\ agents' = [agents EXCEPT ![n] = NoRow]
      /\ acked' = [acked EXCEPT ![n] = [row |-> FALSE, llm |-> Absent]]
      /\ raced' = raced \ {n} /\ UNCHANGED <<procs, used, starts, mixed>>
  BY DEF DeleteAgent
<1>2. /\ procs[w] \in Processes /\ JobFits(procs[w]) /\ Alive(w) /\ procs[w].phase = "up"
      /\ procs' = [procs EXCEPT ![w] = procs[w]]
  BY <1>1 DEF StoreInv, StoreIsTyped, ProcessesFit, Ready, Up, Alive
<1>3. /\ agents \in [AgentNames -> StoredRows] /\ acked \in [AgentNames -> AckedRows]
      /\ raced \subseteq AgentNames
  BY DEF StoreInv, StoreIsTyped
<1>4. NoRow \in StoredRows /\ [row |-> FALSE, llm |-> Absent] \in AckedRows
  BY DEF StoredRows, StoredValues, AckedRows, NoRow, NoValue
<1>5. /\ agents' \in [AgentNames -> StoredRows] /\ acked' \in [AgentNames -> AckedRows]
      /\ raced' \subseteq AgentNames
  BY <1>1, <1>3, <1>4
<1>6. \A m \in AgentNames :
        /\ agents'[m] = IF m = n THEN NoRow ELSE agents[m]
        /\ acked'[m] = IF m = n THEN [row |-> FALSE, llm |-> Absent] ELSE acked[m]
  BY <1>1, <1>3
<1>7. RowsAreAcked' /\ SecretsAreKept'
  <2>1. ASSUME NEW m \in AgentNames PROVE agents'[m].row = acked'[m].row
    <3>1. CASE m = n
      <4>1. agents'[m] = NoRow /\ acked'[m] = [row |-> FALSE, llm |-> Absent]
        BY <1>6, <3>1
      <4>2. QED
        BY <4>1 DEF NoRow
    <3>2. CASE m # n
      BY <1>6, <3>2 DEF StoreInv, RowsAreAcked
    <3>3. QED
      BY <3>1, <3>2
  <2>2. ASSUME ~mixed, NEW m \in AgentNames, m \notin raced'
        PROVE  agents'[m].llm.secret = acked'[m].llm
    BY <1>1, <1>6, <2>2 DEF StoreInv, SecretsAreKept, NoRow, NoValue
  <2>3. QED
    BY <1>1, <2>1, <2>2 DEF RowsAreAcked, SecretsAreKept
<1>8. \A m \in AgentNames : agents'[m].row /\ IsSet(agents'[m].llm)
         => agents'[m] = agents[m] \/ agents'[m].llm.cipher = procs[w].key
  BY <1>6 DEF NoRow
<1>9. QED
  BY <1>1, <1>2, <1>5, <1>7, <1>8, RowSteps

\* An update writes what was given, and else what it read.
LEMMA UpdateWritesKeeps ==
    ASSUME StoreInv, NEW w \in StoreWorkers, UpdateWrites(w)
    PROVE  StoreInv'
<1> DEFINE job == procs[w].job
           n == job.name
           k == procs[w].key
           llm == IF job.llm = Absent THEN Carry(k, job.rows.llm) ELSE Encrypt(k, job.llm)
           p == [procs[w] EXCEPT !.job = NoRequest]
<1>1. /\ job.at = "update"
      /\ agents' = [agents EXCEPT ![n] = IF agents[n].row THEN [row |-> TRUE, llm |-> llm]
                                         ELSE agents[n]]
      /\ acked' = [acked EXCEPT ![n] = IF acked[n].row
                                       THEN [row |-> TRUE, llm |-> Keep(job.llm, acked[n].llm)]
                                       ELSE acked[n]]
      /\ raced' = IF agents[n].row /\ agents[n] # job.rows THEN raced \cup {n} ELSE raced
      /\ procs' = [procs EXCEPT ![w] = p] /\ UNCHANGED <<used, starts, mixed>>
  BY DEF UpdateWrites
<1>2. /\ agents \in [AgentNames -> StoredRows] /\ acked \in [AgentNames -> AckedRows]
      /\ raced \subseteq AgentNames
  BY DEF StoreInv, StoreIsTyped
<1>3. procs[w] \in Processes /\ JobFits(procs[w])
  BY DEF StoreInv, StoreIsTyped, ProcessesFit
<1>4. /\ n \in AgentNames /\ k \in CipherKeys \cup {NoCipher}
      /\ job.llm \in Secrets \cup {Absent} /\ job.rows.llm \in StoredValues
      /\ procs[w].phase = "up" /\ Alive(w)
      /\ job.llm = Absent /\ IsSet(job.rows.llm) => Decrypts(k, job.rows.llm)
  BY <1>1, <1>3, ProcessMeans DEF JobFits, StoredRows, Alive
<1>5. p \in Processes /\ p.phase = "up" /\ p.key = k /\ p.job = NoRequest /\ JobFits(p)
  BY <1>3, <1>4 DEF Processes, Jobs, JobFits, NoRequest
<1>6. /\ llm \in StoredValues /\ (IsSet(llm) => llm.cipher = k)
      /\ job.llm # Absent => llm.secret = job.llm
      /\ job.llm = Absent /\ (job.rows.llm.cipher = k \/ ~IsSet(job.rows.llm))
            => llm.secret = job.rows.llm.secret
  <2>1. CASE job.llm # Absent
    BY <1>4, <2>1, ValueMeans
  <2>2. CASE job.llm = Absent
    <3>1. PICK s \in Secrets \cup {Absent} : Carry(k, job.rows.llm) = Encrypt(k, s)
      BY <1>4, CarryMeans
    <3>2. llm = Encrypt(k, s) /\ llm = Carry(k, job.rows.llm)
      BY <2>2, <3>1
    <3>3. Encrypt(k, s) \in StoredValues /\ (IsSet(Encrypt(k, s)) => Encrypt(k, s).cipher = k)
      BY <1>4, ValueMeans
    <3>4. job.rows.llm.cipher = k \/ ~IsSet(job.rows.llm)
             => Carry(k, job.rows.llm).secret = job.rows.llm.secret
      BY <1>4, CarryMeans
    <3> HIDE DEF llm
    <3>5. QED
      BY <2>2, <3>2, <3>3, <3>4
  <2>3. QED
    BY <2>1, <2>2
<1>7. \A m \in AgentNames :
        /\ agents'[m] = IF m = n /\ agents[n].row THEN [row |-> TRUE, llm |-> llm] ELSE agents[m]
        /\ acked'[m] = IF m = n /\ acked[n].row
                       THEN [row |-> TRUE, llm |-> Keep(job.llm, acked[n].llm)] ELSE acked[m]
  BY <1>1, <1>2, <1>4
<1> HIDE DEF llm
<1>8. [row |-> TRUE, llm |-> llm] \in StoredRows
  BY <1>6 DEF StoredRows
<1>9. \A m \in AgentNames : acked[m].llm \in Secrets \cup {Absent}
  BY <1>2 DEF AckedRows
<1>10. [row |-> TRUE, llm |-> Keep(job.llm, acked[n].llm)] \in AckedRows
  BY <1>4, <1>9 DEF AckedRows, Keep
<1>11. agents' \in [AgentNames -> StoredRows] /\ acked' \in [AgentNames -> AckedRows]
  BY <1>1, <1>2, <1>4, <1>8, <1>10
<1>12. raced' \subseteq AgentNames
  BY <1>1, <1>2, <1>4
<1>13. RowsAreAcked'
  <2>1. SUFFICES ASSUME NEW m \in AgentNames PROVE agents'[m].row = acked'[m].row
    BY DEF RowsAreAcked
  <2>2. agents[m].row = acked[m].row
    BY DEF StoreInv, RowsAreAcked
  <2>3. CASE m = n /\ agents[n].row
    <3>1. /\ agents'[m] = [row |-> TRUE, llm |-> llm]
          /\ acked'[m] = [row |-> TRUE, llm |-> Keep(job.llm, acked[n].llm)]
      BY <1>7, <2>2, <2>3
    <3>2. QED
      BY <3>1
  <2>4. CASE ~(m = n /\ agents[n].row)
    <3>1. agents'[m] = agents[m] /\ acked'[m] = acked[m]
      BY <1>7, <2>2, <2>4
    <3>2. QED
      BY <2>2, <3>1
  <2>5. QED
    BY <2>3, <2>4
<1>14. ASSUME ~mixed, n \notin raced', agents[n].row
       PROVE  llm.secret = Keep(job.llm, acked[n].llm)
  <2>1. agents[n] = job.rows /\ agents[n].llm.secret = acked[n].llm
    BY <1>1, <1>4, <1>14 DEF StoreInv, SecretsAreKept
  <2>2. CASE job.llm # Absent
    BY <1>6, <2>2 DEF Keep
  <2>3. CASE job.llm = Absent
    <3>1. job.rows.llm.cipher = k \/ ~IsSet(job.rows.llm)
      BY <1>4, <1>14, <2>1, <2>3 DEF Decrypts, StoreInv, RowsAreKnown, RowsAsKnown, Alive
    <3>2. QED
      BY <1>6, <2>1, <2>3, <3>1 DEF Keep
  <2>4. QED
    BY <2>2, <2>3
<1>15. SecretsAreKept'
  <2> SUFFICES ASSUME ~mixed, NEW m \in AgentNames, m \notin raced'
               PROVE  agents'[m].llm.secret = acked'[m].llm
    BY <1>1 DEF SecretsAreKept
  <2>1. agents[m].row = acked[m].row
    BY DEF StoreInv, RowsAreAcked
  <2>2. m \notin raced
    BY <1>1
  <2>3. agents[m].llm.secret = acked[m].llm
    BY <2>2 DEF StoreInv, SecretsAreKept
  <2>4. QED
    BY <1>7, <1>14, <2>1, <2>3
<1>16. \A m \in AgentNames : agents'[m].row /\ IsSet(agents'[m].llm)
         => agents'[m] = agents[m] \/ agents'[m].llm.cipher = procs[w].key
  BY <1>6, <1>7
<1> HIDE DEF p
<1>17. QED
  BY <1>1, <1>4, <1>5, <1>11, <1>12, <1>13, <1>15, <1>16, RowSteps

\* A migration leaves no plaintext row but those it never saw.
LEMMA MigrateKeeps == ASSUME StoreInv, NEW w \in StoreWorkers, Migrate(w) PROVE StoreInv'
<1> DEFINE k == procs[w].key
           found == procs[w].job.rows
           now == {n \in ToMigrate(found) : agents[n].row}
           p == [procs[w] EXCEPT !.phase = "validating", !.job = NoRequest]
           new(n) == [agents[n] EXCEPT !.llm = Encrypt(k, found[n].llm.secret)]
<1>1. /\ procs[w].phase = "migrating"
      /\ agents' = [n \in AgentNames |-> IF n \in now THEN new(n) ELSE agents[n]]
      /\ raced' = raced \cup {n \in now : agents[n].llm # found[n].llm}
      /\ procs' = [procs EXCEPT ![w] = p] /\ UNCHANGED <<used, starts, mixed, acked>>
  BY DEF Migrate
<1>2. /\ agents \in [AgentNames -> StoredRows] /\ acked \in [AgentNames -> AckedRows]
      /\ raced \subseteq AgentNames
  BY DEF StoreInv, StoreIsTyped
<1>3. procs[w] \in Processes /\ JobFits(procs[w]) /\ Alive(w)
  BY <1>1 DEF StoreInv, StoreIsTyped, ProcessesFit, Alive
<1>4. k \in CipherKeys /\ k # NoCipher /\ found \in [AgentNames -> StoredRows]
  BY <1>1, <1>3, ProcessMeans, AgentStoreAssumption DEF JobFits
<1>5. p \in Processes /\ p.phase = "validating" /\ p.key = k /\ p.job = NoRequest
  BY <1>3 DEF Processes, Jobs
<1>6. JobFits(p)
  BY <1>4, <1>5 DEF JobFits, NoRequest
<1>7. now \subseteq AgentNames /\ \A n \in AgentNames :
         n \in now <=> found[n].row /\ IsPlain(found[n].llm) /\ agents[n].row
  BY DEF ToMigrate
<1>8. ASSUME NEW n \in now
      PROVE  /\ new(n) \in StoredRows /\ new(n).row = agents[n].row
             /\ new(n).llm.secret = found[n].llm.secret /\ new(n).llm.cipher = k
             /\ ~IsPlain(new(n).llm)
  <2>1. found[n].llm.secret \in Secrets /\ agents[n] \in StoredRows
    BY <1>2, <1>4, <1>7 DEF IsPlain, IsSet, StoredRows, StoredValues
  <2>2. /\ Encrypt(k, found[n].llm.secret) \in StoredValues
        /\ Encrypt(k, found[n].llm.secret).secret = found[n].llm.secret
        /\ Encrypt(k, found[n].llm.secret).cipher = k
    BY <1>4, <2>1, ValueMeans, AgentStoreAssumption DEF IsSet
  <2>3. /\ new(n).llm = Encrypt(k, found[n].llm.secret) /\ new(n).row = agents[n].row
        /\ new(n) \in StoredRows
    BY <2>1, <2>2 DEF StoredRows
  <2>4. QED
    BY <1>4, <2>2, <2>3 DEF IsPlain
<1>9. \A n \in AgentNames : agents'[n] = IF n \in now THEN new(n) ELSE agents[n]
  BY <1>1
<1> HIDE DEF p, now, new
<1>10. agents' \in [AgentNames -> StoredRows] /\ acked' \in [AgentNames -> AckedRows]
       /\ raced' \subseteq AgentNames
  BY <1>1, <1>2, <1>7, <1>8
<1>11. RowsAreAcked'
  <2>1. SUFFICES ASSUME NEW m \in AgentNames PROVE agents'[m].row = acked[m].row
    BY <1>1 DEF RowsAreAcked
  <2>2. agents[m].row = acked[m].row
    BY DEF StoreInv, RowsAreAcked
  <2>3. CASE m \in now
    BY <1>8, <1>9, <2>2, <2>3
  <2>4. CASE m \notin now
    BY <1>9, <2>2, <2>4
  <2>5. QED
    BY <2>3, <2>4
<1>12. SecretsAreKept'
  <2> SUFFICES ASSUME ~mixed, NEW m \in AgentNames, m \notin raced'
               PROVE  agents'[m].llm.secret = acked[m].llm
    BY <1>1 DEF SecretsAreKept
  <2>1. agents[m].llm.secret = acked[m].llm
    BY <1>1 DEF StoreInv, SecretsAreKept
  <2>2. CASE m \in now
    <3>1. agents[m].llm = found[m].llm
      BY <1>1, <2>2
    <3>2. QED
      BY <1>8, <1>9, <2>1, <2>2, <3>1
  <2>3. CASE m \notin now
    BY <1>9, <2>1, <2>3
  <2>4. QED
    BY <2>2, <2>3
<1>13. \A n \in AgentNames : agents'[n].row /\ IsSet(agents'[n].llm)
         => agents'[n] = agents[n] \/ agents'[n].llm.cipher = procs[w].key
  BY <1>8, <1>9
<1>14. \A n \in AgentNames : agents'[n].row /\ IsPlain(agents'[n].llm)
         => agents'[n] = agents[n] /\ ~(procs[w].job.rows[n].row /\ IsPlain(procs[w].job.rows[n].llm))
  <2> SUFFICES ASSUME NEW n \in AgentNames, agents'[n].row, IsPlain(agents'[n].llm)
               PROVE  agents'[n] = agents[n] /\ ~(found[n].row /\ IsPlain(found[n].llm))
    OBVIOUS
  <2>1. n \notin now
    BY <1>8, <1>9
  <2>2. agents'[n] = agents[n]
    BY <1>9, <2>1
  <2>3. QED
    BY <1>7, <2>1, <2>2
<1>15. QED
  BY <1>1, <1>3, <1>5, <1>6, <1>10, <1>11, <1>12, <1>13, <1>14, RowSteps

\* A start: blind while no row has a secret, or with all found to look through.
LEMMA StartKeeps ==
    ASSUME StoreInv, NEW w \in StoreWorkers, NEW k \in CipherKeys \cup {NoCipher}, Start(w, k)
    PROVE  StoreInv'
<1> DEFINE j == [NoRequest EXCEPT !.at = "rows", !.rows = agents]
           blind == [phase |-> "up", key |-> NoCipher, job |-> NoRequest]
           keyed == [phase |-> "migrating", key |-> k, job |-> j]
           p == IF k = NoCipher THEN blind ELSE keyed
<1>1. /\ ~Alive(w) /\ starts < MaxStarts /\ starts' = starts + 1
      /\ k = NoCipher => LlmRows = {}
      /\ procs' = [procs EXCEPT ![w] = p] /\ used' = used \cup {k}
      /\ mixed' = (mixed \/ \E v \in StoreWorkers :
                      Alive(v) /\ (procs[v].key = NoCipher) # (k = NoCipher))
      /\ UNCHANGED <<agents, raced, acked>>
  BY DEF Start, StartBlind, StartKeyed
<1>2. agents \in [AgentNames -> StoredRows] /\ procs \in [StoreWorkers -> Processes]
  BY DEF StoreInv, StoreIsTyped
<1>3. j \in Jobs /\ j.at = "rows" /\ j.rows = agents
  BY <1>2 DEF Jobs, NoRequest
<1>4. keyed \in Processes /\ blind \in Processes
  <2>1. NoRequest \in Jobs
    BY DEF Jobs
  <2>2. QED
    BY <1>3, <2>1 DEF Processes
<1> HIDE DEF j
<1>5. p \in Processes /\ p.key = k /\ p.phase # "down" /\ JobFits(p)
  <2>1. CASE k = NoCipher
    BY <1>4, <2>1 DEF JobFits, NoRequest
  <2>2. CASE k # NoCipher
    BY <1>3, <1>4, <2>2 DEF JobFits
  <2>3. QED
    BY <2>1, <2>2
<1>6. RowsAsKnown(p)
  <2>1. CASE k = NoCipher
    BY <1>1, <2>1 DEF RowsAsKnown, LlmRows
  <2>2. CASE k # NoCipher
    BY <1>3, <2>2 DEF RowsAsKnown
  <2>3. QED
    BY <2>1, <2>2
<1>7. p.phase = "up" => p.key = NoCipher
  OBVIOUS
<1> HIDE DEF p
<1>8. \A v \in StoreWorkers : procs'[v] = IF v = w THEN p ELSE procs[v]
  BY <1>1, <1>2
<1>9. mixed' \in BOOLEAN /\ (~mixed' => ~mixed)
  BY <1>1
<1>10. starts' \in 0 .. MaxStarts
  BY <1>1, AgentStoreAssumption DEF StoreInv, StoreIsTyped
<1>11. StoreIsTyped'
  BY <1>1, <1>2, <1>5, <1>9, <1>10 DEF StoreInv, StoreIsTyped
<1>12. ASSUME NEW v \in StoreWorkers, ~mixed', Alive(v)
       PROVE  procs[v].key = NoCipher <=> k = NoCipher
  BY <1>1, <1>12
<1>13. ProcessesFit'
  <2>1. \A v \in StoreWorkers : JobFits(procs'[v]) /\ (procs'[v].phase # "down" => procs'[v].key \in used')
    BY <1>1, <1>5, <1>8 DEF StoreInv, ProcessesFit, Alive
  <2>2. ASSUME ~mixed', NEW v \in StoreWorkers, procs'[v].phase # "down"
        PROVE  procs'[v].key = NoCipher <=> k = NoCipher
    BY <1>5, <1>8, <1>12, <2>2 DEF Alive
  <2>3. QED
    BY <2>1, <2>2 DEF ProcessesFit, JobFits, Alive
<1>14. RowsAreKnown'
  BY <1>1, <1>6, <1>8, <1>9 DEF StoreInv, RowsAreKnown, RowsAsKnown
<1>15. RestsEncrypted'
  BY <1>1, <1>5, <1>7, <1>8, <1>9 DEF StoreInv, RestsEncrypted, LlmRows, Up
<1>16. RowsAreAcked' /\ SecretsAreKept'
  BY <1>1, <1>9 DEF StoreInv, RowsAreAcked, SecretsAreKept
<1>17. QED
  BY <1>11, <1>13, <1>14, <1>15, <1>16 DEF StoreInv

\* The table is in order before any process looks at it.
LEMMA StoreStarts == AgentStoreInit => StoreInv
<1> SUFFICES ASSUME AgentStoreInit PROVE StoreInv
  OBVIOUS
<1>1. /\ procs = [w \in StoreWorkers |-> Down]
      /\ used = {} /\ starts = 0 /\ mixed = FALSE /\ raced = {}
      /\ acked = [n \in AgentNames |-> [row |-> agents[n].row, llm |-> agents[n].llm.secret]]
  BY DEF AgentStoreInit
<1>2. agents \in [AgentNames -> StoredRows]
  <2>1. \A k \in CipherKeys \cup {NoCipher}, s \in Secrets :
           [row |-> TRUE, llm |-> Encrypt(k, s)] \in StoredRows
    BY ValueMeans DEF StoredRows
  <2>2. NoRow \in StoredRows
    BY DEF StoredRows, StoredValues, NoRow, NoValue
  <2>3. QED
    BY <2>1, <2>2 DEF AgentStoreInit
<1>3. Down \in Processes /\ JobFits(Down) /\ Down.phase = "down"
  BY DEF Down, NoRequest, Processes, Jobs, JobFits
<1>4. acked \in [AgentNames -> AckedRows] /\ RowsAreAcked /\ SecretsAreKept
  <2>1. \A n \in AgentNames : agents[n].row \in BOOLEAN /\ agents[n].llm.secret \in Secrets \cup {Absent}
    BY <1>2 DEF StoredRows, StoredValues
  <2>2. \A n \in AgentNames : acked[n].row = agents[n].row /\ acked[n].llm = agents[n].llm.secret
    BY <1>1
  <2>3. acked \in [AgentNames -> AckedRows]
    BY <1>1, <2>1 DEF AckedRows
  <2>4. QED
    BY <2>2, <2>3 DEF RowsAreAcked, SecretsAreKept
<1>5. StoreIsTyped
  <2>1. procs \in [StoreWorkers -> Processes]
    BY <1>1, <1>3
  <2>2. starts \in 0 .. MaxStarts
    BY <1>1, AgentStoreAssumption
  <2>3. used \subseteq CipherKeys \cup {NoCipher} /\ raced \subseteq AgentNames
        /\ mixed \in BOOLEAN
    BY <1>1
  <2>4. QED
    BY <1>2, <1>4, <2>1, <2>2, <2>3 DEF StoreIsTyped
<1>6. ProcessesFit /\ RowsAreKnown /\ RestsEncrypted
  BY <1>1, <1>3 DEF ProcessesFit, RowsAreKnown, RowsAsKnown, RestsEncrypted, Alive, Up,
      LlmRows
<1>7. QED
  BY <1>4, <1>5, <1>6 DEF StoreInv

\* Every step keeps it in order.
LEMMA StoreSteps == ASSUME StoreInv, [AgentStoreNext]_agentVars PROVE StoreInv'
<1>1. ASSUME NEW w \in StoreWorkers, NEW k \in CipherKeys \cup {NoCipher}, Start(w, k) PROVE StoreInv'
  BY <1>1, StartKeeps
<1>2. ASSUME NEW w \in StoreWorkers, Migrate(w) PROVE StoreInv'
  BY <1>2, MigrateKeeps
<1>3. ASSUME NEW w \in StoreWorkers, Validate(w) PROVE StoreInv'
  BY <1>3, ValidateKeeps
<1>4. ASSUME NEW w \in StoreWorkers, Crash(w) PROVE StoreInv'
  BY <1>4, CrashKeeps
<1>5. ASSUME NEW w \in StoreWorkers, UpdateWrites(w) PROVE StoreInv'
  BY <1>5, UpdateWritesKeeps
<1>6. ASSUME NEW w \in StoreWorkers, NEW n \in AgentNames, DeleteAgent(w, n) PROVE StoreInv'
  BY <1>6, DeleteKeeps
<1>7. ASSUME NEW w \in StoreWorkers, NEW n \in AgentNames,
             NEW llm \in Secrets \cup {Masked, Absent}, CreateAgent(w, n, llm)
      PROVE  StoreInv'
  BY <1>7, CreateKeeps
<1>8. ASSUME NEW w \in StoreWorkers, NEW n \in AgentNames,
             NEW llm \in Secrets \cup {Masked, Absent}, UpdateReads(w, n, llm)
      PROVE  StoreInv'
  BY <1>8, UpdateReadsKeeps
<1>9. CASE UNCHANGED agentVars
  <2>1. UNCHANGED <<agents, procs, used, starts, mixed, raced, acked>>
    BY <1>9 DEF agentVars
  <2>2. /\ StoreIsTyped' /\ ProcessesFit' /\ RowsAreKnown'
    BY <2>1 DEF StoreInv, StoreIsTyped, ProcessesFit, RowsAreKnown, RowsAsKnown, Alive
  <2>3. RowsAreAcked' /\ SecretsAreKept' /\ RestsEncrypted'
    BY <2>1 DEF StoreInv, RowsAreAcked, SecretsAreKept, RestsEncrypted, Up, LlmRows
  <2>4. QED
    BY <2>2, <2>3 DEF StoreInv
<1>10. QED
  BY <1>1, <1>2, <1>3, <1>4, <1>5, <1>6, <1>7, <1>8, <1>9 DEF AgentStoreNext

\* Whatever keys the processes have and wherever they stop, what each of them knows of the
\* rows when it serves them is so: who has no key reads plaintext, who has one finds
\* nothing but its own.
THEOREM StoreIsInOrder == AgentStoreSpec => []StoreInv
BY StoreStarts, StoreSteps, PTL DEF AgentStoreSpec

\* A table that is in order keeps its secrets.
LEMMA StoreIsSafe == StoreInv => SecretsAreSafe
<1> SUFFICES ASSUME StoreInv PROVE MasksStayOut
  BY DEF StoreInv, SecretsAreSafe
<1> SUFFICES ASSUME NEW n \in AgentNames
             PROVE  /\ agents[n].llm.secret # Masked
                    /\ \A w \in StoreWorkers : ShownBy(w, n, FALSE).llm \notin Secrets
  BY DEF MasksStayOut
<1>1. agents[n] \in StoredRows
  BY DEF StoreInv, StoreIsTyped
<1>2. agents[n].llm.secret # Masked
  BY <1>1, AgentStoreAssumption DEF StoredRows, StoredValues
<1>3. ASSUME NEW w \in StoreWorkers PROVE ShownBy(w, n, FALSE).llm \notin Secrets
  <2> DEFINE a == [agents[n] EXCEPT !.llm = Read(procs[w].key, agents[n].llm)]
  <2>1. ShownBy(w, n, FALSE) = [a EXCEPT !.llm = MaskSecret(a.llm)]
    BY DEF ShownBy, MaskAgent
  <2>2. \A s : MaskSecret(s) \notin Secrets
    BY AgentStoreAssumption DEF MaskSecret
  <2>3. ShownBy(w, n, FALSE).llm = MaskSecret(a.llm)
    BY <1>1, <2>1 DEF StoredRows
  <2>4. QED
    BY <2>2, <2>3
<1>4. QED
  BY <1>2, <1>3

\* Secrets of agents survive restarts, changed keys, migrations and concurrent requests for
\* any processes, keys, agents and secrets; they rest encrypted and are not replaced by
\* what a reader without X-Full-Keys is shown.
THEOREM SecretsStaySafe == AgentStoreSpec => []SecretsAreSafe
<1>1. QED
  BY StoreIsInOrder, StoreIsSafe, PTL

-----------------------------------------------------------------------------
(* The abuse policy *)

MaybePolicy == PolicyValues \cup {Nothing}

\* A handler of the dashboard that saves a policy instead of another.
Saves ==
    {NoSave} \cup [at : {"set", "apply", "put back"}, new : PolicyValues, previous : PolicyValues]

ApiProcesses ==
    [up : BOOLEAN, loaded : MaybePolicy, live : PolicyValues, cached : MaybePolicy,
     save : {"none", "fill", "reload"}, wants : MaybePolicy]

PolicyIsTyped ==
    /\ policyFile \in PolicyFiles
    /\ dashUp \in BOOLEAN /\ dashPolicy \in PolicyValues
    /\ writer \in Requests \cup {Nothing}
    /\ saving \in [Requests -> Saves]
    /\ workersOn \subseteq ApiWorkers
    /\ api \in [ApiWorkers -> ApiProcesses]
    /\ \A w \in ApiWorkers : api[w].save = "fill" => api[w].wants \in PolicyValues
    /\ saves \in 0 .. MaxSaves

\* Who writes is saving, nobody saves in a dashboard that is down, and half a file is
\* being written or was left by a write that was cut.
WritesAreKnown ==
    /\ writer # Nothing => saving[writer].at \in {"set", "put back"}
    /\ ~dashUp => writer = Nothing /\ \A h \in Requests : saving[h] = NoSave
    /\ policyFile = HalfFile => \/ writer # Nothing
                                \/ upsets \cap {"failed write", "crash", "api save"} # {}
    /\ "api save" \notin upsets => /\ policyFile.by # "api"
                                   /\ \A w \in ApiWorkers : api[w].save = "none"

\* The only worker has policy p, on limits and on runtime settings, or none yet.
WorkerHas(p) ==
    Cardinality(workersOn) = 1 =>
        \A w \in workersOn : api[w].loaded \in {Nothing, p} /\ (api[w].up => api[w].live = p)

\* How far a save has come: until it is acknowledged the worker has the previous policy.
SaveStands(h) ==
    /\ \A g \in Requests \ {h} : saving[g] = NoSave
    /\ WorkerHas(saving[h].previous)
    /\ writer = h =>
          /\ policyFile = HalfFile
          /\ dashPolicy = IF saving[h].at = "set" THEN saving[h].new ELSE saving[h].previous
    /\ writer # h /\ saving[h].at = "set" =>
          /\ Loadable /\ FilePolicy = saving[h].previous
          /\ dashPolicy = saving[h].previous
    /\ writer # h /\ saving[h].at # "set" =>
          policyFile = Contents(saving[h].new, "dash") /\ dashPolicy = saving[h].new

ExchangeStands ==
    upsets = {} =>
        /\ \A h \in Requests : saving[h] # NoSave => SaveStands(h)
        /\ (\A h \in Requests : saving[h] = NoSave) =>
              /\ Loadable /\ WorkerHas(FilePolicy)
              /\ dashUp => dashPolicy = FilePolicy

PolicyInv == PolicyIsTyped /\ WritesAreKnown /\ ExchangeStands /\ EnforcersAreCurrent

-----------------------------------------------------------------------------
\* What is known of a save, a process and the file.
LEMMA SaveMeans ==
    ASSUME PolicyIsTyped, NEW h \in Requests
    PROVE  /\ saving[h] \in Saves
           /\ saving[h].at \in {"none", "set", "apply", "put back"}
           /\ saving[h].at = "none" <=> saving[h] = NoSave
           /\ saving[h] # NoSave => saving[h].new \in PolicyValues /\ saving[h].previous \in PolicyValues
<1>1. saving[h] \in Saves
  BY DEF PolicyIsTyped
<1>2. CASE saving[h] = NoSave
  BY <1>1, <1>2 DEF NoSave
<1>3. CASE saving[h] # NoSave
  <2>1. saving[h] \in [at : {"set", "apply", "put back"}, new : PolicyValues, previous : PolicyValues]
    BY <1>1, <1>3 DEF Saves
  <2>2. QED
    BY <1>1, <1>3, <2>1
<1>4. QED
  BY <1>2, <1>3

LEMMA ProcessIs ==
    ASSUME PolicyIsTyped, NEW w \in ApiWorkers
    PROVE  /\ api[w] \in ApiProcesses /\ api[w].up \in BOOLEAN
           /\ api[w].loaded \in MaybePolicy /\ api[w].live \in PolicyValues
           /\ api[w].cached \in MaybePolicy /\ api[w].save \in {"none", "fill", "reload"}
<1>1. api[w] \in ApiProcesses
  BY DEF PolicyIsTyped
<1>2. QED
  BY <1>1 DEF ApiProcesses

\* A policy that was written is found.
LEMMA FileMeans ==
    ASSUME NEW p \in PolicyValues, NEW by \in {"dash", "api"}
    PROVE  /\ Contents(p, by) \in PolicyFiles /\ Contents(p, by) # HalfFile
           /\ Contents(p, by) # NoFile /\ Contents(p, by).policy = p /\ Contents(p, by).by = by
<1>1. p # Nothing
  BY AbusePolicyAssumption
<1>2. Contents(p, by).policy = p /\ Contents(p, by).by = by
  BY DEF Contents
<1>3. HalfFile.policy = Nothing /\ NoFile.policy = Nothing
  BY DEF Contents, HalfFile, NoFile
<1>4. Contents(p, by) \in PolicyFiles
  BY DEF PolicyFiles
<1>5. QED
  BY <1>1, <1>2, <1>3, <1>4

\* What can be loaded is a policy.
LEMMA FileIsLoaded ==
    ASSUME PolicyIsTyped, Loadable
    PROVE  FilePolicy \in PolicyValues
<1>1. policyFile \in {NoFile} \cup {Contents(p, by) : p \in PolicyValues, by \in {"dash", "api"}}
  BY DEF PolicyIsTyped, PolicyFiles, Loadable
<1>2. CASE policyFile = NoFile
  BY <1>2, AbusePolicyAssumption DEF FilePolicy
<1>3. CASE policyFile # NoFile
  BY <1>1, <1>3, FileMeans DEF FilePolicy
<1>4. QED
  BY <1>2, <1>3

\* Half a file is no policy.
LEMMA HalfIsNobodys == HalfFile \in PolicyFiles /\ HalfFile.by = "a writer"
BY DEF PolicyFiles, HalfFile, Contents

\* A process that reloads has the policy of the file and no old enforcers.
LEMMA ReloadedIs ==
    ASSUME NEW a \in ApiProcesses, FilePolicy \in PolicyValues
    PROVE  /\ Reloaded(a) \in ApiProcesses
           /\ Reloaded(a).loaded = FilePolicy /\ Reloaded(a).live = FilePolicy
           /\ Reloaded(a).cached = Nothing /\ Reloaded(a).save = a.save
           /\ Reloaded(a).wants = a.wants /\ Reloaded(a).up = a.up
BY DEF Reloaded, ApiProcesses, MaybePolicy

\* A process that has not loaded anything.
LEMMA NewIs == NewWorker \in ApiProcesses
BY AbusePolicyAssumption DEF NewWorker, ApiProcesses, MaybePolicy

\* A process may load the file, and no save that it would find there is still open.
Fresh == Loadable /\ \A h \in Requests : saving[h].at \notin {"apply", "put back"}

\* What a process has afterwards is what it had, or what the file says.
TakesFile(w, a) ==
    /\ \/ a.loaded \in {Nothing, api[w].loaded}
       \/ Fresh /\ a.loaded = FilePolicy
    /\ a.up => \/ api[w].up /\ a.live = api[w].live
               \/ Fresh /\ a.live = FilePolicy

\* A step of a process of the api-service that leaves the file alone.
LEMMA ApiSteps ==
    ASSUME PolicyInv, NEW w \in workersOn, NEW a \in ApiProcesses,
           api' = [api EXCEPT ![w] = a],
           UNCHANGED <<policyFile, dashUp, dashPolicy, writer, saving, workersOn, saves>>,
           upsets \subseteq upsets',
           a.save = "fill" => a.wants \in PolicyValues,
           a.save # "none" => "api save" \in upsets,
           a.cached \in {Nothing, a.loaded},
           upsets' = {} /\ Cardinality(workersOn) = 1 => TakesFile(w, a)
    PROVE  PolicyInv'
<1>1. /\ w \in ApiWorkers
      /\ \A v \in ApiWorkers : api'[v] = IF v = w THEN a ELSE api[v]
  BY DEF PolicyInv, PolicyIsTyped
<1>2. PolicyIsTyped'
  BY <1>1 DEF PolicyInv, PolicyIsTyped
<1>3. WritesAreKnown'
  BY <1>1 DEF PolicyInv, WritesAreKnown
<1>4. EnforcersAreCurrent'
  BY <1>1 DEF PolicyInv, EnforcersAreCurrent
<1>5. ExchangeStands'
  <2> SUFFICES ASSUME upsets' = {} PROVE ExchangeStands'
    BY DEF ExchangeStands
  <2>1. upsets = {}
    OBVIOUS
  <2>2. ASSUME NEW p, WorkerHas(p), Fresh => FilePolicy = p PROVE WorkerHas(p)'
    <3> SUFFICES ASSUME Cardinality(workersOn) = 1, NEW v \in workersOn
                 PROVE  api'[v].loaded \in {Nothing, p} /\ (api'[v].up => api'[v].live = p)
      BY DEF WorkerHas
    <3>1. v \in ApiWorkers /\ api[v].loaded \in {Nothing, p} /\ (api[v].up => api[v].live = p)
      BY <2>2 DEF PolicyInv, PolicyIsTyped, WorkerHas
    <3>2. CASE v = w
      BY <1>1, <2>2, <3>1, <3>2 DEF TakesFile
    <3>3. CASE v # w
      BY <1>1, <3>1, <3>3
    <3>4. QED
      BY <3>2, <3>3
  <2>3. Loadable' = Loadable /\ FilePolicy' = FilePolicy
    BY DEF Loadable, FilePolicy
  <2>4. ASSUME NEW h \in Requests, saving[h] # NoSave PROVE SaveStands(h)'
    <3>1. SaveStands(h)
      BY <2>1, <2>4 DEF PolicyInv, ExchangeStands
    <3>2. Fresh => FilePolicy = saving[h].previous
      <4> SUFFICES ASSUME Fresh PROVE FilePolicy = saving[h].previous
        OBVIOUS
      <4>1. saving[h].at = "set"
        BY <2>4, SaveMeans DEF Fresh, PolicyInv
      <4>2. writer # h
        BY <3>1 DEF SaveStands, Fresh, Loadable
      <4>3. QED
        BY <3>1, <4>1, <4>2 DEF SaveStands
    <3>3. WorkerHas(saving[h].previous)'
      BY <2>2, <3>1, <3>2 DEF SaveStands, WorkerHas
    <3>4. QED
      BY <2>3, <3>1, <3>3 DEF SaveStands
  <2>5. ASSUME \A h \in Requests : saving[h] = NoSave
        PROVE  Loadable /\ WorkerHas(FilePolicy)' /\ (dashUp => dashPolicy = FilePolicy)
    <3>1. Loadable /\ WorkerHas(FilePolicy) /\ (dashUp => dashPolicy = FilePolicy)
      BY <2>1, <2>5 DEF PolicyInv, ExchangeStands
    <3>2. QED
      BY <2>2, <2>3, <3>1 DEF WorkerHas
  <2>6. QED
    BY <2>3, <2>4, <2>5 DEF ExchangeStands
<1>6. QED
  BY <1>2, <1>3, <1>4, <1>5 DEF PolicyInv

\* Where a load is early, something upset the exchange.
LEMMA EarlyIsKnown ==
    ASSUME LoadsEarly
    PROVE  upsets \subseteq upsets' /\ (upsets' = {} => Fresh)
BY DEF LoadsEarly, Fresh

\* A worker starts with the policy of the file or of the environment.
LEMMA StartWorkerKeeps ==
    ASSUME PolicyInv, NEW w \in workersOn, StartWorker(w)
    PROVE  PolicyInv'
<1> DEFINE b == IF Cardinality(workersOn) = 1 /\ Loadable THEN Reloaded(NewWorker) ELSE NewWorker
           a == [b EXCEPT !.up = TRUE]
<1>1. /\ api' = [api EXCEPT ![w] = a] /\ LoadsEarly
      /\ UNCHANGED <<policyFile, dashUp, dashPolicy, writer, saving, workersOn, saves>>
  BY DEF StartWorker
<1>2. /\ b \in ApiProcesses /\ b.save = "none" /\ b.cached = Nothing
      /\ Cardinality(workersOn) = 1 /\ Loadable => b.loaded = FilePolicy /\ b.live = FilePolicy
      /\ ~(Cardinality(workersOn) = 1 /\ Loadable) => b.loaded = Nothing
  <2>1. CASE Cardinality(workersOn) = 1 /\ Loadable
    <3>1. FilePolicy \in PolicyValues
      BY <2>1, FileIsLoaded DEF PolicyInv
    <3>2. b = Reloaded(NewWorker)
      BY <2>1
    <3>3. QED
      BY <2>1, <3>1, <3>2, NewIs, ReloadedIs DEF NewWorker
  <2>2. CASE ~(Cardinality(workersOn) = 1 /\ Loadable)
    BY <2>2, NewIs DEF NewWorker
  <2>3. QED
    BY <2>1, <2>2
<1> HIDE DEF b
<1>3. /\ a \in ApiProcesses /\ a.save = "none" /\ a.cached = Nothing
      /\ a.loaded = b.loaded /\ a.live = b.live
  BY <1>2 DEF ApiProcesses
<1> HIDE DEF a
<1>4. upsets \subseteq upsets' /\ (upsets' = {} => Fresh)
  BY <1>1, EarlyIsKnown
<1>5. upsets' = {} /\ Cardinality(workersOn) = 1 => TakesFile(w, a)
  BY <1>2, <1>3, <1>4 DEF TakesFile, Fresh
<1>6. QED
  BY <1>1, <1>3, <1>4, <1>5, ApiSteps

\* A worker that dies forgets its policy.
LEMMA CrashWorkerKeeps ==
    ASSUME PolicyInv, NEW w \in workersOn, CrashWorker(w)
    PROVE  PolicyInv'
<1>1. /\ api' = [api EXCEPT ![w] = NewWorker] /\ upsets \subseteq upsets'
      /\ UNCHANGED <<policyFile, dashUp, dashPolicy, writer, saving, workersOn, saves>>
  BY DEF CrashWorker
<1>2. /\ NewWorker.save = "none" /\ NewWorker.cached = Nothing
      /\ NewWorker.loaded = Nothing /\ ~NewWorker.up
  BY DEF NewWorker
<1>3. TakesFile(w, NewWorker)
  BY <1>2 DEF TakesFile
<1>4. QED
  BY <1>1, <1>2, <1>3, NewIs, ApiSteps

\* A worker loads when it is first asked.
LEMMA GetEnforcersKeeps ==
    ASSUME PolicyInv, NEW w \in workersOn, GetEnforcers(w)
    PROVE  PolicyInv'
<1> DEFINE now == IF api[w].loaded = Nothing THEN FilePolicy ELSE api[w].loaded
           a == Enforcing(api[w])
<1>1. /\ api[w].save = "none" /\ (api[w].loaded = Nothing => Loadable)
      /\ api' = [api EXCEPT ![w] = a]
      /\ IF api[w].loaded = Nothing THEN LoadsEarly ELSE UNCHANGED upsets
      /\ api[w].up
      /\ UNCHANGED <<policyFile, dashUp, dashPolicy, writer, saving, workersOn, saves>>
  BY DEF GetEnforcers
<1>2. w \in ApiWorkers /\ api[w] \in ApiProcesses /\ api[w].cached \in {Nothing, api[w].loaded}
  BY DEF PolicyInv, PolicyIsTyped, EnforcersAreCurrent
<1>3. now \in MaybePolicy
  BY <1>1, <1>2, ProcessIs, FileIsLoaded DEF PolicyInv, MaybePolicy
<1>4. /\ a \in ApiProcesses /\ a.save = "none" /\ a.loaded = now /\ a.cached = now
      /\ a.live = api[w].live /\ a.up = api[w].up
  BY <1>1, <1>2, <1>3 DEF ApiProcesses, Enforcing
<1>5. upsets \subseteq upsets' /\ (upsets' = {} /\ api[w].loaded = Nothing => Fresh)
  BY <1>1, EarlyIsKnown
<1> HIDE DEF a
<1>6. upsets' = {} => TakesFile(w, a)
  BY <1>1, <1>4, <1>5 DEF TakesFile
<1>7. QED
  BY <1>1, <1>4, <1>5, <1>6, ApiSteps

\* A worker reloads what it wrote itself.
LEMMA ReloadConfigKeeps ==
    ASSUME PolicyInv, NEW w \in workersOn, ReloadConfig(w)
    PROVE  PolicyInv'
<1> DEFINE b == IF Loadable THEN Reloaded(api[w]) ELSE api[w]
           a == [b EXCEPT !.save = "none", !.wants = Nothing]
<1>1. /\ api[w].save = "reload" /\ api' = [api EXCEPT ![w] = a]
      /\ UNCHANGED <<policyFile, dashUp, dashPolicy, writer, saving, workersOn, saves, upsets>>
  BY DEF ReloadConfig
<1>2. w \in ApiWorkers /\ api[w] \in ApiProcesses /\ api[w].cached \in {Nothing, api[w].loaded}
  BY DEF PolicyInv, PolicyIsTyped, EnforcersAreCurrent
<1>3. b \in ApiProcesses /\ b.cached \in {Nothing, b.loaded}
  <2>1. Loadable => FilePolicy \in PolicyValues
    BY FileIsLoaded DEF PolicyInv
  <2>2. QED
    BY <1>2, <2>1, ReloadedIs
<1> HIDE DEF b
<1>4. a \in ApiProcesses /\ a.save = "none" /\ a.cached \in {Nothing, a.loaded}
  BY <1>3 DEF ApiProcesses, MaybePolicy
<1> HIDE DEF a
<1>5. upsets # {}
  BY <1>1, <1>2 DEF PolicyInv, WritesAreKnown
<1>6. QED
  BY <1>1, <1>4, <1>5, ApiSteps

\* A reload without a save.
LEMMA AskReloadKeeps == ASSUME PolicyInv, NEW w \in workersOn, AskReload(w) PROVE PolicyInv'
<1> DEFINE a == Reloaded(api[w])
<1>1. /\ api[w].save = "none" /\ Loadable /\ api' = [api EXCEPT ![w] = a] /\ LoadsEarly
      /\ UNCHANGED <<policyFile, dashUp, dashPolicy, writer, saving, workersOn, saves>>
  BY DEF AskReload
<1>2. w \in ApiWorkers /\ api[w] \in ApiProcesses
  BY DEF PolicyInv, PolicyIsTyped
<1>3. /\ a \in ApiProcesses /\ a.save = "none" /\ a.cached = Nothing
      /\ a.loaded = FilePolicy /\ a.live = FilePolicy
  BY <1>1, <1>2, FileIsLoaded, ReloadedIs DEF PolicyInv
<1> HIDE DEF a
<1>4. upsets \subseteq upsets' /\ (upsets' = {} => Fresh)
  BY <1>1, EarlyIsKnown
<1>5. upsets' = {} => TakesFile(w, a)
  BY <1>3, <1>4 DEF TakesFile
<1>6. QED
  BY <1>1, <1>3, <1>4, <1>5, ApiSteps

-----------------------------------------------------------------------------
\* What is known of all four parts at once.
LEMMA PolicyAtHand ==
    ASSUME PolicyInv
    PROVE  /\ PolicyIsTyped /\ WritesAreKnown /\ ExchangeStands /\ EnforcersAreCurrent
           /\ Nothing \notin Requests /\ Nothing \notin PolicyValues
BY AbusePolicyAssumption DEF PolicyInv

\* A save begins with what to go back to.
LEMMA BeginPutKeeps ==
    ASSUME PolicyInv, NEW h \in Requests, NEW p \in PolicyValues, BeginPut(h, p)
    PROVE  PolicyInv'
<1> DEFINE a == [at |-> "set", new |-> p, previous |-> dashPolicy]
<1>1. /\ dashUp /\ saving[h] = NoSave /\ writer = Nothing /\ saves < MaxSaves
      /\ saving' = [saving EXCEPT ![h] = a] /\ saves' = saves + 1
      /\ upsets' = IF \E g \in Requests : saving[g] # NoSave THEN upsets \cup {"overlap"} ELSE upsets
      /\ UNCHANGED <<policyFile, dashUp, dashPolicy, writer, workersOn, api>>
  BY DEF BeginPut
<1>2. a \in Saves /\ a # NoSave /\ a.at = "set" /\ a.previous = dashPolicy
  BY PolicyAtHand DEF PolicyIsTyped, Saves, NoSave
<1> HIDE DEF a
<1>3. \A g \in Requests : saving'[g] = IF g = h THEN a ELSE saving[g]
  BY <1>1, PolicyAtHand DEF PolicyIsTyped
<1>4. PolicyIsTyped'
  <2>1. saves' \in 0 .. MaxSaves
    BY <1>1, PolicyAtHand, AbusePolicyAssumption DEF PolicyIsTyped
  <2>2. QED
    BY <1>1, <1>2, <2>1, PolicyAtHand DEF PolicyIsTyped
<1>5. upsets \subseteq upsets' /\ (upsets' = {} => \A g \in Requests : saving[g] = NoSave)
  BY <1>1
<1>6. WritesAreKnown'
  BY <1>1, <1>5, PolicyAtHand DEF WritesAreKnown
<1>7. EnforcersAreCurrent'
  BY <1>1, PolicyAtHand DEF EnforcersAreCurrent
<1>8. ExchangeStands'
  <2> SUFFICES ASSUME upsets' = {} PROVE ExchangeStands'
    BY DEF ExchangeStands
  <2>1. upsets = {} /\ \A g \in Requests : saving[g] = NoSave
    BY <1>5
  <2>2. Loadable /\ WorkerHas(FilePolicy) /\ dashPolicy = FilePolicy
    BY <1>1, <2>1, PolicyAtHand DEF ExchangeStands
  <2>3. saving'[h] = a /\ \A g \in Requests \ {h} : saving'[g] = NoSave
    BY <1>3, <2>1
  <2>4. /\ Loadable' /\ FilePolicy' = FilePolicy /\ WorkerHas(dashPolicy)'
        /\ writer' # h
    BY <1>1, <2>2, PolicyAtHand DEF Loadable, FilePolicy, WorkerHas
  <2>5. SaveStands(h)'
    BY <1>1, <1>2, <2>2, <2>3, <2>4 DEF SaveStands, WorkerHas
  <2>6. QED
    BY <1>2, <2>3, <2>5 DEF ExchangeStands
<1>9. QED
  BY <1>4, <1>6, <1>7, <1>8 DEF PolicyInv

\* A write truncates the file.
LEMMA TruncateKeeps == ASSUME PolicyInv, NEW h \in Requests, Truncate(h) PROVE PolicyInv'
<1>1. /\ saving[h].at \in {"set", "put back"} /\ writer = Nothing /\ writer' = h
      /\ dashPolicy' = IF saving[h].at = "set" THEN saving[h].new ELSE saving[h].previous
      /\ policyFile' = HalfFile
      /\ UNCHANGED <<dashUp, saving, workersOn, api, saves, upsets>>
  BY DEF Truncate
<1>2. /\ saving[h] # NoSave /\ saving[h].new \in PolicyValues /\ saving[h].previous \in PolicyValues
  BY <1>1, SaveMeans, PolicyAtHand
<1>3. PolicyIsTyped'
  BY <1>1, <1>2, HalfIsNobodys, PolicyAtHand DEF PolicyIsTyped
<1>4. WritesAreKnown'
  BY <1>1, <1>2, HalfIsNobodys, PolicyAtHand DEF WritesAreKnown
<1>5. EnforcersAreCurrent'
  BY <1>1, PolicyAtHand DEF EnforcersAreCurrent
<1>6. ExchangeStands'
  <2> SUFFICES ASSUME upsets = {} PROVE ExchangeStands'
    BY <1>1 DEF ExchangeStands
  <2>1. SaveStands(h)
    BY <1>2, PolicyAtHand DEF ExchangeStands
  <2>2. SaveStands(h)'
    BY <1>1, <2>1 DEF SaveStands, WorkerHas
  <2>3. \A g \in Requests : saving'[g] # NoSave <=> g = h
    BY <1>1, <1>2, <2>1 DEF SaveStands
  <2>4. QED
    BY <2>2, <2>3 DEF ExchangeStands
<1>7. QED
  BY <1>3, <1>4, <1>5, <1>6 DEF PolicyInv

\* A write fills it, with the new policy or the previous one.
LEMMA FillKeeps == ASSUME PolicyInv, NEW h \in Requests, Fill(h) PROVE PolicyInv'
<1> DEFINE a == IF saving[h].at = "set" THEN [saving[h] EXCEPT !.at = "apply"] ELSE NoSave
<1>1. /\ writer = h /\ policyFile' = Contents(dashPolicy, "dash") /\ writer' = Nothing
      /\ saving' = [saving EXCEPT ![h] = a]
      /\ UNCHANGED <<dashUp, dashPolicy, workersOn, api, saves, upsets>>
  BY DEF Fill
<1>2. /\ saving[h].at \in {"set", "put back"} /\ saving[h] \in Saves /\ saving[h] # NoSave
      /\ saving[h].new \in PolicyValues /\ saving[h].previous \in PolicyValues
      /\ dashUp
  BY <1>1, SaveMeans, PolicyAtHand DEF WritesAreKnown
<1>3. /\ a \in Saves
      /\ saving[h].at = "set" => /\ a # NoSave /\ a.at = "apply" /\ a.new = saving[h].new
                                 /\ a.previous = saving[h].previous
      /\ saving[h].at # "set" => a = NoSave
  <2>1. CASE saving[h].at = "set"
    <3>1. saving[h] \in [at : {"set", "apply", "put back"}, new : PolicyValues, previous : PolicyValues]
      BY <1>2 DEF Saves
    <3>2. QED
      BY <2>1, <3>1 DEF Saves, NoSave
  <2>2. CASE saving[h].at # "set"
    BY <2>2 DEF Saves
  <2>3. QED
    BY <2>1, <2>2
<1> HIDE DEF a
<1>4. \A g \in Requests : saving'[g] = IF g = h THEN a ELSE saving[g]
  BY <1>1, PolicyAtHand DEF PolicyIsTyped
<1>5. /\ dashPolicy \in PolicyValues /\ policyFile' \in PolicyFiles
      /\ policyFile' # HalfFile /\ policyFile' # NoFile
      /\ policyFile'.policy = dashPolicy /\ policyFile'.by = "dash"
  BY <1>1, FileMeans, PolicyAtHand DEF PolicyIsTyped
<1>6. PolicyIsTyped'
  BY <1>1, <1>3, <1>5, PolicyAtHand DEF PolicyIsTyped
<1>7. WritesAreKnown'
  BY <1>1, <1>2, <1>5, PolicyAtHand DEF WritesAreKnown
<1>8. EnforcersAreCurrent'
  BY <1>1, PolicyAtHand DEF EnforcersAreCurrent
<1>9. ExchangeStands'
  <2> SUFFICES ASSUME upsets = {} PROVE ExchangeStands'
    BY <1>1 DEF ExchangeStands
  <2>1. SaveStands(h)
    BY <1>2, PolicyAtHand DEF ExchangeStands
  <2>2. Loadable' /\ FilePolicy' = dashPolicy /\ \A p : WorkerHas(p) => WorkerHas(p)'
    BY <1>1, <1>5 DEF Loadable, FilePolicy, WorkerHas
  <2>3. \A g \in Requests \ {h} : saving'[g] = NoSave
    BY <1>4, <2>1 DEF SaveStands
  <2>4. CASE saving[h].at = "set"
    <3>1. SaveStands(h)'
      BY <1>1, <1>3, <1>4, <2>1, <2>2, <2>3, <2>4, PolicyAtHand DEF SaveStands, WorkerHas
    <3>2. QED
      BY <1>3, <1>4, <2>3, <2>4, <3>1 DEF ExchangeStands
  <2>5. CASE saving[h].at # "set"
    <3>1. \A g \in Requests : saving'[g] = NoSave
      BY <1>3, <1>4, <2>3, <2>5
    <3>2. dashPolicy = saving[h].previous /\ WorkerHas(saving[h].previous)
      BY <1>1, <2>1, <2>5 DEF SaveStands
    <3>3. WorkerHas(FilePolicy)'
      BY <1>1, <2>2, <3>2 DEF WorkerHas
    <3>4. QED
      BY <1>1, <2>2, <3>1, <3>3 DEF ExchangeStands
  <2>6. QED
    BY <2>4, <2>5
<1>10. QED
  BY <1>6, <1>7, <1>8, <1>9 DEF PolicyInv

\* A write that fails leaves half a file, and is remembered.
LEMMA FillFailsKeeps == ASSUME PolicyInv, NEW h \in Requests, FillFails(h) PROVE PolicyInv'
<1>1. /\ writer = h /\ writer' = Nothing /\ saving' = [saving EXCEPT ![h] = NoSave]
      /\ upsets' = upsets \cup {"failed write"}
      /\ UNCHANGED <<policyFile, dashUp, dashPolicy, workersOn, api, saves>>
  BY DEF FillFails
<1>2. PolicyIsTyped'
  BY <1>1, PolicyAtHand DEF PolicyIsTyped, Saves
<1>3. WritesAreKnown'
  BY <1>1, PolicyAtHand DEF WritesAreKnown, PolicyIsTyped
<1>4. EnforcersAreCurrent' /\ ExchangeStands'
  BY <1>1, PolicyAtHand DEF EnforcersAreCurrent, ExchangeStands
<1>5. QED
  BY <1>2, <1>3, <1>4 DEF PolicyInv

\* A save that is not acknowledged is to be put back.
LEMMA ApplyFailsKeeps ==
    ASSUME PolicyInv, NEW h \in Requests, ApplyFails(h)
    PROVE  PolicyInv'
<1> DEFINE a == [saving[h] EXCEPT !.at = "put back"]
<1>1. /\ saving[h].at = "apply" /\ saving' = [saving EXCEPT ![h] = a]
      /\ UNCHANGED <<policyFile, dashUp, dashPolicy, writer, workersOn, api, saves, upsets>>
  BY DEF ApplyFails, PuttingBack
<1>2. saving[h] # NoSave
  BY <1>1, SaveMeans, PolicyAtHand
<1>3. a \in Saves /\ a # NoSave /\ a.at = "put back" /\ a.new = saving[h].new /\ a.previous = saving[h].previous
  <2>1. saving[h] \in [at : {"set", "apply", "put back"}, new : PolicyValues, previous : PolicyValues]
    BY <1>2, SaveMeans, PolicyAtHand DEF Saves
  <2>2. QED
    BY <2>1 DEF Saves, NoSave
<1> HIDE DEF a
<1>4. \A g \in Requests : saving'[g] = IF g = h THEN a ELSE saving[g]
  BY <1>1, PolicyAtHand DEF PolicyIsTyped
<1>5. PolicyIsTyped'
  BY <1>1, <1>3, PolicyAtHand DEF PolicyIsTyped
<1>6. WritesAreKnown'
  BY <1>1, <1>2, <1>3, <1>4, PolicyAtHand DEF WritesAreKnown, PolicyIsTyped
<1>7. EnforcersAreCurrent'
  BY <1>1, PolicyAtHand DEF EnforcersAreCurrent
<1>8. writer # h
  BY <1>1, PolicyAtHand DEF WritesAreKnown
<1>9. ExchangeStands'
  <2> SUFFICES ASSUME upsets = {} PROVE ExchangeStands'
    BY <1>1 DEF ExchangeStands
  <2>1. SaveStands(h)
    BY <1>2, PolicyAtHand DEF ExchangeStands
  <2>2. SaveStands(h)'
    BY <1>1, <1>3, <1>4, <1>8, <2>1 DEF SaveStands, WorkerHas
  <2>3. \A g \in Requests : saving'[g] # NoSave <=> g = h
    BY <1>3, <1>4, <2>1 DEF SaveStands
  <2>4. QED
    BY <2>2, <2>3 DEF ExchangeStands
<1>10. QED
  BY <1>5, <1>6, <1>7, <1>9 DEF PolicyInv

\* A dashboard that dies inside a save is remembered.
LEMMA DashCrashKeeps == ASSUME PolicyInv, DashCrash PROVE PolicyInv'
<1>1. /\ dashUp' = FALSE /\ writer' = Nothing /\ saving' = [h \in Requests |-> NoSave]
      /\ upsets' = IF \E h \in Requests : saving[h] # NoSave THEN upsets \cup {"crash"} ELSE upsets
      /\ UNCHANGED <<policyFile, dashPolicy, workersOn, api, saves>>
  BY DEF DashCrash
<1>2. PolicyIsTyped'
  <2>1. saving' \in [Requests -> Saves] /\ dashUp' \in BOOLEAN
    BY <1>1 DEF Saves
  <2>2. QED
    BY <1>1, <2>1, PolicyAtHand DEF PolicyIsTyped
<1>3. writer # Nothing => "crash" \in upsets'
  <2>1. writer # Nothing => writer \in Requests /\ saving[writer] # NoSave
    BY SaveMeans, PolicyAtHand DEF WritesAreKnown, PolicyIsTyped
  <2>2. QED
    BY <1>1, <2>1
<1>4. upsets \subseteq upsets'
  BY <1>1
<1>5. WritesAreKnown'
  BY <1>1, <1>3, <1>4, PolicyAtHand DEF WritesAreKnown
<1>6. EnforcersAreCurrent'
  BY <1>1, PolicyAtHand DEF EnforcersAreCurrent
<1>7. ExchangeStands'
  <2> SUFFICES ASSUME upsets' = {} PROVE ExchangeStands'
    BY DEF ExchangeStands
  <2>1. upsets = {} /\ \A h \in Requests : saving[h] = NoSave
    BY <1>1
  <2>2. Loadable /\ WorkerHas(FilePolicy)
    BY <2>1, PolicyAtHand DEF ExchangeStands
  <2>3. QED
    BY <1>1, <2>2 DEF ExchangeStands, Loadable, WorkerHas, FilePolicy
<1>8. QED
  BY <1>2, <1>5, <1>6, <1>7 DEF PolicyInv

\* A dashboard starts from the file.
LEMMA DashStartKeeps == ASSUME PolicyInv, DashStart PROVE PolicyInv'
<1>1. /\ ~dashUp /\ Loadable /\ dashUp' = TRUE /\ dashPolicy' = FilePolicy
      /\ UNCHANGED <<policyFile, writer, saving, workersOn, api, saves, upsets>>
  BY DEF DashStart, DashReadable
<1>2. PolicyIsTyped'
  BY <1>1, FileIsLoaded, PolicyAtHand DEF PolicyIsTyped
<1>3. WritesAreKnown' /\ EnforcersAreCurrent'
  BY <1>1, PolicyAtHand DEF WritesAreKnown, EnforcersAreCurrent
<1>4. ExchangeStands'
  <2>1. \A h \in Requests : saving[h] = NoSave
    BY <1>1, PolicyAtHand DEF WritesAreKnown
  <2>2. QED
    BY <1>1, <2>1, PolicyAtHand DEF ExchangeStands, Loadable, WorkerHas, FilePolicy
<1>5. QED
  BY <1>2, <1>3, <1>4 DEF PolicyInv

\* The api-service's own save is remembered.
LEMMA SaveConfigKeeps ==
    ASSUME PolicyInv, NEW w \in workersOn, NEW p \in PolicyValues, SaveConfig(w, p)
    PROVE  PolicyInv'
<1> DEFINE a == [api[w] EXCEPT !.save = "fill", !.wants = p]
<1>1. /\ saves < MaxSaves /\ policyFile' = HalfFile /\ api' = [api EXCEPT ![w] = a]
      /\ saves' = saves + 1 /\ upsets' = upsets \cup {"api save"}
      /\ UNCHANGED <<dashUp, dashPolicy, writer, saving, workersOn>>
  BY DEF SaveConfig
<1>2. w \in ApiWorkers /\ api[w] \in ApiProcesses
  BY PolicyAtHand DEF PolicyIsTyped
<1>3. /\ a \in ApiProcesses /\ a.wants = p /\ a.cached = api[w].cached /\ a.loaded = api[w].loaded
  BY <1>2 DEF ApiProcesses, MaybePolicy
<1> HIDE DEF a
<1>4. \A v \in ApiWorkers : api'[v] = IF v = w THEN a ELSE api[v]
  BY <1>1, <1>2, PolicyAtHand DEF PolicyIsTyped
<1>5. saves' \in 0 .. MaxSaves
  <2>1. saves \in 0 .. MaxSaves /\ saves < MaxSaves /\ saves' = saves + 1
    BY <1>1, PolicyAtHand DEF PolicyIsTyped
  <2>2. QED
    BY <2>1, AbusePolicyAssumption
<1>6. PolicyIsTyped'
  BY <1>1, <1>2, <1>3, <1>4, <1>5, HalfIsNobodys, PolicyAtHand DEF PolicyIsTyped
<1>7. WritesAreKnown' /\ ExchangeStands'
  BY <1>1, PolicyAtHand DEF WritesAreKnown, ExchangeStands
<1>8. EnforcersAreCurrent'
  BY <1>2, <1>3, <1>4, PolicyAtHand DEF EnforcersAreCurrent
<1>9. QED
  BY <1>6, <1>7, <1>8 DEF PolicyInv

\* It fills the file as its own.
LEMMA FillConfigKeeps ==
    ASSUME PolicyInv, NEW w \in workersOn, FillConfig(w)
    PROVE  PolicyInv'
<1> DEFINE a == [api[w] EXCEPT !.save = "reload"]
<1>1. /\ api[w].save = "fill" /\ policyFile' = Contents(api[w].wants, "api")
      /\ api' = [api EXCEPT ![w] = a]
      /\ UNCHANGED <<dashUp, dashPolicy, writer, saving, workersOn, saves, upsets>>
  BY DEF FillConfig
<1>2. w \in ApiWorkers /\ api[w] \in ApiProcesses /\ api[w].wants \in PolicyValues
  BY <1>1, PolicyAtHand DEF PolicyIsTyped
<1>3. /\ a \in ApiProcesses /\ a.save = "reload" /\ a.cached = api[w].cached /\ a.loaded = api[w].loaded
  BY <1>2 DEF ApiProcesses
<1> HIDE DEF a
<1>4. \A v \in ApiWorkers : api'[v] = IF v = w THEN a ELSE api[v]
  BY <1>1, <1>2, PolicyAtHand DEF PolicyIsTyped
<1>5. "api save" \in upsets /\ policyFile' # HalfFile /\ policyFile' \in PolicyFiles
  BY <1>1, <1>2, FileMeans, PolicyAtHand DEF WritesAreKnown
<1>6. PolicyIsTyped'
  BY <1>1, <1>2, <1>3, <1>4, <1>5, PolicyAtHand DEF PolicyIsTyped
<1>7. WritesAreKnown' /\ ExchangeStands'
  BY <1>1, <1>5, PolicyAtHand DEF WritesAreKnown, ExchangeStands
<1>8. EnforcersAreCurrent'
  BY <1>2, <1>3, <1>4, PolicyAtHand DEF EnforcersAreCurrent
<1>9. QED
  BY <1>6, <1>7, <1>8 DEF PolicyInv

\* A save that is acknowledged reaches the only worker.
LEMMA ApplyKeeps ==
    ASSUME PolicyInv, NEW h \in Requests, NEW w \in workersOn, Apply(h, w)
    PROVE  PolicyInv'
<1> DEFINE a == Reloaded(api[w])
<1>1. /\ saving[h].at = "apply" /\ api[w].save = "none" /\ Loadable
      /\ api' = [api EXCEPT ![w] = a]
      /\ \/ saving' = [saving EXCEPT ![h] = NoSave] /\ UNCHANGED upsets
         \/ saving' = [saving EXCEPT ![h].at = "put back"] /\ upsets' = upsets \cup {"late answer"}
      /\ UNCHANGED <<policyFile, dashUp, dashPolicy, writer, workersOn, saves>>
  BY DEF Apply
<1>2. /\ w \in ApiWorkers /\ api[w] \in ApiProcesses /\ saving[h] # NoSave
      /\ workersOn \subseteq ApiWorkers
  BY <1>1, SaveMeans, PolicyAtHand DEF PolicyIsTyped
<1>3. /\ a \in ApiProcesses /\ a.save = "none" /\ a.cached = Nothing
      /\ a.loaded = FilePolicy /\ a.live = FilePolicy
  BY <1>1, <1>2, FileIsLoaded, ReloadedIs, PolicyAtHand
<1> HIDE DEF a
<1>4. \A v \in ApiWorkers : api'[v] = IF v = w THEN a ELSE api[v]
  BY <1>1, <1>2, PolicyAtHand DEF PolicyIsTyped
<1>5. saving' \in [Requests -> Saves] /\ \A g \in Requests \ {h} : saving'[g] = saving[g]
  <2>1. saving \in [Requests -> Saves]
    BY PolicyAtHand DEF PolicyIsTyped
  <2>2. CASE saving' = [saving EXCEPT ![h] = NoSave]
    BY <2>1, <2>2 DEF Saves
  <2>3. CASE saving' = [saving EXCEPT ![h].at = "put back"]
    <3>1. [saving[h] EXCEPT !.at = "put back"] \in Saves
      <4>1. saving[h] \in [at : {"set", "apply", "put back"}, new : PolicyValues, previous : PolicyValues]
        BY <1>2, <2>1 DEF Saves
      <4>2. QED
        BY <4>1 DEF Saves
    <3>2. QED
      BY <2>1, <2>3, <3>1
  <2>4. QED
    BY <1>1, <2>2, <2>3
<1>6. PolicyIsTyped'
  BY <1>1, <1>2, <1>3, <1>4, <1>5, PolicyAtHand DEF PolicyIsTyped
<1>7. upsets \subseteq upsets' /\ writer # h /\ dashUp
  BY <1>1, <1>2, PolicyAtHand DEF WritesAreKnown
<1>8. WritesAreKnown'
  <2>1. writer # Nothing => writer \in Requests \ {h}
    BY <1>7, PolicyAtHand DEF PolicyIsTyped
  <2>2. QED
    BY <1>1, <1>3, <1>4, <1>5, <1>7, <2>1, PolicyAtHand DEF WritesAreKnown
<1>9. EnforcersAreCurrent'
  BY <1>3, <1>4, PolicyAtHand DEF EnforcersAreCurrent
<1>10. ExchangeStands'
  <2> SUFFICES ASSUME upsets' = {} PROVE ExchangeStands'
    BY DEF ExchangeStands
  <2>1. upsets = {} /\ saving' = [saving EXCEPT ![h] = NoSave]
    BY <1>1
  <2>2. SaveStands(h)
    BY <1>2, <2>1, PolicyAtHand DEF ExchangeStands
  <2>3. policyFile = Contents(saving[h].new, "dash") /\ dashPolicy = saving[h].new
    BY <1>1, <1>7, <2>2 DEF SaveStands
  <2>4. \A g \in Requests : saving'[g] = NoSave
    BY <1>5, <2>1, <2>2, PolicyAtHand DEF SaveStands, PolicyIsTyped
  <2>5. saving[h].new \in PolicyValues
    BY <1>2, SaveMeans, PolicyAtHand
  <2>6. dashPolicy = FilePolicy
    BY <2>3, <2>5, FileMeans DEF FilePolicy
  <2>7. WorkerHas(FilePolicy)'
    <3> SUFFICES ASSUME Cardinality(workersOn) = 1, NEW v \in workersOn
                 PROVE  api'[v].loaded = FilePolicy /\ api'[v].live = FilePolicy
      BY <1>1 DEF WorkerHas, FilePolicy
    <3>1. IsFiniteSet(workersOn)
      BY <1>2, FS_Subset, AbusePolicyAssumption
    <3>2. PICK x : workersOn = {x}
      BY <3>1, FS_Singleton
    <3>3. v = w
      BY <3>2
    <3>4. QED
      BY <1>2, <1>3, <1>4, <3>3
  <2>8. Loadable' /\ (dashUp => dashPolicy = FilePolicy)'
    BY <1>1, <2>6 DEF Loadable, FilePolicy
  <2>9. QED
    BY <2>4, <2>7, <2>8 DEF ExchangeStands
<1>11. QED
  BY <1>6, <1>8, <1>9, <1>10 DEF PolicyInv

\* Everything is told alike at first.
LEMMA PolicyStarts == AbusePolicyInit => PolicyInv
<1> SUFFICES ASSUME AbusePolicyInit PROVE PolicyInv
  OBVIOUS
<1>1. /\ policyFile = NoFile /\ dashUp = TRUE /\ dashPolicy = EnvPolicy
      /\ writer = Nothing /\ saving = [h \in Requests |-> NoSave]
      /\ workersOn \subseteq ApiWorkers /\ api = [w \in ApiWorkers |-> NewWorker]
      /\ saves = 0 /\ upsets = {}
  BY DEF AbusePolicyInit
<1>2. NoFile \in PolicyFiles /\ NoFile # HalfFile /\ NoFile.by # "api"
  <2>1. NoFile.by = "nobody" /\ HalfFile.by = "a writer"
    BY DEF NoFile, HalfFile, Contents
  <2>2. NoFile \in PolicyFiles
    BY DEF PolicyFiles
  <2>3. QED
    BY <2>1, <2>2
<1>3. /\ NewWorker \in ApiProcesses /\ NewWorker.save = "none" /\ ~NewWorker.up
      /\ NewWorker.loaded = Nothing /\ NewWorker.cached = Nothing
  BY NewIs DEF NewWorker
<1>4. \A w \in ApiWorkers : api[w] = NewWorker
  BY <1>1
<1>5. PolicyIsTyped
  <2>1. saving \in [Requests -> Saves] /\ api \in [ApiWorkers -> ApiProcesses]
    BY <1>1, <1>3 DEF Saves
  <2>2. saves \in 0 .. MaxSaves
    BY <1>1, AbusePolicyAssumption
  <2>3. dashUp \in BOOLEAN /\ dashPolicy \in PolicyValues /\ writer \in Requests \cup {Nothing}
    BY <1>1, AbusePolicyAssumption
  <2>4. \A w \in ApiWorkers : api[w].save # "fill"
    BY <1>3, <1>4
  <2>5. QED
    BY <1>1, <1>2, <2>1, <2>2, <2>3, <2>4 DEF PolicyIsTyped
<1>6. WritesAreKnown
  BY <1>1, <1>2, <1>3, <1>4 DEF WritesAreKnown
<1>7. ExchangeStands
  <2>1. FilePolicy = EnvPolicy /\ Loadable
    BY <1>1, <1>2 DEF FilePolicy, Loadable
  <2>2. WorkerHas(FilePolicy)
    BY <1>1, <1>3, <1>4 DEF WorkerHas
  <2>3. QED
    BY <1>1, <2>1, <2>2 DEF ExchangeStands
<1>8. EnforcersAreCurrent
  BY <1>3, <1>4 DEF EnforcersAreCurrent
<1>9. QED
  BY <1>5, <1>6, <1>7, <1>8 DEF PolicyInv

\* Every step keeps where a save has come known.
LEMMA PolicySteps == ASSUME PolicyInv, [AbusePolicyNext]_policyVars PROVE PolicyInv'
<1>1. CASE DashCrash
  BY <1>1, DashCrashKeeps
<1>2. CASE DashStart
  BY <1>2, DashStartKeeps
<1>3. ASSUME NEW h \in Requests, NEW p \in PolicyValues, BeginPut(h, p) PROVE PolicyInv'
  BY <1>3, BeginPutKeeps
<1>4. ASSUME NEW h \in Requests, Truncate(h) PROVE PolicyInv'
  BY <1>4, TruncateKeeps
<1>5. ASSUME NEW h \in Requests, Fill(h) PROVE PolicyInv'
  BY <1>5, FillKeeps
<1>6. ASSUME NEW h \in Requests, FillFails(h) PROVE PolicyInv'
  BY <1>6, FillFailsKeeps
<1>7. ASSUME NEW h \in Requests, ApplyFails(h) PROVE PolicyInv'
  BY <1>7, ApplyFailsKeeps
<1>8. ASSUME NEW h \in Requests, NEW w \in workersOn, Apply(h, w) PROVE PolicyInv'
  BY <1>8, ApplyKeeps
<1>9. ASSUME NEW w \in workersOn, StartWorker(w) PROVE PolicyInv'
  BY <1>9, StartWorkerKeeps
<1>10. ASSUME NEW w \in workersOn, CrashWorker(w) PROVE PolicyInv'
  BY <1>10, CrashWorkerKeeps
<1>11. ASSUME NEW w \in workersOn, GetEnforcers(w) PROVE PolicyInv'
  BY <1>11, GetEnforcersKeeps
<1>12. ASSUME NEW w \in workersOn, NEW p \in PolicyValues, SaveConfig(w, p) PROVE PolicyInv'
  BY <1>12, SaveConfigKeeps
<1>13. ASSUME NEW w \in workersOn, FillConfig(w) PROVE PolicyInv'
  BY <1>13, FillConfigKeeps
<1>14. ASSUME NEW w \in workersOn, ReloadConfig(w) PROVE PolicyInv'
  BY <1>14, ReloadConfigKeeps
<1>15. ASSUME NEW w \in workersOn, AskReload(w) PROVE PolicyInv'
  BY <1>15, AskReloadKeeps
<1>16. CASE UNCHANGED policyVars
  <2>1. UNCHANGED <<policyFile, dashUp, dashPolicy, writer, saving, workersOn, api, saves, upsets>>
    BY <1>16 DEF policyVars
  <2>2. PolicyIsTyped' /\ WritesAreKnown' /\ EnforcersAreCurrent'
    BY <2>1, PolicyAtHand DEF PolicyIsTyped, WritesAreKnown, EnforcersAreCurrent
  <2>3. ExchangeStands'
    BY <2>1, PolicyAtHand DEF ExchangeStands, SaveStands, WorkerHas, Loadable, FilePolicy
  <2>4. QED
    BY <2>2, <2>3 DEF PolicyInv
<1>17. QED
  BY <1>1, <1>2, <1>3, <1>4, <1>5, <1>6, <1>7, <1>8, <1>9, <1>10, <1>11, <1>12, <1>13,
     <1>14, <1>15, <1>16 DEF AbusePolicyNext

\* While nothing upset the exchange there is one save at a time, and the file, the memory of
\* the dashboard and the only worker are where that save has brought them.
THEOREM PolicyIsInOrder == AbusePolicySpec => []PolicyInv
BY PolicyStarts, PolicySteps, PTL DEF AbusePolicySpec

\* Who knows where the save has come knows that all are told alike after it.
LEMMA PolicyFollows == PolicyInv => PolicyIsApplied
<1> SUFFICES ASSUME PolicyInv PROVE PolicyIsApplied
  OBVIOUS
<1>1. ToldAlike
  <2> SUFFICES ASSUME NobodySaves, upsets = {} PROVE ToldAlike
    BY DEF ToldAlike
  <2>1. /\ WorkerHas(FilePolicy)
        /\ dashUp => dashPolicy = FilePolicy
    BY PolicyAtHand DEF NobodySaves, ExchangeStands
  <2>2. QED
    BY <2>1 DEF ToldAlike, WorkerHas
<1>2. CanStartAgain
  BY PolicyAtHand DEF CanStartAgain, WritesAreKnown, DashReadable, Loadable
<1>3. QED
  BY <1>1, <1>2, PolicyAtHand DEF PolicyIsApplied

\* What the dashboard calls applied is what the api-service enforces and what both find
\* after a restart, for any policies, processes and order of saves, loads and crashes.
THEOREM PolicyIsAppliedAlways == AbusePolicySpec => []PolicyIsApplied
<1>1. QED
  BY PolicyIsInOrder, PolicyFollows, PTL

-----------------------------------------------------------------------------
(* Both stores *)

LEMMA StoreHasItsType == StoreInv => AgentStoreTypeOK
<1> SUFFICES ASSUME StoreInv PROVE AgentStoreTypeOK
  OBVIOUS
<1>1. StoreIsTyped
  BY DEF StoreInv
<1>2. StoredRows \subseteq Rows
  BY DEF StoredRows, StoredValues, Rows, Values
<1>3. agents \in [AgentNames -> Rows]
  BY <1>1, <1>2 DEF StoreIsTyped
<1>4. ASSUME NEW w \in StoreWorkers
      PROVE  /\ procs[w].phase \in {"down", "migrating", "validating", "up"}
             /\ procs[w].key \in CipherKeys \cup {NoCipher}
             /\ procs[w].job.at \in {"idle", "rows", "update"}
  <2>1. procs[w] \in Processes
    BY <1>1 DEF StoreIsTyped
  <2>2. procs[w].job \in Jobs
    BY <2>1, ProcessMeans
  <2>3. procs[w].job.at \in {"idle", "rows", "update"}
    BY <2>2 DEF Jobs, NoRequest
  <2>4. QED
    BY <2>1, <2>3, ProcessMeans
<1>5. ASSUME NEW n \in AgentNames PROVE acked[n].row \in BOOLEAN
  BY <1>1 DEF StoreIsTyped, AckedRows
<1>6. QED
  BY <1>1, <1>3, <1>4, <1>5 DEF StoreIsTyped, AgentStoreTypeOK

LEMMA PolicyHasItsType == PolicyInv => AbusePolicyTypeOK
<1> SUFFICES ASSUME PolicyInv PROVE AbusePolicyTypeOK
  OBVIOUS
<1>1. PolicyIsTyped
  BY DEF PolicyInv
<1>2. ASSUME NEW h \in Requests PROVE saving[h].at \in {"none", "set", "apply", "put back"}
  BY <1>1, SaveMeans
<1>3. ASSUME NEW w \in ApiWorkers
      PROVE  api[w].loaded \in PolicyValues \cup {Nothing} /\ api[w].live \in PolicyValues
  BY <1>1 DEF PolicyIsTyped, ApiProcesses, MaybePolicy
<1>4. QED
  BY <1>1, <1>2, <1>3 DEF PolicyIsTyped, AbusePolicyTypeOK

\* The agents' secrets and the abuse policy are what those who set them were told, for any
\* processes, keys, policies, restarts and order of requests.
THEOREM StoresStaySafe == StoresSpec => []StoresAreSafe
<1>1. AgentStoreTypeOK /\ AbusePolicyTypeOK /\ SecretsAreSafe /\ PolicyIsApplied
        => StoresAreSafe
  BY DEF StoresAreSafe
<1>2. QED
  BY <1>1, StoreIsInOrder, StoreHasItsType, SecretsStaySafe, PolicyIsInOrder, PolicyHasItsType,
     PolicyIsAppliedAlways, PTL DEF StoresSpec
=============================================================================
