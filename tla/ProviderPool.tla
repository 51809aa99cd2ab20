----------------------------- MODULE ProviderPool -----------------------------
(***************************************************************************)
(* Which LLM providers a turn may use (api_service/provider_store.py,      *)
(* agent/provider_pool.py, agent/factory.py, server/routes/admin.py).      *)
(*                                                                         *)
(* The operator edits the provider store: a dictionary in memory that each *)
(* edit writes whole to one file, in place.  The pool is filled from the   *)
(* store when the process starts and not again; a health loop checks its   *)
(* workers one after the other.  A turn resolves its providers from its    *)
(* agent's own configuration, the store, the pool or the environment.      *)
(* Locks are never held over an await here, so each operation is a step.   *)
(***************************************************************************)
EXTENDS Naturals, Sequences, SequencesExt, Selections

CONSTANTS
    Providers,      \* names of providers
    Upstreams,      \* <provider, model, api_base>: the identity of a transport
    NoHealth,       \* the upstreams without an api_base, which cannot be checked
    EnvProviders,   \* the providers the environment configures, in its order
    EnvUpstream,    \* and the upstream of each
    HealthInterval, \* _HEALTH_INTERVAL_S
    HealthTimeout,  \* _HEALTH_TIMEOUT_S
    MaxChanges      \* bound of the edits and restarts

ASSUME ProviderPoolAssumption ==
    /\ NoHealth \subseteq Upstreams
    /\ EnvProviders \in Seq(Providers) /\ IsInjective(EnvProviders)
    /\ EnvUpstream \in [ToSet(EnvProviders) -> Upstreams]
    /\ {HealthInterval, HealthTimeout} \subseteq Nat \ {0}
    /\ MaxChanges \in Nat

VARIABLES
    store,      \* ProviderStore._providers, in insertion order
    disk,       \* the rows of its file; none when it is missing or torn by a write that did not end
    pool,       \* ProviderPool._workers, in insertion order
    round,      \* the health loop: the workers it has yet to check in this round
    timer,      \* the time until its sleep or its check must end
    changes,
    retired,    \* history: providers the operator was told are disabled or deleted,
    atStart,    \* history: those of them at the last start, and not edited since
    lost        \* history: a start has found no rows and imported the environment again

poolVars == <<store, disk, pool, round, timer, changes, retired, atStart, lost>>
poolHistory == <<retired, atStart, lost>>
poolHealth == <<pool, round, timer>>

Config == [name: Providers, upstream: Upstreams, enabled: BOOLEAN]

\* The age of a successful check is counted up to the age at which it is too old.
TooOld == 3 * HealthInterval

Worker ==
    [name: Providers, upstream: Upstreams,
     age: 0..TooOld,        \* of the last successful check
     checked: BOOLEAN,      \* there was one: _last_healthy is not 0
     failures: 0..3]        \* _consecutive_failures, counted up to the limit

PoolTypeOK ==
    /\ store \in Seq(Config)
    /\ disk \in Seq(Config)
    /\ pool \in Seq(Worker)
    /\ round \in Seq(1..Len(pool))
    /\ timer \in Nat
    /\ changes \in 0..MaxChanges
    /\ {retired, atStart} \subseteq SUBSET Providers
    /\ lost \in BOOLEAN

-----------------------------------------------------------------------------
(* Start *)

\* _import_from_env_if_empty
FromEnv ==
    [i \in DOMAIN EnvProviders |->
        [name |-> EnvProviders[i], upstream |-> EnvUpstream[EnvProviders[i]], enabled |-> TRUE]]

\* What json.load makes of a file whose write did not end: the store starts empty.
Torn == << >>

\* _load and the import that follows when there was nothing to load.
Loaded(file) == IF file = << >> THEN FromEnv ELSE file

\* Faulty variant of Enabled: the flag is not looked at.
EnabledOrNot(s) == s

\* The enabled providers, get_active_router_config.
Enabled(s) == SelectAt(s, {i \in DOMAIN s : s[i].enabled})

\* _sync_pool_from_store
Workers(s) ==
    [i \in DOMAIN Enabled(s) |->
        [name |-> Enabled(s)[i].name, upstream |-> Enabled(s)[i].upstream,
         age |-> 0, checked |-> FALSE, failures |-> 0]]

PoolInit ==
    /\ store = FromEnv
    /\ disk = FromEnv
    /\ pool = Workers(FromEnv)
    /\ round = << >>
    /\ timer = HealthInterval
    /\ changes = 0
    /\ retired = {}
    /\ atStart = {}
    /\ lost = FALSE

\* The process dies, now or in the middle of a save, and starts again.
Restart(file) ==
    /\ store' = Loaded(file)
    /\ disk' = store'
    /\ pool' = Workers(store')
    /\ round' = << >>
    /\ timer' = HealthInterval
    /\ lost' = (lost \/ file = << >>)
    /\ atStart' = retired
    /\ UNCHANGED retired

PoolCrash ==
    /\ changes < MaxChanges
    /\ changes' = changes + 1
    /\ Restart(disk)

-----------------------------------------------------------------------------
(* The operator's edits *)

\* The store becomes s in memory, then _save opens the file for writing and writes
\* it.  Each can fail, the operator then gets an error; in between the process can die.
Save(s, told) ==
    /\ changes < MaxChanges
    /\ changes' = changes + 1
    /\ \/ /\ store' = s
          /\ disk' \in {s, disk, Torn}
          /\ retired' = IF disk' = s THEN told ELSE retired \cap told
          /\ atStart' = atStart \cap retired'
          /\ UNCHANGED <<poolHealth, lost>>
       \/ Restart(Torn)

AddProvider(c) ==
    /\ \A i \in DOMAIN store : store[i].name # c.name
    /\ Save(Append(store, c), IF c.enabled THEN retired \ {c.name} ELSE retired)

\* PUT and toggle: the fields that are given replace the old ones.
UpdateProvider(i, c) ==
    /\ c.name = store[i].name
    /\ Save([store EXCEPT ![i] = c],
            IF c.enabled THEN retired \ {c.name} ELSE retired \cup {c.name})

DeleteProvider(i) == Save(RemoveAt(store, i), retired \cup {store[i].name})

-----------------------------------------------------------------------------
(* The health loop *)

\* Time passes unless a sleep or a check is over.
Wait ==
    /\ timer > 0
    /\ timer' = timer - 1
    /\ pool' = [i \in DOMAIN pool |->
        [pool[i] EXCEPT !.age = IF pool[i].checked /\ @ < TooOld THEN @ + 1 ELSE @]]
    /\ UNCHANGED <<store, disk, round, changes, poolHistory>>

\* The sleep of a round is over; the first check begins.
BeginRound ==
    /\ round = << >>
    /\ timer = 0
    /\ round' = [i \in DOMAIN pool |-> i]
    /\ timer' = IF pool = << >> THEN HealthInterval ELSE HealthTimeout
    /\ UNCHANGED <<store, disk, pool, changes, poolHistory>>

\* What a check does to the worker it asks.
CheckAnswered(w) == [w EXCEPT !.age = 0, !.checked = TRUE, !.failures = 0]
CheckFailed(w) == [w EXCEPT !.failures = IF @ < 3 THEN @ + 1 ELSE @]

\* ProviderWorker.health: the HEAD request ends, at the latest when it times out.
CheckWorker ==
    /\ round # << >>
    /\ \E ok \in BOOLEAN :
        /\ ok => timer > 0 \/ pool[Head(round)].upstream \in NoHealth
        /\ pool[Head(round)].upstream \in NoHealth => ok
        /\ pool' = [pool EXCEPT ![Head(round)] = IF ok
                                        THEN CheckAnswered(@) ELSE CheckFailed(@)]
    /\ round' = Tail(round)
    /\ timer' = IF round' = << >> THEN HealthInterval ELSE HealthTimeout
    /\ UNCHANGED <<store, disk, changes, poolHistory>>

\* ProviderWorker.is_alive
IsAlive(w) ==
    \/ w.upstream \in NoHealth
    \/ ~w.checked
    \/ w.age < TooOld /\ w.failures < 3

-----------------------------------------------------------------------------
(* The providers of a turn, in the order they are tried: factory.resolve_llm.  A candidate
   tells the rung it comes from. *)

\* The last rung: the first worker that is alive.
PoolRung ==
    LET first == SelectInSeq(pool, IsAlive) IN
    IF first = 0 THEN << >>
    ELSE <<[name |-> pool[first].name, upstream |-> pool[first].upstream, rung |-> "pool"]>>

EnvRung ==
    IF EnvProviders = << >> THEN << >>
    ELSE <<[name |-> EnvProviders[1], upstream |-> EnvUpstream[EnvProviders[1]], rung |-> "env"]>>

\* A candidate whose upstream is already listed is left out.
InOrder(list, more) ==
    list \o SelectAt(more, {i \in DOMAIN more :
        /\ \A j \in DOMAIN list : list[j].upstream # more[i].upstream
        /\ \A j \in 1 .. i - 1 : more[j].upstream # more[i].upstream})

\* The enabled providers of the store that the agent's priority names, in its order.
Named(priority) ==
    LET place(name) == SelectInSeq(Enabled(store), LAMBDA c : c.name = name)
        known == SelectAt(priority, {i \in DOMAIN priority : place(priority[i]) # 0})
    IN  [i \in DOMAIN known |->
            [name |-> known[i], upstream |-> Enabled(store)[place(known[i])].upstream,
             rung |-> "store"]]

\* A priority makes the fallback depend on the store; without one it is on.
ResolveLlm(own, priority) ==
    LET preferred == InOrder(own, Named(priority))
        fallback == priority = << >> \/ Enabled(store) # << >>
    IN  IF preferred = << >> THEN IF PoolRung # << >> THEN PoolRung ELSE EnvRung
        ELSE IF fallback THEN InOrder(preferred, PoolRung)
        ELSE <<Head(preferred)>>

\* llm_config of an agent is a configuration of its own.
Own == {<< >>} \cup {<<[name |-> p, upstream |-> u, rung |-> "own"]>> : p \in Providers, u \in Upstreams}

Priorities == {<< >>} \cup {s \in [1..2 -> Providers] : s[1] # s[2]}

PoolNext ==
    \/ \E c \in Config : AddProvider(c)
    \/ \E i \in DOMAIN store :
        DeleteProvider(i) \/ \E c \in Config : UpdateProvider(i, c)
    \/ PoolCrash
    \/ Wait \/ BeginRound \/ CheckWorker

PoolSpec == PoolInit /\ [][PoolNext]_poolVars

-----------------------------------------------------------------------------
(* Properties *)

\* A provider that the operator was told is disabled or deleted before the last start
\* is not used through the store or the pool, unless the environment was imported again
\* because a save did not end or every provider had been deleted.  (The process that was
\* running when the provider was disabled may go on using it from its pool.)
RetiredIsUnused ==
    atStart # {} /\ ~lost => \A own \in Own, priority \in Priorities :
        \A c \in ToSet(ResolveLlm(own, priority)) :
            c.rung \in {"store", "pool"} => c.name \notin atStart

\* A provider that answers every check is never taken for dead, however long the
\* checks of the workers before it take -- if the pool is small enough for the slowest
\* round to end before a check is too old, which nothing in the code ensures.
AnsweringIsAlive ==
    Len(pool) * HealthTimeout < 2 * HealthInterval =>
        \A i \in DOMAIN pool : pool[i].checked /\ pool[i].failures = 0 => IsAlive(pool[i])

\* Turns are given the providers they should be given, and no other.
PoolIsTrue == RetiredIsUnused /\ AnsweringIsAlive
=============================================================================
