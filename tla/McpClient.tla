------------------------------ MODULE McpClient ------------------------------
(***************************************************************************)
(* The MCP client of the api-service (agent/mcp_client.py): one shared     *)
(* connection per tenant scope, used by many concurrent chat turns on one  *)
(* asyncio event loop, guarded by a per-scope circuit breaker and cleaned  *)
(* up by detached tasks and a garbage collector.                           *)
(*                                                                         *)
(* A step is the code between two awaits.  `_registry_lock` is never held  *)
(* across an await, so the sections it guards are never contended and are  *)
(* part of the step they occur in.                                         *)
(***************************************************************************)
EXTENDS Naturals, FiniteSets

CONSTANTS
    Turns,          \* _SessionProxy objects, one per chat turn
    Tenants,        \* registry keys: comma-joined tenant ids
    Scope,          \* the tenant scope of each turn
    Conns,          \* identities for the _TenantConnection objects alive at once
    NoConn,
    MaxFailures,    \* mcp_max_consecutive_failures
    Cooldown,       \* mcp_circuit_breaker_timeout, in ticks
    ZombieTimeouts  \* mcp_zombie_tool_timeouts

ASSUME ScopeAssumption == Tenants # {} /\ Scope \in [Turns -> Tenants]
ASSUME NoConnAssumption == NoConn \notin Conns
ASSUME BoundAssumption ==
    /\ MaxFailures \in Nat \ {0}
    /\ Cooldown \in Nat \ {0}
    /\ ZombieTimeouts \in Nat \ {0}

VARIABLES
    registry,       \* _connections: the connection each scope shares
    idle,           \* age of that connection's last_used: see IdleLevels
    phase,          \* life of each connection as its owner task sees it
    tenant,         \* conn.tenant_id
    closing,        \* its close event is set and its owner has yet to obey
    timeouts,       \* conn.consecutive_tool_timeouts
    breaker,        \* _breaker_state and _breaker_tripped_keys, per scope
    turn,           \* where each turn is suspended, and on which connection
    closers,        \* connections a detached _close_redundant_connection will close
    quarantines,    \* detached _quarantine_connection tasks not yet run, per connection
    gcStale         \* connections the GC took out of the registry and has yet to close

regVars == <<registry, idle>>
connVars == <<phase, tenant, closing, timeouts>>
taskVars == <<closers, quarantines, gcStale>>
vars == <<regVars, connVars, breaker, turn, taskVars>>

-----------------------------------------------------------------------------
(* Shapes of the state *)

Phases == {"dead", "opening", "open"}

\* 0: used at most PROACTIVE_RECONNECT_IDLE_SECONDS ago; 1: longer ago;
\* 2: more than mcp_max_idle_seconds ago.  0 where nothing is registered.
IdleLevels == 0..2

Ops == {"none", "list", "call", "peek"}

\* Where a turn is suspended: "stale" waits for an idle connection to close,
\* "opening" and "reopening" wait for a handshake, "using" and "retrying" wait
\* for the answer to a request.
Places == {"idle", "stale", "opening", "using", "reopening", "retrying"}

Breaker == [failures: 0..MaxFailures, cool: 0..Cooldown, tripped: BOOLEAN]

Turn == [at: Places, op: Ops, conn: Conns \cup {NoConn}]

AtRest == [at |-> "idle", op |-> "none", conn |-> NoConn]

TypeOK ==
    /\ registry \in [Tenants -> Conns \cup {NoConn}]
    /\ idle \in [Tenants -> IdleLevels]
    /\ phase \in [Conns -> Phases]
    /\ tenant \in [Conns -> Tenants]
    /\ closing \in [Conns -> BOOLEAN]
    /\ timeouts \in [Conns -> 0..ZombieTimeouts]
    /\ breaker \in [Tenants -> Breaker]
    /\ turn \in [Turns -> Turn]
    /\ closers \in SUBSET Conns
    /\ quarantines \in [Conns -> Nat]
    /\ gcStale \in SUBSET Conns

-----------------------------------------------------------------------------
(* The circuit breaker.  A failure count is only compared with the threshold *)
(* from below, so counts from MaxFailures on are one value.                  *)

ClosedBreaker == [failures |-> 0, cool |-> 0, tripped |-> FALSE]

CircuitOpen(b) == b.failures >= MaxFailures /\ b.cool > 0

OneMore(n) == IF n < MaxFailures THEN n + 1 ELSE MaxFailures

\* _store_breaker(key, prev + 1, now) alone: quarantine and a failed reconnect.
\* The time of a failure matters once the threshold is reached.
Evidence(b) ==
    [b EXCEPT !.failures = OneMore(@),
              !.cool = IF b.failures + 1 >= MaxFailures THEN Cooldown ELSE @]

\* _mark_failure, _mark_failure_if_tracked: evidence and the trip count.
Failed(b) ==
    [Evidence(b) EXCEPT !.tripped = @ \/ b.failures + 1 = MaxFailures]

\* _mark_success, and _reconnect after its handshake.
Succeeded(b) == ClosedBreaker

\* _get_connection after its handshake: the tripped key is not discarded.
Cleared(b) == [b EXCEPT !.failures = 0, !.cool = 0]

-----------------------------------------------------------------------------
(* Connections *)

Registered(c) == \E t \in Tenants : registry[t] = c

Users(c) == {p \in Turns : turn[p].conn = c /\ turn[p].at \in {"using", "retrying"}}

Openers(c) == {p \in Turns : turn[p].conn = c /\ turn[p].at \in {"opening", "reopening"}}

\* An identity no object bears: its connection is over and nothing refers to it.
Free(c) ==
    /\ phase[c] = "dead"
    /\ ~Registered(c)
    /\ \A p \in Turns : turn[p].conn # c
    /\ c \notin closers \cup gcStale
    /\ quarantines[c] = 0

\* _open_connection up to wait_opened: a fresh object whose owner task has begun
\* the handshake.  The turn waits for it at `place`.
Handshake(p, place, o) ==
    /\ \E c \in Conns :
        /\ Free(c)
        /\ phase' = [phase EXCEPT ![c] = "opening"]
        /\ tenant' = [tenant EXCEPT ![c] = Scope[p]]
        /\ timeouts' = [timeouts EXCEPT ![c] = 0]
        /\ turn' = [turn EXCEPT ![p] = [at |-> place, op |-> o, conn |-> c]]
    /\ UNCHANGED closing

\* The operation is over: its result, or its exception, goes to the caller.
Return(p) == turn' = [turn EXCEPT ![p] = AtRest]

Record(p, b) == breaker' = [breaker EXCEPT ![Scope[p]] = b]

\* _spawn_detached(_close_redundant_connection(c))
CloseDetached(c) == closers' = closers \cup {c}

\* close(): without effect on a connection whose session is over.
RequestClose(c) == closing' = [closing EXCEPT ![c] = phase[c] # "dead"]

Register(t, c) ==
    /\ registry' = [registry EXCEPT ![t] = c]
    /\ idle' = [idle EXCEPT ![t] = 0]

Unregister(t) == Register(t, NoConn)

\* conn.last_used = now
Touch(c) == idle' = [t \in Tenants |-> IF registry[t] = c THEN 0 ELSE idle[t]]

-----------------------------------------------------------------------------
Init ==
    /\ registry = [t \in Tenants |-> NoConn]
    /\ idle = [t \in Tenants |-> 0]
    /\ phase = [c \in Conns |-> "dead"]
    /\ tenant = [c \in Conns |-> CHOOSE t \in Tenants : TRUE]
    /\ closing = [c \in Conns |-> FALSE]
    /\ timeouts = [c \in Conns |-> 0]
    /\ breaker = [t \in Tenants |-> ClosedBreaker]
    /\ turn = [p \in Turns |-> AtRest]
    /\ closers = {}
    /\ quarantines = [c \in Conns |-> 0]
    /\ gcStale = {}

-----------------------------------------------------------------------------
(* _get_connection, called by list_tools, call_tool and (peek) get_schema    *)
(* and get_display_name                                                      *)

\* A list that finds the circuit open is a failure to list_tools: it records
\* one.  A call or a peek that finds it open changes nothing.
ListFastFails(p) ==
    /\ turn[p].at = "idle"
    /\ CircuitOpen(breaker[Scope[p]])
    /\ Record(p, Failed(breaker[Scope[p]]))
    /\ UNCHANGED <<regVars, connVars, turn, taskVars>>

\* Faulty variant of UseCached: the registry is read without the scope.
UseCachedAnyScope(p, o) ==
    \E t \in Tenants :
        /\ turn[p].at = "idle"
        /\ o \in {"list", "call"}
        /\ ~CircuitOpen(breaker[Scope[p]])
        /\ registry[t] # NoConn
        /\ idle[t] = 0
        /\ turn' = [turn EXCEPT ![p] = [at |-> "using", op |-> o, conn |-> registry[t]]]
        /\ UNCHANGED <<regVars, connVars, breaker, taskVars>>

\* The registered connection is recent enough.  A peek reads it and is done.
UseCached(p, o) ==
    LET c == registry[Scope[p]] IN
    /\ turn[p].at = "idle"
    /\ o \in {"list", "call"}
    /\ ~CircuitOpen(breaker[Scope[p]])
    /\ c # NoConn
    /\ idle[Scope[p]] = 0
    /\ turn' = [turn EXCEPT ![p] = [at |-> "using", op |-> o, conn |-> c]]
    /\ UNCHANGED <<regVars, connVars, breaker, taskVars>>

\* The registered connection is too idle: it leaves the registry and its close
\* event is set before the turn awaits the teardown.
DropIdle(p, o) ==
    LET c == registry[Scope[p]] IN
    /\ turn[p].at = "idle"
    /\ ~CircuitOpen(breaker[Scope[p]])
    /\ c # NoConn
    /\ idle[Scope[p]] > 0
    /\ Unregister(Scope[p])
    /\ RequestClose(c)
    /\ turn' = [turn EXCEPT ![p] = [at |-> "stale", op |-> o, conn |-> NoConn]]
    /\ UNCHANGED <<phase, tenant, timeouts, breaker, taskVars>>

\* The bounded wait for the teardown is over; no check is repeated.
OpenAfterStale(p) ==
    /\ turn[p].at = "stale"
    /\ Handshake(p, "opening", turn[p].op)
    /\ UNCHANGED <<regVars, breaker, taskVars>>

\* Nothing is registered: the handshake begins at once.
OpenCold(p, o) ==
    /\ turn[p].at = "idle"
    /\ ~CircuitOpen(breaker[Scope[p]])
    /\ registry[Scope[p]] = NoConn
    /\ Handshake(p, "opening", o)
    /\ UNCHANGED <<regVars, breaker, taskVars>>

\* What an operation does once _get_connection or _reconnect has returned c.
Proceed(p, place, c) ==
    turn' = [turn EXCEPT ![p] =
        IF @.op = "peek" THEN AtRest ELSE [@ EXCEPT !.at = place, !.conn = c]]

\* Faulty variant of Publish: the loser of the race is left waiting.
PublishWithoutLoser(p, place) ==
    /\ registry[Scope[p]] = NoConn
    /\ Register(Scope[p], turn[p].conn)
    /\ Proceed(p, place, turn[p].conn)
    /\ UNCHANGED closers

\* The opener publishes its connection, or finds that another turn was first,
\* goes on with the winner's and has its own closed.
Publish(p, place) ==
    LET t == Scope[p]
        c == turn[p].conn
    IN  \/ /\ registry[t] = NoConn
           /\ Register(t, c)
           /\ Proceed(p, place, c)
           /\ UNCHANGED closers
        \/ /\ registry[t] # NoConn
           /\ Proceed(p, place, registry[t])
           /\ CloseDetached(c)
           /\ UNCHANGED regVars

\* The breaker is cleared only by the opener whose connection is published.
Opened(p) ==
    /\ turn[p].at = "opening"
    /\ phase[turn[p].conn] = "open"
    /\ Publish(p, "using")
    /\ IF registry[Scope[p]] = NoConn
       THEN Record(p, Cleared(breaker[Scope[p]]))
       ELSE UNCHANGED breaker
    /\ UNCHANGED <<connVars, quarantines, gcStale>>

\* The handshake failed: list_tools and call_tool record it, a peek does not.  The
\* detached close finds the session over and does nothing.
OpenFails(p) ==
    /\ turn[p].at = "opening"
    /\ phase[turn[p].conn] = "dead"
    /\ IF turn[p].op = "peek"
       THEN UNCHANGED breaker
       ELSE Record(p, Failed(breaker[Scope[p]]))
    /\ Return(p)
    /\ UNCHANGED <<regVars, connVars, taskVars>>

-----------------------------------------------------------------------------
(* _reconnect, entered by list_tools and call_tool after a transport failure *)
(* with the breaker at b.  It takes whatever connection is registered now,   *)
(* which need not be the one that failed.                                    *)

Reconnect(p, b) ==
    LET old == registry[Scope[p]] IN
    \/ /\ CircuitOpen(b)
       /\ Record(p, Failed(b))      \* the fast-fail is a failure to the caller
       /\ Return(p)
       /\ UNCHANGED <<regVars, connVars, taskVars>>
    \/ /\ ~CircuitOpen(b)
       /\ Record(p, b)
       /\ Unregister(Scope[p])
       /\ IF old = NoConn THEN UNCHANGED closers ELSE CloseDetached(old)
       /\ Handshake(p, "reopening", turn[p].op)
       /\ UNCHANGED <<quarantines, gcStale>>

Reopened(p) ==
    /\ turn[p].at = "reopening"
    /\ phase[turn[p].conn] = "open"
    /\ Publish(p, "retrying")
    /\ Record(p, Succeeded(breaker[Scope[p]]))
    /\ UNCHANGED <<connVars, quarantines, gcStale>>

\* _reconnect stores its evidence, then its caller records a failure as well,
\* unless the gateway answered a call's handshake with a refusal.
ReopenFails(p) ==
    LET b == Evidence(breaker[Scope[p]]) IN
    /\ turn[p].at = "reopening"
    /\ phase[turn[p].conn] = "dead"
    /\ \/ Record(p, Failed(b))
       \/ turn[p].op = "call" /\ Record(p, b)
    /\ Return(p)
    /\ UNCHANGED <<regVars, connVars, taskVars>>

-----------------------------------------------------------------------------
(* list_tools on a connection *)

ListAnswered(p) ==
    /\ turn[p].op = "list"
    /\ \/ /\ turn[p].at = "using"
          /\ Touch(turn[p].conn)
       \/ /\ turn[p].at = "retrying"
          /\ UNCHANGED idle
    /\ Return(p)
    /\ UNCHANGED <<registry, connVars, breaker, taskVars>>

\* A timeout, or an unknown tool: an empty list and no evidence.
ListDegrades(p) ==
    /\ turn[p].op = "list"
    /\ turn[p].at = "using"
    /\ Return(p)
    /\ UNCHANGED <<regVars, connVars, breaker, taskVars>>

ListReconnects(p) ==
    /\ turn[p].op = "list"
    /\ turn[p].at = "using"
    /\ Reconnect(p, breaker[Scope[p]])

ListRetryFails(p) ==
    /\ turn[p].op = "list"
    /\ turn[p].at = "retrying"
    /\ Record(p, Failed(breaker[Scope[p]]))
    /\ Return(p)
    /\ UNCHANGED <<regVars, connVars, taskVars>>

-----------------------------------------------------------------------------
(* call_tool and _execute_tool_call on a connection *)

Calling(p) ==
    /\ turn[p].op = "call"
    /\ turn[p].at \in {"using", "retrying"}

CallAnswered(p) ==
    LET c == turn[p].conn IN
    /\ Calling(p)
    /\ Touch(c)
    /\ timeouts' = [timeouts EXCEPT ![c] = 0]
    /\ Record(p, Succeeded(breaker[Scope[p]]))
    /\ Return(p)
    /\ UNCHANGED <<registry, phase, tenant, closing, taskVars>>

\* Faulty variant of CallTimesOut: the quarantine waits for one timeout too many.
CallTimesOutLate(p) ==
    LET c == turn[p].conn IN
    /\ Calling(p)
    /\ timeouts[c] < ZombieTimeouts
    /\ timeouts' = [timeouts EXCEPT ![c] = @ + 1]
    /\ Record(p, Failed(breaker[Scope[p]]))
    /\ Return(p)
    /\ UNCHANGED <<regVars, phase, tenant, closing, taskVars>>

\* The hard deadline: the count is only compared with ZombieTimeouts from below.
\* A detached task runs long before a turn can time out twice.
CallTimesOut(p) ==
    LET c == turn[p].conn
        n == IF timeouts[c] < ZombieTimeouts THEN timeouts[c] + 1 ELSE ZombieTimeouts
    IN  /\ Calling(p)
        /\ quarantines[c] < Cardinality(Turns)
        /\ timeouts' = [timeouts EXCEPT ![c] = n]
        /\ IF n >= ZombieTimeouts
           THEN quarantines' = [quarantines EXCEPT ![c] = @ + 1]
           ELSE UNCHANGED quarantines
        /\ Record(p, Failed(breaker[Scope[p]]))
        /\ Return(p)
        /\ UNCHANGED <<regVars, phase, tenant, closing, closers, gcStale>>

\* The gateway answered with a refusal, or does not know the tool.
CallRefused(p) ==
    /\ Calling(p)
    /\ Return(p)
    /\ UNCHANGED <<regVars, connVars, breaker, taskVars>>

\* A transport failure on the first attempt: one failure, then a reconnect.
CallReconnects(p) ==
    /\ Calling(p)
    /\ turn[p].at = "using"
    /\ Reconnect(p, Failed(breaker[Scope[p]]))

\* A transport failure on the second attempt, or a cancellation that did not
\* come from the client (on either attempt), or the call lock that is not free in
\* time: one failure and a retryable result.
CallInterrupted(p) ==
    /\ Calling(p)
    /\ Record(p, Failed(breaker[Scope[p]]))
    /\ Return(p)
    /\ UNCHANGED <<regVars, connVars, taskVars>>

\* The same cancellation while call_tool awaits its reconnect.
ReconnectInterrupted(p) ==
    /\ turn[p].op = "call"
    /\ turn[p].at = "reopening"
    /\ CloseDetached(turn[p].conn)
    /\ Record(p, Failed(breaker[Scope[p]]))
    /\ Return(p)
    /\ UNCHANGED <<regVars, connVars, quarantines, gcStale>>

\* Faulty variant of Cancel: a cancelled handshake is forgotten.
CancelWithoutClose(p) ==
    /\ turn[p].at # "idle"
    /\ Return(p)
    /\ UNCHANGED <<regVars, connVars, breaker, taskVars>>

\* The client is gone: the turn is cancelled wherever it waits.  An unfinished
\* _open_connection leaves its object to a detached close.
Cancel(p) ==
    /\ turn[p].at # "idle"
    /\ IF turn[p].at \in {"opening", "reopening"}
       THEN CloseDetached(turn[p].conn)
       ELSE UNCHANGED closers
    /\ Return(p)
    /\ UNCHANGED <<regVars, connVars, breaker, quarantines, gcStale>>

-----------------------------------------------------------------------------
(* _owner_lifecycle: the task that enters and exits the SDK session *)

HandshakeDone(c) ==
    /\ phase[c] = "opening"
    /\ phase' = [phase EXCEPT ![c] = "open"]
    /\ UNCHANGED <<regVars, tenant, closing, timeouts, breaker, turn, taskVars>>

SessionOver(c) ==
    /\ phase' = [phase EXCEPT ![c] = "dead"]
    /\ closing' = [closing EXCEPT ![c] = FALSE]
    /\ UNCHANGED <<regVars, tenant, timeouts, breaker, turn, taskVars>>

HandshakeFails(c) ==
    /\ phase[c] = "opening"
    /\ SessionOver(c)

SessionExits(c) ==
    /\ phase[c] = "open"
    /\ closing[c]
    /\ SessionOver(c)

-----------------------------------------------------------------------------
(* Detached tasks and the garbage collector *)

\* The connections in S leave the registry, wherever they stand in it.
TakeOut(S) ==
    /\ registry' = [t \in Tenants |-> IF registry[t] \in S THEN NoConn ELSE registry[t]]
    /\ idle' = [t \in Tenants |-> IF registry[t] \in S THEN 0 ELSE idle[t]]

RunCloser(c) ==
    /\ c \in closers
    /\ closers' = closers \ {c}
    /\ RequestClose(c)
    /\ UNCHANGED <<regVars, phase, tenant, timeouts, breaker, turn,
                   quarantines, gcStale>>

\* Faulty variant of RunQuarantine: the connection stays in the registry.
RunQuarantineInPlace(c) ==
    /\ quarantines[c] > 0
    /\ quarantines' = [quarantines EXCEPT ![c] = @ - 1]
    /\ breaker' = [breaker EXCEPT ![tenant[c]] = Evidence(@)]
    /\ RequestClose(c)
    /\ UNCHANGED <<regVars, phase, tenant, timeouts, turn, closers, gcStale>>

\* Faulty variant of RunQuarantine: the connection is dropped and not closed.
RunQuarantineUnclosed(c) ==
    /\ quarantines[c] > 0
    /\ quarantines' = [quarantines EXCEPT ![c] = @ - 1]
    /\ TakeOut({c})
    /\ breaker' = [breaker EXCEPT ![tenant[c]] = Evidence(@)]
    /\ UNCHANGED <<connVars, turn, closers, gcStale>>

\* _quarantine_connection up to the first await inside its close.
RunQuarantine(c) ==
    /\ quarantines[c] > 0
    /\ quarantines' = [quarantines EXCEPT ![c] = @ - 1]
    /\ TakeOut({c})
    /\ breaker' = [breaker EXCEPT ![tenant[c]] = Evidence(@)]
    /\ RequestClose(c)
    /\ UNCHANGED <<phase, tenant, timeouts, turn, closers, gcStale>>

\* Faulty variant of GcSweep: it sweeps at the threshold of the proactive reconnect.
GcSweepEarly ==
    LET stale == {registry[t] : t \in {u \in Tenants : idle[u] >= 1}} IN
    /\ gcStale = {}
    /\ stale # {}
    /\ gcStale' = stale
    /\ TakeOut(stale)
    /\ UNCHANGED <<connVars, breaker, turn, closers, quarantines>>

\* _cleanup_stale_connections: every idle connection leaves the registry at once ...
GcSweep ==
    LET stale == {registry[t] : t \in {u \in Tenants : idle[u] = 2}} IN
    /\ gcStale = {}
    /\ stale # {}
    /\ gcStale' = stale
    /\ TakeOut(stale)
    /\ UNCHANGED <<connVars, breaker, turn, closers, quarantines>>

\* ... and they are closed one after the other.
GcClose(c) ==
    /\ c \in gcStale
    /\ gcStale' = gcStale \ {c}
    /\ RequestClose(c)
    /\ UNCHANGED <<regVars, phase, tenant, timeouts, breaker, turn,
                   closers, quarantines>>

-----------------------------------------------------------------------------
(* Time.  It passes only when the event loop has run the tasks that are ready: *)
(* seconds separate the events below.                                          *)

Quiet == closers = {} /\ \A c \in Conns : quarantines[c] = 0

CooldownTick(t) ==
    /\ breaker[t].cool > 0
    /\ Quiet
    /\ breaker' = [breaker EXCEPT ![t].cool = @ - 1]
    /\ UNCHANGED <<regVars, connVars, turn, taskVars>>

\* A registered connection ages.  The timeouts bound a whole operation (idle
\* close 15s, handshake 15s and enrichment 10s, lock 10s, execution 15s, and all but
\* the first again after a reconnect), which is less than the 360s between the two
\* thresholds; one that begins past the first threshold drops the connection.  So
\* no operation of its scope is under way when the second is reached.
Age(t) ==
    /\ registry[t] # NoConn
    /\ idle[t] < 2
    /\ idle[t] = 1 => \A p \in Turns : Scope[p] = t => turn[p].at = "idle"
    /\ Quiet
    /\ idle' = [idle EXCEPT ![t] = @ + 1]
    /\ UNCHANGED <<registry, connVars, breaker, turn, taskVars>>

-----------------------------------------------------------------------------
Begin(p) ==
    \/ ListFastFails(p)
    \/ \E o \in {"list", "call", "peek"} : UseCached(p, o) \/ DropIdle(p, o) \/ OpenCold(p, o)

\* Every wait of a turn is bounded by a timeout, so it goes on.
Resume(p) ==
    \/ Opened(p) \/ OpenFails(p) \/ Reopened(p) \/ ReopenFails(p)
    \/ ListAnswered(p) \/ ListDegrades(p) \/ ListReconnects(p) \/ ListRetryFails(p)
    \/ CallAnswered(p) \/ CallTimesOut(p) \/ CallRefused(p) \/ CallReconnects(p)
    \/ CallInterrupted(p)

TurnStep(p) == Begin(p) \/ OpenAfterStale(p) \/ Resume(p) \/ ReconnectInterrupted(p) \/ Cancel(p)

Owner(c) == HandshakeDone(c) \/ HandshakeFails(c) \/ SessionExits(c)

Background(c) == RunCloser(c) \/ RunQuarantine(c) \/ GcClose(c)

Next ==
    \/ \E p \in Turns : TurnStep(p)
    \/ \E c \in Conns : Owner(c) \/ Background(c)
    \/ GcSweep
    \/ \E t \in Tenants : CooldownTick(t) \/ Age(t)

\* The event loop runs every task that is ready, and every wait has a timeout.
\* Object identities are limited here and not in the program, so a turn that
\* needs one is not passed over for ever.
Fairness ==
    /\ \A p \in Turns : WF_vars(Resume(p)) /\ SF_vars(OpenAfterStale(p))
    /\ \A c \in Conns : WF_vars(Owner(c)) /\ WF_vars(RunCloser(c))
                        /\ WF_vars(RunQuarantine(c)) /\ WF_vars(GcClose(c))
    /\ \A t \in Tenants : WF_vars(CooldownTick(t))

Spec == Init /\ [][Next]_vars /\ Fairness

-----------------------------------------------------------------------------
(* Safety *)

\* A live connection nobody has asked to close: its session, its sockets and its
\* owner task exist until somebody does.
Live(c) == phase[c] # "dead" /\ ~closing[c]

\* No session leaks.  Whatever cancellations, lost races, failed handshakes,
\* quarantines and sweeps happen, a live connection is in the registry, is the
\* unfinished handshake of a turn, or is on the list of a task that will close it.
NoOrphan ==
    \A c \in Conns : Live(c) =>
        \/ Registered(c)
        \/ Openers(c) # {}
        \/ c \in closers \cup gcStale

\* What the registry hands out is usable: open, of that scope, with no close
\* requested or scheduled and no turn still treating it as its own handshake.
RegisteredUsable ==
    \A t \in Tenants : registry[t] # NoConn =>
        LET c == registry[t] IN
        /\ phase[c] = "open"
        /\ ~closing[c]
        /\ tenant[c] = t
        /\ Openers(c) = {}
        /\ c \notin closers \cup gcStale

\* A turn never speaks over another tenant's session, in the first attempt, in
\* the retry, or after losing a race to publish.
TenantIsolation ==
    \A p \in Turns : turn[p].conn # NoConn => tenant[turn[p].conn] = Scope[p]

\* A connection on which ZombieTimeouts calls in a row timed out is out of the
\* registry or has a quarantine task that will take it out.
ZombieQuarantined ==
    \A c \in Conns :
        timeouts[c] = ZombieTimeouts /\ Registered(c) => quarantines[c] > 0

\* The garbage collector never closes a connection under a request.
GcSparesUsers == \A c \in gcStale : Users(c) = {}

(* Liveness *)

\* A connection that left the registry is eventually torn down, whoever dropped
\* it: the idle check, a reconnect, a quarantine, a lost race, the collector.
DroppedIsClosed ==
    \A c \in Conns :
        (phase[c] = "open" /\ ~Registered(c) /\ Openers(c) = {}) ~> (phase[c] = "dead")

\* An operation comes back: no interleaving of handshakes, closes and quarantines
\* leaves a turn waiting for an event that nobody will set.
OperationReturns == \A p \in Turns : (turn[p].at # "idle") ~> (turn[p].at = "idle")

(* What the comments and the monitoring guide say of the breaker *)

\* "Ensures the trip counter and OPENED log fire exactly once per trip": a scope
\* whose failures reached the threshold has been counted as tripped.
OpenIsCounted ==
    \A t \in Tenants : breaker[t].failures = MaxFailures => breaker[t].tripped

\* "Requests fail fast until the end of the cooldown": a circuit that opened
\* comes to the end of its cooldown and lets a request probe the gateway.
CooldownEnds == \A t \in Tenants : CircuitOpen(breaker[t]) ~> ~CircuitOpen(breaker[t])

=============================================================================
