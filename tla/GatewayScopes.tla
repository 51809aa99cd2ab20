--------------------------- MODULE GatewayScopes ----------------------------
(***************************************************************************)
(* The gateway's registry of Streamable HTTP handlers (mcp-gateway,         *)
(* cmd/main.go): one stateful MCP server per set of tenants, built without   *)
(* the registry's mutex while the manifests load, bounded in number, and    *)
(* evicted when idle, but only at capacity.  MCP sessions live inside a     *)
(* handler: a client whose handler is replaced has lost its session.        *)
(***************************************************************************)
EXTENDS Naturals, FiniteSets

CONSTANTS
    Scopes,          \* sets of tenants that are asked for
    ScopeRequests,   \* requests being served at one time
    MaxScopes,       \* MaxStreamableTenantScopes
    EvictionTTL,     \* registryIdleEvictionTTL
    SessionTTL,      \* SessionIdleTimeout
    BuildTime,       \* bound of createCompositeServer: the HTTP client's timeouts
    NoScope,
    LastHour,        \* bound of the clock
    MaxHandlers      \* bound of the handlers built

ASSUME ScopesAssumption ==
    /\ {MaxScopes, EvictionTTL, SessionTTL, LastHour, MaxHandlers} \subseteq Nat \ {0}
    /\ BuildTime \in Nat
    /\ NoScope \notin Scopes

\* "It must stay comfortably above SessionIdleTimeout" (main.go).
ASSUME TTLAssumption == SessionTTL + BuildTime <= EvictionTTL

VARIABLES
    hour,        \* the clock
    handlers,    \* registry.handlers: the scope's handler, numbered; 0 for none
    lastAccess,  \* registry.lastAccess, with the map's absent keys as NoAccess
    building,    \* of each request: the scope whose server it builds, since when
    built,       \* handlers built so far
    session      \* of each scope: the handler that last served a client, and when

scopeVars == <<hour, handlers, lastAccess, building, built, session>>

NoAccess == LastHour + 1
NotBuilding == [scope |-> NoScope, since |-> 0]

ScopesTypeOK ==
    /\ hour \in 0 .. LastHour
    /\ handlers \in [Scopes -> 0 .. MaxHandlers]
    /\ lastAccess \in [Scopes -> 0 .. NoAccess]
    /\ building \in [ScopeRequests -> [scope : Scopes \cup {NoScope}, since : 0 .. LastHour]]
    /\ built \in 0 .. MaxHandlers
    /\ session \in [Scopes -> [handler : 0 .. MaxHandlers, used : 0 .. LastHour]]

ScopesInit ==
    /\ hour = 0
    /\ handlers = [s \in Scopes |-> 0]
    /\ lastAccess = [s \in Scopes |-> NoAccess]
    /\ building = [r \in ScopeRequests |-> NotBuilding]
    /\ built = 0
    /\ session = [s \in Scopes |-> [handler |-> 0, used |-> 0]]

Idle(r) == building[r].scope = NoScope
Cached == {s \in Scopes : handlers[s] # 0}

\* Builds are over within BuildTime.
HourPasses ==
    /\ hour < LastHour
    /\ \A r \in ScopeRequests : Idle(r) \/ hour - building[r].since < BuildTime
    /\ hour' = hour + 1
    /\ UNCHANGED <<handlers, lastAccess, building, built, session>>

\* The request is served by the scope's handler h: a session there is opened,
\* or goes on.
ServedBy(s, h) == session' = [session EXCEPT ![s] = [handler |-> h, used |-> hour]]

\* Faulty variant of ServeCached: the access is not recorded.
ServeCachedUntouched(r, s) ==
    /\ Idle(r)
    /\ handlers[s] # 0
    /\ ServedBy(s, handlers[s])
    /\ UNCHANGED <<hour, handlers, lastAccess, building, built>>

ServeCached(r, s) ==
    /\ Idle(r)
    /\ handlers[s] # 0
    /\ lastAccess' = [lastAccess EXCEPT ![s] = hour]
    /\ ServedBy(s, handlers[s])
    /\ UNCHANGED <<hour, handlers, building, built>>

\* evictIdleScopes walks lastAccess, in which a scope whose build failed, or
\* is still running, has an entry without a handler.
Evictable == {s \in Scopes : lastAccess[s] # NoAccess /\ hour - lastAccess[s] > EvictionTTL}

StartBuild(r, s) ==
    LET full == Cardinality(Cached) >= MaxScopes
        evicted == IF full THEN Evictable ELSE {}
    IN  /\ Idle(r)
        /\ handlers[s] = 0
        /\ full => Evictable # {}
        /\ handlers' = [q \in Scopes |-> IF q \in evicted THEN 0 ELSE handlers[q]]
        /\ lastAccess' = [q \in Scopes |-> IF q = s THEN hour
                                           ELSE IF q \in evicted THEN NoAccess
                                           ELSE lastAccess[q]]
        /\ building' = [building EXCEPT ![r] = [scope |-> s, since |-> hour]]
        /\ UNCHANGED <<hour, built, session>>

\* A manifest cannot be read: the time of access stays.
BuildFails(r) ==
    /\ ~Idle(r)
    /\ building' = [building EXCEPT ![r] = NotBuilding]
    /\ UNCHANGED <<hour, handlers, lastAccess, built, session>>

\* Somebody else has built the scope meanwhile: its handler is the one.
UseCanonical(r) ==
    LET s == building[r].scope
    IN  /\ ~Idle(r)
        /\ handlers[s] # 0
        /\ ServedBy(s, handlers[s])
        /\ building' = [building EXCEPT ![r] = NotBuilding]
        /\ UNCHANGED <<hour, handlers, lastAccess, built>>

\* Others have filled the registry meanwhile.
BuildRefused(r) ==
    /\ ~Idle(r)
    /\ handlers[building[r].scope] = 0
    /\ Cardinality(Cached) >= MaxScopes
    /\ building' = [building EXCEPT ![r] = NotBuilding]
    /\ UNCHANGED <<hour, handlers, lastAccess, built, session>>

RegisterHandler(r) ==
    LET s == building[r].scope
    IN  /\ ~Idle(r)
        /\ handlers[s] = 0
        /\ Cardinality(Cached) < MaxScopes
        /\ built < MaxHandlers
        /\ built' = built + 1
        /\ handlers' = [handlers EXCEPT ![s] = built']
        /\ ServedBy(s, built')
        /\ building' = [building EXCEPT ![r] = NotBuilding]
        /\ UNCHANGED <<hour, lastAccess>>

ScopesNext ==
    \/ HourPasses
    \/ \E r \in ScopeRequests :
          \/ \E s \in Scopes : ServeCached(r, s) \/ StartBuild(r, s)
          \/ BuildFails(r) \/ UseCanonical(r) \/ BuildRefused(r) \/ RegisterHandler(r)

ScopesSpec == ScopesInit /\ [][ScopesNext]_scopeVars

-----------------------------------------------------------------------------
\* A client whose session the transport still keeps finds it: the handler it
\* was last served by is the registered one, although builds overlap, fail and
\* are evicted around it, and the registry never outgrows its bound.
SessionsKeepTheirHandler ==
    /\ \A s \in Scopes :
          session[s].handler # 0 /\ hour - session[s].used <= SessionTTL
              => handlers[s] = session[s].handler
    /\ Cardinality(Cached) <= MaxScopes
    /\ \A s \in Cached : lastAccess[s] # NoAccess
=============================================================================
