--------------------------- MODULE McpClientProofs ---------------------------
(***************************************************************************)
(* The safety of the MCP client for any number of turns, scopes and        *)
(* connections and any thresholds.                                         *)
(*                                                                         *)
(* NoOrphan and the other invariants are not inductive: whether a step may *)
(* strand a connection depends on who else refers to it.  What carries the *)
(* proof is OpenersOwn, the discipline of _open_connection: an object that *)
(* is still shaking hands is known to one turn and to nobody else.         *)
(***************************************************************************)
EXTENDS McpClient, TLAPS

Waiting == {"opening", "using", "reopening", "retrying"}

\* A turn holds a connection exactly while it waits for one or on one.
Shape ==
    \A p \in Turns :
        /\ turn[p].at = "idle" => turn[p] = AtRest
        /\ turn[p].at = "stale" => turn[p].conn = NoConn
        /\ turn[p].at \in Waiting => turn[p].conn # NoConn

\* Only a registered connection has an age, and past the second threshold no
\* turn of its scope is under way.
AgeIsIdle ==
    \A t \in Tenants :
        /\ idle[t] > 0 => registry[t] # NoConn
        /\ idle[t] = 2 => \A p \in Turns : Scope[p] = t => turn[p].at = "idle"

\* A connection whose handshake a turn awaits belongs to that turn alone.
OpenersOwn ==
    \A p \in Turns : turn[p].at \in {"opening", "reopening"} =>
        LET c == turn[p].conn IN
        /\ tenant[c] = Scope[p]
        /\ ~closing[c]
        /\ timeouts[c] = 0
        /\ quarantines[c] = 0
        /\ ~Registered(c)
        /\ c \notin closers \cup gcStale
        /\ \A q \in Turns : q # p => turn[q].conn # c

\* A close that is pending has a live owner to obey it.
ClosingAlive == \A c \in Conns : closing[c] => phase[c] # "dead"

TypeInv == TypeOK /\ Shape /\ AgeIsIdle

IInv ==
    /\ TypeInv
    /\ OpenersOwn
    /\ ClosingAlive
    /\ RegisteredUsable
    /\ TenantIsolation
    /\ NoOrphan
    /\ ZombieQuarantined
    /\ GcSparesUsers

-----------------------------------------------------------------------------
(* Types *)

\* The initial state has its types.
LEMMA InitTypeInv == Init => TypeInv
<1> SUFFICES ASSUME Init PROVE TypeInv
  OBVIOUS
<1>1. (CHOOSE t \in Tenants : TRUE) \in Tenants
  BY ScopeAssumption
<1>2. TypeOK
  BY <1>1, BoundAssumption, SMT
  DEF Init, TypeOK, IdleLevels, Phases, Breaker, Turn, Places, Ops, AtRest, ClosedBreaker
<1>3. Shape
  BY DEF Init, Shape, AtRest, Waiting
<1>4. AgeIsIdle
  BY DEF Init, AgeIsIdle
<1> QED
  BY <1>2, <1>3, <1>4 DEF TypeInv

\* What the breaker's operations return is a breaker.
LEMMA BreakerTypes ==
  ASSUME NEW b \in Breaker
  PROVE  /\ Evidence(b) \in Breaker
         /\ Failed(b) \in Breaker
         /\ Cleared(b) \in Breaker
         /\ Succeeded(b) \in Breaker
<1>1. /\ 0 \in 0..MaxFailures
      /\ 0 \in 0..Cooldown
      /\ Cooldown \in 0..Cooldown
  BY BoundAssumption
<1>2. b.failures \in 0..MaxFailures /\ b.cool \in 0..Cooldown
  BY DEF Breaker
<1>3. OneMore(b.failures) \in 0..MaxFailures
  BY <1>2, BoundAssumption DEF OneMore
<1>4. (IF b.failures + 1 >= MaxFailures THEN Cooldown ELSE b.cool) \in 0..Cooldown
  BY <1>1, <1>2
<1>5. Evidence(b) \in Breaker
  BY <1>3, <1>4, Zenon DEF Evidence, Breaker
<1>6. (Evidence(b).tripped \/ b.failures + 1 = MaxFailures) \in BOOLEAN
  OBVIOUS
<1>7. Failed(b) \in Breaker
  BY <1>5, <1>6, Zenon DEF Failed, Breaker
<1>8. Cleared(b) \in Breaker /\ Succeeded(b) \in Breaker
  BY <1>1, Zenon DEF Cleared, Succeeded, ClosedBreaker, Breaker
<1> QED
  BY <1>5, <1>7, <1>8


-----------------------------------------------------------------------------
(* What a step may do to the state other than the breaker.  The breaker decides *)
(* which steps are taken and no invariant below but its type mentions it.       *)

BreakerOnly == UNCHANGED <<regVars, connVars, turn, taskVars>>

\* The operation of p ends; an answer also proves its connection alive.
Ends(p) ==
    /\ Return(p)
    /\ turn[p].at \in {"opening", "reopening"} => phase[turn[p].conn] = "dead"
    /\ \/ UNCHANGED <<idle, timeouts>>
       \/ /\ turn[p].at \in {"using", "retrying"}
          /\ Touch(turn[p].conn)
          /\ \/ UNCHANGED timeouts
             \/ timeouts' = [timeouts EXCEPT ![turn[p].conn] = 0]
    /\ UNCHANGED <<registry, phase, tenant, closing, taskVars>>

\* p gives up a handshake and has its connection closed.
Abandons(p) ==
    /\ turn[p].at \in {"opening", "reopening"}
    /\ CloseDetached(turn[p].conn)
    /\ Return(p)
    /\ UNCHANGED <<regVars, connVars, quarantines, gcStale>>

\* p begins a handshake, if need be in place of the registered connection.
Starts(p) ==
    /\ turn[p].at \in {"idle", "stale", "using"}
    /\ \E place \in {"opening", "reopening"}, o \in Ops : Handshake(p, place, o)
    /\ \/ /\ turn[p].at = "idle" => registry[Scope[p]] = NoConn
          /\ UNCHANGED <<regVars, closers>>
       \/ /\ Unregister(Scope[p])
          /\ IF registry[Scope[p]] = NoConn
             THEN UNCHANGED closers
             ELSE CloseDetached(registry[Scope[p]])
    /\ UNCHANGED <<quarantines, gcStale>>

Publishes(p) ==
    /\ turn[p].at \in {"opening", "reopening"}
    /\ phase[turn[p].conn] = "open"
    /\ \E place \in {"using", "retrying"} : Publish(p, place)
    /\ UNCHANGED <<connVars, quarantines, gcStale>>

Exits(c) ==
    /\ phase[c] = "opening" \/ closing[c]
    /\ SessionOver(c)

Effect ==
    \/ BreakerOnly
    \/ \E p \in Turns :
        \/ Ends(p) \/ Abandons(p) \/ Starts(p) \/ Publishes(p) \/ CallTimesOut(p)
        \/ \E o \in {"list", "call", "peek"} : UseCached(p, o) \/ DropIdle(p, o)
    \/ \E c \in Conns :
        HandshakeDone(c) \/ Exits(c) \/ RunCloser(c) \/ RunQuarantine(c) \/ GcClose(c)
    \/ GcSweep
    \/ \E t \in Tenants : Age(t)

\* What _reconnect does when it is called by a turn that has a connection.
LEMMA ReconnectEffect ==
  ASSUME TypeOK, NEW p \in Turns, turn[p].at = "using", NEW b, Reconnect(p, b)
  PROVE  Ends(p) \/ Starts(p)
<1>1. turn[p].op \in Ops
  BY DEF TypeOK, Turn
<1> QED
  BY <1>1 DEF Reconnect, Ends, Starts, regVars, connVars, taskVars

\* Every step of the specification has one of the effects above.
LEMMA NextEffect ==
  ASSUME TypeOK, [Next]_vars
  PROVE  Effect
<1>1. CASE UNCHANGED vars
  BY <1>1 DEF Effect, BreakerOnly, vars
<1>2. ASSUME NEW p \in Turns, Begin(p) PROVE Effect
  <2>1. CASE ListFastFails(p)
    BY <2>1 DEF ListFastFails, Effect, BreakerOnly
  <2>2. ASSUME NEW o \in {"list", "call", "peek"}, OpenCold(p, o) PROVE Starts(p)
    BY <2>2 DEF OpenCold, Starts, Ops, taskVars
  <2> QED
    BY <1>2, <2>1, <2>2 DEF Begin, Effect
<1>3. ASSUME NEW p \in Turns, OpenAfterStale(p) PROVE Starts(p)
  <2>1. turn[p].op \in Ops
    BY DEF TypeOK, Turn
  <2> QED
    BY <1>3, <2>1 DEF OpenAfterStale, Starts, taskVars
<1>4. ASSUME NEW p \in Turns, Resume(p) PROVE Effect
  <2>1. CASE Opened(p) \/ Reopened(p)
    BY <2>1 DEF Opened, Reopened, Publishes, Effect
  <2>2. CASE OpenFails(p) \/ ReopenFails(p)
    BY <2>2 DEF OpenFails, ReopenFails, Ends, Effect, regVars, connVars, taskVars
  <2>3. CASE ListReconnects(p) \/ CallReconnects(p)
    BY <2>3, ReconnectEffect DEF ListReconnects, CallReconnects, Effect
  <2>4. CASE ListAnswered(p)
    BY <2>4 DEF ListAnswered, Ends, Effect, connVars, taskVars
  <2>5. CASE ListDegrades(p) \/ ListRetryFails(p)
    BY <2>5 DEF ListDegrades, ListRetryFails, Ends, Effect, regVars, connVars, taskVars
  <2>6. CASE CallAnswered(p)
    BY <2>6 DEF CallAnswered, Calling, Ends, Effect, taskVars
  <2>7. CASE CallRefused(p) \/ CallInterrupted(p)
    BY <2>7 DEF CallRefused, CallInterrupted, Calling, Ends, Effect, regVars, connVars, taskVars
  <2> QED
    BY <1>4, <2>1, <2>2, <2>3, <2>4, <2>5, <2>6, <2>7 DEF Resume, Effect
<1>5. ASSUME NEW p \in Turns, ReconnectInterrupted(p) PROVE Abandons(p)
  BY <1>5 DEF ReconnectInterrupted, Abandons
<1>6. ASSUME NEW p \in Turns, Cancel(p) PROVE Abandons(p) \/ Ends(p)
  BY <1>6 DEF Cancel, Abandons, Ends, regVars, connVars, taskVars
<1>7. ASSUME NEW c \in Conns, Owner(c) PROVE Effect
  BY <1>7 DEF Owner, HandshakeFails, SessionExits, Exits, Effect
<1>8. ASSUME NEW c \in Conns, Background(c) PROVE Effect
  BY <1>8 DEF Background, Effect
<1>9. ASSUME NEW t \in Tenants, CooldownTick(t) PROVE Effect
  BY <1>9 DEF CooldownTick, BreakerOnly, Effect
<1> QED
  BY <1>1, <1>2, <1>3, <1>4, <1>5, <1>6, <1>7, <1>8, <1>9 DEF Next, TurnStep, Effect

-----------------------------------------------------------------------------
(* Types are preserved *)

\* Recording an outcome keeps the type of the circuit breakers.
LEMMA RecordTypes ==
  ASSUME TypeOK, NEW p \in Turns, NEW b \in Breaker, Record(p, b)
  PROVE  breaker' \in [Tenants -> Breaker]
  BY Zenon DEF TypeOK, Record

\* A reconnection keeps the type of the circuit breakers.
LEMMA ReconnectBreaker ==
  ASSUME TypeOK, NEW p \in Turns, NEW b \in Breaker, Reconnect(p, b)
  PROVE  breaker' \in [Tenants -> Breaker]
<1>1. Failed(b) \in Breaker
  BY BreakerTypes
<1> QED
  BY <1>1, RecordTypes, Zenon DEF Reconnect

\* A scope's breaker stays a breaker.
LEMMA BreakerStep ==
  ASSUME TypeOK, [Next]_vars
  PROVE  breaker' \in [Tenants -> Breaker]
<1>1. breaker \in [Tenants -> Breaker]
  BY DEF TypeOK
<1>2. ASSUME NEW p \in Turns
      PROVE  breaker[Scope[p]] \in Breaker
  BY <1>1, ScopeAssumption
<1>3. ASSUME NEW p \in Turns
      PROVE  LET b == breaker[Scope[p]] IN
             {b, Evidence(b), Failed(b), Failed(Evidence(b)), Cleared(b), Succeeded(b)}
                 \subseteq Breaker
  BY <1>2, BreakerTypes
<1>4. CASE UNCHANGED breaker
  BY <1>1, <1>4
<1>5. ASSUME NEW p \in Turns, TurnStep(p), breaker' # breaker
      PROVE  breaker' \in [Tenants -> Breaker]
  <2>1. CASE ListFastFails(p) \/ OpenFails(p) \/ ReopenFails(p) \/ ListRetryFails(p)
    BY <1>3, <1>5, <2>1, RecordTypes, Zenon
    DEF ListFastFails, OpenFails, ReopenFails, ListRetryFails
  <2>2. CASE Opened(p) \/ Reopened(p)
    BY <1>3, <1>5, <2>2, RecordTypes, Zenon DEF Opened, Reopened
  <2>3. CASE ListReconnects(p) \/ CallReconnects(p)
    BY <1>3, <2>3, ReconnectBreaker, Zenon DEF ListReconnects, CallReconnects
  <2>4. CASE CallAnswered(p) \/ CallTimesOut(p) \/ CallInterrupted(p)
             \/ ReconnectInterrupted(p)
    BY <1>3, <2>4, RecordTypes, Zenon
    DEF CallAnswered, CallTimesOut, CallInterrupted, ReconnectInterrupted
  <2>5. ASSUME NEW o, UseCached(p, o) \/ DropIdle(p, o) \/ OpenCold(p, o)
        PROVE  UNCHANGED breaker
    BY <2>5 DEF UseCached, DropIdle, OpenCold
  <2>6. CASE OpenAfterStale(p) \/ ListAnswered(p) \/ ListDegrades(p) \/ CallRefused(p)
             \/ Cancel(p)
    BY <1>1, <2>6 DEF OpenAfterStale, ListAnswered, ListDegrades, CallRefused, Cancel
  <2> QED
    BY <1>5, <2>1, <2>2, <2>3, <2>4, <2>5, <2>6, Zenon DEF TurnStep, Begin, Resume
<1>6. ASSUME NEW c \in Conns, Owner(c) \/ Background(c), breaker' # breaker
      PROVE  breaker' \in [Tenants -> Breaker]
  <2>1. RunQuarantine(c)
    BY <1>6
    DEF Owner, HandshakeDone, HandshakeFails, SessionExits, SessionOver, Background,
        RunCloser, GcClose
  <2>2. breaker[tenant[c]] \in Breaker
    BY <1>1 DEF TypeOK
  <2>3. Evidence(breaker[tenant[c]]) \in Breaker
    BY <2>2, BreakerTypes
  <2> QED
    BY <1>1, <2>1, <2>3, Zenon DEF RunQuarantine
<1>7. ASSUME NEW t \in Tenants, CooldownTick(t)
      PROVE  breaker' \in [Tenants -> Breaker]
  <2>1. breaker[t] \in Breaker
    BY <1>1
  <2>2. breaker[t].cool - 1 \in 0..Cooldown
    BY <1>7, <2>1, BoundAssumption DEF CooldownTick, Breaker
  <2>3. [breaker[t] EXCEPT !.cool = @ - 1] \in Breaker
    BY <2>1, <2>2, Zenon DEF Breaker
  <2> QED
    BY <1>1, <1>7, <2>3, Zenon DEF CooldownTick
<1> QED
  BY <1>4, <1>5, <1>6, <1>7, Zenon DEF Next, GcSweep, Age, vars

\* Registration keeps the types of the registry and of its ages.
LEMMA RegisterTypes ==
  ASSUME TypeOK, NEW t \in Tenants, NEW c \in Conns \cup {NoConn}, Register(t, c)
  PROVE  registry' \in [Tenants -> Conns \cup {NoConn}] /\ idle' \in [Tenants -> IdleLevels]
  BY DEF TypeOK, Register, IdleLevels

\* The start of a handshake keeps the types of what it changes.
LEMMA HandshakeTypes ==
  ASSUME TypeOK, NEW p \in Turns, NEW place \in Places, NEW o \in Ops, Handshake(p, place, o)
  PROVE  /\ phase' \in [Conns -> Phases]
         /\ tenant' \in [Conns -> Tenants]
         /\ closing' \in [Conns -> BOOLEAN]
         /\ timeouts' \in [Conns -> 0..ZombieTimeouts]
         /\ turn' \in [Turns -> Turn]
<1>1. PICK c \in Conns :
        /\ phase' = [phase EXCEPT ![c] = "opening"]
        /\ tenant' = [tenant EXCEPT ![c] = Scope[p]]
        /\ timeouts' = [timeouts EXCEPT ![c] = 0]
        /\ turn' = [turn EXCEPT ![p] = [at |-> place, op |-> o, conn |-> c]]
  BY DEF Handshake
<1>2. Scope[p] \in Tenants /\ 0 \in 0..ZombieTimeouts /\ "opening" \in Phases
  BY ScopeAssumption, BoundAssumption DEF Phases
<1>3. [at |-> place, op |-> o, conn |-> c] \in Turn
  BY DEF Turn
<1>4. UNCHANGED closing
  BY DEF Handshake
<1> QED
  BY <1>1, <1>2, <1>3, <1>4, Zenon DEF TypeOK

\* Every step keeps the types.
LEMMA TypeStep ==
  ASSUME TypeInv, [Next]_vars
  PROVE  TypeOK'
<1> USE DEF Turn, Places, Ops, Phases, IdleLevels
<1>0. TypeOK /\ breaker' \in [Tenants -> Breaker]
  BY BreakerStep DEF TypeInv
<1>1. CASE BreakerOnly
  BY <1>0, <1>1 DEF TypeOK, BreakerOnly, regVars, connVars, taskVars
<1>2. ASSUME NEW p \in Turns, Ends(p) PROVE TypeOK'
  BY <1>0, <1>2, BoundAssumption DEF TypeOK, Ends, Return, AtRest, Touch, taskVars
<1>3. ASSUME NEW p \in Turns, Abandons(p) PROVE TypeOK'
  BY <1>0, <1>3 DEF TypeInv, TypeOK, Shape, Waiting, Abandons, Return, AtRest, CloseDetached,
     regVars, connVars
<1>4. ASSUME NEW p \in Turns, Starts(p) PROVE TypeOK'
  <2>1. PICK place \in {"opening", "reopening"}, o \in Ops : Handshake(p, place, o)
    BY <1>4 DEF Starts
  <2>2. Scope[p] \in Tenants
    BY ScopeAssumption
  <2>3. /\ registry' \in [Tenants -> Conns \cup {NoConn}]
        /\ idle' \in [Tenants -> IdleLevels]
    BY <1>0, <1>4, <2>2, RegisterTypes DEF TypeOK, Starts, Unregister, regVars
  <2>4. closers' \subseteq Conns
    BY <1>0, <1>4, <2>2 DEF TypeOK, Starts, CloseDetached
  <2> QED
    BY <1>0, <1>4, <2>1, <2>3, <2>4, HandshakeTypes DEF TypeOK, Starts
<1>5. ASSUME NEW p \in Turns, Publishes(p) PROVE TypeOK'
  <2>1. Scope[p] \in Tenants /\ turn[p].conn \in Conns
    BY <1>0, <1>5, ScopeAssumption DEF TypeInv, TypeOK, Shape, Waiting, Publishes
  <2>2. /\ registry' \in [Tenants -> Conns \cup {NoConn}]
        /\ idle' \in [Tenants -> IdleLevels]
    BY <1>0, <1>5, <2>1, RegisterTypes DEF TypeOK, Publishes, Publish, regVars
  <2>3. closers' \subseteq Conns
    BY <1>0, <1>5, <2>1 DEF TypeOK, Publishes, Publish, CloseDetached
  <2>4. ASSUME NEW place \in {"using", "retrying"}, NEW c \in Conns \cup {NoConn},
               Proceed(p, place, c)
        PROVE  turn' \in [Turns -> Turn]
    BY ZenonT(60), <1>0, <2>4 DEF TypeOK, Proceed, AtRest
  <2>5. turn' \in [Turns -> Turn]
    BY <1>0, <1>5, <2>1, <2>4 DEF TypeOK, Publishes, Publish
  <2> QED
    BY <1>0, <1>5, <2>2, <2>3, <2>5 DEF TypeOK, Publishes, connVars
<1>6. ASSUME NEW p \in Turns, CallTimesOut(p) PROVE TypeOK'
  BY <1>0, <1>6, BoundAssumption
  DEF TypeInv, TypeOK, Shape, Waiting, CallTimesOut, Calling, Return, AtRest, regVars
<1>7. ASSUME NEW p \in Turns, NEW o \in {"list", "call", "peek"}, UseCached(p, o)
      PROVE  TypeOK'
  BY <1>0, <1>7, ScopeAssumption DEF TypeOK, UseCached, regVars, connVars, taskVars
<1>8. ASSUME NEW p \in Turns, NEW o \in {"list", "call", "peek"}, DropIdle(p, o)
      PROVE  TypeOK'
  <2>1. Scope[p] \in Tenants
    BY ScopeAssumption
  <2>2. /\ registry' \in [Tenants -> Conns \cup {NoConn}]
        /\ idle' \in [Tenants -> IdleLevels]
    BY <1>0, <1>8, <2>1, RegisterTypes DEF DropIdle, Unregister
  <2>3. closing' \in [Conns -> BOOLEAN] /\ turn' \in [Turns -> Turn]
    BY <1>0, <1>8 DEF TypeOK, DropIdle, RequestClose
  <2> QED
    BY <1>0, <1>8, <2>2, <2>3 DEF TypeOK, DropIdle, taskVars
<1>9. ASSUME NEW c \in Conns, HandshakeDone(c) \/ Exits(c) PROVE TypeOK'
  BY <1>0, <1>9 DEF TypeOK, HandshakeDone, Exits, SessionOver, regVars, taskVars
<1>10. ASSUME NEW c \in Conns, RunCloser(c) \/ GcClose(c) PROVE TypeOK'
  BY <1>0, <1>10 DEF TypeOK, RunCloser, GcClose, RequestClose, regVars
<1>11. ASSUME NEW c \in Conns, RunQuarantine(c) PROVE TypeOK'
  BY <1>0, <1>11 DEF TypeOK, RunQuarantine, RequestClose, TakeOut
<1>12. CASE GcSweep
  BY <1>0, <1>12 DEF TypeInv, TypeOK, AgeIsIdle, GcSweep, TakeOut, connVars
<1>13. ASSUME NEW t \in Tenants, Age(t) PROVE TypeOK'
  BY <1>0, <1>13 DEF TypeOK, Age, connVars, taskVars
<1> QED
  BY <1>0, <1>1, <1>2, <1>3, <1>4, <1>5, <1>6, <1>7, <1>8, <1>9, <1>10, <1>11, <1>12,
     <1>13, NextEffect
  DEF Effect

-----------------------------------------------------------------------------
(* Where the turns stand *)

\* What Publishes makes of the turns: p rests, or goes on with what is registered.
LEMMA PublishTurn ==
  ASSUME TypeInv, NEW p \in Turns, Publishes(p)
  PROVE  /\ registry'[Scope[p]] \in Conns
         /\ \/ turn'[p] = AtRest
            \/ /\ turn'[p].at \in {"using", "retrying"}
               /\ turn'[p].conn = registry'[Scope[p]]
         /\ \A q \in Turns : q # p => turn'[q] = turn[q]
<1>1. Scope[p] \in Tenants /\ turn[p].conn \in Conns
  BY ScopeAssumption DEF TypeInv, TypeOK, Turn, Shape, Waiting, Publishes
<1>2. registry \in [Tenants -> Conns \cup {NoConn}] /\ turn \in [Turns -> Turn]
  BY DEF TypeInv, TypeOK
<1>3. PICK place \in {"using", "retrying"} : Publish(p, place)
  BY DEF Publishes
<1>4. ASSUME NEW c \in Conns, Proceed(p, place, c)
      PROVE  /\ \/ turn'[p] = AtRest
                \/ turn'[p].at = place /\ turn'[p].conn = c
             /\ \A q \in Turns : q # p => turn'[q] = turn[q]
  BY <1>2, <1>4 DEF Proceed, Turn
<1>5. CASE registry[Scope[p]] = NoConn
  BY <1>1, <1>2, <1>3, <1>4, <1>5 DEF Publish, Register
<1>6. CASE registry[Scope[p]] # NoConn
  BY <1>1, <1>2, <1>3, <1>4, <1>6 DEF Publish, regVars
<1> QED
  BY <1>5, <1>6

\* Every step keeps what the place of a turn says of its connection.
LEMMA ShapeStep ==
  ASSUME TypeInv, [Next]_vars
  PROVE  Shape'
<1> USE DEF TypeInv, TypeOK, Turn, Shape, Waiting
<1>1. ASSUME UNCHANGED turn PROVE Shape'
  BY <1>1
<1>2. ASSUME NEW p \in Turns, Return(p) PROVE Shape'
  BY <1>2 DEF Return, AtRest
<1>3. ASSUME NEW p \in Turns, Starts(p) PROVE Shape'
  BY <1>3, NoConnAssumption DEF Starts, Handshake
<1>4. ASSUME NEW p \in Turns, Publishes(p) PROVE Shape'
  BY <1>4, PublishTurn, NoConnAssumption DEF AtRest
<1>5. ASSUME NEW p \in Turns, NEW o \in {"list", "call", "peek"},
             UseCached(p, o) \/ DropIdle(p, o)
      PROVE  Shape'
  BY <1>5 DEF UseCached, DropIdle
<1> QED
  BY <1>1, <1>2, <1>3, <1>4, <1>5, NextEffect
  DEF Effect, BreakerOnly, Ends, Abandons, CallTimesOut, HandshakeDone, Exits, SessionOver,
      RunCloser, RunQuarantine, GcClose, GcSweep, Age

\* Every step keeps the ages of what is not registered at rest.
LEMMA AgeStep ==
  ASSUME TypeInv, [Next]_vars
  PROVE  AgeIsIdle'
<1> USE ScopeAssumption DEF TypeInv, TypeOK, IdleLevels, AgeIsIdle
<1>1. ASSUME UNCHANGED regVars, UNCHANGED turn PROVE AgeIsIdle'
  BY <1>1 DEF regVars
<1>2. ASSUME NEW p \in Turns, Return(p), UNCHANGED registry,
             \A t \in Tenants : idle'[t] \in {0, idle[t]}
      PROVE  AgeIsIdle'
  BY <1>2 DEF Return, AtRest
<1>3. ASSUME NEW p \in Turns, Starts(p) PROVE AgeIsIdle'
  <2>1. PICK place \in {"opening", "reopening"}, o \in Ops : Handshake(p, place, o)
    BY <1>3 DEF Starts
  <2>2. \A q \in Turns : q # p => turn'[q] = turn[q]
    BY <2>1 DEF Handshake
  <2>3. CASE UNCHANGED regVars
    BY <1>3, <2>2, <2>3 DEF Starts, regVars, Unregister, Register
  <2>4. CASE Unregister(Scope[p])
    BY <2>2, <2>4 DEF Unregister, Register
  <2> QED
    BY <1>3, <2>3, <2>4 DEF Starts
<1>4. ASSUME NEW p \in Turns, Publishes(p) PROVE AgeIsIdle'
  <2>1. \A q \in Turns : q # p => turn'[q] = turn[q]
    BY <1>4, PublishTurn
  <2>2. turn[p].at # "idle" /\ turn[p].conn # NoConn
    BY <1>4 DEF Publishes, Shape, Waiting
  <2>3. CASE UNCHANGED regVars
    BY <2>1, <2>2, <2>3 DEF regVars
  <2>4. CASE Register(Scope[p], turn[p].conn)
    BY <2>1, <2>2, <2>4 DEF Register
  <2> QED
    BY <1>4, <2>3, <2>4 DEF Publishes, Publish
<1>5. ASSUME NEW p \in Turns, NEW o, UseCached(p, o) PROVE AgeIsIdle'
  BY <1>5 DEF UseCached, regVars
<1>6. ASSUME NEW p \in Turns, NEW o, DropIdle(p, o) PROVE AgeIsIdle'
  BY <1>6 DEF DropIdle, Unregister, Register
<1>7. ASSUME NEW S, TakeOut(S), UNCHANGED turn PROVE AgeIsIdle'
  BY <1>7 DEF TakeOut
<1>8. ASSUME NEW t \in Tenants, Age(t) PROVE AgeIsIdle'
  BY <1>8 DEF Age
<1>9. ASSUME NEW p \in Turns, Ends(p) PROVE AgeIsIdle'
  BY <1>2, <1>9 DEF Ends, Touch
<1> QED
  BY <1>1, <1>2, <1>3, <1>4, <1>5, <1>6, <1>7, <1>8, <1>9, NextEffect
  DEF Effect, BreakerOnly, Abandons, CallTimesOut, HandshakeDone, Exits, SessionOver,
      RunCloser, RunQuarantine, GcClose, GcSweep, regVars

\* The registry, the breakers and the owner tasks of MCPClient keep their types, and
\* a turn holds a connection exactly where call_tool or list_tools needs one.
THEOREM TypeCorrect == Spec => []TypeOK
<1>1. TypeInv /\ [Next]_vars => TypeInv'
  BY TypeStep, ShapeStep, AgeStep DEF TypeInv
<1> QED
  BY <1>1, InitTypeInv, PTL DEF Spec, TypeInv

-----------------------------------------------------------------------------
(* Who refers to a connection *)

\* What Starts makes of the connections: one that nobody refers to begins its
\* handshake for p, and at most the connection of p's scope goes to be closed.
LEMMA StartsFresh ==
  ASSUME TypeInv, NEW p \in Turns, Starts(p)
  PROVE  /\ \E c \in Conns :
            /\ Free(c)
            /\ phase' = [phase EXCEPT ![c] = "opening"]
            /\ tenant' = [tenant EXCEPT ![c] = Scope[p]]
            /\ timeouts' = [timeouts EXCEPT ![c] = 0]
            /\ turn'[p].at \in {"opening", "reopening"}
            /\ turn'[p].conn = c
         /\ \A q \in Turns : q # p => turn'[q] = turn[q]
         /\ turn[p].at \in {"idle", "stale", "using"}
         /\ \/ UNCHANGED <<registry, closers>>
            \/ /\ registry' = [registry EXCEPT ![Scope[p]] = NoConn]
               /\ closers' = closers \cup ({registry[Scope[p]]} \ {NoConn})
         /\ UNCHANGED <<closing, quarantines, gcStale>>
<1>1. turn \in [Turns -> Turn] /\ registry \in [Tenants -> Conns \cup {NoConn}]
  BY DEF TypeInv, TypeOK
<1>2. PICK place \in {"opening", "reopening"}, o \in Ops : Handshake(p, place, o)
  BY DEF Starts
<1>3. UNCHANGED <<closing, quarantines, gcStale>>
  BY <1>2 DEF Starts, Handshake
<1>4. \A q \in Turns : q # p => turn'[q] = turn[q]
  BY <1>1, <1>2 DEF Handshake
<1>5. \E c \in Conns :
            /\ Free(c)
            /\ phase' = [phase EXCEPT ![c] = "opening"]
            /\ tenant' = [tenant EXCEPT ![c] = Scope[p]]
            /\ timeouts' = [timeouts EXCEPT ![c] = 0]
            /\ turn'[p].at \in {"opening", "reopening"}
            /\ turn'[p].conn = c
  <2>1. PICK c \in Conns :
            /\ Free(c)
            /\ phase' = [phase EXCEPT ![c] = "opening"]
            /\ tenant' = [tenant EXCEPT ![c] = Scope[p]]
            /\ timeouts' = [timeouts EXCEPT ![c] = 0]
            /\ turn' = [turn EXCEPT ![p] = [at |-> place, op |-> o, conn |-> c]]
    BY <1>2, Zenon DEF Handshake
  <2>2. turn'[p].at = place /\ turn'[p].conn = c
    BY <1>1, <2>1
  <2> QED
    BY <2>1, <2>2, Zenon
<1>6. \/ UNCHANGED <<registry, closers>>
      \/ /\ registry' = [registry EXCEPT ![Scope[p]] = NoConn]
         /\ closers' = closers \cup ({registry[Scope[p]]} \ {NoConn})
  <2>1. CASE UNCHANGED <<regVars, closers>>
    BY <2>1 DEF regVars
  <2>2. CASE Unregister(Scope[p]) /\ registry[Scope[p]] = NoConn /\ UNCHANGED closers
    BY <2>2 DEF Unregister, Register
  <2>3. CASE Unregister(Scope[p]) /\ registry[Scope[p]] # NoConn
             /\ CloseDetached(registry[Scope[p]])
    BY <2>3 DEF Unregister, Register, CloseDetached
  <2> QED
    BY <2>1, <2>2, <2>3 DEF Starts
<1>7. turn[p].at \in {"idle", "stale", "using"}
  BY DEF Starts
<1> QED
  BY <1>3, <1>4, <1>5, <1>6, <1>7, Zenon

\* What Publishes makes of the registry: p's connection is published, or it loses
\* the race and goes to be closed.
LEMMA PublishFrame ==
  ASSUME TypeInv, NEW p \in Turns, Publishes(p)
  PROVE  /\ Scope[p] \in Tenants
         /\ turn[p].conn \in Conns
         /\ phase[turn[p].conn] = "open"
         /\ turn[p].at \in {"opening", "reopening"}
         /\ UNCHANGED <<connVars, quarantines, gcStale>>
         /\ \/ /\ registry[Scope[p]] = NoConn
               /\ registry' = [registry EXCEPT ![Scope[p]] = turn[p].conn]
               /\ UNCHANGED closers
            \/ /\ registry[Scope[p]] \in Conns
               /\ UNCHANGED registry
               /\ closers' = closers \cup {turn[p].conn}
  BY ScopeAssumption
  DEF TypeInv, TypeOK, Turn, Shape, Waiting, Publishes, Publish, Register, CloseDetached,
      regVars

\* What DropIdle touches: p's turn, the slot of its scope and the connection in it.
LEMMA DropIdleFrame ==
  ASSUME TypeInv, NEW p \in Turns, NEW o, DropIdle(p, o)
  PROVE  /\ Scope[p] \in Tenants
         /\ registry[Scope[p]] \in Conns
         /\ turn'[p].at = "stale" /\ turn'[p].conn = NoConn
         /\ \A q \in Turns : q # p => turn'[q] = turn[q]
         /\ registry' = [registry EXCEPT ![Scope[p]] = NoConn]
         /\ closing' = [closing EXCEPT ![registry[Scope[p]]] =
                                            phase[registry[Scope[p]]] # "dead"]
         /\ UNCHANGED <<phase, tenant, timeouts, closers, quarantines, gcStale>>
  BY ScopeAssumption
  DEF TypeInv, TypeOK, DropIdle, Unregister, Register, RequestClose, taskVars

\* What CallTimesOut touches: p's turn and the counts of the connection it used.
LEMMA TimeoutFrame ==
  ASSUME TypeInv, NEW p \in Turns, CallTimesOut(p)
  PROVE  /\ turn[p].at \in {"using", "retrying"}
         /\ turn[p].conn \in Conns
         /\ turn'[p].at = "idle" /\ turn'[p].conn = NoConn
         /\ \A q \in Turns : q # p => turn'[q] = turn[q]
         /\ \A c \in Conns : c # turn[p].conn =>
              timeouts'[c] = timeouts[c] /\ quarantines'[c] = quarantines[c]
         /\ quarantines'[turn[p].conn] >= quarantines[turn[p].conn]
         /\ timeouts'[turn[p].conn] = ZombieTimeouts => quarantines'[turn[p].conn] > 0
         /\ UNCHANGED <<registry, phase, tenant, closing, closers, gcStale>>
  BY BoundAssumption
  DEF TypeInv, TypeOK, Turn, Shape, Waiting, AtRest, CallTimesOut, Calling, Return, regVars

\* What UseCached touches: p's turn, which takes the connection of its scope.
LEMMA UseCachedFrame ==
  ASSUME TypeInv, NEW p \in Turns, NEW o, UseCached(p, o)
  PROVE  /\ Scope[p] \in Tenants
         /\ registry[Scope[p]] \in Conns
         /\ turn[p].at = "idle"
         /\ turn'[p].at = "using" /\ turn'[p].conn = registry[Scope[p]]
         /\ \A q \in Turns : q # p => turn'[q] = turn[q]
         /\ UNCHANGED <<registry, connVars, taskVars>>
  BY ScopeAssumption DEF TypeInv, TypeOK, UseCached, regVars

\* No other turn refers to the connection a turn is still opening.
LEMMA OpenersOwnStep ==
  ASSUME IInv, [Next]_vars
  PROVE  OpenersOwn'
<1> USE DEF IInv, TypeInv, TypeOK, Turn, Registered
<1>1. CASE BreakerOnly
  BY <1>1 DEF OpenersOwn, BreakerOnly, regVars, connVars, taskVars
<1>2. ASSUME NEW p \in Turns, Ends(p) PROVE OpenersOwn'
  <2>1. /\ \A q \in Turns : q # p => turn'[q] = turn[q]
        /\ turn'[p].at = "idle" /\ turn'[p].conn = NoConn
    BY <1>2 DEF Ends, Return, AtRest
  <2>2. \A c \in Conns : timeouts[c] = 0 => timeouts'[c] = 0
    BY <1>2, BoundAssumption DEF Ends
  <2>3. UNCHANGED <<registry, tenant, closing, closers, quarantines, gcStale>>
    BY <1>2 DEF Ends, taskVars
  <2> QED
    BY <2>1, <2>2, <2>3, NoConnAssumption DEF OpenersOwn, Shape, Waiting
<1>3. ASSUME NEW p \in Turns, Abandons(p) PROVE OpenersOwn'
  <2>1. turn[p].conn \in Conns
    BY <1>3 DEF Abandons, Shape, Waiting
  <2> QED
    BY <1>3, <2>1, NoConnAssumption
    DEF OpenersOwn, Shape, Waiting, Abandons, Return, AtRest, CloseDetached, regVars, connVars
<1>4. ASSUME NEW p \in Turns, Starts(p) PROVE OpenersOwn'
  <2>1. PICK c \in Conns :
          /\ Free(c)
          /\ tenant' = [tenant EXCEPT ![c] = Scope[p]]
          /\ timeouts' = [timeouts EXCEPT ![c] = 0]
          /\ turn'[p].conn = c
    BY <1>4, StartsFresh
  <2>2. registry[Scope[p]] # c /\ \A t \in Tenants : registry'[t] \in {registry[t], NoConn}
    BY <1>4, <2>1, StartsFresh, ScopeAssumption DEF Free
  <2>3. c \notin closers' \cup gcStale' /\ quarantines'[c] = 0 /\ ~closing'[c]
    BY <1>4, <2>1, <2>2, StartsFresh DEF Free, ClosingAlive
  <2>4. ASSUME NEW q \in Turns, q # p, turn[q].at \in {"opening", "reopening"}
        PROVE  turn[q].conn \in Conns \ {c} /\ registry[Scope[p]] # turn[q].conn
    BY <2>1, <2>4, ScopeAssumption DEF Free, OpenersOwn, Shape, Waiting
  <2>5. ASSUME NEW q \in Turns, q # p, turn'[q].at \in {"opening", "reopening"}
        PROVE  LET d == turn'[q].conn IN
               /\ turn'[q] = turn[q]
               /\ d \in Conns \ {c}
               /\ tenant'[d] = Scope[q]
               /\ ~closing'[d]
               /\ timeouts'[d] = 0
               /\ quarantines'[d] = 0
               /\ \A t \in Tenants : registry'[t] # d
               /\ d \notin closers' \cup gcStale'
               /\ \A r \in Turns : r # q => turn'[r].conn # d
    <3>1. turn'[q] = turn[q]
      BY <1>4, <2>5, StartsFresh
    <3>2. turn[q].conn \in Conns \ {c} /\ registry[Scope[p]] # turn[q].conn
      BY <2>4, <2>5, <3>1
    <3>3. \A r \in Turns : r # q => turn'[r].conn # turn[q].conn
      BY <1>4, <2>1, <2>5, <3>1, <3>2, StartsFresh DEF OpenersOwn
    <3>4. closers' \subseteq closers \cup {registry[Scope[p]]}
      BY <1>4, StartsFresh
    <3>5. UNCHANGED <<closing, quarantines, gcStale>>
      BY <1>4, StartsFresh
    <3>6. /\ tenant'[turn[q].conn] = tenant[turn[q].conn]
          /\ timeouts'[turn[q].conn] = timeouts[turn[q].conn]
      BY <2>1, <3>2
    <3> QED
      BY <2>2, <2>5, <3>1, <3>2, <3>3, <3>4, <3>5, <3>6, NoConnAssumption DEF OpenersOwn
  <2>6. /\ tenant'[c] = Scope[p]
        /\ timeouts'[c] = 0
        /\ \A t \in Tenants : registry'[t] # c
        /\ \A r \in Turns : r # p => turn'[r].conn # c
    BY <1>4, <2>1, <2>2, StartsFresh, BoundAssumption, NoConnAssumption DEF Free
  <2> QED
    BY SMTT(60), <2>1, <2>3, <2>5, <2>6 DEF OpenersOwn
<1>5. ASSUME NEW p \in Turns, Publishes(p) PROVE OpenersOwn'
  BY <1>5, PublishFrame, PublishTurn, NoConnAssumption
  DEF OpenersOwn, Shape, Waiting, AtRest, connVars
<1>6. ASSUME NEW p \in Turns, CallTimesOut(p) PROVE OpenersOwn'
  BY <1>6, TimeoutFrame, NoConnAssumption DEF OpenersOwn, Shape, Waiting
<1>7. ASSUME NEW p \in Turns, NEW o \in {"list", "call", "peek"}, UseCached(p, o)
      PROVE  OpenersOwn'
  BY ZenonT(60), <1>7, ScopeAssumption
  DEF OpenersOwn, UseCached, regVars, connVars, taskVars
<1>8. ASSUME NEW p \in Turns, NEW o \in {"list", "call", "peek"}, DropIdle(p, o)
      PROVE  OpenersOwn'
  BY <1>8, DropIdleFrame, NoConnAssumption DEF OpenersOwn, Shape, Waiting
<1>9. ASSUME NEW c \in Conns, HandshakeDone(c) \/ Exits(c) PROVE OpenersOwn'
  BY <1>9 DEF OpenersOwn, Shape, Waiting, HandshakeDone, Exits, SessionOver, regVars, taskVars
<1>10. ASSUME NEW c \in Conns, RunCloser(c) \/ GcClose(c) PROVE OpenersOwn'
  BY <1>10 DEF OpenersOwn, Shape, Waiting, RunCloser, GcClose, RequestClose, regVars
<1>11. ASSUME NEW c \in Conns, RunQuarantine(c) PROVE OpenersOwn'
  BY <1>11, NoConnAssumption
  DEF OpenersOwn, Shape, Waiting, RunQuarantine, RequestClose, TakeOut
<1>12. CASE GcSweep
  BY <1>12, NoConnAssumption DEF OpenersOwn, Shape, Waiting, GcSweep, TakeOut, connVars
<1>13. ASSUME NEW t \in Tenants, Age(t) PROVE OpenersOwn'
  BY <1>13 DEF OpenersOwn, Age, connVars, taskVars
<1> QED
  BY <1>1, <1>2, <1>3, <1>4, <1>5, <1>6, <1>7, <1>8, <1>9, <1>10, <1>11, <1>12,
     <1>13, NextEffect
  DEF Effect

-----------------------------------------------------------------------------
(* The rest of the inductive invariant, one conjunct at a time *)

\* A close event that is pending always has a live owner to see it.
LEMMA ClosingAliveStep ==
  ASSUME IInv, [Next]_vars
  PROVE  ClosingAlive'
<1> USE DEF IInv, TypeInv, TypeOK, Turn, Shape, Waiting, Registered, Openers, Users, Live
<1>1. CASE BreakerOnly
  BY <1>1 DEF ClosingAlive, BreakerOnly, regVars, connVars, taskVars
<1>2. ASSUME NEW p \in Turns, Ends(p) PROVE ClosingAlive'
  BY <1>2, NoConnAssumption, BoundAssumption
  DEF ClosingAlive, Ends, Return, AtRest, Touch, taskVars
<1>3. ASSUME NEW p \in Turns, Abandons(p) PROVE ClosingAlive'
  BY <1>3, NoConnAssumption
  DEF ClosingAlive, OpenersOwn, Abandons, Return, AtRest, CloseDetached, regVars, connVars
<1>4. ASSUME NEW p \in Turns, Starts(p) PROVE ClosingAlive'
  BY <1>4, StartsFresh, ScopeAssumption, NoConnAssumption, BoundAssumption
  DEF ClosingAlive, Free, ClosingAlive, RegisteredUsable
<1>5. ASSUME NEW p \in Turns, Publishes(p) PROVE ClosingAlive'
  BY <1>5, PublishFrame, PublishTurn, NoConnAssumption, BoundAssumption
  DEF ClosingAlive, OpenersOwn, RegisteredUsable, AtRest, connVars
<1>6. ASSUME NEW p \in Turns, CallTimesOut(p) PROVE ClosingAlive'
  BY <1>6, TimeoutFrame, NoConnAssumption DEF ClosingAlive
<1>7. ASSUME NEW p \in Turns, NEW o \in {"list", "call", "peek"}, UseCached(p, o)
      PROVE  ClosingAlive'
  BY <1>7, UseCachedFrame, NoConnAssumption
  DEF ClosingAlive, RegisteredUsable, connVars, taskVars
<1>8. ASSUME NEW p \in Turns, NEW o \in {"list", "call", "peek"}, DropIdle(p, o)
      PROVE  ClosingAlive'
  BY <1>8, DropIdleFrame, NoConnAssumption DEF ClosingAlive, RegisteredUsable
<1>9. ASSUME NEW c \in Conns, HandshakeDone(c) \/ Exits(c) PROVE ClosingAlive'
  BY <1>9 DEF ClosingAlive, HandshakeDone, Exits, SessionOver, regVars, taskVars
<1>10. ASSUME NEW c \in Conns, RunCloser(c) \/ GcClose(c) PROVE ClosingAlive'
  BY <1>10 DEF ClosingAlive, RegisteredUsable, RunCloser, GcClose, RequestClose, regVars
<1>11. ASSUME NEW c \in Conns, RunQuarantine(c) PROVE ClosingAlive'
  BY <1>11, NoConnAssumption DEF ClosingAlive, RunQuarantine, RequestClose, TakeOut
<1>12. CASE GcSweep
  BY <1>12, NoConnAssumption
  DEF ClosingAlive, RegisteredUsable, TenantIsolation, AgeIsIdle, GcSweep, TakeOut, connVars
<1>13. ASSUME NEW t \in Tenants, Age(t) PROVE ClosingAlive'
  BY <1>13 DEF ClosingAlive, Age, connVars, taskVars
<1> QED
  BY <1>1, <1>2, <1>3, <1>4, <1>5, <1>6, <1>7, <1>8, <1>9, <1>10, <1>11, <1>12,
     <1>13, NextEffect
  DEF Effect

\* The registry keeps handing out open connections of the right scope.
LEMMA UsableStep ==
  ASSUME IInv, [Next]_vars
  PROVE  RegisteredUsable'
<1> USE DEF IInv, TypeInv, TypeOK, Turn, Shape, Waiting, Registered, Openers, Users, Live
<1>1. CASE BreakerOnly
  BY <1>1 DEF RegisteredUsable, BreakerOnly, regVars, connVars, taskVars
<1>2. ASSUME NEW p \in Turns, Ends(p) PROVE RegisteredUsable'
  BY <1>2, NoConnAssumption, BoundAssumption
  DEF RegisteredUsable, Ends, Return, AtRest, Touch, taskVars
<1>3. ASSUME NEW p \in Turns, Abandons(p) PROVE RegisteredUsable'
  BY <1>3, NoConnAssumption
  DEF RegisteredUsable, OpenersOwn, Abandons, Return, AtRest, CloseDetached, regVars, connVars
<1>4. ASSUME NEW p \in Turns, Starts(p) PROVE RegisteredUsable'
  BY <1>4, StartsFresh, ScopeAssumption, NoConnAssumption, BoundAssumption
  DEF RegisteredUsable, Free, ClosingAlive, RegisteredUsable
<1>5. ASSUME NEW p \in Turns, Publishes(p) PROVE RegisteredUsable'
  BY <1>5, PublishFrame, PublishTurn, NoConnAssumption, BoundAssumption
  DEF RegisteredUsable, OpenersOwn, RegisteredUsable, AtRest, connVars
<1>6. ASSUME NEW p \in Turns, CallTimesOut(p) PROVE RegisteredUsable'
  BY <1>6, TimeoutFrame, NoConnAssumption DEF RegisteredUsable
<1>7. ASSUME NEW p \in Turns, NEW o \in {"list", "call", "peek"}, UseCached(p, o)
      PROVE  RegisteredUsable'
  BY <1>7, UseCachedFrame, NoConnAssumption
  DEF RegisteredUsable, connVars, taskVars
<1>8. ASSUME NEW p \in Turns, NEW o \in {"list", "call", "peek"}, DropIdle(p, o)
      PROVE  RegisteredUsable'
  BY <1>8, DropIdleFrame, NoConnAssumption DEF RegisteredUsable, RegisteredUsable
<1>9. ASSUME NEW c \in Conns, HandshakeDone(c) \/ Exits(c) PROVE RegisteredUsable'
  BY <1>9 DEF RegisteredUsable, HandshakeDone, Exits, SessionOver, regVars, taskVars
<1>10. ASSUME NEW c \in Conns, RunCloser(c) \/ GcClose(c) PROVE RegisteredUsable'
  BY <1>10 DEF RegisteredUsable, RunCloser, GcClose, RequestClose, regVars
<1>11. ASSUME NEW c \in Conns, RunQuarantine(c) PROVE RegisteredUsable'
  BY <1>11, NoConnAssumption DEF RegisteredUsable, RunQuarantine, RequestClose, TakeOut
<1>12. CASE GcSweep
  BY <1>12, NoConnAssumption
  DEF RegisteredUsable, TenantIsolation, AgeIsIdle, GcSweep, TakeOut, connVars
<1>13. ASSUME NEW t \in Tenants, Age(t) PROVE RegisteredUsable'
  BY <1>13 DEF RegisteredUsable, Age, connVars, taskVars
<1> QED
  BY <1>1, <1>2, <1>3, <1>4, <1>5, <1>6, <1>7, <1>8, <1>9, <1>10, <1>11, <1>12,
     <1>13, NextEffect
  DEF Effect

\* The turns keep speaking over connections of their own scope.
LEMMA IsolationStep ==
  ASSUME IInv, [Next]_vars
  PROVE  TenantIsolation'
<1> USE DEF IInv, TypeInv, TypeOK, Turn, Shape, Waiting, Registered, Openers, Users, Live
<1>1. CASE BreakerOnly
  BY <1>1 DEF TenantIsolation, BreakerOnly, regVars, connVars, taskVars
<1>2. ASSUME NEW p \in Turns, Ends(p) PROVE TenantIsolation'
  BY <1>2, NoConnAssumption, BoundAssumption
  DEF TenantIsolation, Ends, Return, AtRest, Touch, taskVars
<1>3. ASSUME NEW p \in Turns, Abandons(p) PROVE TenantIsolation'
  BY <1>3, NoConnAssumption
  DEF TenantIsolation, OpenersOwn, Abandons, Return, AtRest, CloseDetached, regVars, connVars
<1>4. ASSUME NEW p \in Turns, Starts(p) PROVE TenantIsolation'
  BY <1>4, StartsFresh, ScopeAssumption, NoConnAssumption, BoundAssumption
  DEF TenantIsolation, Free, ClosingAlive, RegisteredUsable
<1>5. ASSUME NEW p \in Turns, Publishes(p) PROVE TenantIsolation'
  BY <1>5, PublishFrame, PublishTurn, NoConnAssumption, BoundAssumption
  DEF TenantIsolation, OpenersOwn, RegisteredUsable, AtRest, connVars
<1>6. ASSUME NEW p \in Turns, CallTimesOut(p) PROVE TenantIsolation'
  BY <1>6, TimeoutFrame, NoConnAssumption DEF TenantIsolation
<1>7. ASSUME NEW p \in Turns, NEW o \in {"list", "call", "peek"}, UseCached(p, o)
      PROVE  TenantIsolation'
  BY <1>7, UseCachedFrame, NoConnAssumption
  DEF TenantIsolation, RegisteredUsable, connVars, taskVars
<1>8. ASSUME NEW p \in Turns, NEW o \in {"list", "call", "peek"}, DropIdle(p, o)
      PROVE  TenantIsolation'
  BY <1>8, DropIdleFrame, NoConnAssumption DEF TenantIsolation, RegisteredUsable
<1>9. ASSUME NEW c \in Conns, HandshakeDone(c) \/ Exits(c) PROVE TenantIsolation'
  BY <1>9 DEF TenantIsolation, HandshakeDone, Exits, SessionOver, regVars, taskVars
<1>10. ASSUME NEW c \in Conns, RunCloser(c) \/ GcClose(c) PROVE TenantIsolation'
  BY <1>10 DEF TenantIsolation, RegisteredUsable, RunCloser, GcClose, RequestClose, regVars
<1>11. ASSUME NEW c \in Conns, RunQuarantine(c) PROVE TenantIsolation'
  BY <1>11, NoConnAssumption DEF TenantIsolation, RunQuarantine, RequestClose, TakeOut
<1>12. CASE GcSweep
  BY <1>12, NoConnAssumption
  DEF TenantIsolation, RegisteredUsable, TenantIsolation, AgeIsIdle, GcSweep, TakeOut, connVars
<1>13. ASSUME NEW t \in Tenants, Age(t) PROVE TenantIsolation'
  BY <1>13 DEF TenantIsolation, Age, connVars, taskVars
<1> QED
  BY <1>1, <1>2, <1>3, <1>4, <1>5, <1>6, <1>7, <1>8, <1>9, <1>10, <1>11, <1>12,
     <1>13, NextEffect
  DEF Effect

\* No step strands a live connection.
LEMMA NoOrphanStep ==
  ASSUME IInv, [Next]_vars
  PROVE  NoOrphan'
<1> USE DEF IInv, TypeInv, TypeOK, Turn, Shape, Waiting, Registered, Openers, Users, Live
<1>1. CASE BreakerOnly
  BY <1>1 DEF NoOrphan, BreakerOnly, regVars, connVars, taskVars
<1>2. ASSUME NEW p \in Turns, Ends(p) PROVE NoOrphan'
  BY <1>2, NoConnAssumption, BoundAssumption
  DEF NoOrphan, Ends, Return, AtRest, Touch, taskVars
<1>3. ASSUME NEW p \in Turns, Abandons(p) PROVE NoOrphan'
  BY <1>3, NoConnAssumption
  DEF NoOrphan, OpenersOwn, Abandons, Return, AtRest, CloseDetached, regVars, connVars
<1>4. ASSUME NEW p \in Turns, Starts(p) PROVE NoOrphan'
  <2> SUFFICES ASSUME NEW d \in Conns, Live(d)'
               PROVE  (Registered(d) \/ Openers(d) # {} \/ d \in closers \cup gcStale)'
    BY DEF NoOrphan
  <2>1. PICK c \in Conns :
          /\ phase' = [phase EXCEPT ![c] = "opening"]
          /\ turn'[p].at \in {"opening", "reopening"}
          /\ turn'[p].conn = c
    BY <1>4, StartsFresh
  <2>2. CASE d = c
    BY <2>1, <2>2
  <2>3. CASE d # c
    <3>1. Live(d)
      BY <1>4, <2>1, <2>3, StartsFresh
    <3>2. CASE Registered(d)
      BY <1>4, <3>2, StartsFresh, ScopeAssumption, NoConnAssumption
    <3>3. ASSUME NEW q \in Openers(d) PROVE q \in Openers(d)'
      BY <1>4, <3>3, StartsFresh
    <3> QED
      BY <1>4, <3>1, <3>2, <3>3, StartsFresh DEF NoOrphan
  <2> QED
    BY <2>2, <2>3
<1>5. ASSUME NEW p \in Turns, Publishes(p) PROVE NoOrphan'
  <2> SUFFICES ASSUME NEW d \in Conns, Live(d)'
               PROVE  (Registered(d) \/ Openers(d) # {} \/ d \in closers \cup gcStale)'
    BY DEF NoOrphan
  <2>1. CASE d = turn[p].conn
    BY <1>5, <2>1, PublishFrame
  <2>2. CASE d # turn[p].conn
    <3>1. Live(d)
      BY <1>5, PublishFrame DEF connVars
    <3>2. CASE Registered(d)
      BY <1>5, <3>2, PublishFrame, NoConnAssumption
    <3>3. ASSUME NEW q \in Openers(d) PROVE q \in Openers(d)'
      BY <1>5, <2>2, <3>3, PublishTurn
    <3> QED
      BY <1>5, <3>1, <3>2, <3>3, PublishFrame DEF NoOrphan
  <2> QED
    BY <2>1, <2>2
<1>6. ASSUME NEW p \in Turns, CallTimesOut(p) PROVE NoOrphan'
  BY <1>6, TimeoutFrame, NoConnAssumption DEF NoOrphan
<1>7. ASSUME NEW p \in Turns, NEW o \in {"list", "call", "peek"}, UseCached(p, o)
      PROVE  NoOrphan'
  BY <1>7, UseCachedFrame, NoConnAssumption
  DEF NoOrphan, RegisteredUsable, connVars, taskVars
<1>8. ASSUME NEW p \in Turns, NEW o \in {"list", "call", "peek"}, DropIdle(p, o)
      PROVE  NoOrphan'
  <2> SUFFICES ASSUME NEW d \in Conns, Live(d)'
               PROVE  (Registered(d) \/ Openers(d) # {} \/ d \in closers \cup gcStale)'
    BY DEF NoOrphan
  <2>1. d # registry[Scope[p]] /\ Live(d)
    BY ZenonT(60), <1>8, DropIdleFrame
  <2>2. CASE Registered(d)
    BY <1>8, <2>1, <2>2, DropIdleFrame
  <2>3. ASSUME NEW q \in Openers(d) PROVE q \in Openers(d)'
    BY <1>8, <2>3, DropIdleFrame DEF DropIdle
  <2> QED
    BY <1>8, <2>1, <2>2, <2>3, DropIdleFrame DEF NoOrphan
<1>9. ASSUME NEW c \in Conns, HandshakeDone(c) \/ Exits(c) PROVE NoOrphan'
  BY <1>9 DEF NoOrphan, HandshakeDone, Exits, SessionOver, regVars, taskVars
<1>10. ASSUME NEW c \in Conns, RunCloser(c) \/ GcClose(c) PROVE NoOrphan'
  <2> SUFFICES ASSUME NEW d \in Conns, Live(d)'
               PROVE  (Registered(d) \/ Openers(d) # {} \/ d \in closers \cup gcStale)'
    BY DEF NoOrphan
  <2>1. d # c /\ Live(d)
    BY <1>10 DEF RunCloser, GcClose, RequestClose
  <2> QED
    BY <1>10, <2>1 DEF NoOrphan, RunCloser, GcClose, regVars
<1>11. ASSUME NEW c \in Conns, RunQuarantine(c) PROVE NoOrphan'
  BY <1>11, NoConnAssumption DEF NoOrphan, RunQuarantine, RequestClose, TakeOut
<1>12. CASE GcSweep
  BY <1>12, NoConnAssumption
  DEF NoOrphan, RegisteredUsable, TenantIsolation, AgeIsIdle, GcSweep, TakeOut, connVars
<1>13. ASSUME NEW t \in Tenants, Age(t) PROVE NoOrphan'
  BY <1>13 DEF NoOrphan, Age, connVars, taskVars
<1> QED
  BY <1>1, <1>2, <1>3, <1>4, <1>5, <1>6, <1>7, <1>8, <1>9, <1>10, <1>11, <1>12,
     <1>13, NextEffect
  DEF Effect

\* A connection that timed out too often has a quarantine task to come.
LEMMA ZombieStep ==
  ASSUME IInv, [Next]_vars
  PROVE  ZombieQuarantined'
<1> USE DEF IInv, TypeInv, TypeOK, Turn, Shape, Waiting, Registered, Openers, Users, Live
<1>1. CASE BreakerOnly
  BY <1>1 DEF ZombieQuarantined, BreakerOnly, regVars, connVars, taskVars
<1>2. ASSUME NEW p \in Turns, Ends(p) PROVE ZombieQuarantined'
  BY <1>2, NoConnAssumption, BoundAssumption
  DEF ZombieQuarantined, Ends, Return, AtRest, Touch, taskVars
<1>3. ASSUME NEW p \in Turns, Abandons(p) PROVE ZombieQuarantined'
  BY <1>3, NoConnAssumption
  DEF ZombieQuarantined, OpenersOwn, Abandons, Return, AtRest, CloseDetached, regVars, connVars
<1>4. ASSUME NEW p \in Turns, Starts(p) PROVE ZombieQuarantined'
  BY <1>4, StartsFresh, ScopeAssumption, NoConnAssumption, BoundAssumption
  DEF ZombieQuarantined, Free, ClosingAlive, RegisteredUsable
<1>5. ASSUME NEW p \in Turns, Publishes(p) PROVE ZombieQuarantined'
  BY <1>5, PublishFrame, PublishTurn, NoConnAssumption, BoundAssumption
  DEF ZombieQuarantined, OpenersOwn, RegisteredUsable, AtRest, connVars
<1>6. ASSUME NEW p \in Turns, CallTimesOut(p) PROVE ZombieQuarantined'
  BY <1>6, TimeoutFrame, NoConnAssumption DEF ZombieQuarantined
<1>7. ASSUME NEW p \in Turns, NEW o \in {"list", "call", "peek"}, UseCached(p, o)
      PROVE  ZombieQuarantined'
  BY <1>7, UseCachedFrame, NoConnAssumption
  DEF ZombieQuarantined, RegisteredUsable, connVars, taskVars
<1>8. ASSUME NEW p \in Turns, NEW o \in {"list", "call", "peek"}, DropIdle(p, o)
      PROVE  ZombieQuarantined'
  BY <1>8, DropIdleFrame, NoConnAssumption DEF ZombieQuarantined, RegisteredUsable
<1>9. ASSUME NEW c \in Conns, HandshakeDone(c) \/ Exits(c) PROVE ZombieQuarantined'
  BY <1>9 DEF ZombieQuarantined, HandshakeDone, Exits, SessionOver, regVars, taskVars
<1>10. ASSUME NEW c \in Conns, RunCloser(c) \/ GcClose(c) PROVE ZombieQuarantined'
  BY <1>10 DEF ZombieQuarantined, RegisteredUsable, RunCloser, GcClose, RequestClose, regVars
<1>11. ASSUME NEW c \in Conns, RunQuarantine(c) PROVE ZombieQuarantined'
  BY <1>11, NoConnAssumption DEF ZombieQuarantined, RunQuarantine, RequestClose, TakeOut
<1>12. CASE GcSweep
  BY <1>12, NoConnAssumption
  DEF ZombieQuarantined, RegisteredUsable, TenantIsolation, AgeIsIdle, GcSweep, TakeOut,
      connVars
<1>13. ASSUME NEW t \in Tenants, Age(t) PROVE ZombieQuarantined'
  BY <1>13 DEF ZombieQuarantined, Age, connVars, taskVars
<1> QED
  BY <1>1, <1>2, <1>3, <1>4, <1>5, <1>6, <1>7, <1>8, <1>9, <1>10, <1>11, <1>12,
     <1>13, NextEffect
  DEF Effect

\* The collector takes no connection from under a request.
LEMMA SparedStep ==
  ASSUME IInv, [Next]_vars
  PROVE  GcSparesUsers'
<1> USE DEF IInv, TypeInv, TypeOK, Turn, Shape, Waiting, Registered, Openers, Users, Live
<1>1. CASE BreakerOnly
  BY <1>1 DEF GcSparesUsers, BreakerOnly, regVars, connVars, taskVars
<1>2. ASSUME NEW p \in Turns, Ends(p) PROVE GcSparesUsers'
  BY <1>2, NoConnAssumption, BoundAssumption
  DEF GcSparesUsers, Ends, Return, AtRest, Touch, taskVars
<1>3. ASSUME NEW p \in Turns, Abandons(p) PROVE GcSparesUsers'
  BY <1>3, NoConnAssumption
  DEF GcSparesUsers, OpenersOwn, Abandons, Return, AtRest, CloseDetached, regVars, connVars
<1>4. ASSUME NEW p \in Turns, Starts(p) PROVE GcSparesUsers'
  BY <1>4, StartsFresh, ScopeAssumption, NoConnAssumption, BoundAssumption
  DEF GcSparesUsers, Free, ClosingAlive, RegisteredUsable
<1>5. ASSUME NEW p \in Turns, Publishes(p) PROVE GcSparesUsers'
  BY <1>5, PublishFrame, PublishTurn, NoConnAssumption, BoundAssumption
  DEF GcSparesUsers, OpenersOwn, RegisteredUsable, AtRest, connVars
<1>6. ASSUME NEW p \in Turns, CallTimesOut(p) PROVE GcSparesUsers'
  BY <1>6, TimeoutFrame, NoConnAssumption DEF GcSparesUsers
<1>7. ASSUME NEW p \in Turns, NEW o \in {"list", "call", "peek"}, UseCached(p, o)
      PROVE  GcSparesUsers'
  BY <1>7, UseCachedFrame, NoConnAssumption
  DEF GcSparesUsers, RegisteredUsable, connVars, taskVars
<1>8. ASSUME NEW p \in Turns, NEW o \in {"list", "call", "peek"}, DropIdle(p, o)
      PROVE  GcSparesUsers'
  BY <1>8, DropIdleFrame, NoConnAssumption DEF GcSparesUsers, RegisteredUsable
<1>9. ASSUME NEW c \in Conns, HandshakeDone(c) \/ Exits(c) PROVE GcSparesUsers'
  BY <1>9 DEF GcSparesUsers, HandshakeDone, Exits, SessionOver, regVars, taskVars
<1>10. ASSUME NEW c \in Conns, RunCloser(c) \/ GcClose(c) PROVE GcSparesUsers'
  BY <1>10 DEF GcSparesUsers, RegisteredUsable, RunCloser, GcClose, RequestClose, regVars
<1>11. ASSUME NEW c \in Conns, RunQuarantine(c) PROVE GcSparesUsers'
  BY <1>11, NoConnAssumption DEF GcSparesUsers, RunQuarantine, RequestClose, TakeOut
<1>12. CASE GcSweep
  BY <1>12, NoConnAssumption
  DEF GcSparesUsers, RegisteredUsable, TenantIsolation, AgeIsIdle, GcSweep, TakeOut, connVars
<1>13. ASSUME NEW t \in Tenants, Age(t) PROVE GcSparesUsers'
  BY <1>13 DEF GcSparesUsers, Age, connVars, taskVars
<1> QED
  BY <1>1, <1>2, <1>3, <1>4, <1>5, <1>6, <1>7, <1>8, <1>9, <1>10, <1>11, <1>12,
     <1>13, NextEffect
  DEF Effect

-----------------------------------------------------------------------------
(* The theorems *)

\* The initial state satisfies the inductive invariant.
LEMMA InitIInv == Init => IInv
<1> SUFFICES ASSUME Init PROVE IInv
  OBVIOUS
<1>1. TypeInv
  BY InitTypeInv
<1>2. OpenersOwn /\ ClosingAlive /\ NoOrphan /\ GcSparesUsers
  BY DEF Init, OpenersOwn, ClosingAlive, NoOrphan, Live, GcSparesUsers, AtRest
<1>3. RegisteredUsable /\ TenantIsolation /\ ZombieQuarantined
  BY BoundAssumption, NoConnAssumption
  DEF Init, RegisteredUsable, TenantIsolation, ZombieQuarantined, Registered, AtRest
<1> QED
  BY <1>1, <1>2, <1>3 DEF IInv

\* The inductive invariant behind the theorems below: above all, a connection whose
\* handshake _open_connection awaits is known to the turn that awaits it only.
THEOREM Inductive == Spec => []IInv
<1>1. IInv /\ [Next]_vars => IInv'
  <2> SUFFICES ASSUME IInv, [Next]_vars PROVE IInv'
    OBVIOUS
  <2>1. TypeInv'
    BY TypeStep, ShapeStep, AgeStep DEF IInv, TypeInv
  <2> QED
    BY <2>1, OpenersOwnStep, ClosingAliveStep, UsableStep, IsolationStep, NoOrphanStep,
       ZombieStep, SparedStep
    DEF IInv
<1> QED
  BY <1>1, InitIInv, PTL DEF Spec

\* No cancellation, lost race, failed handshake, quarantine or sweep of
\* agent/mcp_client.py ever strands a live session.
THEOREM NoSessionLeaks == Spec => []NoOrphan
<1>1. IInv => NoOrphan
  BY DEF IInv
<1> QED
  BY <1>1, Inductive, PTL

\* What _get_connection finds in the registry is an open connection of the right
\* scope that nobody has decided to close.
THEOREM RegistryIsUsable == Spec => []RegisteredUsable
<1>1. IInv => RegisteredUsable
  BY DEF IInv
<1> QED
  BY <1>1, Inductive, PTL

\* No turn ever speaks over a session of another tenant scope.
THEOREM TenantsAreIsolated == Spec => []TenantIsolation
<1>1. IInv => TenantIsolation
  BY DEF IInv
<1> QED
  BY <1>1, Inductive, PTL

\* A connection whose calls keep timing out never stays in the registry without a
\* quarantine on its way.
THEOREM ZombiesAreQuarantined == Spec => []ZombieQuarantined
<1>1. IInv => ZombieQuarantined
  BY DEF IInv
<1> QED
  BY <1>1, Inductive, PTL

\* _cleanup_stale_connections never closes a connection under a request.
THEOREM GcIsHarmless == Spec => []GcSparesUsers
<1>1. IInv => GcSparesUsers
  BY DEF IInv
<1> QED
  BY <1>1, Inductive, PTL

=============================================================================
