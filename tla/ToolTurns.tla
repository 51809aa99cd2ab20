------------------------------ MODULE ToolTurns ------------------------------
(***************************************************************************)
(* Turns of layer L1: the calls a turn of the agent would make, replayed    *)
(* over MCP (driver.py over transport.py).  A session is one connection and *)
(* one id the gateway gave it; when the gateway has forgotten the id it      *)
(* answers 404, and the transport shakes hands again on a fresh connection  *)
(* and replays the call once.  A call that fails ends the turn; a handshake  *)
(* that fails raises, and kills the worker.                                 *)
(***************************************************************************)
EXTENDS Naturals, Sequences, FiniteSums

CONSTANTS
    ToolSessions,   \* sessions, each driven by a worker of its own
    PlannedCalls,   \* length of plan_calls: the preload and the calls of the step
    ToolTurnsOf,    \* bound: turns of each session
    MaxForgets      \* bound: times the gateway forgets its sessions

ASSUME ToolTurnsAssumption ==
    /\ IsFiniteSet(ToolSessions)
    /\ ToolTurnsOf \in [ToolSessions -> Nat \ {0}]
    /\ PlannedCalls \in Nat \ {0}
    /\ MaxForgets \in Nat

\* What one request can come to: a result; a failure that the gateway reports, by the
\* status, an empty or unreadable body, an error object, or a tool that failed (isError);
\* 404; or an exception of the connection.
Exceptions == {"timeout", "reset"}
Outcomes == {"ok", "failed", "missing"} \cup Exceptions

VARIABLES
    link,      \* each session's connection: closed, usable, or in a bad state
    known,     \* whether the gateway knows the id the session sends
    place,     \* where the worker is
    callsMade, \* the outcomes of the turn's calls so far
    replayed,  \* session.reinitialised_last_call
    turnsDone, \* the records of each session, in order
    replays,   \* replays of each session, as they happen
    stats,     \* TransportStats: calls and reinitialisations
    forgets

toolTurnVars == <<link, known, place, callsMade, replayed, turnsDone, replays, stats, forgets>>

ToolTurnsTypeOK ==
    /\ link \in [ToolSessions -> {"none", "usable", "stuck", "closed"}]
    /\ known \in [ToolSessions -> BOOLEAN]
    /\ place \in [ToolSessions -> {"new", "idle", "calling", "replaying", "repeating",
                                   "dead", "gone"}]
    /\ \A s \in ToolSessions :
          /\ callsMade[s] \in Seq(Outcomes) /\ Len(callsMade[s]) <= PlannedCalls
          /\ Len(turnsDone[s]) <= ToolTurnsOf[s]
    /\ replayed \in [ToolSessions -> BOOLEAN]
    /\ replays \in [ToolSessions -> Nat]
    /\ stats \in [calls : Nat, reinitialisations : Nat]
    /\ forgets \in 0 .. MaxForgets

ToolTurnsInit ==
    /\ link = [s \in ToolSessions |-> "none"]
    /\ known = [s \in ToolSessions |-> FALSE]
    /\ place = [s \in ToolSessions |-> "new"]
    /\ callsMade = [s \in ToolSessions |-> << >>]
    /\ replayed = [s \in ToolSessions |-> FALSE]
    /\ turnsDone = [s \in ToolSessions |-> << >>]
    /\ replays = [s \in ToolSessions |-> 0]
    /\ stats = [calls |-> 0, reinitialisations |-> 0]
    /\ forgets = 0

\* What an exception leaves of the connection; nothing closes it.
LinkAfter(outcome) ==
    CASE outcome = "timeout" -> {"stuck"}
      [] outcome = "reset"   -> {"usable", "stuck"}
      [] OTHER               -> {"usable"}

\* A request on a connection in a bad state is refused by http.client.  The gateway
\* answers 404 to an id it does not know, and to no other.
Possible(s, outcome) ==
    /\ link[s] = "stuck" => outcome = "reset"
    /\ outcome = "missing" => ~known[s]
    /\ outcome = "ok" => known[s]

CallFailed(outcome) == outcome # "ok"

-----------------------------------------------------------------------------
\* The handshake of a session: initialize, whose answer carries an id, and a notice of
\* which only an exception matters.
OpenToolSession(s) ==
    /\ place[s] = "new"
    /\ link' = [link EXCEPT ![s] = "usable"]
    /\ known' = [known EXCEPT ![s] = TRUE]
    /\ place' = [place EXCEPT ![s] = "idle"]
    /\ UNCHANGED <<callsMade, replayed, turnsDone, replays, stats, forgets>>

\* The caller never gets a session whose handshake failed: nobody closes its connection.
OpenToolSessionFails(s) ==
    /\ place[s] = "new"
    /\ link' = [link EXCEPT ![s] = "usable"]
    /\ place' = [place EXCEPT ![s] = "gone"]
    /\ UNCHANGED <<known, callsMade, replayed, turnsDone, replays, stats, forgets>>

\* execute_turn makes the next call of its plan.
BeginCall(s) ==
    /\ place[s] = "idle"
    /\ Len(turnsDone[s]) < ToolTurnsOf[s]
    /\ place' = [place EXCEPT ![s] = "calling"]
    /\ replayed' = [replayed EXCEPT ![s] = FALSE]
    /\ UNCHANGED <<link, known, callsMade, turnsDone, replays, stats, forgets>>

\* The record of a turn: its calls, whether it succeeded, and whether its last call was
\* replayed.
TurnOf(calls, s) ==
    [calls |-> calls, ok |-> ~CallFailed(calls[Len(calls)]),
     reinitialisations |-> IF replayed[s] THEN 1 ELSE 0]

\* call_tool returns; the turn ends with the plan, or with a call that failed.
CallReturns(s, outcome) ==
    LET calls == Append(callsMade[s], outcome)
        over == CallFailed(outcome) \/ Len(calls) = PlannedCalls
    IN  /\ place' = [place EXCEPT ![s] = "idle"]
        /\ callsMade' = [callsMade EXCEPT ![s] = IF over THEN << >> ELSE calls]
        /\ turnsDone' = IF over THEN [turnsDone EXCEPT ![s] = Append(@, TurnOf(calls, s))]
                                ELSE turnsDone
        /\ stats' = [stats EXCEPT !.calls = @ + 1]

Answered(s, outcome) ==
    /\ place[s] = "calling"
    /\ outcome # "missing"
    /\ Possible(s, outcome)
    /\ \E left \in LinkAfter(outcome) :
          link' = [link EXCEPT ![s] = IF @ = "stuck" THEN @ ELSE left]
    /\ CallReturns(s, outcome)
    /\ UNCHANGED <<known, replayed, replays, forgets>>

\* A session the gateway has forgotten: the replay is counted before it is tried, the
\* connection is closed and a fresh one made.
SessionForgotten(s) ==
    /\ place[s] = "calling"
    /\ Possible(s, "missing")
    /\ place' = [place EXCEPT ![s] = "replaying"]
    /\ link' = [link EXCEPT ![s] = "usable"]
    /\ replays' = [replays EXCEPT ![s] = @ + 1]
    /\ stats' = [stats EXCEPT !.reinitialisations = @ + 1]
    /\ UNCHANGED <<known, callsMade, replayed, turnsDone, forgets>>

ShakesHandsAgain(s) ==
    /\ place[s] = "replaying"
    /\ known' = [known EXCEPT ![s] = TRUE]
    /\ replayed' = [replayed EXCEPT ![s] = TRUE]
    /\ place' = [place EXCEPT ![s] = "repeating"]
    /\ UNCHANGED <<link, callsMade, turnsDone, replays, stats, forgets>>

\* The turn raises: no record, and the worker dies.
HandshakeRaises(s) ==
    /\ place[s] = "replaying"
    /\ place' = [place EXCEPT ![s] = "dead"]
    /\ UNCHANGED <<link, known, callsMade, replayed, turnsDone, replays, stats, forgets>>

\* Whatever the second answer is, a 404 too, it is the call's.
AnsweredAgain(s, outcome) ==
    /\ place[s] = "repeating"
    /\ Possible(s, outcome)
    /\ \E left \in LinkAfter(outcome) : link' = [link EXCEPT ![s] = left]
    /\ CallReturns(s, outcome)
    /\ UNCHANGED <<known, replayed, replays, forgets>>

CloseToolSession(s) ==
    /\ place[s] = "dead" \/ (place[s] = "idle" /\ callsMade[s] = << >>)
    /\ link' = [link EXCEPT ![s] = "closed"]
    /\ place' = [place EXCEPT ![s] = "gone"]
    /\ UNCHANGED <<known, callsMade, replayed, turnsDone, replays, stats, forgets>>

\* The gateway restarts, or evicts: it knows no id it gave out before.
GatewayForgets ==
    /\ forgets < MaxForgets
    /\ forgets' = forgets + 1
    /\ known' = [s \in ToolSessions |-> FALSE]
    /\ UNCHANGED <<link, place, callsMade, replayed, turnsDone, replays, stats>>

ToolTurnsNext ==
    \/ \E s \in ToolSessions :
          \/ OpenToolSession(s) \/ OpenToolSessionFails(s) \/ BeginCall(s)
          \/ SessionForgotten(s) \/ ShakesHandsAgain(s) \/ HandshakeRaises(s)
          \/ CloseToolSession(s)
          \/ \E outcome \in Outcomes : Answered(s, outcome) \/ AnsweredAgain(s, outcome)
    \/ GatewayForgets

ToolTurnsSpec == ToolTurnsInit /\ [][ToolTurnsNext]_toolTurnVars

-----------------------------------------------------------------------------
\* A turn makes the calls of its plan up to the first that fails, so that it is a success
\* exactly when the platform would have finished it.
TurnIsPlan ==
    \A s \in ToolSessions : \A i \in DOMAIN turnsDone[s] :
        LET turn == turnsDone[s][i] IN
        /\ \A k \in 1 .. Len(turn.calls) - 1 : turn.calls[k] = "ok"
        /\ turn.ok => Len(turn.calls) = PlannedCalls

CallsIn(turns) == SumOver([i \in DOMAIN turns |-> Len(turns[i].calls)], DOMAIN turns)
ReplaysIn(turns) == SumOver([i \in DOMAIN turns |-> turns[i].reinitialisations], DOMAIN turns)

\* TransportStats hides nothing: it counts every call of the turns, finished or not, and
\* at least the replays the records know of.  (A record knows of a replay only when its
\* last call was the replayed one.)
CallsAreCounted ==
    /\ stats.calls =
          SumOver([s \in ToolSessions |-> CallsIn(turnsDone[s]) + Len(callsMade[s])],
                  ToolSessions)
    /\ stats.reinitialisations >=
          SumOver([s \in ToolSessions |-> ReplaysIn(turnsDone[s])], ToolSessions)

\* Trouble stays in its session and passes: a connection is in a bad state only after a
\* call of its own session broke on it, and a session is replayed no more often than the
\* gateway forgot it.
TroubleIsLocal ==
    \A s \in ToolSessions :
        /\ link[s] = "stuck" =>
              \E i \in DOMAIN turnsDone[s] : \E k \in DOMAIN turnsDone[s][i].calls :
                 turnsDone[s][i].calls[k] \in Exceptions
        /\ replays[s] <= forgets

\* What makes a stage of L1 a measurement of the tools.
ToolTurnsAreWhole == TurnIsPlan /\ CallsAreCounted /\ TroubleIsLocal
=============================================================================
