------------------------------ MODULE ChatTurns ------------------------------
(***************************************************************************)
(* Turns of chat as the load generator measures them: chat_driver.py over   *)
(* chat_transport.py, the stub model with its log of service times          *)
(* (stub_llm.py), and the join of that log to the records of the stage      *)
(* (records.py, the end of StageRunner.run).                                *)
(*                                                                         *)
(* A session is one connection and one capability token, driven by one      *)
(* worker.  Its token is bound by the server when it admits the first turn  *)
(* and travels in the first event of that turn's stream.  Nothing closes a  *)
(* connection that failed: it can be left in a state in which http.client   *)
(* takes no request or returns no answer, for the rest of the session.      *)
(* Service times are counted in rounds: every call the stub answers takes   *)
(* one unit.                                                                *)
(***************************************************************************)
EXTENDS Integers, FiniteSums

CONSTANTS
    ChatSessionIds,  \* sessions of the stage
    TurnsOf,         \* bound: turns the schedule gives each session
    RoundsEach       \* bound: calls of the model in a turn

ASSUME ChatTurnsAssumption ==
    /\ IsFiniteSet(ChatSessionIds)
    /\ TurnsOf \in [ChatSessionIds -> Nat \ {0}]
    /\ RoundsEach \in Nat \ {0}

DrivenTurns == UNION {{s} \X (1 .. TurnsOf[s]) : s \in ChatSessionIds}
NoTime == -1     \* llm_latency_ms is None

\* The marker in the message of a turn: its session and number.  (The step's name
\* adds nothing: the number alone is unique in a session.)
\* Faulty variant of MarkerOf: sessions number their turns alike.
MarkerOfNumber(t) == t[2]
MarkerOf(t) == t

\* Classes of error: of the status (a refused token, and all others), of the exception
\* (a timeout or a reset of the connection), and of a stream that ended badly.
StatusClasses == {"401", "status"}
Broken == {"timeout", "reset"}

\* What an exchange leaves behind: a timeout always leaves an answer outstanding, a
\* reset may.
Leaves(class) == IF class = "timeout" THEN {"stuck"} ELSE {"clean", "stuck"}
TurnRecord == [class : {"ok", "sse_abort"} \cup StatusClasses \cup Broken, sent : BOOLEAN,
               llm : {NoTime} \cup Nat]

VARIABLES
    wire,         \* the connection of each session
    holds,        \* whether the client has the session's token
    bound,        \* the turn whose admission bound the token on the server, or 0
    turnsMade,    \* ChatDriver._counters
    flight,       \* where execute_turn is
    serving,      \* turns the server is working on
    served,       \* calls of each turn the stub has answered
    logRows,      \* calls of each turn in the stub's log
    filed,        \* the records: a function on the turns that have one
    stageVerdict  \* "open", or how the stage's platform overhead was derived

chatTurnVars == <<wire, holds, bound, turnsMade, flight, serving, served, logRows, filed, stageVerdict>>

ChatTurnsTypeOK ==
    /\ wire \in [ChatSessionIds -> {"clean", "stuck"}]
    /\ holds \in [ChatSessionIds -> BOOLEAN]
    /\ \A s \in ChatSessionIds :
          bound[s] \in 0 .. TurnsOf[s] /\ turnsMade[s] \in 0 .. TurnsOf[s]
    /\ flight \in [ChatSessionIds -> {"idle", "sent", "streaming", "refused"}]
    /\ serving \subseteq DrivenTurns
    /\ served \in [DrivenTurns -> 0 .. RoundsEach]
    /\ logRows \in [DrivenTurns -> 0 .. RoundsEach]
    /\ DOMAIN filed \subseteq DrivenTurns
    /\ \A t \in DOMAIN filed : filed[t] \in TurnRecord
    /\ stageVerdict \in {"open", "overhead", "refused", "none"}

ChatTurnsInit ==
    /\ wire = [s \in ChatSessionIds |-> "clean"]
    /\ holds = [s \in ChatSessionIds |-> FALSE]
    /\ bound = [s \in ChatSessionIds |-> 0]
    /\ turnsMade = [s \in ChatSessionIds |-> 0]
    /\ flight = [s \in ChatSessionIds |-> "idle"]
    /\ serving = {}
    /\ served = [t \in DrivenTurns |-> 0]
    /\ logRows = [t \in DrivenTurns |-> 0]
    /\ filed = << >>
    /\ stageVerdict = "open"

Current(s) == <<s, turnsMade[s]>>
InStream(s) == flight[s] \in {"streaming", "refused"}

\* execute_turn returns its one record: every failure is a measurement.
Files(t, class, sent) ==
    filed' = [u \in DOMAIN filed \cup {t} |->
                IF u = t THEN [class |-> class, sent |-> sent, llm |-> NoTime]
                         ELSE filed[u]]

\* The server admits a turn that presents the token, or that finds none bound: this
\* turn then binds one.
Admitted(s, n) ==
    /\ bound[s] # 0 => holds[s]
    /\ bound' = [bound EXCEPT ![s] = IF @ = 0 THEN n ELSE @]
    /\ serving' = serving \cup {<<s, n>>}
Unknown == UNCHANGED <<bound, serving>>

\* The end of a turn that was under way, with what it leaves on the connection.
TurnEnds(s, class, left) ==
    /\ flight' = [flight EXCEPT ![s] = "idle"]
    /\ wire' = [wire EXCEPT ![s] = left]
    /\ Files(Current(s), class, TRUE)

-----------------------------------------------------------------------------
\* The request of a turn.

Numbered(s) ==
    /\ stageVerdict = "open"
    /\ flight[s] = "idle"
    /\ turnsMade[s] < TurnsOf[s]
    /\ turnsMade' = [turnsMade EXCEPT ![s] = @ + 1]

SendTurn(s) ==
    /\ Numbered(s)
    /\ wire[s] = "clean"
    /\ flight' = [flight EXCEPT ![s] = "sent"]
    /\ UNCHANGED <<wire, holds, bound, serving, served, logRows, filed, stageVerdict>>

\* http.client raises CannotSendRequest, or sends the request and then raises
\* ResponseNotReady: a reset in the record.
SendOnStuckWire(s) ==
    /\ Numbered(s)
    /\ wire[s] = "stuck"
    /\ Files(<<s, turnsMade'[s]>>, "reset", FALSE)
    /\ Admitted(s, turnsMade'[s]) \/ Unknown
    /\ UNCHANGED <<wire, holds, flight, served, logRows, stageVerdict>>

TurnAdmitted(s) ==
    /\ flight[s] = "sent"
    /\ Admitted(s, turnsMade[s])
    /\ flight' = [flight EXCEPT ![s] = "streaming"]
    /\ UNCHANGED <<wire, holds, turnsMade, served, logRows, filed, stageVerdict>>

\* Any status but 200.  The body is read, so that the connection can be used again, but
\* an exception of that read is ignored.
TurnRejected(s, class, left) ==
    /\ flight[s] = "sent"
    /\ (class = "401") = (bound[s] # 0 /\ ~holds[s])
    /\ TurnEnds(s, class, left)
    /\ UNCHANGED <<holds, bound, turnsMade, serving, served, logRows, stageVerdict>>

\* No answer comes: the server may have admitted the turn all the same.
TurnUnanswered(s, class, left) ==
    /\ flight[s] = "sent"
    /\ Admitted(s, turnsMade[s]) \/ Unknown
    /\ TurnEnds(s, class, left)
    /\ UNCHANGED <<holds, turnsMade, served, logRows, stageVerdict>>

-----------------------------------------------------------------------------
\* The stream of a turn.

TokenDue(s) == bound[s] = turnsMade[s] /\ ~holds[s]

\* The first event carries the token that this turn bound.
ReadToken(s) ==
    /\ flight[s] = "streaming"
    /\ TokenDue(s)
    /\ holds' = [holds EXCEPT ![s] = TRUE]
    /\ UNCHANGED <<wire, bound, turnsMade, flight, serving, served, logRows, filed, stageVerdict>>

\* A refusal comes as an event of a stream whose status was 200.
ReadError(s) ==
    /\ flight[s] = "streaming"
    /\ ~TokenDue(s)
    /\ flight' = [flight EXCEPT ![s] = "refused"]
    /\ UNCHANGED <<wire, holds, bound, turnsMade, serving, served, logRows, filed, stageVerdict>>

\* "done" ends the turn; it is a success unless an error came before it.  A
\* successful turn has called the model.
ReadDone(s) ==
    /\ InStream(s)
    /\ ~TokenDue(s)
    /\ flight[s] = "streaming" => served[Current(s)] > 0
    /\ TurnEnds(s, IF flight[s] = "refused" THEN "sse_abort" ELSE "ok", "clean")
    /\ serving' = serving \ {Current(s)}
    /\ UNCHANGED <<holds, bound, turnsMade, served, logRows, stageVerdict>>

\* The server closes the stream without a terminal event.
StreamCloses(s) ==
    /\ InStream(s)
    /\ TurnEnds(s, "sse_abort", "clean")
    /\ serving' = serving \ {Current(s)}
    /\ UNCHANGED <<holds, bound, turnsMade, served, logRows, stageVerdict>>

\* The client's read fails.  A record with an error event in it keeps the class of
\* the exception.
StreamBreaks(s, class, left) ==
    /\ InStream(s)
    /\ TurnEnds(s, class, left)
    /\ UNCHANGED <<holds, bound, turnsMade, serving, served, logRows, stageVerdict>>

\* The turn's own deadline: the driver leaves and the transport drains the stream, to
\* its end or to a timeout of the connection.
DeadlinePasses(s, left) ==
    /\ InStream(s)
    /\ TurnEnds(s, "sse_abort", left)
    /\ serving' = IF left = "clean" THEN serving \ {Current(s)} ELSE serving
    /\ UNCHANGED <<holds, bound, turnsMade, served, logRows, stageVerdict>>

-----------------------------------------------------------------------------
\* The server and the stub; both go on when the client has left.

StubAnswers(t) ==
    /\ t \in serving
    /\ served[t] < RoundsEach
    /\ served' = [served EXCEPT ![t] = @ + 1]
    /\ UNCHANGED <<wire, holds, bound, turnsMade, flight, serving, logRows, filed, stageVerdict>>

\* The stub writes the row after it has sent the answer.
StubLogs(t) ==
    /\ logRows[t] < served[t]
    /\ logRows' = [logRows EXCEPT ![t] = @ + 1]
    /\ UNCHANGED <<wire, holds, bound, turnsMade, flight, serving, served, filed, stageVerdict>>

ServerGivesUp(t) ==
    /\ t \in serving
    /\ flight[t[1]] = "idle" \/ t # Current(t[1])
    /\ serving' = serving \ {t}
    /\ UNCHANGED <<wire, holds, bound, turnsMade, flight, served, logRows, filed, stageVerdict>>

-----------------------------------------------------------------------------
\* The end of the stage.

LoggedTime(marker) == SumOver(logRows, {t \in DrivenTurns : MarkerOf(t) = marker})

\* join_stub_timings: the sum of the rows of its marker; nothing was spent on a turn
\* that failed before the model was called; a success without rows stays unstamped.
Stamped(t) ==
    [filed[t] EXCEPT !.llm =
        IF LoggedTime(MarkerOf(t)) > 0 THEN LoggedTime(MarkerOf(t))
        ELSE IF filed[t].class = "ok" THEN NoTime ELSE 0]

\* summarise takes the model's share from every record or from none: a stage with
\* some only is refused.
StageClosed ==
    /\ stageVerdict = "open"
    /\ \A s \in ChatSessionIds : flight[s] = "idle"
    /\ DOMAIN filed # {}
    /\ filed' = [t \in DOMAIN filed |-> Stamped(t)]
    /\ stageVerdict' = LET unstamped == {t \in DOMAIN filed : filed'[t].llm = NoTime}
                 IN IF unstamped = {} THEN "overhead"
                    ELSE IF unstamped = DOMAIN filed THEN "none" ELSE "refused"
    /\ UNCHANGED <<wire, holds, bound, turnsMade, flight, serving, served, logRows>>

ChatTurnsNext ==
    \/ \E s \in ChatSessionIds :
          \/ SendTurn(s) \/ SendOnStuckWire(s) \/ TurnAdmitted(s)
          \/ ReadToken(s) \/ ReadError(s) \/ ReadDone(s) \/ StreamCloses(s)
          \/ \E class \in Broken : \E left \in Leaves(class) :
                TurnUnanswered(s, class, left) \/ StreamBreaks(s, class, left)
          \/ \E left \in {"clean", "stuck"} :
                \/ DeadlinePasses(s, left)
                \/ \E class \in StatusClasses : TurnRejected(s, class, left)
    \/ \E t \in DrivenTurns : StubAnswers(t) \/ StubLogs(t) \/ ServerGivesUp(t)
    \/ StageClosed

ChatTurnsSpec == ChatTurnsInit /\ [][ChatTurnsNext]_chatTurnVars

-----------------------------------------------------------------------------
\* What a stage is stageVerdict on subtracts from each turn time the model spent on that
\* turn and on no other, and some of it for every success; a stage of which the log
\* explains only a part is refused.  (The share can still be too small: the row of
\* the last call may be written after the log is read.)
OverheadIsOwn ==
    stageVerdict # "open" =>
        /\ \A t \in DOMAIN filed : filed[t].llm <= served[t]
        /\ stageVerdict = "overhead" =>
              \A t \in DOMAIN filed : filed[t].llm >= IF filed[t].class = "ok" THEN 1 ELSE 0
        /\ stageVerdict = "none" => \A t \in DOMAIN filed : filed[t].class = "ok"

\* A failure stays in its session: a turn that fails on a connection left in a bad state
\* follows a turn of the same session that broke on it, and a turn refused for its token
\* follows one whose stream broke before the token was read.
FaultsStayInSession ==
    \A t \in DOMAIN filed :
        LET earlier == {filed[<<t[1], n>>].class : n \in 1 .. t[2] - 1}
        IN  /\ ~filed[t].sent => earlier # {} /\ earlier # {"ok"}
            /\ filed[t].class = "401" => earlier \cap (Broken \cup {"sse_abort"}) # {}

\* What a stage of chat says of the platform is about the platform.
ChatTurnsAreHonest == OverheadIsOwn /\ FaultsStayInSession
=============================================================================
