------------------------------ MODULE AgentLoop ------------------------------
(***************************************************************************)
(* Chat turns of the agent (agent/loop.py) on the spending ledger.         *)
(*                                                                         *)
(* Each turn alternates paid provider calls with batches of tool calls     *)
(* under four limits.  With reservations enabled every provider call is    *)
(* reserved first and committed or released after; each of these is a      *)
(* transaction run by a worker thread (agent/adapters.py, to_thread) while *)
(* the turn awaits it.  A cancelled await drops a transaction that has not *)
(* begun and abandons one that has: it is carried out all the same.        *)
(*                                                                         *)
(* A step of a turn is the code between two awaits, except that an         *)
(* iteration of the loop ("round") and of the batch ("batch") begins a     *)
(* step of its own.                                                        *)
(***************************************************************************)
EXTENDS FiniteSums, FiniteSetsExt

CONSTANTS
    Turns,
    Principals,
    Nobody,
    Payer,          \* the principal of each turn
    Estimates,
    Costs,
    Limits,
    Unlimited,
    Reserving,      \* the turns begun while SPENDING_RESERVATIONS_ENABLED was set
    Batches,        \* how many tools a response may call at once
    MaxModelCalls,  \* agent_max_iterations
    MaxToolCalls,   \* agent_max_tool_calls
    MaxEmpty        \* agent_max_empty_rounds

ASSUME PayerAssumption == Payer \in [Turns -> Principals] /\ Reserving \subseteq Turns
ASSUME LimitsAssumption ==
    /\ MaxModelCalls \in Nat \ {0}
    /\ MaxToolCalls \in Nat
    /\ MaxEmpty \in Nat
    /\ Batches \subseteq Nat /\ IsFiniteSet(Batches)
\* What the ledger assumes of its amounts and of its (finitely many) requests.
ASSUME LedgerAssumption ==
    /\ Estimates \subseteq Nat /\ Costs \subseteq Nat /\ Limits \subseteq Nat
    /\ Unlimited \notin Nat
    /\ Nobody \notin Principals \cup Limits \cup {Unlimited}
    /\ IsFiniteSet(Turns)

VARIABLES
    balances, reservations, default, overdue,   \* the ledger
    turn,       \* the state of each turn's run
    loose,      \* transactions begun by a worker whose turn no longer waits
    late,       \* history: the requests committed after their hold had expired
    cut         \* history: the requests a transaction of which failed or lost its turn

\* "{turn_id}:model-{n}"
Requests == Turns \X (1..MaxModelCalls)

Ledger == INSTANCE SpendingLedger

ledgerVars == <<balances, reservations, default, overdue>>
vars == <<ledgerVars, turn, loose, late, cut>>

-----------------------------------------------------------------------------
\* "new" and "done" apart, a turn awaits: "listing" the tools, a transaction
\* ("reserving", "releasing", "committing"), the provider ("calling"), the usage
\* report ("recording") or a tool ("tooling").
Places == {"new", "listing", "round", "reserving", "calling", "releasing", "committing",
           "recording", "batch", "tooling", "done"}

Operation == [reserving |-> "reserve", releasing |-> "release", committing |-> "commit"]

\* "interrupted", "abandoned" and "killed" end a run without a LoopOutcome.
Outcomes == {"none", "answer", "input_blocked", "dependency_unavailable", "limit_reached",
             "provider_error", "tool_error", "needs_clarification", "cancelled",
             "interrupted", "abandoned", "killed"}

\* Non-positive limits mean no limit.
Reached(n, max) == max > 0 /\ n >= max

UpTo(max) == IF max > 0 THEN 0..max ELSE Nat

Turn == [at: Places,
         calls: 0..MaxModelCalls,           \* metrics.model_calls
         tools: UpTo(MaxToolCalls),         \* metrics.tool_calls
         empties: UpTo(MaxEmpty),           \* metrics.empty_responses
         open: 0..Max(Batches \cup {0}),    \* calls of the last batch without a result
         estimate: Estimates \cup {0},
         cost: Costs \cup {0},              \* response.cost of the last response
         job: {"none", "queued", "ok", "refused", "failed"},
         gone: BOOLEAN,                     \* the disconnect latch
         cancelled: BOOLEAN,                \* producer.cancel() has been called
         outcome: Outcomes]

TypeOK ==
    /\ Ledger!TypeOK
    /\ turn \in [Turns -> Turn]
    /\ loose \in SUBSET ({"reserve", "release", "commit"} \X Requests)
    /\ late \in SUBSET Requests
    /\ cut \in SUBSET Requests

\* The reservation of the provider call under way, or of the last one.
Current(t) == <<t, turn[t].calls>>

Init ==
    /\ Ledger!Init
    /\ turn = [t \in Turns |->
        [at |-> "new", calls |-> 0, tools |-> 0, empties |-> 0, open |-> 0, estimate |-> 0,
         cost |-> 0, job |-> "none", gone |-> FALSE, cancelled |-> FALSE, outcome |-> "none"]]
    /\ loose = {}
    /\ late = {}
    /\ cut = {}

-----------------------------------------------------------------------------
(* Worker threads *)

\* The transaction of turn t's current request ends with answer a.
Transaction(op, t, a) ==
    LET r == Current(t) IN
    \/ /\ op = "reserve"
       /\ a = "ok"
       /\ Ledger!Admit(Payer[t], r, turn[t].estimate)     \* new: see NoConflict
       /\ UNCHANGED late
    \/ /\ op = "reserve"
       /\ a = "refused"
       /\ \E S \in SUBSET Ledger!Overdue(Payer[t]) :
            ~Ledger!Admissible(Payer[t], turn[t].estimate, S)
       /\ UNCHANGED <<ledgerVars, late>>
    \/ /\ op = "commit"
       /\ a = "ok"
       /\ Ledger!Commit(r, turn[t].cost)
       /\ late' = IF reservations[r].status = "EXPIRED" THEN late \cup {r} ELSE late
    \/ /\ op = "release"
       /\ a = "ok"
       /\ IF reservations[r].status = "ACTIVE" THEN Ledger!Release(r) ELSE UNCHANGED ledgerVars
       /\ UNCHANGED late
    \/ /\ a = "failed"          \* the database stayed locked; rolled back
       /\ UNCHANGED <<ledgerVars, late>>

RunJob(t) ==
    /\ turn[t].job = "queued"
    /\ \E a \in {"ok", "refused", "failed"} :
        /\ Transaction(Operation[turn[t].at], t, a)
        /\ turn' = [turn EXCEPT ![t].job = a]
        /\ cut' = IF a = "failed" THEN cut \cup {Current(t)} ELSE cut
    /\ UNCHANGED loose

RunLoose(t) ==
    \E op \in {"reserve", "release", "commit"} :
        /\ <<op, Current(t)>> \in loose
        /\ \E a \in {"ok", "refused", "failed"} : Transaction(op, t, a)
        /\ loose' = loose \ {<<op, Current(t)>>}
        /\ UNCHANGED <<turn, cut>>

-----------------------------------------------------------------------------
(* Steps of the loop *)

Quietly == UNCHANGED <<ledgerVars, loose, late, cut>>

Goto(t, place) == turn' = [turn EXCEPT ![t].at = place, ![t].job = "none"]

Await(t, place) == turn' = [turn EXCEPT ![t].at = place, ![t].job = "queued"]

\* _finish and return
Finish(t, kind) ==
    turn' = [turn EXCEPT ![t].at = "done", ![t].job = "none", ![t].outcome = kind]

Start(t) ==
    /\ turn[t].at = "new"
    /\ Goto(t, "listing") \/ Finish(t, "input_blocked")
    /\ Quietly

Listed(t) ==
    /\ turn[t].at = "listing"
    /\ Goto(t, "round") \/ Finish(t, "dependency_unavailable")
    /\ Quietly

\* The limit on model calls; the limit on context tokens can strike at any iteration.
Stop(t) ==
    /\ turn[t].at = "round"
    /\ Finish(t, "limit_reached")
    /\ Quietly

\* The iteration of a further provider call, unless the reader has gone.  The
\* estimate fails for a model without a price.
Round(t) ==
    /\ turn[t].at = "round"
    /\ ~Reached(turn[t].calls, MaxModelCalls)
    /\ LET counted == [turn EXCEPT ![t].calls = @ + 1] IN
       IF turn[t].gone
       THEN turn' = [counted EXCEPT ![t].at = "done", ![t].outcome = "cancelled"]
       ELSE IF t \notin Reserving
       THEN turn' = [counted EXCEPT ![t].at = "calling"]
       ELSE \/ turn' = [counted EXCEPT ![t].at = "done", ![t].outcome = "provider_error"]
            \/ \E e \in Estimates :
                turn' = [counted EXCEPT ![t].estimate = e, ![t].at = "reserving",
                                        ![t].job = "queued"]
    /\ Quietly

\* Faulty variant of Reserved: the refusal is logged and the call made.
ReservedRegardless(t) ==
    /\ turn[t].at = "reserving"
    /\ turn[t].job \in {"ok", "refused", "failed"}
    /\ Goto(t, "calling")
    /\ Quietly

Reserved(t) ==
    /\ turn[t].at = "reserving"
    /\ \/ turn[t].job = "ok" /\ Goto(t, "calling")
       \/ turn[t].job = "refused" /\ Finish(t, "limit_reached")
       \/ turn[t].job = "failed" /\ Finish(t, "provider_error")
    /\ Quietly

Answered(t) ==
    /\ turn[t].at = "calling"
    /\ \E c \in Costs :
        turn' = [turn EXCEPT ![t].cost = c,
                             ![t].at = IF t \in Reserving THEN "committing" ELSE "recording",
                             ![t].job = IF t \in Reserving THEN "queued" ELSE "none"]
    /\ Quietly

\* Faulty variant of CallFails: a failed call keeps its reservation.
CallFailsUnreleased(t) ==
    /\ turn[t].at = "calling"
    /\ Finish(t, "provider_error")
    /\ Quietly

CallFails(t) ==
    /\ turn[t].at = "calling"
    /\ IF t \in Reserving THEN Await(t, "releasing") ELSE Finish(t, "provider_error")
    /\ Quietly

\* Faulty variant of Released: the call is tried again under the same id.
ReleasedRetried(t) ==
    /\ turn[t].at = "releasing"
    /\ \/ turn[t].job = "ok" /\ Await(t, "reserving")
       \/ turn[t].job = "failed" /\ Finish(t, "provider_error")
    /\ Quietly

\* Faulty variant of Released: only a release that succeeded is waited for.
ReleasedOnly(t) ==
    /\ turn[t].at = "releasing"
    /\ turn[t].job = "ok"
    /\ Finish(t, IF turn[t].cancelled THEN "cancelled" ELSE "provider_error")
    /\ Quietly

\* The exception that ended the call goes on, or that of the release replaces it.
Released(t) ==
    /\ turn[t].at = "releasing"
    /\ \/ turn[t].job = "ok" /\ Finish(t, IF turn[t].cancelled THEN "cancelled" ELSE "provider_error")
       \/ turn[t].job = "failed" /\ Finish(t, "provider_error")
    /\ Quietly

\* Faulty variant of Committed: a commit that failed is passed over.
CommittedRegardless(t) ==
    /\ turn[t].at = "committing"
    /\ turn[t].job \in {"ok", "failed"}
    /\ Goto(t, "recording")
    /\ Quietly

Committed(t) ==
    /\ turn[t].at = "committing"
    /\ \/ turn[t].job = "ok" /\ Goto(t, "recording")
       \/ turn[t].job = "failed" /\ Finish(t, "provider_error")
    /\ Quietly

\* Without reservations the cost is checked, after the fact, and may end the turn.
OverLimit(t) ==
    /\ turn[t].at = "recording"
    /\ t \notin Reserving
    /\ turn[t].cost > 0
    /\ Finish(t, "limit_reached") \/ Finish(t, "provider_error")
    /\ Quietly

\* The response: tool calls (ignored in the last permitted call, which offers no
\* tools), an answer, or nothing (an echo of a tool result counts as nothing).
Respond(t) ==
    /\ turn[t].at = "recording"
    /\ \/ /\ turn[t].calls < MaxModelCalls
          /\ \E n \in Batches : turn' = [turn EXCEPT ![t].open = n, ![t].at = "batch"]
       \/ Finish(t, "answer")
       \/ LET n == turn[t].empties + 1 IN
          IF Reached(n, MaxEmpty)
          THEN \E kind \in {"answer", "needs_clarification"} :
                turn' = [turn EXCEPT ![t].empties = n, ![t].at = "done", ![t].outcome = kind]
          ELSE turn' = [turn EXCEPT ![t].empties = n, ![t].at = "round"]
    /\ Quietly

-----------------------------------------------------------------------------
(* _run_tool_calls *)

BatchDone(t) ==
    /\ turn[t].at = "batch"
    /\ turn[t].open = 0
    /\ Goto(t, "round")
    /\ Quietly

ToolLimit(t) ==
    /\ turn[t].at = "batch"
    /\ turn[t].open > 0
    /\ Reached(turn[t].tools, MaxToolCalls)
    /\ Finish(t, "limit_reached")
    /\ Quietly

\* Faulty variant of NextCall: one call more than the limit.
NextCallOver(t) ==
    /\ turn[t].at = "batch"
    /\ turn[t].open > 0
    /\ turn[t].tools <= MaxToolCalls
    /\ turn' = [turn EXCEPT ![t].tools = @ + 1, ![t].at = "tooling"]
    /\ Quietly

\* The next call is announced.  The producer stops reading when an event finds the
\* reader gone, and the generator is closed where it stands.  A call that fails
\* validation is answered at once.
NextCall(t) ==
    /\ turn[t].at = "batch"
    /\ turn[t].open > 0
    /\ ~Reached(turn[t].tools, MaxToolCalls)
    /\ LET begun == [turn EXCEPT ![t].tools = @ + 1] IN
       IF turn[t].gone
       THEN turn' = [begun EXCEPT ![t].at = "done", ![t].outcome = "abandoned"]
       ELSE \/ turn' = [begun EXCEPT ![t].at = "tooling"]
            \/ turn' = [begun EXCEPT ![t].open = @ - 1]
    /\ Quietly

\* The result is appended, announced, and only then looked at.
ToolReturns(t) ==
    /\ turn[t].at = "tooling"
    /\ LET answered == [turn EXCEPT ![t].open = @ - 1] IN
       IF turn[t].gone
       THEN turn' = [answered EXCEPT ![t].at = "done", ![t].outcome = "abandoned"]
       ELSE \/ turn' = [answered EXCEPT ![t].at = "batch"]
            \/ \E kind \in {"tool_error", "dependency_unavailable"} :
                turn' = [answered EXCEPT ![t].at = "done", ![t].outcome = kind]
    /\ Quietly

-----------------------------------------------------------------------------
(* The reader leaves *)

Running(t) == turn[t].at \notin {"new", "done"}

Disconnect(t) ==
    /\ Running(t)
    /\ ~turn[t].gone
    /\ turn' = [turn EXCEPT ![t].gone = TRUE]
    /\ Quietly

\* The event of the loop that ends a cancelled turn, wherever it waited; a
\* transaction under way is dropped if no worker has taken it up.
EndCancelled(t, kind) ==
    /\ turn' = [turn EXCEPT ![t].at = "done", ![t].job = "none", ![t].cancelled = TRUE,
                            ![t].outcome = kind]
    /\ \/ UNCHANGED loose
       \/ /\ turn[t].job = "queued"
          /\ loose' = loose \cup {<<Operation[turn[t].at], Current(t)>>}
    /\ cut' = IF turn[t].job = "none" THEN cut ELSE cut \cup {Current(t)}

\* The finally of the SSE writer cancels the producer, once.
Cancel(t) ==
    /\ ~turn[t].cancelled
    /\ \/ turn[t].at = "listing" /\ EndCancelled(t, "interrupted")
       \/ turn[t].at \in {"reserving", "releasing", "committing"} /\ EndCancelled(t, "cancelled")
       \/ turn[t].at = "recording" /\ turn[t].cost > 0 /\ EndCancelled(t, "cancelled")
       \/ /\ turn[t].at = "calling"
          /\ IF t \in Reserving
             THEN /\ turn' = [turn EXCEPT ![t].at = "releasing", ![t].job = "queued",
                                          ![t].cancelled = TRUE]
                  /\ UNCHANGED <<loose, cut>>
             ELSE EndCancelled(t, "cancelled")
       \* call_tool raises it if the latch says the reader is gone; otherwise it
       \* takes it for a failure of the transport and returns an error.
       \/ /\ turn[t].at = "tooling"
          /\ turn[t].gone
          /\ EndCancelled(t, "cancelled")
       \/ /\ turn[t].at = "tooling"
          /\ ~turn[t].gone
          /\ turn' = [turn EXCEPT ![t].open = @ - 1, ![t].at = "done", ![t].cancelled = TRUE,
                                  ![t].outcome = "tool_error"]
          /\ UNCHANGED <<loose, cut>>
    /\ UNCHANGED <<ledgerVars, late>>

\* The process dies.  The ledger is durable; turn ids are never used again.
Crash ==
    /\ \E t \in Turns : Running(t)
    /\ turn' = [t \in Turns |->
        IF Running(t)
        THEN [turn[t] EXCEPT !.at = "done", !.job = "none", !.outcome = "killed"]
        ELSE turn[t]]
    /\ loose' = {}
    /\ UNCHANGED <<ledgerVars, late, cut>>

Lapse ==
    /\ \E r \in Requests : Ledger!Lapse(r)
    /\ UNCHANGED <<turn, loose, late, cut>>

-----------------------------------------------------------------------------
Resume(t) ==
    \/ Listed(t) \/ Stop(t) \/ Round(t) \/ Reserved(t) \/ Answered(t) \/ CallFails(t)
    \/ Released(t) \/ Committed(t) \/ OverLimit(t) \/ Respond(t)
    \/ BatchDone(t) \/ ToolLimit(t) \/ NextCall(t) \/ ToolReturns(t)

Next ==
    \/ \E t \in Turns :
        \/ Start(t) \/ Resume(t) \/ Disconnect(t) \/ Cancel(t)
        \/ RunJob(t) \/ RunLoose(t)
    \/ Crash
    \/ Lapse

\* Every await of a turn is bounded by a timeout, and workers run what is queued.
Fairness == \A t \in Turns : WF_vars(Resume(t)) /\ WF_vars(RunJob(t))

Spec == Init /\ [][Next]_vars /\ Fairness

-----------------------------------------------------------------------------
(* Properties *)

\* A provider call is made under a reservation of its own that nobody released or
\* charged, whatever became of the reader and of other turns of the principal.
HeldWhileCalling ==
    \A t \in Reserving : turn[t].at = "calling" =>
        LET row == reservations[Current(t)] IN
        /\ row.status \in {"ACTIVE", "EXPIRED"}
        /\ row.principal = Payer[t]
        /\ row.estimate = turn[t].estimate

\* No transaction of the loop meets a ReservationConflict, awaited or not: a
\* request is reserved once, and committed while it can be.
NoConflict ==
    \A t \in Turns, op \in {"reserve", "commit"} :
        \/ <<op, Current(t)>> \in loose
        \/ turn[t].job = "queued" /\ Operation[turn[t].at] = op
        => reservations[Current(t)].status \in
               IF op = "reserve" THEN {"NONE"} ELSE {"ACTIVE", "EXPIRED"}

\* The calls whose response the turn has used.
Used(t) ==
    {k \in 1..turn[t].calls :
        \/ k < turn[t].calls
        \/ turn[t].at \in {"recording", "batch", "tooling", "round"}
        \/ turn[t].outcome \in {"answer", "needs_clarification", "tool_error"}}

\* No response is used before it is paid for, however the turn goes on or ends.
DeliveredIsCharged ==
    \A t \in Reserving : \A k \in Used(t) :
        reservations[<<t, k>>].status = "COMMITTED"

\* A turn that is over holds no capacity, unless one of its transactions failed or
\* was cancelled or the process died: then the hold lasts until it expires.
HoldsAreReturned ==
    \A r \in Requests : reservations[r].status = "ACTIVE" =>
        \/ turn[r[1]].at \in {"reserving", "calling", "releasing", "committing"}
        \/ turn[r[1]].outcome = "killed"
        \/ r \in cut

\* What the admission of a request still covers of its cost.
Covered(r) ==
    LET row == reservations[r] IN
    CASE row.status = "ACTIVE" -> row.estimate
      [] row.status = "COMMITTED" /\ r \notin late -> Min({row.cost, row.estimate})
      [] OTHER -> 0

\* Concurrent turns never spend past the budget of their principal, apart from
\* costs above their estimate and calls that outlived their hold.
OnlyOverrunsOverspend ==
    default # Unlimited => \A p \in Principals :
        SumOver([r \in Requests |-> Covered(r)], Ledger!Of(p)) <= default

\* Every turn comes to an end: of itself, by a limit, by a failure or because the
\* reader left, and never waits for a transaction nobody will carry out.
TurnsEnd == \A t \in Turns : Running(t) ~> turn[t].at = "done"

\* "For each call it appends one role: tool result" and "a fresh later user turn
\* also replays it as history": when a turn is over whose reader stayed to the end,
\* every call of its transcript has a result.
EveryCallAnswered ==
    \A t \in Turns :
        turn[t].at = "done" /\ ~turn[t].gone /\ turn[t].outcome # "killed" => turn[t].open = 0

=============================================================================
