------------------------------ MODULE StageRun ------------------------------
(***************************************************************************)
(* One stage of the load generator (agent_db/stress/runner.py): a pool of  *)
(* worker threads takes the ticks of a schedule from one dispenser, each    *)
(* worker on a session of its own, which it retires for a fresh one before  *)
(* the server's quota of turns per session would refuse it.  A tick whose   *)
(* slot has gone by is dropped, never run late; a worker whose driver       *)
(* raises dies, and the tickets it would have taken go to the others.       *)
(*                                                                         *)
(* The clock is abstract: whether a tick is late, or a session old, is a    *)
(* choice of the environment.  The gates of the verdict that are numbers    *)
(* only (generator CPU, the percentile of the lag) are left out: they only  *)
(* make fewer stages valid.                                                 *)
(***************************************************************************)
EXTENDS Naturals, FiniteSets

CONSTANTS
    PoolSize,      \* worker_count: one thread and one session each
    TotalTicks,    \* spec.total_ticks
    WarmupTicks,   \* spec.warmup_ticks: ticks before these are not measured
    RecycleTurns,  \* SessionRecycle.turns
    MaxSessions    \* bound: sessions the driver can open in the stage

ASSUME StageAssumption ==
    /\ {PoolSize, TotalTicks, RecycleTurns, MaxSessions} \subseteq Nat \ {0}
    /\ WarmupTicks \in 0 .. TotalTicks - 1
    /\ PoolSize <= MaxSessions

Slots == 1 .. PoolSize
StageTicks == 0 .. TotalTicks - 1
Measured == WarmupTicks .. TotalTicks - 1
SessionIds == 1 .. MaxSessions

\* Where a worker thread is: behind the gate, about to claim a ticket,
\* between closing a session and opening the next, before its tick's slot,
\* inside the driver, returned, or killed by an exception.
WorkerAts == {"gate", "free", "reopening", "waiting", "turn", "ended", "dead"}

\* A worker: its place, the tick it holds, its local variable "session" and
\* the turns that session has carried.
WorkerState == [at : WorkerAts, tick : StageTicks,
                session : SessionIds \cup {0}, turns : 0 .. RecycleTurns]
Behind == [at |-> "gate", tick |-> 0, session |-> 0, turns |-> 0]

VARIABLES
    stage,       \* where run() is
    worker,      \* the worker threads
    ticket,      \* _Schedule._next
    holding,        \* live_sessions: what run() closes at the end
    opened,      \* sessions opened so far, numbered in that order
    closings,    \* how often each session has been closed
    carried,     \* turns each session has carried, over all workers
    recorded,    \* how often each tick produced a record
    passedUp,    \* ticks dropped
    stopFlag     \* StageRunner._stop

stageVars == <<stage, worker, ticket, holding, opened, closings, carried,
               recorded, passedUp, stopFlag>>

StageTypeOK ==
    /\ stage \in {"idle", "opening", "running", "stopping", "returned",
                  "raised", "aborted"}
    /\ worker \in [Slots -> WorkerState]
    /\ ticket \in 0 .. TotalTicks
    /\ holding \in [Slots -> SessionIds \cup {0}]
    /\ opened \in 0 .. MaxSessions
    /\ closings \in [SessionIds -> 0 .. 2]
    /\ carried \in [SessionIds -> Nat]
    /\ recorded \in [StageTicks -> Nat]
    /\ passedUp \subseteq StageTicks
    /\ stopFlag \in BOOLEAN

StageInit ==
    /\ stage = "idle"
    /\ worker = [w \in Slots |-> Behind]
    /\ ticket = 0
    /\ holding = [w \in Slots |-> 0]
    /\ opened = 0
    /\ closings = [s \in SessionIds |-> 0]
    /\ carried = [s \in SessionIds |-> 0]
    /\ recorded = [t \in StageTicks |-> 0]
    /\ passedUp = {}
    /\ stopFlag = FALSE

Firing == stage \in {"running", "stopping", "aborted"}
Resting == {"ended", "dead"}
Moved(w, at) == worker' = [worker EXCEPT ![w].at = at]

-----------------------------------------------------------------------------
\* The main thread.

StageStart ==
    /\ stage = "idle"
    /\ stage' = "opening"
    /\ UNCHANGED <<worker, ticket, holding, opened, closings, carried, recorded,
                   passedUp, stopFlag>>

\* _open_sessions opens one session per worker, in order and in one thread.
OpenSlot ==
    /\ stage = "opening"
    /\ opened < PoolSize
    /\ opened' = opened + 1
    /\ holding' = [holding EXCEPT ![opened'] = opened']
    /\ worker' = [worker EXCEPT ![opened'].session = opened']
    /\ UNCHANGED <<stage, ticket, closings, carried, recorded, passedUp,
                   stopFlag>>

\* A handshake that fails ends run(); the sessions opened before it stay open.
OpenSlotFails ==
    /\ stage = "opening"
    /\ opened < PoolSize
    /\ stage' = "raised"
    /\ UNCHANGED <<worker, ticket, holding, opened, closings, carried, recorded,
                   passedUp, stopFlag>>

\* The clock is read and the gate opened for every worker at once.
OpenGate ==
    /\ stage = "opening"
    /\ opened = PoolSize
    /\ stage' = "running"
    /\ worker' = [w \in Slots |-> [worker[w] EXCEPT !.at = "free"]]
    /\ UNCHANGED <<ticket, holding, opened, closings, carried, recorded, passedUp,
                   stopFlag>>

\* Every worker has been joined: what they hold is closed, and the records
\* are counted; a stage without one measured record raises.
StageReturns ==
    /\ stage = "running"
    /\ \A w \in Slots : worker[w].at \in Resting
    /\ closings' = [s \in SessionIds |->
                      closings[s] + Cardinality({w \in Slots : holding[w] = s})]
    /\ stage' = IF \E t \in Measured : recorded[t] > 0 THEN "returned" ELSE "raised"
    /\ UNCHANGED <<worker, ticket, holding, opened, carried, recorded, passedUp,
                   stopFlag>>

\* Ctrl-C while run() joins: the CLI sets the stop flag ...
Interrupt ==
    /\ stage = "running"
    /\ stage' = "stopping"
    /\ stopFlag' = TRUE
    /\ UNCHANGED <<worker, ticket, holding, opened, closings, carried, recorded,
                   passedUp>>

\* ... and joins every worker for a bounded time: join_workers goes on also
\* when one of them is still in its turn.  No session is closed on this path.
JoinWorkers ==
    /\ stage = "stopping"
    /\ stage' = "aborted"
    /\ UNCHANGED <<worker, ticket, holding, opened, closings, carried, recorded,
                   passedUp, stopFlag>>

-----------------------------------------------------------------------------
\* A worker thread.

Rest(w) ==
    /\ Firing
    /\ worker[w].at = "free"
    /\ stopFlag \/ ticket = TotalTicks
    /\ Moved(w, "ended")
    /\ UNCHANGED <<stage, ticket, holding, opened, closings, carried, recorded,
                   passedUp, stopFlag>>

\* Faulty variant of Claim: a session carries one turn too many.
ClaimLate(w, aged) ==
    LET rotate == aged \/ worker[w].turns > RecycleTurns
    IN  /\ Firing
        /\ worker[w].at = "free"
        /\ ~stopFlag
        /\ ticket < TotalTicks
        /\ ticket' = ticket + 1
        /\ worker' = [worker EXCEPT ![w].tick = ticket,
                                    ![w].at = IF rotate THEN "reopening" ELSE "waiting"]
        /\ closings' = IF rotate
                       THEN [closings EXCEPT ![worker[w].session] = @ + 1]
                       ELSE closings
        /\ UNCHANGED <<stage, holding, opened, carried, recorded, passedUp, stopFlag>>

\* A ticket is claimed; when the session's turns are used up, or it is too
\* old, it is closed here, between the claim and the wait for the slot.
Claim(w, aged) ==
    LET rotate == aged \/ worker[w].turns >= RecycleTurns
    IN  /\ Firing
        /\ worker[w].at = "free"
        /\ ~stopFlag
        /\ ticket < TotalTicks
        /\ ticket' = ticket + 1
        /\ worker' = [worker EXCEPT
                        ![w].tick = ticket,
                        ![w].at = IF rotate THEN "reopening" ELSE "waiting"]
        /\ closings' = IF rotate
                       THEN [closings EXCEPT ![worker[w].session] = @ + 1]
                       ELSE closings
        /\ UNCHANGED <<stage, holding, opened, carried, recorded, passedUp,
                       stopFlag>>

\* The fresh session replaces the old one also in what run() will close.
Recycle(w) ==
    /\ Firing
    /\ worker[w].at = "reopening"
    /\ opened < MaxSessions
    /\ opened' = opened + 1
    /\ holding' = [holding EXCEPT ![w] = opened']
    /\ worker' = [worker EXCEPT ![w].at = "waiting", ![w].session = opened',
                                ![w].turns = 0]
    /\ UNCHANGED <<stage, ticket, closings, carried, recorded, passedUp,
                   stopFlag>>

\* A handshake that fails kills the worker, which still lists the session it
\* has closed: run() closes it once more.
RecycleFails(w) ==
    /\ Firing
    /\ worker[w].at = "reopening"
    /\ Moved(w, "dead")
    /\ UNCHANGED <<stage, ticket, holding, opened, closings, carried, recorded,
                   passedUp, stopFlag>>

\* Late by an interval or more: the slot is gone.
DropTick(w) ==
    /\ Firing
    /\ worker[w].at = "waiting"
    /\ passedUp' = passedUp \cup {worker[w].tick}
    /\ Moved(w, "free")
    /\ UNCHANGED <<stage, ticket, holding, opened, closings, carried, recorded,
                   stopFlag>>

BeginTurn(w) ==
    /\ Firing
    /\ worker[w].at = "waiting"
    /\ Moved(w, "turn")
    /\ carried' = [carried EXCEPT ![worker[w].session] = @ + 1]
    /\ UNCHANGED <<stage, ticket, holding, opened, closings, recorded, passedUp,
                   stopFlag>>

\* The driver returns a record, of a success or of an error: a failed call is
\* a measurement.
EndTurn(w) ==
    /\ Firing
    /\ worker[w].at = "turn"
    /\ recorded' = [recorded EXCEPT ![worker[w].tick] = @ + 1]
    /\ worker' = [worker EXCEPT ![w].at = "free", ![w].turns = @ + 1]
    /\ UNCHANGED <<stage, ticket, holding, opened, closings, carried, passedUp,
                   stopFlag>>

\* The driver raises, as it does when the handshake of a forgotten session
\* fails: the worker dies and its tick is unaccounted for.
TurnRaises(w) ==
    /\ Firing
    /\ worker[w].at = "turn"
    /\ Moved(w, "dead")
    /\ UNCHANGED <<stage, ticket, holding, opened, closings, carried, recorded,
                   passedUp, stopFlag>>

StageNext ==
    \/ StageStart \/ OpenSlot \/ OpenSlotFails \/ OpenGate
    \/ StageReturns \/ Interrupt \/ JoinWorkers
    \/ \E w \in Slots :
          \/ Rest(w) \/ Recycle(w) \/ RecycleFails(w)
          \/ DropTick(w) \/ BeginTurn(w) \/ EndTurn(w) \/ TurnRaises(w)
          \/ \E aged \in BOOLEAN : Claim(w, aged)

StageSpec == StageInit /\ [][StageNext]_stageVars

-----------------------------------------------------------------------------
\* StageResult.is_valid: nobody died, no measured tick was dropped, and the
\* records and the dropped ticks add up to the schedule.
Records == {t \in StageTicks : recorded[t] > 0}
Valid ==
    /\ stage = "returned"
    /\ \A w \in Slots : worker[w].at # "dead"
    /\ passedUp \cap Measured = {}
    /\ Cardinality(Records) + Cardinality(passedUp) = TotalTicks

\* A stage that counts as a measurement is the whole stage: every measured
\* tick ran exactly once, whichever worker took it, and no tick of the
\* warm-up is both dropped and recorded.
ValidIsWhole ==
    /\ Valid => \A t \in Measured : recorded[t] = 1
    /\ \A t \in StageTicks : recorded[t] + (IF t \in passedUp THEN 1 ELSE 0) <= 1

\* No session carries more turns than the server's quota leaves it, across
\* rotations, deaths and interrupts, and no two workers drive one session.
QuotaIsKept ==
    /\ \A s \in SessionIds : carried[s] <= RecycleTurns
    /\ \A v, w \in Slots :
          v # w /\ worker[v].session # 0 => worker[v].session # worker[w].session

\* A stage that returns leaves no session open; one that returns as valid has
\* closed each exactly once.  (Sessions are left behind when the opening of
\* the pool fails and when the run is interrupted.)
SessionsAreRetired ==
    stage = "returned" =>
        \A s \in 1 .. opened : closings[s] >= 1 /\ (Valid => closings[s] = 1)

\* What a rung rests on when the ladder believes the stage it ran.
StageIsWhole == ValidIsWhole /\ QuotaIsKept /\ SessionsAreRetired
=============================================================================
