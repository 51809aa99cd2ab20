---------------------------- MODULE LoadTestProofs ----------------------------
(***************************************************************************)
(* Proofs about the load generator and the benchmark: about one stage      *)
(* (StageRun) for any pool, schedule and quota, about the capacity ladder  *)
(* (LoadLadder) for any plan, about the lock of a target (RunGuard) for    *)
(* any set of processes, about the command around them (MeasuredRun) for   *)
(* any tenants and stages, about a benchmark run (BenchRun) for any        *)
(* fixtures, and about the turns of the measured sessions (ChatTurns,      *)
(* ToolTurns) for any sessions, plans and faults.                          *)
(***************************************************************************)
EXTENDS StageRun, LoadLadder, RunGuard, MeasuredRun, BenchRun, LoadClients, FoldTheorems

(* The stage: the inductive invariant *)

\* A thread behind the gate, with the session opened for it, if that is open.
Gated(w) == [at |-> "gate", tick |-> 0, session |-> IF w <= opened THEN w ELSE 0, turns |-> 0]

\* Until the gate opens every thread is behind it; afterwards each has a session.
GateInv ==
    \/ /\ stage \in {"idle", "opening", "raised"}
       /\ opened <= PoolSize
       /\ \A w \in Slots : worker[w] = Gated(w)
    \/ /\ stage \notin {"idle", "opening"}
       /\ \A w \in Slots : worker[w].at # "gate" /\ worker[w].session # 0

\* What run() would close is what the threads drive, and no two drive the same.
SessionInv ==
    /\ \A w \in Slots : worker[w].session = holding[w] /\ holding[w] <= opened
    /\ \A v, w \in Slots : v # w /\ holding[v] # 0 => holding[v] # holding[w]

\* No session exceeds its quota, and one that is not open has carried nothing.
CarriedInv ==
    \A s \in SessionIds : carried[s] <= RecycleTurns /\ (s > opened => carried[s] = 0)

\* A thread counts the turns of its session, and has one left when it begins one.
TurnsInv ==
    \A w \in Slots :
        /\ worker[w].at \in {"waiting", "turn"} => worker[w].turns < RecycleTurns
        /\ worker[w].at # "dead" /\ worker[w].session # 0 =>
              carried[worker[w].session] = worker[w].turns + (IF worker[w].at = "turn" THEN 1 ELSE 0)

\* A thread between the claim of a ticket and its record.
HasTick(w) == worker[w].at \in {"reopening", "waiting", "turn"}

\* A tick runs or is dropped at most once, and not before its ticket was taken.
RecordInv ==
    \A t \in StageTicks :
        /\ recorded[t] <= 1
        /\ t \in passedUp => recorded[t] = 0
        /\ t >= ticket => recorded[t] = 0 /\ t \notin passedUp

\* A tick that is in the hands of a thread is in those of one, and has not run.
TickInv ==
    /\ \A w \in Slots : HasTick(w) =>
        /\ worker[w].tick < ticket
        /\ recorded[worker[w].tick] = 0
        /\ worker[w].tick \notin passedUp
    /\ \A v, w \in Slots : v # w /\ HasTick(v) /\ HasTick(w) => worker[v].tick # worker[w].tick

\* Where run() has ended by itself.
Over == {"returned", "raised"}

\* Until then a session that no thread holds has been closed once ...
CloseInv ==
    stage \notin Over => \A s \in SessionIds :
        /\ s > opened => closings[s] = 0
        /\ s <= opened /\ (\A w \in Slots : holding[w] # s) => closings[s] = 1

\* ... and one that is held has not, unless its thread was about to replace it.
HeldCloseInv ==
    stage \notin Over => \A w \in Slots : holding[w] # 0 =>
        /\ worker[w].at = "reopening" => closings[holding[w]] = 1
        /\ worker[w].at = "dead" => closings[holding[w]] <= 1
        /\ worker[w].at \notin {"reopening", "dead"} => closings[holding[w]] = 0

\* The inductive invariant of a stage.
StageInv ==
    /\ StageTypeOK
    /\ GateInv
    /\ SessionInv
    /\ CarriedInv
    /\ TurnsInv
    /\ RecordInv
    /\ TickInv
    /\ CloseInv
    /\ HeldCloseInv
    /\ SessionsAreRetired

-----------------------------------------------------------------------------
(* The stage: proofs *)

\* The assumption on the constants, one constant at a time.
LEMMA SizesArePositive ==
    /\ PoolSize \in Nat /\ PoolSize > 0 /\ TotalTicks \in Nat /\ TotalTicks > 0
    /\ RecycleTurns \in Nat /\ RecycleTurns > 0 /\ MaxSessions \in Nat /\ MaxSessions > 0
    /\ WarmupTicks \in Nat /\ WarmupTicks < TotalTicks /\ PoolSize <= MaxSessions
BY StageAssumption

\* What the counters and sets are, without the bounds of the model.
LEMMA StageTypes ==
    ASSUME StageTypeOK
    PROVE  /\ opened \in Nat /\ ticket \in Nat /\ passedUp \in SUBSET StageTicks
           /\ holding \in [Slots -> Nat] /\ carried \in [SessionIds -> Nat]
           /\ recorded \in [StageTicks -> Nat] /\ closings \in [SessionIds -> Nat]
           /\ \A t \in StageTicks : t \in Nat
           /\ \A s \in SessionIds : s \in Nat
           /\ \A w \in Slots : w \in Nat
<1>1. /\ \A t \in StageTicks : t \in Nat
      /\ \A s \in SessionIds : s \in Nat
      /\ \A w \in Slots : w \in Nat
  BY SizesArePositive DEF SessionIds, StageTicks, Slots
<1>2. opened \in Nat /\ ticket \in Nat /\ passedUp \in SUBSET StageTicks
  BY SizesArePositive DEF StageTypeOK
<1>3. holding \in [Slots -> Nat]
  BY <1>1 DEF StageTypeOK
<1>4. closings \in [SessionIds -> Nat]
  <2>1. \A n \in 0 .. 2 : n \in Nat
    OBVIOUS
  <2>2. QED
    BY <2>1 DEF StageTypeOK
<1>5. QED
  BY <1>1, <1>2, <1>3, <1>4 DEF StageTypeOK

\* Nothing is open, claimed or recorded.
LEMMA StageStarts == ASSUME StageInit PROVE StageInv
<1>. USE SizesArePositive DEF StageInit
<1>1. \A w \in Slots : Behind \in WorkerState /\ Behind = Gated(w)
  BY DEF Behind, Gated, WorkerState, WorkerAts, StageTicks, Slots
<1>2. StageTypeOK
  <2>1. worker \in [Slots -> WorkerState]
    BY <1>1
  <2>2. /\ carried \in [SessionIds -> Nat] /\ recorded \in [StageTicks -> Nat]
        /\ closings \in [SessionIds -> 0 .. 2] /\ holding \in [Slots -> SessionIds \cup {0}]
    OBVIOUS
  <2>3. ticket \in 0 .. TotalTicks /\ opened \in 0 .. MaxSessions
    OBVIOUS
  <2>4. QED
    BY <2>1, <2>2, <2>3 DEF StageTypeOK
<1>3. GateInv
  BY <1>1 DEF GateInv
<1>4. SessionInv
  BY DEF SessionInv, Behind
<1>5. CarriedInv /\ TurnsInv
  BY DEF CarriedInv, TurnsInv, Behind
<1>6. RecordInv /\ TickInv
  BY DEF RecordInv, TickInv, HasTick, Behind
<1>7. CloseInv /\ HeldCloseInv
  BY DEF CloseInv, HeldCloseInv, SessionIds
<1>8. SessionsAreRetired
  BY DEF SessionsAreRetired
<1>9. QED
  BY <1>2, <1>3, <1>4, <1>5, <1>6, <1>7, <1>8 DEF StageInv

\* A thread past the gate drives a session of its own.
LEMMA AtWork ==
    ASSUME StageInv, stage \notin {"idle", "opening"} \cup Over, NEW w \in Slots
    PROVE  /\ worker[w].at # "gate" /\ worker[w].tick \in StageTicks /\ worker[w].turns \in 0 .. RecycleTurns
           /\ worker[w].session \in SessionIds \ {0} /\ worker[w].session <= opened
           /\ holding[w] = worker[w].session
           /\ \A v \in Slots : v # w => holding[v] # holding[w]
<1>1. worker[w] \in WorkerState /\ worker[w].session # 0 /\ worker[w].at # "gate"
  BY DEF StageInv, StageTypeOK, GateInv, Over
<1>2. QED
  BY <1>1 DEF StageInv, SessionInv, WorkerState

\* What an action of a worker does to the threads: one of them moves.
LEMMA OneMoves ==
    ASSUME worker \in [Slots -> WorkerState], NEW w \in Slots, NEW a \in WorkerAts, Moved(w, a)
    PROVE  /\ worker' \in [Slots -> WorkerState]
           /\ worker'[w].at = a /\ worker'[w].tick = worker[w].tick
           /\ worker'[w].session = worker[w].session /\ worker'[w].turns = worker[w].turns
           /\ \A v \in Slots : v # w => worker'[v] = worker[v]
BY DEF Moved, WorkerState


\* The main thread goes from one phase to the next; nothing else changes.
LEMMA PhaseKeeps ==
    ASSUME StageInv, StageStart \/ OpenSlotFails \/ Interrupt \/ JoinWorkers
    PROVE  StageInv'
<1>. USE SizesArePositive DEF StageInv
<1>1. /\ \/ stage = "idle" /\ stage' = "opening"
         \/ stage = "opening" /\ stage' = "raised"
         \/ stage \in {"running", "stopping"} /\ stage' \in {"stopping", "aborted"}
      /\ stopFlag' \in BOOLEAN
      /\ UNCHANGED <<worker, ticket, holding, opened, closings, carried, recorded, passedUp>>
  BY DEF StageStart, OpenSlotFails, Interrupt, JoinWorkers, StageTypeOK
<1>2. StageTypeOK'
  BY <1>1, StageTypes DEF StageTypeOK, Over
<1>3. GateInv' /\ SessionInv'
  BY <1>1, StageTypes DEF GateInv, Gated, SessionInv, Over
<1>4. CarriedInv' /\ TurnsInv'
  BY <1>1, StageTypes DEF CarriedInv, TurnsInv, Over
<1>5. RecordInv' /\ TickInv'
  BY <1>1, StageTypes DEF RecordInv, TickInv, HasTick, Over
<1>6. CloseInv' /\ HeldCloseInv'
  BY <1>1, StageTypes DEF CloseInv, HeldCloseInv, Over
<1>7. SessionsAreRetired'
  BY <1>1, StageTypes DEF SessionsAreRetired, Over
<1>8. QED
  BY <1>2, <1>3, <1>4, <1>5, <1>6, <1>7

\* A session is opened for the next thread, which is behind the gate.
LEMMA OpenSlotKeeps ==
    ASSUME StageInv, OpenSlot
    PROVE  StageInv'
<1>. USE SizesArePositive DEF StageInv
<1>1. /\ stage = "opening" /\ opened < PoolSize /\ opened' = opened + 1
      /\ worker' = [worker EXCEPT ![opened'].session = opened']
      /\ holding' = [holding EXCEPT ![opened'] = opened']
      /\ UNCHANGED <<stage, ticket, closings, carried, recorded, passedUp, stopFlag>>
  BY DEF OpenSlot
<1>2. opened \in Nat /\ opened + 1 \in Slots /\ opened + 1 \in SessionIds
  BY <1>1, StageTypes DEF SessionIds, Slots
<1>3. /\ worker \in [Slots -> WorkerState]
      /\ \A w \in Slots : worker[w] = Gated(w) /\ holding[w] = IF w <= opened THEN w ELSE 0
  BY <1>1 DEF StageTypeOK, GateInv, Gated, SessionInv
<1>4. worker' \in [Slots -> WorkerState]
  BY <1>1, <1>2, <1>3 DEF WorkerState
<1>5. \A w \in Slots : /\ worker'[w].at = "gate" /\ worker'[w].tick = 0 /\ worker'[w].turns = 0
                       /\ worker'[w].session = IF w <= opened + 1 THEN w ELSE 0
                       /\ holding'[w] = IF w <= opened + 1 THEN w ELSE 0
  BY <1>1, <1>2, <1>3, StageTypes DEF Gated, WorkerState
<1>6. \A w \in Slots : worker'[w] = [at |-> "gate", tick |-> 0,
                                     session |-> IF w <= opened + 1 THEN w ELSE 0, turns |-> 0]
  BY <1>4, <1>5 DEF WorkerState
<1>7. StageTypeOK'
  BY <1>1, <1>2, <1>3, <1>4, <1>5, <1>6, StageTypes DEF StageTypeOK
<1>8. GateInv' /\ SessionInv'
  BY <1>1, <1>2, <1>3, <1>4, <1>5, <1>6, StageTypes DEF GateInv, Gated, SessionInv
<1>9. CarriedInv'
  BY <1>1, <1>2, <1>3, <1>4, <1>5, <1>6, StageTypes DEF CarriedInv
<1>10. TurnsInv'
  <2>1. carried[opened + 1] = 0
    BY <1>2, StageTypes DEF CarriedInv
  <2>2. ASSUME NEW w \in Slots, w <= opened
        PROVE  w \in SessionIds /\ carried[w] = 0
    <3>1. w \in SessionIds /\ w # 0
      BY DEF Slots, SessionIds
    <3>2. worker[w].at = "gate" /\ worker[w].session = w /\ worker[w].turns = 0
      BY <1>3, <2>2 DEF Gated
    <3>3. QED
      BY <3>1, <3>2 DEF TurnsInv
  <2>3. QED
    BY <1>1, <1>2, <1>5, <2>1, <2>2, StageTypes DEF TurnsInv
<1>11. RecordInv' /\ TickInv'
  BY <1>1, <1>2, <1>3, <1>4, <1>5, <1>6, StageTypes DEF RecordInv, TickInv, HasTick
<1>12. CloseInv'
  <2>1. ASSUME NEW s \in SessionIds, s <= opened + 1
        PROVE  \E w \in Slots : holding'[w] = s
    BY <1>1, <1>2, <1>5, <2>1, StageTypes DEF Slots, SessionIds
  <2>2. QED
    BY <1>1, <1>2, <2>1, StageTypes DEF CloseInv, Over
<1>13. HeldCloseInv'
  <2>1. closings[opened + 1] = 0
    BY <1>1, <1>2, StageTypes DEF CloseInv, Over
  <2>2. ASSUME NEW w \in Slots, w <= opened
        PROVE  w # 0 /\ closings[w] = 0
    BY <1>1, <1>3, <2>2, StageTypes DEF HeldCloseInv, Over, Gated, Slots
  <2>3. QED
    BY <1>1, <1>2, <1>5, <2>1, <2>2, StageTypes DEF HeldCloseInv
<1>14. SessionsAreRetired'
  BY <1>1, <1>2, <1>3, <1>4, <1>5, <1>6, StageTypes DEF SessionsAreRetired, Over
<1>15. QED
  BY <1>7, <1>8, <1>9, <1>10, <1>11, <1>12, <1>13, <1>14

\* Every thread is let through at once, on a session of its own.
LEMMA OpenGateKeeps ==
    ASSUME StageInv, OpenGate
    PROVE  StageInv'
<1>. USE SizesArePositive DEF StageInv
<1>1. /\ stage = "opening" /\ stage' = "running" /\ opened = PoolSize
      /\ worker \in [Slots -> WorkerState]
      /\ worker' = [w \in Slots |-> [worker[w] EXCEPT !.at = "free"]]
      /\ UNCHANGED <<ticket, holding, opened, closings, carried, recorded, passedUp, stopFlag>>
  BY DEF OpenGate, StageTypeOK
<1>2. \A w \in Slots : worker[w] = Gated(w)
  BY <1>1 DEF GateInv
<1>3. \A w \in Slots : worker[w].at = "gate" /\ worker[w].session = w /\ worker[w].turns = 0 /\ w # 0
  BY <1>1, <1>2 DEF Gated, Slots
<1>4. \A w \in Slots : worker'[w].at = "free" /\ worker'[w].session = w /\ worker'[w].turns = 0
  BY <1>1, <1>3 DEF WorkerState
<1>5. worker' \in [Slots -> WorkerState]
  BY <1>1 DEF WorkerState, WorkerAts
<1>6. StageTypeOK'
  BY <1>1, <1>3, <1>4, <1>5, StageTypes DEF StageTypeOK, Over
<1>7. GateInv' /\ SessionInv'
  BY <1>1, <1>3, <1>4, <1>5, StageTypes DEF GateInv, Gated, SessionInv, Over
<1>8. CarriedInv' /\ TurnsInv'
  BY <1>1, <1>3, <1>4, <1>5, StageTypes DEF CarriedInv, TurnsInv, Over
<1>9. RecordInv' /\ TickInv'
  BY <1>1, <1>3, <1>4, <1>5, StageTypes DEF RecordInv, TickInv, HasTick, Over
<1>10. CloseInv' /\ HeldCloseInv'
  BY <1>1, <1>3, <1>4, <1>5, StageTypes DEF CloseInv, HeldCloseInv, Over
<1>11. SessionsAreRetired'
  BY <1>1, <1>3, <1>4, <1>5, StageTypes DEF SessionsAreRetired, Over
<1>12. QED
  BY <1>6, <1>7, <1>8, <1>9, <1>10, <1>11

\* A thread returns, or dies.
LEMMA RestKeeps ==
    ASSUME StageInv, NEW w \in Slots, Rest(w) \/ RecycleFails(w) \/ TurnRaises(w)
    PROVE  StageInv'
<1>. USE SizesArePositive DEF StageInv
<1>1. /\ Firing
      /\ \/ worker[w].at = "free" /\ Moved(w, "ended")
         \/ worker[w].at \in {"reopening", "turn"} /\ Moved(w, "dead")
      /\ UNCHANGED <<stage, ticket, holding, opened, closings, carried, recorded, passedUp, stopFlag>>
  BY DEF Rest, RecycleFails, TurnRaises
<1>2. worker \in [Slots -> WorkerState] /\ stage \notin {"idle", "opening"} \cup Over
  BY <1>1 DEF StageTypeOK, Firing, Over
<1>3. /\ worker[w].tick \in StageTicks /\ worker[w].turns \in 0 .. RecycleTurns
      /\ worker[w].session \in SessionIds \ {0} /\ worker[w].session <= opened
      /\ holding[w] = worker[w].session /\ \A v \in Slots : v # w => holding[v] # holding[w]
  BY <1>2, AtWork
<1>4. /\ worker' \in [Slots -> WorkerState]
      /\ worker'[w].at = IF worker[w].at = "free" THEN "ended" ELSE "dead"
      /\ worker'[w].tick = worker[w].tick
      /\ worker'[w].session = worker[w].session /\ worker'[w].turns = worker[w].turns
      /\ \A v \in Slots : v # w => worker'[v] = worker[v]
  BY <1>1, <1>2, OneMoves DEF WorkerAts
<1>5. StageTypeOK'
  BY <1>1, <1>2, <1>3, <1>4, StageTypes DEF StageTypeOK
<1>6. GateInv' /\ SessionInv'
  BY <1>1, <1>2, <1>3, <1>4, StageTypes DEF GateInv, Gated, SessionInv
<1>7. CarriedInv' /\ TurnsInv'
  BY <1>1, <1>2, <1>3, <1>4, StageTypes DEF CarriedInv, TurnsInv
<1>8. RecordInv' /\ TickInv'
  BY <1>1, <1>2, <1>3, <1>4, StageTypes DEF RecordInv, TickInv, HasTick
<1>9. CloseInv' /\ HeldCloseInv'
  BY <1>1, <1>2, <1>3, <1>4, StageTypes DEF CloseInv, HeldCloseInv
<1>10. SessionsAreRetired'
  BY <1>1, <1>2, <1>3, <1>4, StageTypes DEF SessionsAreRetired, Over
<1>11. QED
  BY <1>5, <1>6, <1>7, <1>8, <1>9, <1>10

\* A tick that nobody else has is dropped.
LEMMA DropTickKeeps ==
    ASSUME StageInv, NEW w \in Slots, DropTick(w)
    PROVE  StageInv'
<1>. USE SizesArePositive DEF StageInv
<1>1. /\ Firing /\ worker[w].at = "waiting" /\ Moved(w, "free")
      /\ passedUp' = passedUp \cup {worker[w].tick}
      /\ UNCHANGED <<stage, ticket, holding, opened, closings, carried, recorded, stopFlag>>
  BY DEF DropTick
<1>2. worker \in [Slots -> WorkerState] /\ stage \notin {"idle", "opening"} \cup Over
  BY <1>1 DEF StageTypeOK, Firing, Over
<1>3. /\ worker[w].tick \in StageTicks /\ worker[w].turns \in 0 .. RecycleTurns
      /\ worker[w].session \in SessionIds \ {0} /\ worker[w].session <= opened
      /\ holding[w] = worker[w].session /\ \A v \in Slots : v # w => holding[v] # holding[w]
  BY <1>2, AtWork
<1>4. /\ worker' \in [Slots -> WorkerState]
      /\ worker'[w].at = "free" /\ worker'[w].tick = worker[w].tick
      /\ worker'[w].session = worker[w].session /\ worker'[w].turns = worker[w].turns
      /\ \A v \in Slots : v # w => worker'[v] = worker[v]
  BY <1>1, <1>2, OneMoves DEF WorkerAts, Resting
<1>5. StageTypeOK'
  BY <1>1, <1>2, <1>3, <1>4, StageTypes DEF StageTypeOK
<1>6. GateInv' /\ SessionInv'
  BY <1>1, <1>2, <1>3, <1>4, StageTypes DEF GateInv, Gated, SessionInv
<1>7. CarriedInv' /\ TurnsInv'
  BY <1>1, <1>2, <1>3, <1>4, StageTypes DEF CarriedInv, TurnsInv
<1>8. RecordInv'
  BY <1>1, <1>2, <1>3, <1>4, StageTypes DEF RecordInv, TickInv, HasTick
<1>9. TickInv'
  BY <1>1, <1>2, <1>3, <1>4, StageTypes DEF TickInv, HasTick
<1>10. CloseInv' /\ HeldCloseInv'
  BY <1>1, <1>2, <1>3, <1>4, StageTypes DEF CloseInv, HeldCloseInv
<1>11. SessionsAreRetired'
  BY <1>1, <1>2, <1>3, <1>4, StageTypes DEF SessionsAreRetired, Over
<1>12. QED
  BY <1>5, <1>6, <1>7, <1>8, <1>9, <1>10, <1>11

\* A turn is carried by a session that has one left.
LEMMA BeginTurnKeeps ==
    ASSUME StageInv, NEW w \in Slots, BeginTurn(w)
    PROVE  StageInv'
<1>. USE SizesArePositive DEF StageInv
<1>1. /\ Firing /\ worker[w].at = "waiting" /\ Moved(w, "turn")
      /\ carried' = [carried EXCEPT ![worker[w].session] = @ + 1]
      /\ UNCHANGED <<stage, ticket, holding, opened, closings, recorded, passedUp, stopFlag>>
  BY DEF BeginTurn
<1>2. worker \in [Slots -> WorkerState] /\ stage \notin {"idle", "opening"} \cup Over
  BY <1>1 DEF StageTypeOK, Firing, Over
<1>3. /\ worker[w].tick \in StageTicks /\ worker[w].turns \in 0 .. RecycleTurns
      /\ worker[w].session \in SessionIds \ {0} /\ worker[w].session <= opened
      /\ holding[w] = worker[w].session /\ \A v \in Slots : v # w => holding[v] # holding[w]
  BY <1>2, AtWork
<1>4. /\ worker' \in [Slots -> WorkerState]
      /\ worker'[w].at = "turn" /\ worker'[w].tick = worker[w].tick
      /\ worker'[w].session = worker[w].session /\ worker'[w].turns = worker[w].turns
      /\ \A v \in Slots : v # w => worker'[v] = worker[v]
  BY <1>1, <1>2, OneMoves DEF WorkerAts, Resting
<1>5. StageTypeOK'
  BY <1>1, <1>2, <1>3, <1>4, StageTypes DEF StageTypeOK
<1>6. GateInv' /\ SessionInv'
  BY <1>1, <1>2, <1>3, <1>4, StageTypes DEF GateInv, Gated, SessionInv
<1>7. CarriedInv'
  BY <1>1, <1>2, <1>3, <1>4, StageTypes DEF CarriedInv, TurnsInv
<1>8. TurnsInv'
  <2>1. ASSUME NEW v \in Slots, v # w
        PROVE  worker[v].session # worker[w].session
    BY <1>3, <2>1 DEF SessionInv
  <2>2. QED
    BY <1>1, <1>2, <1>3, <1>4, <2>1, StageTypes DEF TurnsInv
<1>9. RecordInv' /\ TickInv'
  BY <1>1, <1>2, <1>3, <1>4, StageTypes DEF RecordInv, TickInv, HasTick
<1>10. CloseInv' /\ HeldCloseInv'
  BY <1>1, <1>2, <1>3, <1>4, StageTypes DEF CloseInv, HeldCloseInv
<1>11. SessionsAreRetired'
  BY <1>1, <1>2, <1>3, <1>4, StageTypes DEF SessionsAreRetired, Over
<1>12. QED
  BY <1>5, <1>6, <1>7, <1>8, <1>9, <1>10, <1>11

\* A tick that nobody else has is recorded.
LEMMA EndTurnKeeps ==
    ASSUME StageInv, NEW w \in Slots, EndTurn(w)
    PROVE  StageInv'
<1>. USE SizesArePositive DEF StageInv
<1>1. /\ Firing /\ worker[w].at = "turn"
      /\ worker' = [worker EXCEPT ![w].at = "free", ![w].turns = @ + 1]
      /\ recorded' = [recorded EXCEPT ![worker[w].tick] = @ + 1]
      /\ UNCHANGED <<stage, ticket, holding, opened, closings, carried, passedUp, stopFlag>>
  BY DEF EndTurn
<1>2. worker \in [Slots -> WorkerState] /\ stage \notin {"idle", "opening"} \cup Over
  BY <1>1 DEF StageTypeOK, Firing, Over
<1>3. /\ worker[w].tick \in StageTicks /\ worker[w].turns \in 0 .. RecycleTurns
      /\ worker[w].session \in SessionIds \ {0} /\ worker[w].session <= opened
      /\ holding[w] = worker[w].session /\ \A v \in Slots : v # w => holding[v] # holding[w]
  BY <1>2, AtWork
<1>4. /\ worker' \in [Slots -> WorkerState]
      /\ worker'[w].at = "free" /\ worker'[w].tick = worker[w].tick
      /\ worker'[w].session = worker[w].session /\ worker'[w].turns = worker[w].turns + 1
      /\ \A v \in Slots : v # w => worker'[v] = worker[v]
  BY <1>1, <1>2, <1>3 DEF TurnsInv, WorkerState, WorkerAts
<1>5. StageTypeOK'
  BY <1>1, <1>2, <1>3, <1>4, StageTypes DEF StageTypeOK
<1>6. GateInv' /\ SessionInv'
  BY <1>1, <1>2, <1>3, <1>4, StageTypes DEF GateInv, Gated, SessionInv
<1>7. CarriedInv' /\ TurnsInv'
  BY <1>1, <1>2, <1>3, <1>4, StageTypes DEF CarriedInv, TurnsInv
<1>8. RecordInv'
  BY <1>1, <1>2, <1>3, <1>4, StageTypes DEF RecordInv, TickInv, HasTick
<1>9. TickInv'
  BY <1>1, <1>2, <1>3, <1>4, StageTypes DEF TickInv, HasTick
<1>10. CloseInv' /\ HeldCloseInv'
  BY <1>1, <1>2, <1>3, <1>4, StageTypes DEF CloseInv, HeldCloseInv
<1>11. SessionsAreRetired'
  BY <1>1, <1>2, <1>3, <1>4, StageTypes DEF SessionsAreRetired, Over
<1>12. QED
  BY <1>5, <1>6, <1>7, <1>8, <1>9, <1>10, <1>11

\* A session nobody has had replaces one that is closed.
LEMMA RecycleKeeps ==
    ASSUME StageInv, NEW w \in Slots, Recycle(w)
    PROVE  StageInv'
<1>. USE SizesArePositive DEF StageInv
<1>1. /\ Firing /\ worker[w].at = "reopening"
      /\ opened' = opened + 1 /\ opened < MaxSessions
      /\ worker' = [worker EXCEPT ![w].at = "waiting", ![w].session = opened', ![w].turns = 0]
      /\ holding' = [holding EXCEPT ![w] = opened']
      /\ UNCHANGED <<stage, ticket, closings, carried, recorded, passedUp, stopFlag>>
  BY DEF Recycle
<1>2. worker \in [Slots -> WorkerState] /\ stage \notin {"idle", "opening"} \cup Over
  BY <1>1 DEF StageTypeOK, Firing, Over
<1>3. /\ worker[w].tick \in StageTicks /\ worker[w].turns \in 0 .. RecycleTurns
      /\ worker[w].session \in SessionIds \ {0} /\ worker[w].session <= opened
      /\ holding[w] = worker[w].session /\ \A v \in Slots : v # w => holding[v] # holding[w]
  BY <1>2, AtWork
<1>4. opened \in Nat /\ opened + 1 \in SessionIds
  BY <1>1, StageTypes DEF SessionIds
<1>5. /\ worker' \in [Slots -> WorkerState]
      /\ worker'[w].at = "waiting" /\ worker'[w].tick = worker[w].tick
      /\ worker'[w].session = opened + 1 /\ worker'[w].turns = 0
      /\ \A v \in Slots : v # w => worker'[v] = worker[v]
      /\ holding'[w] = opened + 1 /\ \A v \in Slots : v # w => holding'[v] = holding[v]
  <2>1. PICK n \in SessionIds : n = opened'
    BY <1>1, <1>4
  <2>2. /\ worker' = [worker EXCEPT ![w].at = "waiting", ![w].session = n, ![w].turns = 0]
        /\ holding' = [holding EXCEPT ![w] = n]
    BY <1>1, <2>1
  <2>3. /\ worker' \in [Slots -> WorkerState]
        /\ worker'[w].at = "waiting" /\ worker'[w].tick = worker[w].tick
        /\ worker'[w].session = n /\ worker'[w].turns = 0
        /\ \A v \in Slots : v # w => worker'[v] = worker[v]
    <3> DEFINE r == [worker[w] EXCEPT !.at = "waiting", !.session = n, !.turns = 0]
    <3>1. r \in WorkerState /\ r.at = "waiting" /\ r.tick = worker[w].tick /\ r.session = n /\ r.turns = 0
      <4>1. /\ worker[w] \in WorkerState /\ 0 \in 0 .. RecycleTurns /\ "waiting" \in WorkerAts
            /\ n \in SessionIds \cup {0}
        BY <1>2, <2>1 DEF WorkerAts
      <4>2. QED
        BY <4>1, Zenon DEF WorkerState
    <3>2. worker' = [worker EXCEPT ![w] = r]
      BY <1>2, <2>2 DEF WorkerState
    <3> HIDE DEF r
    <3>3. QED
      BY <1>2, <3>1, <3>2
  <2>4. holding'[w] = n /\ \A v \in Slots : v # w => holding'[v] = holding[v]
    BY <2>2, StageTypes
  <2>5. QED
    BY <1>1, <2>1, <2>3, <2>4
<1>6. StageTypeOK'
  BY <1>1, <1>2, <1>3, <1>4, <1>5, StageTypes DEF StageTypeOK
<1>7. GateInv'
  BY <1>1, <1>2, <1>3, <1>4, <1>5, StageTypes DEF GateInv, Gated
<1>8. SessionInv'
  BY <1>1, <1>2, <1>3, <1>4, <1>5, StageTypes DEF SessionInv
<1>9. CarriedInv'
  BY <1>1, <1>2, <1>3, <1>4, <1>5, StageTypes DEF CarriedInv
<1>10. TurnsInv'
  <2>1. carried[opened + 1] = 0
    BY <1>4, StageTypes DEF CarriedInv
  <2>2. QED
    BY <1>1, <1>2, <1>3, <1>4, <1>5, <2>1, StageTypes DEF TurnsInv
<1>11. RecordInv' /\ TickInv'
  BY <1>1, <1>2, <1>3, <1>4, <1>5, StageTypes DEF RecordInv, TickInv, HasTick
<1>12. CloseInv'
  <2>1. \A s \in SessionIds : s <= opened' => s <= opened \/ s = opened + 1
    BY <1>1, <1>4, StageTypes
  <2>2. closings[worker[w].session] = 1
    BY <1>1, <1>2, <1>3 DEF HeldCloseInv
  <2>3. QED
    BY <1>1, <1>2, <1>3, <1>4, <1>5, <2>1, <2>2, StageTypes DEF CloseInv
<1>13. HeldCloseInv'
  <2>1. closings[opened + 1] = 0
    BY <1>2, <1>4, StageTypes DEF CloseInv
  <2>2. QED
    BY <1>1, <1>2, <1>3, <1>4, <1>5, <2>1, StageTypes DEF HeldCloseInv
<1>14. SessionsAreRetired'
  BY <1>1, <1>2, <1>3, <1>4, <1>5, StageTypes DEF SessionsAreRetired, Over
<1>15. QED
  BY <1>6, <1>7, <1>8, <1>9, <1>10, <1>11, <1>12, <1>13, <1>14

\* A ticket is taken by one thread; a session that is used up is closed.
LEMMA ClaimKeeps ==
    ASSUME StageInv, NEW w \in Slots, NEW aged \in BOOLEAN, Claim(w, aged)
    PROVE  StageInv'
<1>. USE SizesArePositive DEF StageInv
<1>1. /\ Firing /\ worker[w].at = "free" /\ ticket < TotalTicks /\ ticket' = ticket + 1
      /\ worker' = [worker EXCEPT ![w].tick = ticket,
                                  ![w].at = IF aged \/ worker[w].turns >= RecycleTurns
                                            THEN "reopening" ELSE "waiting"]
      /\ closings' = IF aged \/ worker[w].turns >= RecycleTurns
                     THEN [closings EXCEPT ![worker[w].session] = @ + 1] ELSE closings
      /\ UNCHANGED <<stage, holding, opened, carried, recorded, passedUp, stopFlag>>
  BY DEF Claim
<1>2. worker \in [Slots -> WorkerState] /\ stage \notin {"idle", "opening"} \cup Over
  BY <1>1 DEF StageTypeOK, Firing, Over
<1>3. /\ worker[w].tick \in StageTicks /\ worker[w].turns \in 0 .. RecycleTurns
      /\ worker[w].session \in SessionIds \ {0} /\ worker[w].session <= opened
      /\ holding[w] = worker[w].session /\ \A v \in Slots : v # w => holding[v] # holding[w]
  BY <1>2, AtWork
<1>4. /\ ticket \in StageTicks /\ worker' \in [Slots -> WorkerState] /\ worker'[w].tick = ticket
      /\ worker'[w].at = IF aged \/ worker[w].turns >= RecycleTurns THEN "reopening" ELSE "waiting"
      /\ worker'[w].session = worker[w].session /\ worker'[w].turns = worker[w].turns
      /\ \A v \in Slots : v # w => worker'[v] = worker[v]
  <2>1. ticket \in StageTicks
    BY <1>1, StageTypes DEF StageTicks
  <2>2. PICK a \in {"reopening", "waiting"} :
              a = IF aged \/ worker[w].turns >= RecycleTurns THEN "reopening" ELSE "waiting"
    OBVIOUS
  <2>3. worker' = [worker EXCEPT ![w].tick = ticket, ![w].at = a]
    BY <1>1, <2>2
  <2>4. QED
    BY <1>2, <2>1, <2>2, <2>3 DEF WorkerState, WorkerAts
<1>5. StageTypeOK'
  <2>1. closings[worker[w].session] = 0
    BY <1>1, <1>2, <1>3 DEF HeldCloseInv
  <2>2. closings' \in [SessionIds -> 0 .. 2]
    BY <1>1, <1>3, <2>1 DEF StageTypeOK
  <2>3. QED
    BY <1>1, <1>4, <2>2, StageTypes DEF StageTypeOK
<1>6. GateInv' /\ SessionInv'
  BY <1>1, <1>2, <1>3, <1>4, StageTypes DEF GateInv, Gated, SessionInv
<1>7. CarriedInv' /\ TurnsInv'
  BY <1>1, <1>2, <1>3, <1>4, StageTypes DEF CarriedInv, TurnsInv
<1>8. RecordInv'
  BY <1>1, <1>2, <1>3, <1>4, StageTypes DEF RecordInv
<1>9. TickInv'
  <2>1. ASSUME NEW v \in Slots, v # w, HasTick(v)
        PROVE  worker[v].tick < ticket /\ worker[v].tick \in StageTicks
    BY <1>2, <2>1 DEF TickInv, WorkerState
  <2>2. recorded[ticket] = 0 /\ ticket \notin passedUp
    BY <1>4, StageTypes DEF RecordInv
  <2>3. QED
    BY <1>1, <1>2, <1>3, <1>4, <2>1, <2>2, StageTypes DEF TickInv, HasTick
<1>10. CloseInv' /\ HeldCloseInv'
  BY <1>1, <1>2, <1>3, <1>4, StageTypes DEF CloseInv, HeldCloseInv
<1>11. SessionsAreRetired'
  BY <1>1, <1>2, <1>3, <1>4, StageTypes DEF SessionsAreRetired, Over
<1>12. QED
  BY <1>5, <1>6, <1>7, <1>8, <1>9, <1>10, <1>11

\* Every thread has returned or died: what the threads hold is closed once more.
LEMMA StageReturnsKeeps ==
    ASSUME StageInv, StageReturns
    PROVE  StageInv'
<1>. USE SizesArePositive DEF StageInv
<1>1. /\ stage = "running" /\ stage' \in Over
      /\ \A w \in Slots : worker[w].at \in {"ended", "dead"}
      /\ closings' = [s \in SessionIds |->
                        closings[s] + Cardinality({w \in Slots : holding[w] = s})]
      /\ UNCHANGED <<worker, ticket, holding, opened, carried, recorded, passedUp, stopFlag>>
  BY DEF StageReturns, Resting, Over
<1>2. ASSUME NEW s \in SessionIds
      PROVE  /\ closings'[s] \in 0 .. 2
             /\ s <= opened => closings'[s] >= 1
             /\ s <= opened /\ (\A w \in Slots : worker[w].at # "dead") => closings'[s] = 1
  <2>1. CASE \E w \in Slots : holding[w] = s
    <3>1. PICK w \in Slots : holding[w] = s
      BY <2>1
    <3>2. {v \in Slots : holding[v] = s} = {w}
      BY <1>1, <3>1, AtWork DEF Over
    <3>3. closings'[s] = closings[s] + 1
      BY <1>1, <3>2, FS_Singleton
    <3>4. s # 0 /\ closings[s] \in 0 .. 2
      BY DEF SessionIds, StageTypeOK
    <3>5. /\ closings[s] <= 1
          /\ worker[w].at # "dead" => closings[s] = 0
      BY <1>1, <3>1, <3>4 DEF HeldCloseInv, Over
    <3>6. QED
      BY <3>3, <3>4, <3>5
  <2>2. CASE \A w \in Slots : holding[w] # s
    <3>1. {v \in Slots : holding[v] = s} = {}
      BY <2>2
    <3>2. closings[s] \in 0 .. 2
      BY DEF StageTypeOK
    <3>3. closings'[s] = closings[s]
      BY <1>1, <3>1, <3>2, FS_EmptySet
    <3>4. s <= opened => closings[s] = 1
      BY <1>1, <2>2 DEF CloseInv, Over
    <3>5. QED
      BY <3>2, <3>3, <3>4
  <2>3. QED
    BY <2>1, <2>2
<1>3. closings' \in [SessionIds -> 0 .. 2]
  BY <1>1, <1>2
<1>4. StageTypeOK'
  BY <1>1, <1>3 DEF StageTypeOK, Over
<1>5. GateInv' /\ SessionInv' /\ CarriedInv' /\ TurnsInv'
  BY <1>1 DEF GateInv, SessionInv, CarriedInv, TurnsInv, Over
<1>6. RecordInv' /\ TickInv' /\ CloseInv' /\ HeldCloseInv'
  BY <1>1 DEF RecordInv, TickInv, HasTick, CloseInv, HeldCloseInv, Over
<1>7. SessionsAreRetired'
  <2>1. \A s \in 1 .. opened : s \in SessionIds /\ s <= opened
    BY DEF StageTypeOK, SessionIds
  <2>2. Valid' => \A w \in Slots : worker[w].at # "dead"
    BY <1>1 DEF Valid
  <2>3. QED
    BY <1>1, <1>2, <2>1, <2>2 DEF SessionsAreRetired
<1>8. QED
  BY <1>4, <1>5, <1>6, <1>7

\* Every step of the main thread and of the workers preserves the invariant.
LEMMA StageSteps == ASSUME StageInv, StageNext PROVE StageInv'
BY PhaseKeeps, OpenSlotKeeps, OpenGateKeeps, StageReturnsKeeps, RestKeeps, DropTickKeeps,
   BeginTurnKeeps, EndTurnKeeps, RecycleKeeps, ClaimKeeps DEF StageNext

\* So does a step of something else.
LEMMA StageStutters == ASSUME StageInv, UNCHANGED stageVars PROVE StageInv'
<1>. USE DEF stageVars, StageInv
<1>1. StageTypeOK' /\ GateInv' /\ SessionInv' /\ CarriedInv'
  BY DEF StageTypeOK, GateInv, Gated, SessionInv, CarriedInv
<1>2. TurnsInv' /\ RecordInv' /\ TickInv'
  BY DEF TurnsInv, RecordInv, TickInv, HasTick
<1>3. CloseInv' /\ HeldCloseInv' /\ SessionsAreRetired'
  BY DEF CloseInv, HeldCloseInv, SessionsAreRetired, Valid, Records
<1>4. QED
  BY <1>1, <1>2, <1>3

\* For any pool, schedule and quota: a tick is in the hands of one thread at most and
\* runs or is dropped once, a session carries what its thread counted, and what run()
\* would close at the end is what is open and is closed otherwise exactly once.
THEOREM StageIsAccounted == StageSpec => []StageInv
<1>1. StageInit => StageInv
  BY StageStarts
<1>2. StageInv /\ [StageNext]_stageVars => StageInv'
  BY StageSteps, StageStutters
<1>3. QED
  BY <1>1, <1>2, PTL DEF StageSpec

\* Records and dropped ticks are disjoint, so that if together they are as many as
\* the ticks, they are the ticks.
LEMMA CountsSuffice == ASSUME StageInv PROVE ValidIsWhole
<1>. USE SizesArePositive DEF StageInv
<1>1. recorded \in [StageTicks -> Nat] /\ passedUp \in SUBSET StageTicks
  BY DEF StageTypeOK
<1>2. \A t \in StageTicks : recorded[t] + (IF t \in passedUp THEN 1 ELSE 0) <= 1
  BY <1>1 DEF RecordInv
<1>3. ASSUME Valid, NEW t \in Measured
      PROVE  recorded[t] = 1
  <2>1. IsFiniteSet(StageTicks) /\ Cardinality(StageTicks) = TotalTicks
    BY FS_Interval DEF StageTicks
  <2>2. /\ IsFiniteSet(Records) /\ Cardinality(Records) \in Nat
        /\ IsFiniteSet(passedUp) /\ Cardinality(passedUp) \in Nat
    BY <1>1, <2>1, FS_Subset, FS_CardinalityType DEF Records
  <2>3. Records \cap passedUp = {}
    BY <1>1, <1>2 DEF Records
  <2>4. Cardinality(Records \cup passedUp) = Cardinality(Records) + Cardinality(passedUp) - 0
    BY ZenonT(60), <2>2, <2>3, FS_Union, FS_EmptySet
  <2>5. Cardinality(Records \cup passedUp) = Cardinality(StageTicks)
    BY <1>3, <2>1, <2>2, <2>4 DEF Valid
  <2>6. Records \cup passedUp \in SUBSET StageTicks
    BY <1>1 DEF Records
  <2>7. Records \cup passedUp = StageTicks
    BY <2>1, <2>5, <2>6, FS_Subset
  <2>8. t \in StageTicks /\ t \notin passedUp
    BY <1>3 DEF Valid, Measured, StageTicks
  <2>9. recorded[t] > 0
    BY <2>7, <2>8 DEF Records
  <2>10. QED
    BY <1>1, <1>2, <2>8, <2>9
<1>4. QED
  BY <1>2, <1>3 DEF ValidIsWhole

\* A stage that counts as a measurement is the whole stage, no session exceeds its quota
\* or is driven by two threads, and a stage that returns has retired every session.
THEOREM StageStaysWhole == StageSpec => []StageIsWhole
<1>1. StageInv => QuotaIsKept
  BY DEF StageInv, QuotaIsKept, CarriedInv, SessionInv
<1>2. StageInv => StageIsWhole
  BY <1>1, CountsSuffice DEF StageIsWhole, StageInv
<1>3. QED
  BY <1>2, StageIsAccounted, PTL

-----------------------------------------------------------------------------
(* The ladder *)

\* On the way up every rate measured so far has passed.
ClimbInv ==
    ladderAt \in {"planned", "rungs"} =>
        /\ bracket = [low |-> IF rung = 1 THEN NoRate ELSE Rungs[rung - 1], high |-> NoRate]
        /\ Len(outcomes) = rung - 1
        /\ \A i \in 1 .. Len(outcomes) :
            outcomes[i].rate = Rungs[i] /\ outcomes[i].verdict = "pass"

\* A bracket has been measured at both ends, and nothing in between.
Bracketing(low, high) ==
    /\ {low, high} \subseteq Rates
    /\ low < high
    /\ Found(low, "pass")
    /\ Found(high, "fail")
    /\ \A i \in 1 .. Len(outcomes) :
        \/ outcomes[i].verdict = "pass" /\ outcomes[i].rate <= low
        \/ outcomes[i].verdict = "fail" /\ outcomes[i].rate >= high

BisectInv ==
    ladderAt = "bisection" =>
        /\ Bracketing(bracket.low, bracket.high)
        /\ Halving(bracket.low, bracket.high, halvings)

\* The knee is measured again once there is one.
RepeatInv ==
    /\ ~AnsweredLadder => repeats = << >> /\ repeatsDone = 0
    /\ ladderAt = "planned" => evidence = << >> /\ expansions = 0
    /\ ladderAt = "repeats" => knee # NoRate /\ repeatsDone + 2 <= KneeRuns

\* Labels of runs that are over.
Taken(label) ==
    CASE ladderAt = "rungs" -> label.run = 0 /\ rung > 1 /\ label.rate <= Rungs[rung - 1]
      [] ladderAt = "bisection" ->
            label.run = 0 /\ (label.rate <= bracket.low \/ label.rate >= bracket.high)
      [] ladderAt = "repeats" -> label.run <= repeatsDone
      [] OTHER -> TRUE

\* The number of the repeat under way.
RunNow == IF ladderAt = "repeats" THEN repeatsDone + 1 ELSE 0

\* A label that is in the evidence, and one of an earlier attempt of the run under way.
Labelled(label) == \E i \in 1 .. Len(evidence) : evidence[i] = label
Attempted(label) ==
    label.rate = RateNow /\ label.run = RunNow /\ label.attempt < expansions

\* Only earlier attempts of the run under way have its label, but for the attempt.
LabelInv ==
    \A label \in Ticket : Labelled(label) => Taken(label) \/ Attempted(label)

\* The inductive invariant of the ladder.
LadderInv ==
    /\ LadderTypeOK
    /\ ClimbInv
    /\ BisectInv
    /\ RepeatInv
    /\ LabelInv
    /\ LadderIsHonest

\* The assumption on the constants, one constant at a time.
LEMMA LadderSizes ==
    /\ Tolerance \in Nat /\ Tolerance > 0 /\ KneeRuns \in Nat /\ KneeRuns > 0
    /\ MaxBisectionSteps \in Nat /\ MaxPoolExpansions \in Nat
    /\ Len(Rungs) \in Nat /\ Len(Rungs) > 0
    /\ \A i, j \in 1 .. Len(Rungs) : i < j => Rungs[i] < Rungs[j]
    /\ \A i \in 1 .. Len(Rungs) : Rungs[i] \in Nat
BY LadderAssumption

\* What a rate is.
LEMMA RatesAre ==
    /\ \A i \in 1 .. Len(Rungs) : Rungs[i] \in Rates
    /\ \A rate \in Rates : rate \in Nat /\ rate # NoRate
    /\ \A low, high \in Rates : \A rate \in Nat : low <= rate /\ rate <= high => rate \in Rates
<1>1. \A i \in 1 .. Len(Rungs) : Rungs[1] <= Rungs[i] /\ Rungs[i] <= Rungs[Len(Rungs)]
  BY LadderSizes
<1>2. Rungs[1] \in Nat /\ Rungs[Len(Rungs)] \in Nat
  BY LadderSizes
<1>3. \A i \in 1 .. Len(Rungs) : Rungs[i] \in Rates
  BY <1>1, <1>2, LadderSizes DEF Rates
<1>4. QED
  BY <1>2, <1>3, LadderAssumption DEF Rates

\* The element appended to a sequence is its last.
LEMMA Appended ==
    ASSUME NEW S, NEW q \in Seq(S), NEW x \in S
    PROVE  /\ Append(q, x) \in Seq(S) /\ Len(Append(q, x)) = Len(q) + 1 /\ Len(q) \in Nat
           /\ Append(q, x)[Len(q) + 1] = x
           /\ \A i \in 1 .. Len(q) : Append(q, x)[i] = q[i]
           /\ \A i \in 1 .. Len(Append(q, x)) : i \in 1 .. Len(q) \/ i = Len(q) + 1
OBVIOUS

\* The midpoint of a bracket that is worth halving lies between its ends.
LEMMA MidpointIsBetween ==
    ASSUME NEW low \in Rates, NEW high \in Rates, NEW n \in Nat, Halving(low, high, n)
    PROVE  /\ (low + high) \div 2 \in Rates
           /\ low < (low + high) \div 2 /\ (low + high) \div 2 < high
           /\ n < MaxBisectionSteps
<1>1. low \in Nat /\ high \in Nat
  BY RatesAre
<1>2. low < (low + high) \div 2 /\ (low + high) \div 2 < high /\ (low + high) \div 2 \in Nat
  BY <1>1, LadderSizes DEF Halving
<1>3. QED
  BY <1>1, <1>2, RatesAre DEF Halving

\* Nothing has been measured.
LEMMA LadderStarts == ASSUME LadderInit PROVE LadderInv
<1>. USE DEF LadderInit
<1>1. LadderTypeOK
  BY LadderSizes DEF LadderTypeOK, LadderStatuses
<1>2. ClimbInv /\ BisectInv /\ RepeatInv /\ LabelInv
  BY DEF ClimbInv, BisectInv, RepeatInv, LabelInv, Labelled, AnsweredLadder
<1>3. LadderIsHonest
  BY DEF LadderIsHonest, KneeIsBracketed, StopsAtFailure, EvidenceIsApart, AnsweredLadder
<1>4. QED
  BY <1>1, <1>2, <1>3 DEF LadderInv

\* The first run may begin.
LEMMA StartLadderKeeps ==
    ASSUME LadderInv, NEW expand \in BOOLEAN, NEW needsOverhead \in BOOLEAN,
           StartLadder(expand, needsOverhead)
    PROVE  LadderInv'
<1>. USE DEF LadderInv, StartLadder
<1>1. LadderTypeOK'
  BY DEF LadderTypeOK
<1>2. ClimbInv' /\ BisectInv' /\ RepeatInv' /\ LabelInv'
  BY DEF ClimbInv, BisectInv, RepeatInv, LabelInv, Labelled, AnsweredLadder
<1>3. LadderIsHonest'
  BY DEF LadderIsHonest, KneeIsBracketed, StopsAtFailure, EvidenceIsApart, AnsweredLadder, Found
<1>4. QED
  BY <1>1, <1>2, <1>3

\* Where a run of the runner takes place, it is about a rate, and its label is new.
NewTicket == [rate |-> RateNow, attempt |-> expansions, run |-> RunNow]
Running == ladderAt \in {"rungs", "bisection", "repeats"}

\* No label in use is that of the run under way.
LEMMA RateIsNew ==
    ASSUME LadderInv, Running
    PROVE  /\ RateNow \in Rates
           /\ \A label : Taken(label) => label.rate # RateNow \/ label.run # RunNow
           /\ ladderAt = "bisection" =>
                bracket.low \in Rates /\ bracket.high \in Rates
                /\ bracket.low < RateNow /\ RateNow < bracket.high /\ halvings < MaxBisectionSteps
<1>. USE DEF LadderInv, LadderTypeOK
<1>1. CASE ladderAt = "rungs"
  <2>1. RateNow = Rungs[rung] /\ rung \in 1 .. Len(Rungs) /\ RateNow \in Rates
    BY <1>1, RatesAre DEF RateNow
  <2>2. rung > 1 => ~(Rungs[rung] <= Rungs[rung - 1])
    BY <2>1, LadderSizes
  <2>3. QED
    BY <1>1, <2>1, <2>2 DEF Taken, RunNow
<1>2. CASE ladderAt = "bisection"
  <2>1. /\ bracket.low \in Rates /\ bracket.high \in Rates /\ halvings \in Nat
        /\ Halving(bracket.low, bracket.high, halvings)
    BY <1>2, LadderSizes DEF BisectInv, Bracketing
  <2>2. RateNow = (bracket.low + bracket.high) \div 2
    BY <1>2 DEF RateNow, Midpoint
  <2>3. RateNow \in Rates /\ bracket.low < RateNow /\ RateNow < bracket.high /\ halvings < MaxBisectionSteps
    BY <2>1, <2>2, MidpointIsBetween
  <2>4. bracket.low \in Nat /\ bracket.high \in Nat /\ RateNow \in Nat
    BY <2>1, <2>3, RatesAre
  <2>5. QED
    BY <1>2, <2>1, <2>3, <2>4 DEF Taken, RunNow
<1>3. CASE ladderAt = "repeats"
  <2>1. RateNow = knee /\ knee \in Rates
    BY <1>3 DEF RateNow, RepeatInv
  <2>2. QED
    BY <1>3, <2>1 DEF Taken, RunNow
<1>4. QED
  BY <1>1, <1>2, <1>3 DEF Running

\* The evidence of a run is filed beside what is there.
LEMMA FiledApart ==
    ASSUME LadderInv, Running, Filed
    PROVE  /\ evidence' \in Seq(Ticket)
           /\ \A i, j \in 1 .. Len(evidence)' : i # j => evidence'[i] # evidence'[j]
           /\ \A label \in Ticket : Labelled(label)' => Labelled(label) \/ label = NewTicket
<1>1. NewTicket \in Ticket
  <2>1. RateNow \in Rates /\ expansions \in 0 .. MaxPoolExpansions
    BY RateIsNew DEF LadderInv, LadderTypeOK
  <2>2. RunNow \in 0 .. KneeRuns
    BY LadderSizes DEF LadderInv, LadderTypeOK, RunNow
  <2>3. QED
    BY <2>1, <2>2 DEF NewTicket, Ticket
<1>2. evidence' = Append(evidence, NewTicket) /\ evidence \in Seq(Ticket)
  BY DEF Filed, NewTicket, RunNow, LadderInv, LadderTypeOK
<1>3. \A i \in 1 .. Len(evidence) : evidence[i] # NewTicket
  <2>1. expansions \in Nat
    BY LadderSizes DEF LadderInv, LadderTypeOK
  <2>2. ASSUME NEW i \in 1 .. Len(evidence), evidence[i] = NewTicket
        PROVE  FALSE
    <3>1. evidence[i].rate = RateNow /\ evidence[i].run = RunNow /\ evidence[i].attempt = expansions
      BY <2>2 DEF NewTicket
    <3>2. ~Taken(evidence[i])
      BY <3>1, RateIsNew
    <3>3. QED
      BY <1>2, <2>1, <3>1, <3>2 DEF LadderInv, LabelInv, Labelled, Attempted
  <2>3. QED
    BY <2>2
<1>4. \A i, j \in 1 .. Len(evidence) : i # j => evidence[i] # evidence[j]
  BY DEF LadderInv, LadderIsHonest, EvidenceIsApart
<1>5. QED
  <2>1. /\ evidence' \in Seq(Ticket) /\ Len(evidence)' = Len(evidence) + 1
        /\ evidence'[Len(evidence) + 1] = NewTicket
        /\ \A i \in 1 .. Len(evidence) : evidence'[i] = evidence[i]
        /\ \A i \in 1 .. Len(evidence)' : i \in 1 .. Len(evidence) \/ i = Len(evidence) + 1
    BY <1>1, <1>2, Appended
  <2>2. QED
    BY <1>3, <1>4, <2>1 DEF Labelled

\* A run that is repeated with more workers has spent its label.
LEMMA WidenPoolKeeps ==
    ASSUME LadderInv, NEW run \in Stages, WidenPool(run)
    PROVE  LadderInv'
<1>. USE DEF LadderInv
<1>1. /\ Running /\ Filed /\ expansions' = expansions + 1 /\ expansions < MaxPoolExpansions
      /\ UNCHANGED <<ladderAt, options, rung, bracket, halvings, repeatsDone, outcomes,
                     repeats, knee, verdict>>
  BY DEF WidenPool, Running, Retried
<1>2. expansions \in Nat
  BY LadderSizes DEF LadderTypeOK
<1>3. LadderTypeOK'
  BY <1>1, <1>2, FiledApart, LadderSizes DEF LadderTypeOK
<1>4. ClimbInv' /\ BisectInv' /\ RepeatInv'
  BY <1>1 DEF ClimbInv, BisectInv, Bracketing, Found, RepeatInv, AnsweredLadder, Running
<1>5. LabelInv'
  <2>1. RateNow' = RateNow /\ RunNow' = RunNow /\ \A label : Taken(label) => Taken(label)'
    BY <1>1 DEF RateNow, RunNow, Midpoint, Taken
  <2>2. ASSUME NEW label \in Ticket, Labelled(label)'
        PROVE  Taken(label)' \/ Attempted(label)'
    <3>1. CASE label = NewTicket
      BY <1>1, <1>2, <2>1, <3>1 DEF NewTicket, Attempted
    <3>2. CASE Labelled(label)
      <4>1. label.attempt \in Nat
        BY LadderSizes DEF Ticket
      <4>2. QED
        BY <1>1, <1>2, <2>1, <3>2, <4>1 DEF LabelInv, Attempted
    <3>3. QED
      BY <1>1, <2>2, <3>1, <3>2, FiledApart
  <2>3. QED
    BY <2>2 DEF LabelInv
<1>6. LadderIsHonest'
  BY <1>1, FiledApart
  DEF LadderIsHonest, KneeIsBracketed, StopsAtFailure, EvidenceIsApart, AnsweredLadder, Found
<1>7. QED
  BY <1>3, <1>4, <1>5, <1>6

\* What the actions of the rungs and of the bisection have in common.
EnteredOne(run) ==
    /\ OutcomeOf(run) \in Outcome /\ OutcomeOf(run).rate = RateNow
    /\ OutcomeOf(run).verdict = Verdict(run)
    /\ outcomes' \in Seq(Outcome) /\ Len(outcomes)' = Len(outcomes) + 1
    /\ outcomes'[Len(outcomes) + 1] = OutcomeOf(run)
    /\ \A i \in 1 .. Len(outcomes) : outcomes'[i] = outcomes[i]
    /\ \A i \in 1 .. Len(outcomes)' : i \in 1 .. Len(outcomes) \/ i = Len(outcomes) + 1
    /\ Len(outcomes) \in Nat

\* They append the outcome of the run.
LEMMA OneIsEntered ==
    ASSUME LadderInv, NEW run \in Stages, Running, Entered(run)
    PROVE  EnteredOne(run)
<1>1. OutcomeOf(run) \in Outcome
  <2>1. Verdict(run) \in {"pass", "fail", "invalid"} /\ run.overhead \in BOOLEAN
    BY DEF Stages, Verdict
  <2>2. QED
    BY <2>1, RateIsNew DEF OutcomeOf, Outcome
<1>2. OutcomeOf(run).rate = RateNow /\ OutcomeOf(run).verdict = Verdict(run)
  BY DEF OutcomeOf
<1>3. outcomes' = Append(outcomes, OutcomeOf(run)) /\ outcomes \in Seq(Outcome)
  BY DEF Entered, LadderInv, LadderTypeOK
<1>4. QED
  BY <1>1, <1>2, <1>3, Appended DEF EnteredOne

\* Nothing is measured at or above a rate that failed.
LEMMA OneBelow ==
    ASSUME LadderInv, NEW run \in Stages, EnteredOne(run),
           \A i \in 1 .. Len(outcomes) : outcomes[i].verdict = "fail" => RateNow < outcomes[i].rate
    PROVE  StopsAtFailure'
<1>1. StopsAtFailure
  BY DEF LadderInv, LadderIsHonest
<1>2. ASSUME NEW i \in 1 .. Len(outcomes)', NEW j \in 1 .. Len(outcomes)',
             i < j, outcomes'[i].verdict = "fail"
      PROVE  outcomes'[j].rate < outcomes'[i].rate
  <2>1. i \in 1 .. Len(outcomes) /\ (j \in 1 .. Len(outcomes) \/ j = Len(outcomes) + 1)
    BY <1>2 DEF EnteredOne
  <2>2. CASE j \in 1 .. Len(outcomes)
    BY <1>1, <1>2, <2>1, <2>2 DEF EnteredOne, StopsAtFailure
  <2>3. CASE j = Len(outcomes) + 1
    BY <1>2, <2>1, <2>3 DEF EnteredOne
  <2>4. QED
    BY <2>1, <2>2, <2>3
<1>3. QED
  BY <1>2 DEF StopsAtFailure

\* A label that is taken stays so when the loop moves on.
LEMMA LabelsStaySpent ==
    ASSUME LadderInv, Running, Filed,
           \A label \in Ticket : Taken(label) => Taken(label)',
           \A label \in Ticket : label.rate = RateNow /\ label.run = RunNow => Taken(label)'
    PROVE  LabelInv' /\ \A i, j \in 1 .. Len(evidence)' : i # j => evidence'[i] # evidence'[j]
<1>1. ASSUME NEW label \in Ticket, Labelled(label)'
      PROVE  Taken(label)'
  <2>1. CASE label = NewTicket
    BY <2>1 DEF NewTicket
  <2>2. CASE Labelled(label)
    BY <2>2 DEF LadderInv, LabelInv, Attempted
  <2>3. QED
    BY <1>1, <2>1, <2>2, FiledApart
<1>2. QED
  BY <1>1, FiledApart DEF LabelInv

\* What a counted run leaves in the evidence, whatever the loop does next.
LEMMA CountedIsFiled ==
    ASSUME LadderInv, NEW run \in Stages, Running, Counted(run)
    PROVE  /\ Filed /\ expansions' = 0 /\ expansions' \in 0 .. MaxPoolExpansions
           /\ evidence' \in Seq(Ticket)
           /\ \A i, j \in 1 .. Len(evidence)' : i # j => evidence'[i] # evidence'[j]
BY FiledApart, LadderSizes DEF Counted

\* A rung that has been measured: those before it have passed.
OneClimbed(run) ==
    /\ EnteredOne(run) /\ RateNow = Rungs[rung] /\ Rungs[rung] \in Rates
    /\ rung \in 1 .. Len(Rungs) /\ Len(outcomes) = rung - 1
    /\ \A i \in 1 .. Len(outcomes) :
        outcomes[i].rate = Rungs[i] /\ outcomes[i].verdict = "pass"
    /\ bracket = [low |-> IF rung = 1 THEN NoRate ELSE Rungs[rung - 1], high |-> NoRate]
    /\ repeats = << >> /\ repeatsDone = 0

\* It may be entered, whatever it says.
LEMMA RungIsEntered ==
    ASSUME LadderInv, NEW run \in Stages, OnRung(run)
    PROVE  OneClimbed(run) /\ StopsAtFailure' /\ ladderAt = "rungs" /\ Running
<1>1. Running /\ ladderAt = "rungs" /\ Entered(run)
  BY DEF OnRung, Running
<1>2. EnteredOne(run)
  BY <1>1, OneIsEntered
<1>3. OneClimbed(run)
  BY <1>1, <1>2, RatesAre
  DEF OneClimbed, LadderInv, LadderTypeOK, ClimbInv, RepeatInv, AnsweredLadder, RateNow
<1>4. StopsAtFailure'
  BY <1>2, <1>3, OneBelow DEF OneClimbed
<1>5. QED
  BY <1>1, <1>3, <1>4

\* When the answer is given, every label of the ladder itself is taken.
Answers ==
    /\ ladderAt \in {"rungs", "bisection"}
    /\ ladderAt' = IF knee' # NoRate /\ KneeRuns > 1 THEN "repeats" ELSE "done"
    /\ UNCHANGED <<repeats, repeatsDone>>

\* Whatever the answer is.
LEMMA AnswerKeeps ==
    ASSUME LadderInv, NEW run \in Stages, Counted(run), Answers
    PROVE  ClimbInv' /\ BisectInv' /\ RepeatInv' /\ LabelInv' /\ EvidenceIsApart'
<1>1. Running /\ repeats = << >> /\ repeatsDone = 0
  BY DEF Running, Answers, LadderInv, RepeatInv, AnsweredLadder
<1>2. ClimbInv' /\ BisectInv' /\ RepeatInv'
  BY <1>1, LadderSizes DEF Answers, ClimbInv, BisectInv, RepeatInv, AnsweredLadder
<1>3. \A label \in Ticket : label.run = 0 => Taken(label)'
  BY <1>1 DEF Answers, Taken
<1>4. /\ \A label \in Ticket : Taken(label) => Taken(label)'
      /\ \A label \in Ticket : label.rate = RateNow /\ label.run = RunNow => Taken(label)'
  BY <1>1, <1>3 DEF Answers, Taken, RunNow
<1>5. QED
  BY <1>1, <1>2, <1>4, LabelsStaySpent, CountedIsFiled DEF EvidenceIsApart, Answers

\* A rung that lacks the overhead it is judged on ends the ladder.
LEMMA RungUnjudgeableKeeps ==
    ASSUME LadderInv, NEW run \in Stages, RungUnjudgeable(run)
    PROVE  LadderInv'
<1>1. /\ OneClimbed(run) /\ StopsAtFailure' /\ Running /\ Counted(run)
      /\ ladderAt' = "done" /\ knee' = NoRate /\ verdict' = "unjudgeable"
      /\ UNCHANGED <<options, rung, bracket, halvings, repeatsDone, repeats>>
  BY RungIsEntered DEF RungUnjudgeable, AnswerWith, OnRung
<1>2. LadderTypeOK'
  BY <1>1, CountedIsFiled DEF LadderInv, LadderTypeOK, LadderStatuses, OneClimbed, EnteredOne
<1>3. ClimbInv' /\ BisectInv' /\ RepeatInv' /\ LabelInv' /\ EvidenceIsApart'
  BY <1>1, RungIsEntered, AnswerKeeps DEF Answers, RungUnjudgeable
<1>4. KneeIsBracketed'
  BY <1>1 DEF KneeIsBracketed
<1>5. QED
  BY <1>1, <1>2, <1>3, <1>4 DEF LadderInv, LadderIsHonest

\* A rung that passed: the next one, or the last is a lower bound.
LEMMA RungPassedKeeps ==
    ASSUME LadderInv, NEW run \in Stages, RungPassed(run)
    PROVE  LadderInv'
<1>1. /\ OneClimbed(run) /\ StopsAtFailure' /\ Running /\ Counted(run) /\ Filed
      /\ expansions' = 0 /\ ladderAt = "rungs"
      /\ Verdict(run) = "pass" /\ bracket' = [low |-> Rungs[rung], high |-> NoRate]
      /\ UNCHANGED <<options, halvings, repeatsDone, repeats>>
  BY RungIsEntered DEF RungPassed, OnRung, OneClimbed, Counted
<1>2. \A i \in 1 .. Len(outcomes)' :
        outcomes'[i].rate = Rungs[i] /\ outcomes'[i].verdict = "pass"
  BY <1>1 DEF OneClimbed, EnteredOne
<1>3. CASE rung < Len(Rungs)
  <2>1. rung' = rung + 1 /\ UNCHANGED <<ladderAt, knee, verdict>>
    BY <1>3 DEF RungPassed
  <2>2. LadderTypeOK'
    BY <1>1, <1>3, <2>1, CountedIsFiled, LadderSizes
    DEF LadderInv, LadderTypeOK, LadderStatuses, OneClimbed, EnteredOne
  <2>3. ClimbInv' /\ BisectInv' /\ RepeatInv'
    BY <1>1, <1>2, <2>1
    DEF ClimbInv, BisectInv, RepeatInv, AnsweredLadder, OneClimbed, EnteredOne
  <2>4. LabelInv' /\ EvidenceIsApart'
    <3>1. /\ rung \in 1 .. Len(Rungs) /\ Rungs[rung] \in Nat
          /\ rung > 1 => Rungs[rung - 1] <= Rungs[rung] /\ Rungs[rung - 1] \in Nat
      BY <1>1, LadderSizes DEF OneClimbed
    <3>2. \A label \in Ticket : label.rate \in Nat
      BY RatesAre DEF Ticket
    <3>3. /\ \A label \in Ticket : Taken(label) => Taken(label)'
          /\ \A label \in Ticket : label.rate = RateNow /\ label.run = RunNow => Taken(label)'
      <4>1. rung' > 1 /\ Rungs[rung' - 1] = Rungs[rung]
        BY <2>1, <3>1
      <4>2. \A rate \in Nat : rung > 1 /\ rate <= Rungs[rung - 1] => rate <= Rungs[rung]
        BY <3>1
      <4>3. QED
        BY <1>1, <2>1, <3>1, <3>2, <4>1, <4>2 DEF Taken, RunNow, OneClimbed
    <3>4. QED
      BY <1>1, <3>3, LabelsStaySpent DEF EvidenceIsApart, OneClimbed
  <2>5. KneeIsBracketed'
    BY <1>1, <2>1 DEF KneeIsBracketed, AnsweredLadder
  <2>6. QED
    BY <1>1, <2>2, <2>3, <2>4, <2>5 DEF LadderInv, LadderIsHonest
<1>4. CASE ~(rung < Len(Rungs))
  <2>1. AnswerWith("knee_lower_bound", Rungs[rung]) /\ rung' = rung
    BY <1>4 DEF RungPassed
  <2>2. /\ knee' = Rungs[rung] /\ verdict' = "knee_lower_bound" /\ knee' # NoRate
        /\ ladderAt' = IF KneeRuns > 1 THEN "repeats" ELSE "done"
    BY <1>1, <2>1, RatesAre DEF AnswerWith, OneClimbed
  <2>3. LadderTypeOK'
    BY <1>1, <2>1, <2>2, CountedIsFiled DEF LadderInv, LadderTypeOK, LadderStatuses, OneClimbed, EnteredOne
  <2>4. ClimbInv' /\ BisectInv' /\ RepeatInv' /\ LabelInv' /\ EvidenceIsApart'
    BY <1>1, <2>2, AnswerKeeps DEF Answers
  <2>5. KneeIsBracketed'
    <3>1. Found(Rungs[rung], "pass")'
      BY <1>1, <1>2, <2>1 DEF Found, OneClimbed, EnteredOne
    <3>2. QED
      BY <1>2, <2>1, <2>2, <3>1 DEF KneeIsBracketed, Found
  <2>6. QED
    BY <1>1, <2>3, <2>4, <2>5 DEF LadderInv, LadderIsHonest
<1>5. QED
  BY <1>3, <1>4

\* A rung that could not be measured: the one before it is a lower bound.
LEMMA RungInvalidKeeps ==
    ASSUME LadderInv, NEW run \in Stages, RungInvalid(run)
    PROVE  LadderInv'
<1>1. /\ OneClimbed(run) /\ StopsAtFailure' /\ Running /\ Counted(run)
      /\ ladderAt = "rungs" /\ Verdict(run) = "invalid"
      /\ UNCHANGED <<options, rung, bracket, halvings, repeatsDone, repeats>>
  BY RungIsEntered DEF RungInvalid, OnRung
<1>2. /\ knee' = bracket.low
      /\ verdict' = IF bracket.low = NoRate THEN "invalid" ELSE "knee_lower_bound"
      /\ ladderAt' = IF knee' # NoRate /\ KneeRuns > 1 THEN "repeats" ELSE "done"
  BY DEF RungInvalid, AnswerWith
<1>3. \/ bracket.low = NoRate /\ rung = 1
      \/ /\ rung - 1 \in 1 .. Len(outcomes) /\ bracket.low = Rungs[rung - 1]
         /\ bracket.low \in Rates /\ bracket.low # NoRate
  BY <1>1, RatesAre, LadderSizes DEF OneClimbed
<1>4. LadderTypeOK'
  BY <1>1, <1>2, <1>3, CountedIsFiled
  DEF LadderInv, LadderTypeOK, LadderStatuses, OneClimbed, EnteredOne
<1>5. ClimbInv' /\ BisectInv' /\ RepeatInv' /\ LabelInv' /\ EvidenceIsApart'
  BY <1>1, <1>2, AnswerKeeps DEF Answers
<1>6. KneeIsBracketed'
  <2>1. \A i \in 1 .. Len(outcomes)' : outcomes'[i].verdict # "fail"
    BY <1>1 DEF OneClimbed, EnteredOne
  <2>2. bracket.low # NoRate => Found(bracket.low, "pass")'
    BY <1>1, <1>3 DEF OneClimbed, EnteredOne, Found
  <2>3. QED
    BY <1>1, <1>2, <2>1, <2>2 DEF KneeIsBracketed, Found
<1>7. QED
  BY <1>1, <1>4, <1>5, <1>6 DEF LadderInv, LadderIsHonest

\* A bracket that is known at both ends, after the run that closed it.
Bracketed(low, high) ==
    /\ low \in Rates /\ high \in Rates /\ low < high
    /\ \E i \in 1 .. Len(outcomes)' :
        outcomes'[i].rate = low /\ outcomes'[i].verdict = "pass"
    /\ \E i \in 1 .. Len(outcomes)' :
        outcomes'[i].rate = high /\ outcomes'[i].verdict = "fail"
    /\ \A i \in 1 .. Len(outcomes)' :
        \/ outcomes'[i].verdict = "pass" /\ outcomes'[i].rate <= low
        \/ outcomes'[i].verdict = "fail" /\ outcomes'[i].rate >= high

\* The bisection goes on, or the bracket is the answer.
LEMMA NarrowedKeeps ==
    ASSUME LadderInv, NEW run \in Stages, Counted(run), EnteredOne(run), StopsAtFailure',
           ladderAt \in {"rungs", "bisection"},
           NEW low, NEW high, NEW steps \in 0 .. MaxBisectionSteps,
           Bracketed(low, high), Narrowed(low, high, steps),
           RateNow \in {low, high},
           \A label \in Ticket : Taken(label) => label.rate <= low \/ label.rate >= high,
           UNCHANGED <<options, rung, repeatsDone, repeats>>
    PROVE  LadderInv'
<1>1. bracket' = [low |-> low, high |-> high] /\ halvings' = steps /\ Running
  BY DEF Narrowed, Running
<1>2. low \in Rates /\ high \in Rates /\ low \in Nat /\ high \in Nat /\ low < high /\ low # NoRate
  BY RatesAre DEF Bracketed
<1>3. CASE Halving(low, high, steps)
  <2>1. ladderAt' = "bisection" /\ UNCHANGED <<knee, verdict>>
    BY <1>3 DEF Narrowed
  <2>2. LadderTypeOK'
    BY <1>1, <1>2, <2>1, CountedIsFiled DEF LadderInv, LadderTypeOK, EnteredOne
  <2>3. ClimbInv' /\ BisectInv' /\ RepeatInv'
    BY <1>1, <1>2, <1>3, <2>1
    DEF ClimbInv, BisectInv, Bracketing, Bracketed, Found, RepeatInv, AnsweredLadder, LadderInv
  <2>4. LabelInv' /\ EvidenceIsApart'
    <3>1. \A label \in Ticket : Taken(label) => label.run = 0
      BY DEF Taken
    <3>2. /\ \A label \in Ticket : Taken(label) => Taken(label)'
          /\ \A label \in Ticket : label.rate = RateNow /\ label.run = RunNow => Taken(label)'
      BY <1>1, <1>2, <2>1, <3>1 DEF Taken, RunNow
    <3>3. QED
      BY <1>1, <2>1, <3>2, LabelsStaySpent, CountedIsFiled
      DEF EvidenceIsApart, LadderInv, RepeatInv, AnsweredLadder
  <2>5. KneeIsBracketed'
    BY <2>1 DEF KneeIsBracketed, AnsweredLadder
  <2>6. QED
    BY <2>2, <2>3, <2>4, <2>5 DEF LadderInv, LadderIsHonest
<1>4. CASE ~Halving(low, high, steps)
  <2>1. /\ knee' = low /\ verdict' = "knee_found"
        /\ ladderAt' = IF knee' # NoRate /\ KneeRuns > 1 THEN "repeats" ELSE "done"
    BY <1>4 DEF Narrowed, AnswerWith
  <2>2. LadderTypeOK'
    BY <1>1, <1>2, <2>1, CountedIsFiled DEF LadderInv, LadderTypeOK, LadderStatuses, EnteredOne
  <2>3. ClimbInv' /\ BisectInv' /\ RepeatInv' /\ LabelInv' /\ EvidenceIsApart'
    BY <2>1, AnswerKeeps DEF Answers
  <2>4. KneeIsBracketed'
    <3>1. \A i \in 1 .. Len(outcomes)' : outcomes'[i].rate \in Nat
      <4>1. outcomes' \in Seq(Outcome)
        BY DEF EnteredOne
      <4>2. \A o \in Outcome : o.rate \in Nat
        BY RatesAre DEF Outcome
      <4>3. QED
        BY <4>1, <4>2
    <3>2. \A i \in 1 .. Len(outcomes)' : outcomes'[i].rate \notin low + 1 .. high - 1
      BY <1>2, <3>1 DEF Bracketed
    <3>3. QED
      BY <1>1, <1>2, <1>4, <2>1, <3>2 DEF KneeIsBracketed, Found, Bracketed
  <2>5. QED
    BY <2>2, <2>3, <2>4 DEF LadderInv, LadderIsHonest
<1>5. QED
  BY <1>3, <1>4

\* A rung that failed: nothing has passed, or the bracket is known.
LEMMA RungFailedKeeps ==
    ASSUME LadderInv, NEW run \in Stages, RungFailed(run)
    PROVE  LadderInv'
<1>1. /\ OneClimbed(run) /\ EnteredOne(run) /\ StopsAtFailure' /\ Running /\ Counted(run)
      /\ ladderAt = "rungs" /\ Verdict(run) = "fail"
      /\ UNCHANGED <<options, rung, repeatsDone, repeats>>
  BY RungIsEntered DEF RungFailed, OnRung, OneClimbed
<1>2. CASE bracket.low = NoRate
  <2>1. /\ knee' = NoRate /\ verdict' = "below_first_rung" /\ ladderAt' = "done"
        /\ UNCHANGED <<bracket, halvings>>
    BY <1>2 DEF RungFailed, AnswerWith
  <2>2. LadderTypeOK'
    BY <1>1, <2>1, CountedIsFiled DEF LadderInv, LadderTypeOK, LadderStatuses, EnteredOne
  <2>3. ClimbInv' /\ BisectInv' /\ RepeatInv' /\ LabelInv' /\ EvidenceIsApart'
    BY <1>1, <2>1, AnswerKeeps DEF Answers
  <2>4. KneeIsBracketed'
    BY <2>1 DEF KneeIsBracketed
  <2>5. QED
    BY <1>1, <2>2, <2>3, <2>4 DEF LadderInv, LadderIsHonest
<1>3. CASE bracket.low # NoRate
  <2>1. PICK low, high : low = Rungs[rung - 1] /\ high = Rungs[rung]
    OBVIOUS
  <2>2. /\ rung - 1 \in 1 .. Len(Rungs) /\ rung - 1 \in 1 .. Len(outcomes) /\ bracket.low = low
        /\ rung \in 1 .. Len(Rungs) /\ rung - 1 < rung
    BY <1>1, <1>3, <2>1, LadderSizes DEF OneClimbed
  <2>3. low \in Rates /\ high \in Rates /\ low < high /\ RateNow = high
    BY <1>1, <2>1, <2>2, RatesAre, LadderSizes DEF OneClimbed
  <2>4. \A i \in 1 .. Len(outcomes) : outcomes[i].verdict = "pass" /\ outcomes[i].rate <= low
    <3>1. \A i \in 1 .. Len(outcomes) : i <= rung - 1 /\ i \in 1 .. Len(Rungs)
      BY <1>1, LadderSizes DEF OneClimbed
    <3>2. \A i \in 1 .. Len(outcomes) : Rungs[i] <= low
      BY <2>1, <2>2, <3>1, LadderSizes
    <3>3. QED
      BY <1>1, <3>2 DEF OneClimbed
  <2>5. Bracketed(low, high)
    <3>1. high <= high
      BY <2>3, RatesAre
    <3>2. \E i \in 1 .. Len(outcomes)' : outcomes'[i].rate = low /\ outcomes'[i].verdict = "pass"
      BY <1>1, <2>1, <2>2 DEF OneClimbed, EnteredOne
    <3>3. QED
      BY <1>1, <2>3, <2>4, <3>1, <3>2 DEF Bracketed, EnteredOne
  <2>6. Narrowed(low, high, 0)
    BY <1>3, <2>1, <2>2 DEF RungFailed
  <2>7. \A label \in Ticket : Taken(label) => label.rate <= low \/ label.rate >= high
    BY <1>1, <2>1 DEF Taken
  <2>8. QED
    BY <1>1, <2>3, <2>5, <2>6, <2>7, NarrowedKeeps, LadderSizes
<1>4. QED
  BY <1>2, <1>3

\* The middle of the bracket replaces one of its ends, or could not be measured.
LEMMA HalvedKeeps ==
    ASSUME LadderInv, NEW run \in Stages, Halved(run)
    PROVE  LadderInv'
<1>1. /\ ladderAt = "bisection" /\ Running /\ Counted(run) /\ EnteredOne(run)
      /\ UNCHANGED <<options, rung, repeatsDone, repeats>>
  BY OneIsEntered DEF Halved, Running
<1>2. PICK low, high, mid : low = bracket.low /\ high = bracket.high /\ mid = RateNow
  OBVIOUS
<1>3. /\ low \in Rates /\ high \in Rates /\ mid \in Rates /\ low < mid /\ mid < high
      /\ halvings < MaxBisectionSteps
  BY <1>1, <1>2, RateIsNew
<1>4. low \in Nat /\ high \in Nat /\ mid \in Nat /\ low # NoRate
  BY <1>3, RatesAre
<1>5. Bracketing(low, high)
  BY <1>1, <1>2 DEF LadderInv, BisectInv
<1>6. \A i \in 1 .. Len(outcomes) : outcomes[i].rate \in Nat
  <2>1. \A o \in Outcome : o.rate \in Nat
    BY RatesAre DEF Outcome
  <2>2. outcomes \in Seq(Outcome)
    BY DEF LadderInv, LadderTypeOK
  <2>3. QED
    BY <2>1, <2>2
<1>7. StopsAtFailure'
  <2>1. \A i \in 1 .. Len(outcomes) : outcomes[i].verdict = "fail" => mid < outcomes[i].rate
    BY <1>3, <1>4, <1>5, <1>6 DEF Bracketing
  <2>2. QED
    BY <1>1, <1>2, <2>1, OneBelow
<1>8. \A label \in Ticket : Taken(label) => label.rate <= low \/ label.rate >= high
  BY <1>1, <1>2 DEF Taken
<1>9. \A label \in Ticket : label.rate \in Nat
  BY RatesAre DEF Ticket
<1>10. halvings \in Nat /\ RateNow = Midpoint
  BY <1>1, LadderSizes DEF LadderInv, LadderTypeOK, RateNow
<1>11. CASE Verdict(run) = "pass"
  <2>1. PICK steps \in 0 .. MaxBisectionSteps : steps = halvings + 1
    BY <1>3, <1>10, LadderSizes
  <2>2. Narrowed(mid, high, steps)
    BY <1>2, <1>10, <1>11, <2>1 DEF Halved
  <2>3. Bracketed(mid, high)
    <3>1. \A i \in 1 .. Len(outcomes) :
            \/ outcomes[i].verdict = "pass" /\ outcomes[i].rate <= mid
            \/ outcomes[i].verdict = "fail" /\ outcomes[i].rate >= high
      BY <1>3, <1>4, <1>5, <1>6 DEF Bracketing
    <3>2. \E i \in 1 .. Len(outcomes)' : outcomes'[i].rate = high /\ outcomes'[i].verdict = "fail"
      BY <1>1, <1>5 DEF Bracketing, Found, EnteredOne
    <3>3. QED
      BY <1>1, <1>2, <1>3, <1>4, <1>11, <3>1, <3>2 DEF Bracketed, EnteredOne
  <2>4. \A label \in Ticket : Taken(label) => label.rate <= mid \/ label.rate >= high
    BY <1>3, <1>4, <1>8, <1>9
  <2>5. QED
    BY <1>1, <1>2, <1>7, <2>2, <2>3, <2>4, NarrowedKeeps
<1>12. CASE Verdict(run) = "fail"
  <2>1. PICK steps \in 0 .. MaxBisectionSteps : steps = halvings + 1
    BY <1>3, <1>10, LadderSizes
  <2>2. Narrowed(low, mid, steps)
    BY <1>2, <1>10, <1>12, <2>1 DEF Halved
  <2>3. Bracketed(low, mid)
    <3>1. \A i \in 1 .. Len(outcomes) :
            \/ outcomes[i].verdict = "pass" /\ outcomes[i].rate <= low
            \/ outcomes[i].verdict = "fail" /\ outcomes[i].rate >= mid
      BY <1>3, <1>4, <1>5, <1>6 DEF Bracketing
    <3>2. \E i \in 1 .. Len(outcomes)' : outcomes'[i].rate = low /\ outcomes'[i].verdict = "pass"
      BY <1>1, <1>5 DEF Bracketing, Found, EnteredOne
    <3>3. QED
      BY <1>1, <1>2, <1>3, <1>4, <1>12, <3>1, <3>2 DEF Bracketed, EnteredOne
  <2>4. \A label \in Ticket : Taken(label) => label.rate <= low \/ label.rate >= mid
    BY <1>3, <1>4, <1>8, <1>9
  <2>5. QED
    BY <1>1, <1>2, <1>7, <2>2, <2>3, <2>4, NarrowedKeeps
<1>13. CASE Verdict(run) \notin {"pass", "fail"}
  <2>1. Verdict(run) = "invalid"
    BY <1>13 DEF Verdict, Stages
  <2>2. /\ halvings' = halvings + 1 /\ bracket' = bracket
        /\ knee' = low /\ verdict' = "knee_found"
        /\ ladderAt' = IF knee' # NoRate /\ KneeRuns > 1 THEN "repeats" ELSE "done"
    BY <1>2, <2>1 DEF Halved, AnswerWith
  <2>3. LadderTypeOK'
    <3>1. halvings' \in 0 .. MaxBisectionSteps
      BY <1>3, <1>10, <2>2, LadderSizes
    <3>2. QED
      BY <1>1, <1>3, <2>2, <3>1, CountedIsFiled
      DEF LadderInv, LadderTypeOK, LadderStatuses, EnteredOne
  <2>4. ClimbInv' /\ BisectInv' /\ RepeatInv' /\ LabelInv' /\ EvidenceIsApart'
    BY <1>1, <2>2, AnswerKeeps DEF Answers
  <2>5. KneeIsBracketed'
    <3>1. Found(low, "pass")' /\ Found(high, "fail")'
      BY <1>1, <1>5 DEF Bracketing, Found, EnteredOne
    <3>2. \A i \in 1 .. Len(outcomes)' :
            outcomes'[i].rate \in low + 1 .. high - 1 => outcomes'[i].verdict = "invalid"
      BY <1>1, <1>4, <1>5, <1>6, <2>1 DEF Bracketing, EnteredOne
    <3>3. outcomes'[Len(outcomes)'].verdict = "invalid"
      BY <1>1, <2>1 DEF EnteredOne
    <3>4. QED
      BY <1>2, <1>4, <2>2, <3>1, <3>2, <3>3 DEF KneeIsBracketed, Found
  <2>6. QED
    BY <1>7, <2>3, <2>4, <2>5 DEF LadderInv, LadderIsHonest
<1>14. QED
  BY <1>11, <1>12, <1>13

\* The knee once more.
LEMMA RepeatedKeeps ==
    ASSUME LadderInv, NEW run \in Stages, Repeated(run)
    PROVE  LadderInv'
<1>1. /\ ladderAt = "repeats" /\ Running /\ Counted(run)
      /\ \/ /\ repeatsDone + 2 < KneeRuns /\ repeatsDone' = repeatsDone + 1 /\ ladderAt' = "repeats"
         \/ ladderAt' = "done" /\ repeatsDone' = repeatsDone
      /\ repeats' = Append(repeats, OutcomeOf(run))
      /\ UNCHANGED <<options, rung, bracket, halvings, outcomes, knee, verdict>>
  BY DEF Repeated, Running
<1>2. OutcomeOf(run) \in Outcome /\ OutcomeOf(run).rate = knee
  <2>1. Verdict(run) \in {"pass", "fail", "invalid"} /\ run.overhead \in BOOLEAN
    BY DEF Stages, Verdict
  <2>2. RateNow \in Rates /\ RateNow = knee
    BY <1>1, RateIsNew DEF RateNow
  <2>3. QED
    BY <2>1, <2>2 DEF OutcomeOf, Outcome
<1>3. /\ repeats' \in Seq(Outcome) /\ repeatsDone \in Nat
      /\ \A i \in 1 .. Len(repeats)' : repeats'[i].rate = knee
  <2>1. repeats \in Seq(Outcome) /\ \A i \in 1 .. Len(repeats) : repeats[i].rate = knee
    BY DEF LadderInv, LadderTypeOK, LadderIsHonest, EvidenceIsApart
  <2>2. repeatsDone \in Nat
    BY LadderSizes DEF LadderInv, LadderTypeOK
  <2>3. QED
    BY <1>1, <1>2, <2>1, <2>2, Appended
<1>4. LadderTypeOK'
  <2>1. repeatsDone' \in 0 .. KneeRuns - 1
    BY <1>1, <1>3, LadderSizes DEF LadderInv, LadderTypeOK
  <2>2. QED
    BY <1>1, <1>3, <2>1, CountedIsFiled DEF LadderInv, LadderTypeOK
<1>5. ClimbInv' /\ BisectInv' /\ RepeatInv'
  BY <1>1, <1>3, LadderSizes
  DEF LadderInv, ClimbInv, BisectInv, RepeatInv, AnsweredLadder
<1>6. LabelInv' /\ EvidenceIsApart'
  <2>1. \A label \in Ticket : label.run \in Nat
    BY LadderSizes DEF Ticket
  <2>2. /\ \A label \in Ticket : Taken(label) => Taken(label)'
        /\ \A label \in Ticket : label.rate = RateNow /\ label.run = RunNow => Taken(label)'
    BY <1>1, <1>3, <2>1 DEF Taken, RunNow
  <2>3. QED
    BY <1>1, <1>3, <2>2, LabelsStaySpent, CountedIsFiled DEF EvidenceIsApart
<1>7. KneeIsBracketed' /\ StopsAtFailure'
  BY <1>1 DEF LadderInv, LadderIsHonest, KneeIsBracketed, StopsAtFailure, AnsweredLadder, Found
<1>8. QED
  BY <1>4, <1>5, <1>6, <1>7 DEF LadderInv, LadderIsHonest

\* Every step of the ladder preserves the invariant.
LEMMA LadderSteps == ASSUME LadderInv, [LadderNext]_ladderVars PROVE LadderInv'
<1>1. CASE LadderNext
  BY <1>1, StartLadderKeeps, WidenPoolKeeps, RungUnjudgeableKeeps, RungPassedKeeps,
     RungInvalidKeeps, RungFailedKeeps, HalvedKeeps, RepeatedKeeps DEF LadderNext
<1>2. CASE UNCHANGED ladderVars
  <2>. USE <1>2 DEF ladderVars, LadderInv
  <2>1. LadderTypeOK'
    BY DEF LadderTypeOK
  <2>2. ClimbInv' /\ BisectInv' /\ RepeatInv'
    BY DEF ClimbInv, BisectInv, Bracketing, RepeatInv, AnsweredLadder, Found
  <2>3. LabelInv'
    BY DEF LabelInv, Labelled, Taken, Attempted, RateNow, RunNow, Midpoint
  <2>4. LadderIsHonest'
    BY DEF LadderIsHonest, KneeIsBracketed, StopsAtFailure, EvidenceIsApart, AnsweredLadder, Found
  <2>5. QED
    BY <2>1, <2>2, <2>3, <2>4
<1>3. QED
  BY <1>1, <1>2

\* The invariant of the ladder holds for any plan.
THEOREM LadderIsTracked == LadderSpec => []LadderInv
BY LadderStarts, LadderSteps, PTL DEF LadderSpec

\* The report of a ladder is honest for any rates, tolerance, number of steps, repeats and
\* pool expansions: the knee was measured and passed, its bracket is tight or the steps
\* ran out, nothing was measured at or above a rate that failed, and no run overwrote the
\* evidence of another.
THEOREM LadderStaysHonest == LadderSpec => []LadderIsHonest
<1>1. LadderInv => LadderIsHonest
  BY DEF LadderInv
<1>2. QED
  BY <1>1, LadderIsTracked, PTL

-----------------------------------------------------------------------------
(* The guard of a target *)

\* Where a process relies on the file being its own, and on its name being in it.
Relying == {"created", "holding", "measuring", "stopping", "finished", "stopped", "dropping"}

\* As long as no clean-up took another process's file, whoever relies on the lock has it.
HoldersOwn ==
    ~robbed => \A p \in LoadRuns :
        /\ guardAt[p] \in Relying => lockFile.by = p
        /\ guardAt[p] \in Relying \ {"created"} => lockFile.named

\* Who is about to be cleaned up after has exited, and stays so.
JudgedAreDead == \A p \in LoadRuns : guardAt[p] = "clearing" => guardAt[judged[p]] \in Exited

\* Workers fire while their run measures or is about to stop them, or have outlived it.
TrafficIsTracked ==
    \A p \in LoadRuns :
        /\ p \in traffic \ outlived => guardAt[p] \in {"measuring", "stopping"}
        /\ p \in outlived =>
              /\ runStatus[p] = "aborted"
              /\ guardAt[p] \in {"stopped", "dropping", "dropped"} \cup Exited

\* What a status promises.
StatusIsKept ==
    \A p \in LoadRuns :
        /\ runStatus[p] = "running" => guardAt[p] \in {"measuring", "stopping", "killed"}
        /\ runStatus[p] = "completed" => p \notin traffic

GuardInv ==
    /\ GuardTypeOK
    /\ HoldersOwn
    /\ JudgedAreDead
    /\ TrafficIsTracked
    /\ StatusIsKept

-----------------------------------------------------------------------------
\* Nobody has started, and there is no lock.
LEMMA GuardStarts == ASSUME GuardInit PROVE GuardInv
<1>. USE GuardAssumption DEF GuardInit
<1>1. GuardTypeOK BY DEF GuardTypeOK, FreeLock, GuardAts
<1>2. HoldersOwn BY DEF HoldersOwn, Relying
<1>3. JudgedAreDead BY DEF JudgedAreDead
<1>4. TrafficIsTracked BY DEF TrafficIsTracked
<1>5. StatusIsKept BY DEF StatusIsKept
<1>. QED BY <1>1, <1>2, <1>3, <1>4, <1>5 DEF GuardInv

\* Taking the lock, up to the naming of its holder.
LEMMA AcquireStep ==
    ASSUME GuardInv, NEW p \in LoadRuns,
           Create(p) \/ FindStale(p) \/ Refuse(p) \/ CleanStale(p) \/ NameHolder(p) \/ AcquireFails(p)
    PROVE  GuardInv'
<1>. USE GuardAssumption
     DEF GuardInv, GuardTypeOK, GuardAts, Owning, Exited, Relying, Goes, Unlink, FreeLock
<1>1. CASE Create(p)
      BY <1>1 DEF Create, HoldersOwn, JudgedAreDead, TrafficIsTracked, StatusIsKept
<1>2. CASE FindStale(p)
      BY <1>2 DEF FindStale, Stale, HoldersOwn, JudgedAreDead, TrafficIsTracked, StatusIsKept
<1>3. CASE Refuse(p)
      BY <1>3 DEF Refuse, HoldersOwn, JudgedAreDead, TrafficIsTracked, StatusIsKept
<1>4. CASE CleanStale(p)
  <2>. USE <1>4 DEF CleanStale
  <2>1. GuardTypeOK' OBVIOUS
  <2>2. HoldersOwn' BY ZenonT(60) DEF HoldersOwn, JudgedAreDead
  <2>3. JudgedAreDead' BY DEF JudgedAreDead
  <2>4. TrafficIsTracked' BY DEF TrafficIsTracked
  <2>5. StatusIsKept' BY DEF StatusIsKept
  <2>. QED BY <2>1, <2>2, <2>3, <2>4, <2>5
<1>5. CASE NameHolder(p)
  <2>. USE <1>5 DEF NameHolder
  <2>1. GuardTypeOK' OBVIOUS
  <2>2. HoldersOwn' BY DEF HoldersOwn
  <2>3. JudgedAreDead' BY DEF JudgedAreDead
  <2>4. TrafficIsTracked' BY DEF TrafficIsTracked
  <2>5. StatusIsKept' BY DEF StatusIsKept
  <2>. QED BY <2>1, <2>2, <2>3, <2>4, <2>5
<1>6. CASE AcquireFails(p)
  <2>. USE <1>6 DEF AcquireFails
  <2>1. GuardTypeOK' OBVIOUS
  <2>2. HoldersOwn' BY DEF HoldersOwn
  <2>3. JudgedAreDead' BY DEF JudgedAreDead
  <2>4. TrafficIsTracked' BY DEF TrafficIsTracked
  <2>5. StatusIsKept' BY DEF StatusIsKept
  <2>. QED BY <2>1, <2>2, <2>3, <2>4, <2>5
<1>. QED BY <1>1, <1>2, <1>3, <1>4, <1>5, <1>6

\* The guarded section: nobody touches the file.
LEMMA GuardedStep ==
    ASSUME GuardInv, NEW p \in LoadRuns,
           \/ LayoutFails(p) \/ Measure(p) \/ Conclude(p) \/ StopRun(p)
           \/ \E late \in BOOLEAN : AbortRun(p, late)
           \/ Kill(p)
    PROVE  GuardInv'
<1>. USE DEF GuardInv, GuardTypeOK, GuardAts, Owning, Exited, Relying, Goes
<1>1. CASE LayoutFails(p)
      BY <1>1 DEF LayoutFails, HoldersOwn, JudgedAreDead, TrafficIsTracked, StatusIsKept
<1>2. CASE Measure(p)
      BY <1>2 DEF Measure, HoldersOwn, JudgedAreDead, TrafficIsTracked, StatusIsKept
<1>3. CASE Conclude(p)
      BY <1>3 DEF Conclude, HoldersOwn, JudgedAreDead, TrafficIsTracked, StatusIsKept
<1>4. CASE StopRun(p)
      BY <1>4 DEF StopRun, HoldersOwn, JudgedAreDead, TrafficIsTracked, StatusIsKept
<1>5. ASSUME NEW late \in BOOLEAN, AbortRun(p, late) PROVE GuardInv'
      BY <1>5 DEF AbortRun, HoldersOwn, JudgedAreDead, TrafficIsTracked, StatusIsKept
<1>6. CASE Kill(p)
      BY <1>6 DEF Kill, HoldersOwn, JudgedAreDead, TrafficIsTracked, StatusIsKept
<1>. QED BY <1>1, <1>2, <1>3, <1>4, <1>5, <1>6

\* Giving the lock back.
LEMMA ReleaseStep ==
    ASSUME GuardInv, NEW p \in LoadRuns,
           ReadHolder(p) \/ Dispossessed(p) \/ DropLock(p) \/ ExitRun(p)
    PROVE  GuardInv'
<1>. USE GuardAssumption
     DEF GuardInv, GuardTypeOK, GuardAts, Owning, Exited, Relying, Goes, Unlink, FreeLock, MyLock
<1>1. CASE ReadHolder(p)
      BY <1>1 DEF ReadHolder, HoldersOwn, JudgedAreDead, TrafficIsTracked, StatusIsKept
<1>2. CASE Dispossessed(p)
  <2>. USE <1>2 DEF Dispossessed
  <2>1. GuardTypeOK' OBVIOUS
  <2>2. HoldersOwn' BY DEF HoldersOwn
  <2>3. JudgedAreDead' BY DEF JudgedAreDead
  <2>4. TrafficIsTracked' BY DEF TrafficIsTracked
  <2>5. StatusIsKept' BY DEF StatusIsKept
  <2>. QED BY <2>1, <2>2, <2>3, <2>4, <2>5
<1>3. CASE DropLock(p)
  <2>. USE <1>3 DEF DropLock
  <2>1. GuardTypeOK' OBVIOUS
  <2>2. HoldersOwn' BY DEF HoldersOwn
  <2>3. JudgedAreDead' BY DEF JudgedAreDead
  <2>4. TrafficIsTracked' BY DEF TrafficIsTracked
  <2>5. StatusIsKept' BY DEF StatusIsKept
  <2>. QED BY <2>1, <2>2, <2>3, <2>4, <2>5
<1>4. CASE ExitRun(p)
      BY <1>4 DEF ExitRun, HoldersOwn, JudgedAreDead, TrafficIsTracked, StatusIsKept
<1>. QED BY <1>1, <1>2, <1>3, <1>4

\* Every step of a process preserves the invariant.
LEMMA GuardSteps == ASSUME GuardInv, [GuardNext]_guardVars PROVE GuardInv'
<1>1. CASE GuardNext
      BY <1>1, AcquireStep, GuardedStep, ReleaseStep DEF GuardNext
<1>2. CASE UNCHANGED guardVars
      BY <1>2 DEF guardVars, GuardInv, GuardTypeOK, HoldersOwn, JudgedAreDead, TrafficIsTracked,
                  StatusIsKept
<1>. QED BY <1>1, <1>2

-----------------------------------------------------------------------------
(* The theorems *)

\* The strengthening behind the two theorems below holds in every state.
THEOREM GuardIsTracked == GuardSpec => []GuardInv
BY GuardStarts, GuardSteps, PTL DEF GuardSpec

\* A process, its status and the file keep their types.
THEOREM GuardTypeCorrect == GuardSpec => []GuardTypeOK
<1>1. GuardInv => GuardTypeOK BY DEF GuardInv
<1>. QED BY <1>1, GuardIsTracked, PTL

\* With any number of processes started against one target, killed at any point: two
\* never fire at it together and the lock is there while one does, unless a clean-up
\* unlinked a lock that was not the dead holder's, or workers outlived their join; and
\* what a run that ended says of itself is true.
THEOREM OwnersAreAlone == GuardSpec => []TargetIsOwned
<1>1. ASSUME GuardInv PROVE OneGenerator
      BY <1>1, GuardAssumption
      DEF GuardInv, GuardTypeOK, HoldersOwn, TrafficIsTracked, OneGenerator, Relying
<1>2. ASSUME GuardInv PROVE StatusIsTruthful
      BY <1>2 DEF GuardInv, GuardTypeOK, TrafficIsTracked, StatusIsKept, StatusIsTruthful, Exited
<1>3. GuardInv => TargetIsOwned BY <1>1, <1>2 DEF TargetIsOwned
<1>. QED BY <1>3, GuardIsTracked, PTL

-----------------------------------------------------------------------------
(* A measured run *)

\* Where the guarded section has no stage behind it, and where status.json says "running".
BeforeLadder == {"begin", "locked"} \cup Preparing
SaidRunning == {"preflight", "manifest", "targets", "verdict"} \cup InLadder
InSection == {"begin", "locked"} \cup Preparing \cup InLadder \cup Closing

\* The verdict of a whole ladder.
VerdictIsTold ==
    \/ exitWith = 0 /\ statusFile = "completed" /\ ladderSays = "knee"
    \/ exitWith = 4 /\ statusFile = "failed" /\ ladderSays = "no knee"

\* How the section may end by itself: dry, at a target that cannot be read, or whole.
EndedByItself ==
    \/ exitWith = 0 /\ statusFile = "completed" /\ begunStages = 0
    \/ "bad target" \in excuses /\ begunStages = 0
    \/ VerdictIsTold

ControlInv ==
    /\ runAt \in InSection => stopping = NotStopped /\ excuses = {}
    /\ runAt \in BeforeLadder => begunStages = 0 /\ scraper = "none"
    /\ runAt \in BeforeLadder \ SaidRunning => statusFile = "none"
    /\ runAt \in SaidRunning => statusFile = "running"
    /\ runAt \in InSection \ {"begin", "printing"} => targetHeld
    /\ runAt \in {"reporting", "rendering"} => ladderSays # "none"
    /\ runAt \in Closing => ladderSays \in {"knee", "no knee"}
    /\ runAt \in {"releasing", "printing"} => VerdictIsTold

StagesInv ==
    runAt \in InLadder \cup Closing =>
        doneStages = IF runAt \in {"staging", "sinking"} THEN begunStages - 1 ELSE begunStages

\* Where load may still be put on the target.
LoadInv ==
    /\ stageOn => begunStages > 0 /\ runAt \in {"staging"} \cup Finally
    /\ stageOn /\ runAt = "halt" => targetHeld
    /\ stageOn /\ runAt \in Finally \ {"halt"} => "outlived" \in excuses

\* What the steps of finally find, and leave.
EndInv ==
    /\ runAt \in Finally =>
          /\ stopping = NotStopped => EndedByItself
          /\ stopping = Refused => begunStages = 0
    /\ runAt \in {"release", "leaving"} /\ stopping # NotStopped =>
          statusFile = stopping.status

NoneRefused == "refused" \notin {checkedFor[t] : t \in RunTenants}
Reported == {<<"report">>, <<"markdown">>, <<"manifest">>, <<"preflight">>}

\* The evidence of every stage that is done.
SunkInv == {"raw", "generator"} \X (1 .. doneStages) \subseteq tree

\* What was found before load was put on, and written down.
CheckedInv ==
    /\ runAt \in {"manifest", "targets"} \cup InLadder \cup Closing =>
          <<"preflight">> \in tree /\ NoneRefused
    /\ runAt \in {"targets"} \cup InLadder \cup Closing => <<"manifest">> \in tree
    /\ begunStages > 0 => <<"manifest">> \in tree /\ NoneRefused

ReportInv ==
    /\ runAt \in {"rendering"} \cup Closing => <<"report">> \in tree
    /\ runAt \in Closing => <<"markdown">> \in tree
    /\ statusFile \in {"completed", "failed"} /\ begunStages > 0 => Reported \subseteq tree

\* The first slice is from before the first tick, the last from after the last.
BeganBefore == slicesTaken # <<>> /\ Head(slicesTaken).begun = 0
EndedAfter == [begun |-> begunStages, on |-> FALSE] \in ToSet(slicesTaken)

SlicesInv ==
    /\ scraper \in {"waiting", "scraping"} =>
          runAt \in InLadder \cup Closing \cup {"halt", "observer"} /\ BeganBefore
    /\ scraper = "off" => begunStages = 0 /\ runAt \in Finally
    /\ scraper = "over" => /\ runAt \in {"status", "release", "leaving", "exited"}
                           /\ begunStages > 0 => BeganBefore
    /\ <<"server">> \in tree =>
          /\ scraper = "over"
          /\ begunStages > 0 /\ "outlived" \notin excuses => EndedAfter

RunInv ==
    /\ MeasuredRunTypeOK /\ ControlInv /\ StagesInv /\ LoadInv /\ EndInv
    /\ StatusTellsTheTruth /\ SunkInv /\ CheckedInv /\ ReportInv /\ SlicesInv

\* The stages are counted by numbers.
LEMMA StageCounts ==
    ASSUME MeasuredRunTypeOK
    PROVE  /\ begunStages \in Nat /\ doneStages \in Nat
           /\ begunStages <= MaxStages /\ doneStages <= begunStages
<1>1. begunStages \in 0 .. MaxStages /\ doneStages \in 0 .. begunStages
  BY Zenon DEF MeasuredRunTypeOK
<1>2. QED
  BY <1>1, MeasuredRunAssumption

\* The types, in parts.
ControlIsTyped ==
    /\ runAt \in {"begin", "locked", "exited"} \cup Preparing \cup InLadder \cup Closing \cup Finally
    /\ statusFile \in {"none", "running", "completed", "failed", "aborted"}
    /\ ladderSays \in {"none", "knee", "no knee", "unjudgeable"}
    /\ targetHeld \in BOOLEAN /\ stageOn \in BOOLEAN
    /\ scraper \in {"none", "off", "waiting", "scraping", "over"}
ExitIsTyped ==
    /\ exitCode \in {0, 1, 2, 3, 4, 9} /\ exitWith \in {0, 2, 3, 4}
    /\ stopping \in {NotStopped, Refused, Aborted}
    /\ excuses \subseteq {"bad target", "cut", "unwritten", "outlived"}
TreeIsTyped == tree \subseteq {<<a>> : a \in Artefacts} \cup Labels
FindingsAreTyped == checkedFor \in [RunTenants -> {"untouched", "refused", "skipped", "ok"}]
StagesAreTyped == begunStages \in 0 .. MaxStages /\ doneStages \in 0 .. begunStages
SlicesAreTyped ==
    /\ scrapeOf \in [begun : 0 .. MaxStages, on : BOOLEAN]
    /\ slicesTaken \in Seq([begun : 0 .. MaxStages, on : BOOLEAN])

\* The type invariant is that of its parts.
LEMMA TypesInParts ==
    MeasuredRunTypeOK <=>
        /\ ControlIsTyped /\ ExitIsTyped /\ TreeIsTyped /\ FindingsAreTyped
        /\ StagesAreTyped /\ SlicesAreTyped
BY DEF MeasuredRunTypeOK, ControlIsTyped, ExitIsTyped, TreeIsTyped, FindingsAreTyped,
    StagesAreTyped, SlicesAreTyped

\* Few steps change what was found, the stages, the slices and the evidence; none
\* removes evidence but the gap.
LEMMA WhoChangesWhat ==
    ASSUME [MeasuredRunNext]_measuredRunVars
    PROVE  /\ PreflightPasses \/ PreflightRefuses \/ UNCHANGED checkedFor
           /\ StageBegins \/ StageSunk \/ UNCHANGED <<begunStages, doneStages>>
           /\ \/ CollectorStarts \/ FirstSliceOnly \/ ObserverStopped \/ ScrapeBegins \/ ScrapeEnds
              \/ UNCHANGED <<scrapeOf, slicesTaken>>
           /\ \/ StageSunk
              \/ tree' \subseteq tree \cup {<<a>> : a \in Artefacts} /\ UNCHANGED doneStages
              \/ UNCHANGED <<tree, doneStages>>
           /\ tree \ {<<"gap">>} \subseteq tree'
<1>1. CASE Acquired
  BY <1>1 DEF Acquired, writtenPart, ladderPart, collectorPart
<1>2. CASE NotAcquired
  BY <1>2 DEF NotAcquired, writtenPart
<1>3. CASE EntersTry
  BY <1>3 DEF EntersTry, writtenPart, ladderPart, collectorPart
<1>4. CASE LayoutCreated
  BY <1>4 DEF LayoutCreated, Writes, ladderPart, collectorPart, Artefacts
<1>5. CASE SnapshotWritten
  BY <1>5 DEF SnapshotWritten, Writes, ladderPart, collectorPart, Artefacts
<1>6. CASE StubLogCopied
  BY <1>6 DEF StubLogCopied, Writes, ladderPart, collectorPart, Artefacts
<1>7. CASE StubLogMissing
  BY <1>7 DEF StubLogMissing, Refuses, ladderPart, collectorPart
<1>8. CASE StatusRunning
  BY <1>8 DEF StatusRunning, ladderPart, collectorPart
<1>9. CASE PreflightPasses
  BY <1>9 DEF PreflightPasses, Writes, ladderPart, collectorPart, Artefacts
<1>10. CASE PreflightRefuses
  BY <1>10 DEF PreflightRefuses, Writes, Refuses, ladderPart, collectorPart, Artefacts
<1>11. CASE ManifestWritten
  BY <1>11 DEF ManifestWritten, Writes, ladderPart, collectorPart, Artefacts
<1>12. CASE DryRun
  BY <1>12 DEF DryRun, ladderPart, collectorPart
<1>13. CASE BadMetricsTarget
  BY <1>13 DEF BadMetricsTarget, writtenPart, ladderPart, collectorPart
<1>14. CASE CollectorStarts
  BY <1>14 DEF CollectorStarts, writtenPart, ladderPart
<1>15. CASE FirstSliceOnly
  BY <1>15 DEF FirstSliceOnly, writtenPart, ladderPart
<1>16. CASE NoCollector
  BY <1>16 DEF NoCollector, writtenPart, ladderPart, collectorPart
<1>17. CASE StageBegins
  BY <1>17 DEF StageBegins, writtenPart, collectorPart
<1>18. CASE StageJoined
  BY <1>18 DEF StageJoined, writtenPart, collectorPart
<1>19. CASE StageSunk
  BY <1>19 DEF StageSunk, collectorPart
<1>20. CASE LadderReturns
  BY <1>20 DEF LadderReturns, writtenPart, collectorPart
<1>21. CASE ReportWritten
  BY <1>21 DEF ReportWritten, Writes, ladderPart, collectorPart, Artefacts
<1>22. CASE MarkdownWritten
  BY <1>22 DEF MarkdownWritten, Writes, ladderPart, collectorPart, Artefacts
<1>23. CASE VerdictWritten
  BY <1>23 DEF VerdictWritten, ladderPart, collectorPart
<1>24. CASE ReleasedEarly
  BY <1>24 DEF ReleasedEarly, writtenPart, ladderPart, collectorPart
<1>25. CASE Printed
  BY <1>25 DEF Printed, writtenPart, ladderPart, collectorPart
<1>26. CASE SectionFails
  BY <1>26 DEF SectionFails, writtenPart, ladderPart, collectorPart
<1>27. CASE CutShort
  BY <1>27 DEF CutShort, writtenPart
<1>28. CASE LoadHalted
  BY <1>28 DEF LoadHalted, writtenPart, collectorPart
<1>29. CASE ObserverStopped
  BY <1>29 DEF ObserverStopped, ladderPart, Artefacts
<1>30. CASE StatusAtLast
  BY <1>30 DEF StatusAtLast, ladderPart, collectorPart
<1>31. CASE StatusUnwritten
  BY <1>31 DEF StatusUnwritten, writtenPart
<1>32. CASE ReleasedQuietly
  BY <1>32 DEF ReleasedQuietly, writtenPart, ladderPart, collectorPart
<1>33. CASE LeavesWithCode
  BY <1>33 DEF LeavesWithCode, writtenPart
<1>34. CASE ScrapeBegins
  BY <1>34 DEF ScrapeBegins, writtenPart, ladderPart
<1>35. CASE ScrapeEnds
  BY <1>35 DEF ScrapeEnds, writtenPart, ladderPart
<1>36. CASE UNCHANGED measuredRunVars
  BY <1>36 DEF measuredRunVars
<1>37. QED
  BY <1>1, <1>2, <1>3, <1>4, <1>5, <1>6, <1>7, <1>8, <1>9, <1>10, <1>11, <1>12, <1>13,
      <1>14, <1>15, <1>16, <1>17, <1>18, <1>19, <1>20, <1>21, <1>22, <1>23, <1>24, <1>25,
      <1>26, <1>27, <1>28, <1>29, <1>30, <1>31, <1>32, <1>33, <1>34, <1>35, <1>36 DEF
      MeasuredRunNext

\* Where the section stands goes with the status, the lock and the observer.
LEMMA ControlStep ==
    ASSUME MeasuredRunTypeOK, ControlInv, [MeasuredRunNext]_measuredRunVars
    PROVE  ControlInv'
<1>1. CASE Acquired
  BY <1>1 DEF Acquired, MovesOn, writtenPart, ladderPart, collectorPart, ControlInv,
      BeforeLadder, SaidRunning, InSection, InLadder, Closing
<1>2. CASE NotAcquired
  BY <1>2 DEF NotAcquired, Exits, ControlInv, BeforeLadder, SaidRunning, InSection,
      Preparing,
      InLadder, Closing
<1>3. CASE EntersTry
  BY <1>3 DEF EntersTry, MovesOn, endPart, writtenPart, ladderPart, collectorPart,
      ControlInv, BeforeLadder, SaidRunning, InSection, InLadder, Closing
<1>4. CASE LayoutCreated
  BY <1>4 DEF LayoutCreated, MovesOn, endPart, ladderPart, collectorPart, ControlInv,
      BeforeLadder, SaidRunning, InSection, Preparing, InLadder, Closing
<1>5. CASE SnapshotWritten
  BY <1>5 DEF SnapshotWritten, MovesOn, endPart, ladderPart, collectorPart, ControlInv,
      BeforeLadder, SaidRunning, InSection, Preparing, InLadder, Closing
<1>6. CASE StubLogCopied
  BY <1>6 DEF StubLogCopied, MovesOn, endPart, ladderPart, collectorPart, ControlInv,
      BeforeLadder, SaidRunning, InSection, Preparing, InLadder, Closing
<1>7. CASE StubLogMissing
  BY <1>7 DEF StubLogMissing, Refuses, ControlInv, BeforeLadder, SaidRunning, InSection,
      Preparing, InLadder, Closing
<1>8. CASE StatusRunning
  BY <1>8 DEF StatusRunning, MovesOn, endPart, ladderPart, collectorPart, ControlInv,
      BeforeLadder, SaidRunning, InSection, Preparing, Closing
<1>9. CASE PreflightPasses
  BY <1>9 DEF PreflightPasses, MovesOn, endPart, ladderPart, collectorPart, ControlInv,
      BeforeLadder, SaidRunning, InSection, Preparing, Closing
<1>10. CASE PreflightRefuses
  BY <1>10 DEF PreflightRefuses, Refuses, ControlInv, BeforeLadder, SaidRunning, InSection,
      Preparing, InLadder, Closing
<1>11. CASE ManifestWritten
  BY <1>11 DEF ManifestWritten, MovesOn, endPart, ladderPart, collectorPart, ControlInv,
      BeforeLadder, SaidRunning, InSection, Preparing, Closing
<1>12. CASE DryRun
  BY <1>12 DEF DryRun, MovesOn, ControlInv, BeforeLadder, SaidRunning, InSection, Preparing,
      InLadder, Closing
<1>13. CASE BadMetricsTarget
  BY <1>13 DEF BadMetricsTarget, MovesOn, ControlInv, BeforeLadder, SaidRunning, InSection,
      Preparing, InLadder, Closing
<1>14. CASE CollectorStarts
  BY <1>14 DEF CollectorStarts, MovesOn, endPart, writtenPart, ControlInv, BeforeLadder,
      SaidRunning, InSection, Preparing, Closing
<1>15. CASE FirstSliceOnly
  BY <1>15 DEF FirstSliceOnly, MovesOn, ControlInv, BeforeLadder, SaidRunning, InSection,
      Preparing, InLadder, Closing
<1>16. CASE NoCollector
  BY <1>16 DEF NoCollector, MovesOn, endPart, writtenPart, ControlInv, BeforeLadder,
      SaidRunning, InSection, Preparing, Closing
<1>17. CASE StageBegins
  BY <1>17 DEF StageBegins, MovesOn, endPart, writtenPart, ControlInv, BeforeLadder,
      SaidRunning, InSection, Preparing, InLadder, Closing
<1>18. CASE StageJoined
  BY <1>18 DEF StageJoined, MovesOn, endPart, writtenPart, ControlInv, BeforeLadder,
      SaidRunning, InSection, Preparing, InLadder, Closing
<1>19. CASE StageSunk
  BY <1>19 DEF StageSunk, MovesOn, endPart, ControlInv, BeforeLadder, SaidRunning,
      InSection,
      Preparing, InLadder, Closing
<1>20. CASE LadderReturns
  BY <1>20 DEF LadderReturns, MovesOn, endPart, writtenPart, ControlInv, BeforeLadder,
      SaidRunning, InSection, Preparing, InLadder, Closing
<1>21. CASE ReportWritten
  BY <1>21 DEF ReportWritten, MovesOn, endPart, ladderPart, ControlInv, BeforeLadder,
      SaidRunning, InSection, Preparing, InLadder, Closing
<1>22. CASE MarkdownWritten
  BY <1>22 DEF MarkdownWritten, MovesOn, endPart, ladderPart, MeasuredRunTypeOK,
      ControlInv, BeforeLadder, SaidRunning, InSection, Preparing, InLadder
<1>23. CASE VerdictWritten
  <2>1. <<"completed", 0>>[1] = "completed" /\ <<"completed", 0>>[2] = 0
      /\ <<"failed", 4>>[1] = "failed" /\ <<"failed", 4>>[2] = 4
    OBVIOUS
  <2>2. runAt = "verdict" /\ runAt' = "releasing" /\ ladderSays \in {"knee", "no knee"}
    BY <1>23 DEF VerdictWritten, MovesOn, ControlInv, Closing
  <2>3. VerdictIsTold'
    <3>1. CASE ladderSays = "knee"
      BY <1>23, <2>1, <3>1 DEF VerdictWritten, VerdictIsTold, ladderPart
    <3>2. CASE ladderSays = "no knee"
      BY <1>23, <2>1, <3>2 DEF VerdictWritten, VerdictIsTold, ladderPart
    <3>3. QED
      BY <2>2, <3>1, <3>2
  <2>4. UNCHANGED <<targetHeld, stopping, excuses, ladderSays, begunStages, scraper, doneStages, stageOn>>
    BY <1>23 DEF VerdictWritten, ladderPart, collectorPart
  <2>5. QED
    BY <2>2, <2>3, <2>4 DEF ControlInv, BeforeLadder, SaidRunning, InSection, Preparing,
        InLadder, Closing
<1>24. CASE ReleasedEarly
  BY <1>24 DEF ReleasedEarly, MovesOn, writtenPart, ladderPart, ControlInv, VerdictIsTold,
      BeforeLadder, SaidRunning, InSection, Preparing, InLadder, Closing
<1>25. CASE Printed
  BY <1>25 DEF Printed, MovesOn, ControlInv, BeforeLadder, SaidRunning, InSection,
      Preparing,
      InLadder, Closing
<1>26. CASE SectionFails
  BY <1>26 DEF SectionFails, Preparing, InLadder, Closing, ControlInv, BeforeLadder,
      SaidRunning, InSection
<1>27. CASE CutShort
  BY <1>27 DEF CutShort, Exits, ControlInv, BeforeLadder, SaidRunning, InSection, Preparing,
      InLadder, Closing
<1>28. CASE LoadHalted
  BY <1>28 DEF LoadHalted, MovesOn, ControlInv, BeforeLadder, SaidRunning, InSection,
      Preparing, InLadder, Closing
<1>29. CASE ObserverStopped
  BY <1>29 DEF ObserverStopped, MovesOn, ControlInv, BeforeLadder, SaidRunning, InSection,
      Preparing, InLadder, Closing
<1>30. CASE StatusAtLast
  BY <1>30 DEF StatusAtLast, MovesOn, ControlInv, BeforeLadder, SaidRunning, InSection,
      Preparing, InLadder, Closing
<1>31. CASE StatusUnwritten
  BY <1>31 DEF StatusUnwritten, Exits, ControlInv, BeforeLadder, SaidRunning, InSection,
      Preparing, InLadder, Closing
<1>32. CASE ReleasedQuietly
  BY <1>32 DEF ReleasedQuietly, MovesOn, ControlInv, BeforeLadder, SaidRunning, InSection,
      Preparing, InLadder, Closing
<1>33. CASE LeavesWithCode
  BY <1>33 DEF LeavesWithCode, Exits, ControlInv, BeforeLadder, SaidRunning, InSection,
      Preparing, InLadder, Closing
<1>34. CASE ScrapeBegins
  BY <1>34 DEF ScrapeBegins, endPart, writtenPart, ladderPart, ControlInv, VerdictIsTold
<1>35. CASE ScrapeEnds
  BY <1>35 DEF ScrapeEnds, endPart, writtenPart, ladderPart, ControlInv, VerdictIsTold
<1>36. CASE UNCHANGED measuredRunVars
  BY <1>36 DEF measuredRunVars, ControlInv, VerdictIsTold
<1>37. QED
  BY <1>1, <1>2, <1>3, <1>4, <1>5, <1>6, <1>7, <1>8, <1>9, <1>10, <1>11, <1>12, <1>13,
      <1>14, <1>15, <1>16, <1>17, <1>18, <1>19, <1>20, <1>21, <1>22, <1>23, <1>24, <1>25,
      <1>26, <1>27, <1>28, <1>29, <1>30, <1>31, <1>32, <1>33, <1>34, <1>35, <1>36 DEF
      MeasuredRunNext

\* A stage is done when its evidence is sunk.
LEMMA StagesStep ==
    ASSUME MeasuredRunTypeOK, ControlInv, StagesInv, [MeasuredRunNext]_measuredRunVars
    PROVE  StagesInv'
<1>1. CASE Acquired
  BY <1>1 DEF Acquired, MovesOn, StagesInv, InLadder, Closing
<1>2. CASE NotAcquired
  BY <1>2 DEF NotAcquired, Exits, StagesInv, InLadder, Closing
<1>3. CASE EntersTry
  BY <1>3 DEF EntersTry, MovesOn, StagesInv, InLadder, Closing
<1>4. CASE LayoutCreated
  BY <1>4 DEF LayoutCreated, MovesOn, StagesInv, InLadder, Closing
<1>5. CASE SnapshotWritten
  BY <1>5 DEF SnapshotWritten, MovesOn, StagesInv, InLadder, Closing
<1>6. CASE StubLogCopied
  BY <1>6 DEF StubLogCopied, MovesOn, StagesInv, InLadder, Closing
<1>7. CASE StubLogMissing
  BY <1>7 DEF StubLogMissing, Refuses, StagesInv, InLadder, Closing
<1>8. CASE StatusRunning
  BY <1>8 DEF StatusRunning, MovesOn, StagesInv, InLadder, Closing
<1>9. CASE PreflightPasses
  BY <1>9 DEF PreflightPasses, MovesOn, StagesInv, InLadder, Closing
<1>10. CASE PreflightRefuses
  BY <1>10 DEF PreflightRefuses, Refuses, StagesInv, InLadder, Closing
<1>11. CASE ManifestWritten
  BY <1>11 DEF ManifestWritten, MovesOn, StagesInv, InLadder, Closing
<1>12. CASE DryRun
  BY <1>12 DEF DryRun, MovesOn, StagesInv, InLadder, Closing
<1>13. CASE BadMetricsTarget
  BY <1>13 DEF BadMetricsTarget, MovesOn, StagesInv, InLadder, Closing
<1>14. CASE CollectorStarts
  <2>1. begunStages = 0 /\ doneStages \in 0 .. begunStages
    BY <1>14 DEF CollectorStarts, MovesOn, ControlInv, MeasuredRunTypeOK, BeforeLadder,
        Preparing
  <2>2. doneStages = begunStages
    BY <2>1
  <2>3. runAt' = "rungs" /\ UNCHANGED <<begunStages, doneStages>>
    BY <1>14 DEF CollectorStarts, MovesOn, ladderPart
  <2>4. QED
    BY <2>2, <2>3 DEF StagesInv
<1>15. CASE FirstSliceOnly
  BY <1>15 DEF FirstSliceOnly, MovesOn, StagesInv, InLadder, Closing
<1>16. CASE NoCollector
  <2>1. begunStages = 0 /\ doneStages \in 0 .. begunStages
    BY <1>16 DEF NoCollector, MovesOn, ControlInv, MeasuredRunTypeOK, BeforeLadder,
        Preparing
  <2>2. doneStages = begunStages
    BY <2>1
  <2>3. runAt' = "rungs" /\ UNCHANGED <<begunStages, doneStages>>
    BY <1>16 DEF NoCollector, MovesOn, ladderPart
  <2>4. QED
    BY <2>2, <2>3 DEF StagesInv
<1>17. CASE StageBegins
  <2>1. begunStages \in Nat /\ doneStages = begunStages
    <3>1. runAt = "rungs"
      BY <1>17 DEF StageBegins, MovesOn
    <3>2. begunStages \in Nat
      BY StageCounts
    <3>3. QED
      BY <3>1, <3>2 DEF StagesInv, InLadder
  <2>2. runAt' = "staging" /\ begunStages' = begunStages + 1 /\ doneStages' = doneStages
    BY <1>17 DEF StageBegins, MovesOn
  <2>3. doneStages' = begunStages' - 1
    BY <2>1, <2>2
  <2>4. QED
    BY <2>2, <2>3 DEF StagesInv
<1>18. CASE StageJoined
  BY <1>18 DEF StageJoined, MovesOn, StagesInv, InLadder
<1>19. CASE StageSunk
  <2>1. begunStages \in Nat /\ doneStages = begunStages - 1
    <3>1. runAt = "sinking"
      BY <1>19 DEF StageSunk, MovesOn
    <3>2. begunStages \in Nat
      BY StageCounts
    <3>3. QED
      BY <3>1, <3>2 DEF StagesInv, InLadder
  <2>2. runAt' = "rungs" /\ begunStages' = begunStages /\ doneStages' = doneStages + 1
    BY <1>19 DEF StageSunk, MovesOn
  <2>3. doneStages' = begunStages'
    BY <2>1, <2>2
  <2>4. QED
    BY <2>2, <2>3 DEF StagesInv
<1>20. CASE LadderReturns
  BY <1>20 DEF LadderReturns, MovesOn, StagesInv, InLadder
<1>21. CASE ReportWritten
  BY <1>21 DEF ReportWritten, MovesOn, ladderPart, StagesInv, InLadder
<1>22. CASE MarkdownWritten
  BY <1>22 DEF MarkdownWritten, MovesOn, ladderPart, StagesInv, InLadder
<1>23. CASE VerdictWritten
  BY <1>23 DEF VerdictWritten, MovesOn, ladderPart, StagesInv, Closing
<1>24. CASE ReleasedEarly
  BY <1>24 DEF ReleasedEarly, MovesOn, ladderPart, StagesInv, Closing
<1>25. CASE Printed
  BY <1>25 DEF Printed, MovesOn, ladderPart, StagesInv, Closing
<1>26. CASE SectionFails
  BY <1>26 DEF SectionFails, InLadder, Closing, StagesInv
<1>27. CASE CutShort
  BY <1>27 DEF CutShort, Exits, StagesInv, InLadder, Closing
<1>28. CASE LoadHalted
  BY <1>28 DEF LoadHalted, MovesOn, StagesInv, InLadder, Closing
<1>29. CASE ObserverStopped
  BY <1>29 DEF ObserverStopped, MovesOn, StagesInv, InLadder, Closing
<1>30. CASE StatusAtLast
  BY <1>30 DEF StatusAtLast, MovesOn, StagesInv, InLadder, Closing
<1>31. CASE StatusUnwritten
  BY <1>31 DEF StatusUnwritten, Exits, StagesInv, InLadder, Closing
<1>32. CASE ReleasedQuietly
  BY <1>32 DEF ReleasedQuietly, MovesOn, StagesInv, InLadder, Closing
<1>33. CASE LeavesWithCode
  BY <1>33 DEF LeavesWithCode, Exits, StagesInv, InLadder, Closing
<1>34. CASE ScrapeBegins
  BY <1>34 DEF ScrapeBegins, ladderPart, StagesInv
<1>35. CASE ScrapeEnds
  BY <1>35 DEF ScrapeEnds, ladderPart, StagesInv
<1>36. CASE UNCHANGED measuredRunVars
  BY <1>36 DEF measuredRunVars, StagesInv
<1>37. QED
  BY <1>1, <1>2, <1>3, <1>4, <1>5, <1>6, <1>7, <1>8, <1>9, <1>10, <1>11, <1>12, <1>13,
      <1>14, <1>15, <1>16, <1>17, <1>18, <1>19, <1>20, <1>21, <1>22, <1>23, <1>24, <1>25,
      <1>26, <1>27, <1>28, <1>29, <1>30, <1>31, <1>32, <1>33, <1>34, <1>35, <1>36 DEF
      MeasuredRunNext

\* Load is on the target only inside a stage, or where an interrupt cut one off.
LEMMA LoadStep ==
    ASSUME MeasuredRunTypeOK, ControlInv, LoadInv, [MeasuredRunNext]_measuredRunVars
    PROVE  LoadInv'
<1>1. CASE Acquired
  BY <1>1 DEF Acquired, MovesOn, ladderPart, ControlInv, LoadInv, InSection
<1>2. CASE NotAcquired
  BY <1>2 DEF NotAcquired, Exits, LoadInv
<1>3. CASE EntersTry
  BY <1>3 DEF EntersTry, MovesOn, ladderPart, ControlInv, LoadInv, InSection
<1>4. CASE LayoutCreated
  BY <1>4 DEF LayoutCreated, MovesOn, ladderPart, ControlInv, LoadInv, InSection, Preparing
<1>5. CASE SnapshotWritten
  BY <1>5 DEF SnapshotWritten, MovesOn, ladderPart, ControlInv, LoadInv, InSection,
      Preparing
<1>6. CASE StubLogCopied
  BY <1>6 DEF StubLogCopied, MovesOn, ladderPart, ControlInv, LoadInv, InSection, Preparing
<1>7. CASE StubLogMissing
  BY <1>7 DEF StubLogMissing, Refuses, ladderPart, ControlInv, LoadInv, InSection,
      Preparing
<1>8. CASE StatusRunning
  BY <1>8 DEF StatusRunning, MovesOn, ladderPart, ControlInv, LoadInv, InSection, Preparing
<1>9. CASE PreflightPasses
  BY <1>9 DEF PreflightPasses, MovesOn, ladderPart, ControlInv, LoadInv, InSection,
      Preparing
<1>10. CASE PreflightRefuses
  BY <1>10 DEF PreflightRefuses, Refuses, ladderPart, ControlInv, LoadInv, InSection,
      Preparing
<1>11. CASE ManifestWritten
  BY <1>11 DEF ManifestWritten, MovesOn, ladderPart, ControlInv, LoadInv, InSection,
      Preparing
<1>12. CASE DryRun
  BY <1>12 DEF DryRun, MovesOn, ladderPart, ControlInv, LoadInv, InSection, Preparing
<1>13. CASE BadMetricsTarget
  BY <1>13 DEF BadMetricsTarget, MovesOn, ladderPart, ControlInv, LoadInv, InSection,
      Preparing
<1>14. CASE CollectorStarts
  BY <1>14 DEF CollectorStarts, MovesOn, ladderPart, ControlInv, LoadInv, InSection,
      Preparing
<1>15. CASE FirstSliceOnly
  BY <1>15 DEF FirstSliceOnly, MovesOn, ladderPart, ControlInv, LoadInv, InSection,
      Preparing
<1>16. CASE NoCollector
  BY <1>16 DEF NoCollector, MovesOn, ladderPart, ControlInv, LoadInv, InSection, Preparing
<1>17. CASE StageBegins
  <2>1. runAt' = "staging" /\ begunStages' = begunStages + 1 /\ begunStages \in Nat
    BY <1>17, StageCounts DEF StageBegins, MovesOn
  <2>2. begunStages' > 0
    BY <2>1
  <2>3. QED
    BY <2>1, <2>2 DEF LoadInv, Finally
<1>18. CASE StageJoined
  BY <1>18 DEF StageJoined, LoadInv
<1>19. CASE StageSunk
  BY <1>19 DEF StageSunk, MovesOn, ControlInv, LoadInv, InSection, InLadder
<1>20. CASE LadderReturns
  BY <1>20 DEF LadderReturns, MovesOn, ControlInv, LoadInv, InSection, InLadder
<1>21. CASE ReportWritten
  BY <1>21 DEF ReportWritten, MovesOn, ladderPart, ControlInv, LoadInv, InSection, InLadder
<1>22. CASE MarkdownWritten
  BY <1>22 DEF MarkdownWritten, MovesOn, ladderPart, ControlInv, LoadInv, InSection,
      InLadder
<1>23. CASE VerdictWritten
  BY <1>23 DEF VerdictWritten, MovesOn, ladderPart, ControlInv, LoadInv, InSection, Closing
<1>24. CASE ReleasedEarly
  BY <1>24 DEF ReleasedEarly, MovesOn, ladderPart, ControlInv, LoadInv, InSection, Closing
<1>25. CASE Printed
  BY <1>25 DEF Printed, MovesOn, ladderPart, ControlInv, LoadInv, InSection, Closing
<1>26. CASE SectionFails
  BY <1>26 DEF SectionFails, ladderPart, ControlInv, LoadInv, InSection, Finally
<1>27. CASE CutShort
  BY <1>27 DEF CutShort, Exits, LoadInv
<1>28. CASE LoadHalted
  BY <1>28 DEF LoadHalted, MovesOn, LoadInv, Finally
<1>29. CASE ObserverStopped
  BY <1>29 DEF ObserverStopped, MovesOn, endPart, ladderPart, LoadInv, Finally
<1>30. CASE StatusAtLast
  BY <1>30 DEF StatusAtLast, MovesOn, endPart, ladderPart, LoadInv, Finally
<1>31. CASE StatusUnwritten
  BY <1>31 DEF StatusUnwritten, Exits, LoadInv
<1>32. CASE ReleasedQuietly
  BY <1>32 DEF ReleasedQuietly, MovesOn, ladderPart, LoadInv, Finally
<1>33. CASE LeavesWithCode
  BY <1>33 DEF LeavesWithCode, Exits, LoadInv
<1>34. CASE ScrapeBegins
  BY <1>34 DEF ScrapeBegins, endPart, ladderPart, LoadInv
<1>35. CASE ScrapeEnds
  BY <1>35 DEF ScrapeEnds, endPart, ladderPart, LoadInv
<1>36. CASE UNCHANGED measuredRunVars
  BY <1>36 DEF measuredRunVars, LoadInv
<1>37. QED
  BY <1>1, <1>2, <1>3, <1>4, <1>5, <1>6, <1>7, <1>8, <1>9, <1>10, <1>11, <1>12, <1>13,
      <1>14, <1>15, <1>16, <1>17, <1>18, <1>19, <1>20, <1>21, <1>22, <1>23, <1>24, <1>25,
      <1>26, <1>27, <1>28, <1>29, <1>30, <1>31, <1>32, <1>33, <1>34, <1>35, <1>36 DEF
      MeasuredRunNext

\* Every way into finally has its reason, which the status tells.
LEMMA EndStep ==
    ASSUME MeasuredRunTypeOK, ControlInv, EndInv, [MeasuredRunNext]_measuredRunVars
    PROVE  EndInv'
<1>1. CASE Acquired
  BY <1>1 DEF Acquired, MovesOn, EndInv, Finally
<1>2. CASE NotAcquired
  BY <1>2 DEF NotAcquired, Exits, EndInv, Finally
<1>3. CASE EntersTry
  BY <1>3 DEF EntersTry, MovesOn, EndInv, Finally
<1>4. CASE LayoutCreated
  BY <1>4 DEF LayoutCreated, MovesOn, EndInv, Finally
<1>5. CASE SnapshotWritten
  BY <1>5 DEF SnapshotWritten, MovesOn, EndInv, Finally
<1>6. CASE StubLogCopied
  BY <1>6 DEF StubLogCopied, MovesOn, EndInv, Finally
<1>7. CASE StubLogMissing
  BY <1>7 DEF StubLogMissing, Refuses, ladderPart, ControlInv, EndInv, Refused, NotStopped,
      BeforeLadder, Preparing
<1>8. CASE StatusRunning
  BY <1>8 DEF StatusRunning, MovesOn, EndInv, Finally
<1>9. CASE PreflightPasses
  BY <1>9 DEF PreflightPasses, MovesOn, EndInv, Finally
<1>10. CASE PreflightRefuses
  BY <1>10 DEF PreflightRefuses, Refuses, ladderPart, ControlInv, EndInv, Refused,
      NotStopped, BeforeLadder, Preparing
<1>11. CASE ManifestWritten
  BY <1>11 DEF ManifestWritten, MovesOn, EndInv, Finally
<1>12. CASE DryRun
  BY <1>12 DEF DryRun, MovesOn, ladderPart, ControlInv, EndInv, EndedByItself,
      BeforeLadder, Preparing
<1>13. CASE BadMetricsTarget
  BY <1>13 DEF BadMetricsTarget, MovesOn, ladderPart, ControlInv, EndInv, EndedByItself,
      BeforeLadder, Preparing
<1>14. CASE CollectorStarts
  BY <1>14 DEF CollectorStarts, MovesOn, EndInv, Finally
<1>15. CASE FirstSliceOnly
  BY <1>15 DEF FirstSliceOnly, MovesOn, EndInv, Refused, Aborted, NotStopped
<1>16. CASE NoCollector
  BY <1>16 DEF NoCollector, MovesOn, EndInv, Finally
<1>17. CASE StageBegins
  BY <1>17 DEF StageBegins, MovesOn, EndInv, Finally
<1>18. CASE StageJoined
  BY <1>18 DEF StageJoined, MovesOn, EndInv, Finally
<1>19. CASE StageSunk
  BY <1>19 DEF StageSunk, MovesOn, EndInv, Finally
<1>20. CASE LadderReturns
  BY <1>20 DEF LadderReturns, MovesOn, EndInv, Finally
<1>21. CASE ReportWritten
  BY <1>21 DEF ReportWritten, MovesOn, EndInv, Finally
<1>22. CASE MarkdownWritten
  BY <1>22 DEF MarkdownWritten, MovesOn, EndInv, Finally
<1>23. CASE VerdictWritten
  BY <1>23 DEF VerdictWritten, MovesOn, EndInv, Finally
<1>24. CASE ReleasedEarly
  BY <1>24 DEF ReleasedEarly, MovesOn, EndInv, Finally
<1>25. CASE Printed
  <2>1. runAt = "printing" /\ runAt' = "halt" /\ stopping = NotStopped /\ VerdictIsTold
    BY <1>25 DEF Printed, MovesOn, ControlInv, InSection, Closing
  <2>2. UNCHANGED <<stopping, exitWith, statusFile, ladderSays>>
    BY <1>25 DEF Printed, endPart, writtenPart, ladderPart
  <2>3. VerdictIsTold' /\ stopping' # Refused
    BY <2>1, <2>2 DEF VerdictIsTold, NotStopped, Refused
  <2>4. QED
    BY <2>1, <2>3 DEF EndInv, EndedByItself
<1>26. CASE SectionFails
  BY <1>26 DEF SectionFails, EndInv, Refused, Aborted, NotStopped
<1>27. CASE CutShort
  BY <1>27 DEF CutShort, Exits, Finally, EndInv
<1>28. CASE LoadHalted
  BY <1>28 DEF LoadHalted, MovesOn, writtenPart, MeasuredRunTypeOK, EndInv, EndedByItself,
      VerdictIsTold, Preparing, InLadder, Closing
<1>29. CASE ObserverStopped
  BY <1>29 DEF ObserverStopped, MovesOn, endPart, ladderPart, MeasuredRunTypeOK, EndInv,
      EndedByItself, VerdictIsTold, Preparing, InLadder, Closing
<1>30. CASE StatusAtLast
  BY <1>30 DEF StatusAtLast, MovesOn, endPart, ladderPart, MeasuredRunTypeOK, EndInv,
      EndedByItself, VerdictIsTold, Preparing, InLadder, Closing
<1>31. CASE StatusUnwritten
  BY <1>31 DEF StatusUnwritten, Exits, MeasuredRunTypeOK, ControlInv, EndInv, InSection
<1>32. CASE ReleasedQuietly
  BY <1>32 DEF ReleasedQuietly, MovesOn, writtenPart, ladderPart, MeasuredRunTypeOK,
      EndInv, EndedByItself, VerdictIsTold, Preparing, InLadder, Closing
<1>33. CASE LeavesWithCode
  BY <1>33 DEF LeavesWithCode, writtenPart, MeasuredRunTypeOK, EndInv, EndedByItself,
      VerdictIsTold, Preparing, InLadder, Closing
<1>34. CASE ScrapeBegins
  BY <1>34 DEF ScrapeBegins, endPart, writtenPart, ladderPart, EndInv, EndedByItself,
      VerdictIsTold
<1>35. CASE ScrapeEnds
  BY <1>35 DEF ScrapeEnds, endPart, writtenPart, ladderPart, EndInv, EndedByItself,
      VerdictIsTold
<1>36. CASE UNCHANGED measuredRunVars
  BY <1>36 DEF measuredRunVars, EndInv, EndedByItself, VerdictIsTold
<1>37. QED
  BY <1>1, <1>2, <1>3, <1>4, <1>5, <1>6, <1>7, <1>8, <1>9, <1>10, <1>11, <1>12, <1>13,
      <1>14, <1>15, <1>16, <1>17, <1>18, <1>19, <1>20, <1>21, <1>22, <1>23, <1>24, <1>25,
      <1>26, <1>27, <1>28, <1>29, <1>30, <1>31, <1>32, <1>33, <1>34, <1>35, <1>36 DEF
      MeasuredRunNext

\* The status and the exit code go together.
LEMMA TruthStep ==
    ASSUME MeasuredRunTypeOK, ControlInv, EndInv, StatusTellsTheTruth,
           [MeasuredRunNext]_measuredRunVars
    PROVE  StatusTellsTheTruth'
<1>1. CASE Acquired
  BY <1>1 DEF Acquired, MovesOn, StatusTellsTheTruth
<1>2. CASE NotAcquired
  BY <1>2 DEF NotAcquired, Exits, writtenPart, ControlInv, StatusTellsTheTruth,
      BeforeLadder, SaidRunning, InLadder
<1>3. CASE EntersTry
  BY <1>3 DEF EntersTry, MovesOn, StatusTellsTheTruth
<1>4. CASE LayoutCreated
  BY <1>4 DEF LayoutCreated, MovesOn, StatusTellsTheTruth
<1>5. CASE SnapshotWritten
  BY <1>5 DEF SnapshotWritten, MovesOn, StatusTellsTheTruth
<1>6. CASE StubLogCopied
  BY <1>6 DEF StubLogCopied, MovesOn, StatusTellsTheTruth
<1>7. CASE StubLogMissing
  BY <1>7 DEF StubLogMissing, Refuses, StatusTellsTheTruth
<1>8. CASE StatusRunning
  BY <1>8 DEF StatusRunning, MovesOn, StatusTellsTheTruth
<1>9. CASE PreflightPasses
  BY <1>9 DEF PreflightPasses, MovesOn, StatusTellsTheTruth
<1>10. CASE PreflightRefuses
  BY <1>10 DEF PreflightRefuses, Refuses, StatusTellsTheTruth
<1>11. CASE ManifestWritten
  BY <1>11 DEF ManifestWritten, MovesOn, StatusTellsTheTruth
<1>12. CASE DryRun
  BY <1>12 DEF DryRun, MovesOn, StatusTellsTheTruth
<1>13. CASE BadMetricsTarget
  BY <1>13 DEF BadMetricsTarget, StatusTellsTheTruth
<1>14. CASE CollectorStarts
  BY <1>14 DEF CollectorStarts, MovesOn, StatusTellsTheTruth
<1>15. CASE FirstSliceOnly
  BY <1>15 DEF FirstSliceOnly, MovesOn, StatusTellsTheTruth
<1>16. CASE NoCollector
  BY <1>16 DEF NoCollector, MovesOn, StatusTellsTheTruth
<1>17. CASE StageBegins
  BY <1>17 DEF StageBegins, MovesOn, StatusTellsTheTruth
<1>18. CASE StageJoined
  BY <1>18 DEF StageJoined, MovesOn, StatusTellsTheTruth
<1>19. CASE StageSunk
  BY <1>19 DEF StageSunk, MovesOn, StatusTellsTheTruth
<1>20. CASE LadderReturns
  BY <1>20 DEF LadderReturns, MovesOn, StatusTellsTheTruth
<1>21. CASE ReportWritten
  BY <1>21 DEF ReportWritten, MovesOn, StatusTellsTheTruth
<1>22. CASE MarkdownWritten
  BY <1>22 DEF MarkdownWritten, MovesOn, StatusTellsTheTruth
<1>23. CASE VerdictWritten
  BY <1>23 DEF VerdictWritten, MovesOn, StatusTellsTheTruth
<1>24. CASE ReleasedEarly
  BY <1>24 DEF ReleasedEarly, MovesOn, StatusTellsTheTruth
<1>25. CASE Printed
  BY <1>25 DEF Printed, MovesOn, StatusTellsTheTruth
<1>26. CASE SectionFails
  BY <1>26 DEF SectionFails, StatusTellsTheTruth
<1>27. CASE CutShort
  BY <1>27 DEF CutShort, StatusTellsTheTruth
<1>28. CASE LoadHalted
  BY <1>28 DEF LoadHalted, MovesOn, StatusTellsTheTruth
<1>29. CASE ObserverStopped
  BY <1>29 DEF ObserverStopped, MovesOn, StatusTellsTheTruth
<1>30. CASE StatusAtLast
  BY <1>30 DEF StatusAtLast, MovesOn, StatusTellsTheTruth
<1>31. CASE StatusUnwritten
  BY <1>31 DEF StatusUnwritten, StatusTellsTheTruth
<1>32. CASE ReleasedQuietly
  BY <1>32 DEF ReleasedQuietly, MovesOn, StatusTellsTheTruth
<1>33. CASE LeavesWithCode
  <2>1. /\ runAt = "leaving"
        /\ exitCode' = IF stopping = NotStopped THEN exitWith ELSE stopping.code
        /\ UNCHANGED <<statusFile, begunStages, ladderSays, excuses>>
    BY <1>33 DEF LeavesWithCode, Exits, writtenPart
  <2>2. CASE stopping = NotStopped
    <3>1. EndedByItself /\ exitCode' = exitWith
      BY <2>1, <2>2 DEF EndInv, Finally
    <3>2. CASE exitWith = 0 /\ statusFile = "completed" /\ begunStages = 0
      BY <2>1, <3>1, <3>2 DEF StatusTellsTheTruth
    <3>3. CASE "bad target" \in excuses
      BY <2>1, <3>3 DEF StatusTellsTheTruth
    <3>4. CASE VerdictIsTold
      BY <2>1, <3>1, <3>4 DEF StatusTellsTheTruth, VerdictIsTold
    <3>5. QED
      BY <3>1, <3>2, <3>3, <3>4 DEF EndedByItself
  <2>3. CASE stopping = Refused
    <3>1. begunStages = 0 /\ statusFile = "failed" /\ exitCode' = 2
      BY <2>1, <2>3 DEF EndInv, Finally, Refused, NotStopped
    <3>2. QED
      BY <2>1, <3>1 DEF StatusTellsTheTruth
  <2>4. CASE stopping = Aborted
    <3>1. statusFile = "aborted" /\ exitCode' = 3
      BY <2>1, <2>4 DEF EndInv, Finally, Aborted, NotStopped
    <3>2. QED
      BY <2>1, <3>1 DEF StatusTellsTheTruth
  <2>5. QED
    BY <2>2, <2>3, <2>4 DEF MeasuredRunTypeOK
<1>34. CASE ScrapeBegins
  BY <1>34 DEF ScrapeBegins, StatusTellsTheTruth
<1>35. CASE ScrapeEnds
  BY <1>35 DEF ScrapeEnds, endPart, writtenPart, ladderPart, StatusTellsTheTruth
<1>36. CASE UNCHANGED measuredRunVars
  BY <1>36 DEF measuredRunVars, StatusTellsTheTruth
<1>37. QED
  BY <1>1, <1>2, <1>3, <1>4, <1>5, <1>6, <1>7, <1>8, <1>9, <1>10, <1>11, <1>12, <1>13,
      <1>14, <1>15, <1>16, <1>17, <1>18, <1>19, <1>20, <1>21, <1>22, <1>23, <1>24, <1>25,
      <1>26, <1>27, <1>28, <1>29, <1>30, <1>31, <1>32, <1>33, <1>34, <1>35, <1>36 DEF
      MeasuredRunNext

\* A stage that is done is in the evidence.
LEMMA SunkStep ==
    ASSUME MeasuredRunTypeOK, StagesInv, SunkInv, [MeasuredRunNext]_measuredRunVars
    PROVE  SunkInv'
<1>1. CASE StageSunk
  <2>1. doneStages = begunStages - 1 /\ begunStages \in Nat /\ doneStages \in Nat
    BY <1>1, StageCounts DEF StageSunk, MovesOn, StagesInv, InLadder
  <2>2. doneStages' = doneStages + 1 /\ tree' = tree \cup ({"raw", "generator"} \X {begunStages})
    BY <1>1 DEF StageSunk
  <2>3. SUFFICES \A kind \in {"raw", "generator"}, n \in 1 .. doneStages' : <<kind, n>> \in tree'
    BY DEF SunkInv
  <2>4. TAKE kind \in {"raw", "generator"}, n \in 1 .. doneStages'
  <2>5. n \in 1 .. doneStages \/ n = begunStages
    BY <2>1, <2>2
  <2>6. n \in 1 .. doneStages => <<kind, n>> \in tree
    BY DEF SunkInv
  <2>7. QED
    BY <2>2, <2>5, <2>6
<1>2. CASE UNCHANGED doneStages
  <2>1. SUFFICES \A kind \in {"raw", "generator"}, n \in 1 .. doneStages : <<kind, n>> \in tree'
    BY <1>2 DEF SunkInv
  <2>2. TAKE kind \in {"raw", "generator"}, n \in 1 .. doneStages
  <2>3. <<kind, n>> \in tree /\ <<kind, n>> # <<"gap">>
    BY DEF SunkInv
  <2>4. QED
    BY <2>3, WhoChangesWhat
<1>3. QED
  BY <1>1, <1>2, WhoChangesWhat

\* No stage begins before the preflight is written and has refused nobody.
LEMMA CheckedStep ==
    ASSUME MeasuredRunTypeOK, ControlInv, CheckedInv, [MeasuredRunNext]_measuredRunVars
    PROVE  CheckedInv'
<1>1. CASE Acquired
  BY <1>1 DEF Acquired, MovesOn, writtenPart, ladderPart, CheckedInv, NoneRefused,
      SaidRunning,
      InLadder, Closing
<1>2. CASE NotAcquired
  BY <1>2 DEF NotAcquired, Exits, writtenPart, CheckedInv, NoneRefused, SaidRunning,
      InLadder,
      Closing
<1>3. CASE EntersTry
  BY <1>3 DEF EntersTry, MovesOn, writtenPart, ladderPart, CheckedInv, NoneRefused,
      SaidRunning, InLadder, Closing
<1>4. CASE LayoutCreated
  BY <1>4 DEF LayoutCreated, MovesOn, Writes, ladderPart, CheckedInv, NoneRefused,
      SaidRunning,
      InLadder, Closing
<1>5. CASE SnapshotWritten
  BY <1>5 DEF SnapshotWritten, MovesOn, Writes, ladderPart, CheckedInv, NoneRefused,
      SaidRunning, InLadder, Closing
<1>6. CASE StubLogCopied
  BY <1>6 DEF StubLogCopied, MovesOn, Writes, ladderPart, CheckedInv, NoneRefused,
      SaidRunning,
      InLadder, Closing
<1>7. CASE StubLogMissing
  BY <1>7 DEF StubLogMissing, Refuses, ladderPart, CheckedInv, NoneRefused, SaidRunning,
      InLadder, Closing
<1>8. CASE StatusRunning
  BY <1>8 DEF StatusRunning, MovesOn, ladderPart, CheckedInv, NoneRefused, SaidRunning,
      InLadder, Closing
<1>9. CASE PreflightPasses
  <2>1. /\ runAt = "preflight" /\ runAt' = "manifest"
        /\ UNCHANGED begunStages /\ tree' = tree \cup {<<"preflight">>}
    BY <1>9 DEF PreflightPasses, MovesOn, Writes, ladderPart
  <2>2. NoneRefused'
    BY <1>9 DEF PreflightPasses, NoneRefused
  <2>3. begunStages = 0
    BY <2>1 DEF ControlInv, BeforeLadder, Preparing
  <2>4. QED
    BY <2>1, <2>2, <2>3 DEF CheckedInv, InLadder, Closing
<1>10. CASE PreflightRefuses
  <2>1. runAt = "preflight" /\ runAt' = "halt" /\ UNCHANGED begunStages
    BY <1>10 DEF PreflightRefuses, Refuses, ladderPart
  <2>2. begunStages = 0
    BY <2>1 DEF ControlInv, BeforeLadder, Preparing
  <2>3. QED
    BY <2>1, <2>2 DEF CheckedInv, InLadder, Closing
<1>11. CASE ManifestWritten
  BY <1>11 DEF ManifestWritten, MovesOn, Writes, CheckedInv, NoneRefused, BeforeLadder,
      SaidRunning, InSection, Preparing, InLadder, Closing, Finally
<1>12. CASE DryRun
  BY <1>12 DEF DryRun, MovesOn, CheckedInv, NoneRefused, BeforeLadder, SaidRunning, Closing
<1>13. CASE BadMetricsTarget
  BY <1>13 DEF BadMetricsTarget, MovesOn, writtenPart, CheckedInv, NoneRefused,
      BeforeLadder, SaidRunning, InSection, Preparing, InLadder, Closing, Finally
<1>14. CASE CollectorStarts
  BY <1>14 DEF CollectorStarts, MovesOn, writtenPart, CheckedInv, NoneRefused, SaidRunning,
      Closing
<1>15. CASE FirstSliceOnly
  BY <1>15 DEF FirstSliceOnly, MovesOn, writtenPart, CheckedInv, NoneRefused, BeforeLadder,
      SaidRunning, InSection, Preparing, InLadder, Closing, Finally
<1>16. CASE NoCollector
  BY <1>16 DEF NoCollector, MovesOn, writtenPart, CheckedInv, NoneRefused, BeforeLadder,
      SaidRunning, InSection, Preparing, InLadder, Closing
<1>17. CASE StageBegins
  BY <1>17 DEF StageBegins, MovesOn, writtenPart, CheckedInv, NoneRefused, BeforeLadder,
      SaidRunning, InSection, Preparing, InLadder
<1>18. CASE StageJoined
  BY <1>18 DEF StageJoined, MovesOn, writtenPart, CheckedInv, NoneRefused, BeforeLadder,
      SaidRunning, InSection, InLadder, Closing
<1>19. CASE StageSunk
  BY <1>19 DEF StageSunk, MovesOn, CheckedInv, NoneRefused, BeforeLadder, SaidRunning,
      Preparing, InLadder, Finally
<1>20. CASE LadderReturns
  BY <1>20 DEF LadderReturns, MovesOn, writtenPart, CheckedInv, NoneRefused, InLadder
<1>21. CASE ReportWritten
  BY <1>21 DEF ReportWritten, MovesOn, Writes, CheckedInv, NoneRefused, BeforeLadder,
      SaidRunning, InSection, Preparing, InLadder, Finally
<1>22. CASE MarkdownWritten
  BY <1>22 DEF MarkdownWritten, MovesOn, Writes, CheckedInv, NoneRefused, SaidRunning,
      InLadder
<1>23. CASE VerdictWritten
  BY <1>23 DEF VerdictWritten, MovesOn, CheckedInv, NoneRefused, MeasuredRunTypeOK,
      BeforeLadder, SaidRunning, Preparing, Finally
<1>24. CASE ReleasedEarly
  BY <1>24 DEF ReleasedEarly, MovesOn, writtenPart, CheckedInv, NoneRefused, SaidRunning,
      InLadder, Closing
<1>25. CASE Printed
  BY <1>25 DEF Printed, MovesOn, writtenPart, CheckedInv, NoneRefused, SaidRunning,
      InLadder,
      Closing
<1>26. CASE SectionFails
  BY <1>26 DEF SectionFails, writtenPart, ladderPart, InLadder, Closing, CheckedInv,
      NoneRefused, InSection, Finally
<1>27. CASE CutShort
  BY <1>27 DEF CutShort, Exits, writtenPart, CheckedInv, NoneRefused, InSection, Preparing,
      InLadder, Closing
<1>28. CASE LoadHalted
  BY <1>28 DEF LoadHalted, MovesOn, writtenPart, CheckedInv, NoneRefused, SaidRunning,
      InLadder, Closing
<1>29. CASE ObserverStopped
  BY <1>29 DEF ObserverStopped, MovesOn, ladderPart, CheckedInv, NoneRefused, SaidRunning,
      InLadder, Closing
<1>30. CASE StatusAtLast
  BY <1>30 DEF StatusAtLast, MovesOn, ladderPart, CheckedInv, NoneRefused, InSection,
      Preparing, InLadder, Closing, Finally
<1>31. CASE StatusUnwritten
  <2>1. UNCHANGED <<tree, checkedFor, begunStages>>
    BY <1>31 DEF StatusUnwritten, writtenPart, ladderPart
  <2>2. NoneRefused' <=> NoneRefused
    BY <2>1 DEF NoneRefused
  <2>3. runAt' = "exited"
    BY <1>31 DEF StatusUnwritten, Exits
  <2>4. QED
    BY <2>1, <2>2, <2>3 DEF CheckedInv, InLadder, Closing
<1>32. CASE ReleasedQuietly
  BY <1>32 DEF ReleasedQuietly, MovesOn, writtenPart, ladderPart, CheckedInv, NoneRefused,
      SaidRunning, InLadder, Closing
<1>33. CASE LeavesWithCode
  BY <1>33 DEF LeavesWithCode, Exits, writtenPart, CheckedInv, NoneRefused, SaidRunning,
      InLadder, Closing
<1>34. CASE ScrapeBegins
  <2>1. UNCHANGED <<tree, checkedFor, begunStages>>
    BY <1>34 DEF ScrapeBegins, writtenPart, ladderPart
  <2>2. NoneRefused' <=> NoneRefused
    BY <2>1 DEF NoneRefused
  <2>3. runAt' = runAt
    BY <1>34 DEF ScrapeBegins
  <2>4. QED
    BY <2>1, <2>2, <2>3 DEF CheckedInv, InLadder, Closing
<1>35. CASE ScrapeEnds
  <2>1. UNCHANGED <<tree, checkedFor, begunStages>>
    BY <1>35 DEF ScrapeEnds, writtenPart, ladderPart
  <2>2. NoneRefused' <=> NoneRefused
    BY <2>1 DEF NoneRefused
  <2>3. runAt' = runAt
    BY <1>35 DEF ScrapeEnds
  <2>4. QED
    BY <2>1, <2>2, <2>3 DEF CheckedInv, InLadder, Closing
<1>36. CASE UNCHANGED measuredRunVars
  BY <1>36 DEF measuredRunVars, CheckedInv, NoneRefused, InSection, Preparing, InLadder,
      Closing, Finally
<1>37. QED
  BY <1>1, <1>2, <1>3, <1>4, <1>5, <1>6, <1>7, <1>8, <1>9, <1>10, <1>11, <1>12, <1>13,
      <1>14, <1>15, <1>16, <1>17, <1>18, <1>19, <1>20, <1>21, <1>22, <1>23, <1>24, <1>25,
      <1>26, <1>27, <1>28, <1>29, <1>30, <1>31, <1>32, <1>33, <1>34, <1>35, <1>36 DEF
      MeasuredRunNext

\* A verdict is written after its report.
LEMMA ReportStep ==
    ASSUME MeasuredRunTypeOK, ControlInv, EndInv, CheckedInv, ReportInv,
           [MeasuredRunNext]_measuredRunVars
    PROVE  ReportInv'
<1>1. CASE Acquired
  BY <1>1 DEF Acquired, MovesOn, writtenPart, ladderPart, ReportInv, Closing
<1>2. CASE NotAcquired
  BY <1>2 DEF NotAcquired, Exits, writtenPart, ReportInv, Closing
<1>3. CASE EntersTry
  BY <1>3 DEF EntersTry, MovesOn, writtenPart, ladderPart, ReportInv, Closing
<1>4. CASE LayoutCreated
  BY <1>4 DEF LayoutCreated, MovesOn, Writes, ladderPart, ReportInv, Closing
<1>5. CASE SnapshotWritten
  BY <1>5 DEF SnapshotWritten, MovesOn, Writes, ladderPart, ReportInv, Closing
<1>6. CASE StubLogCopied
  BY <1>6 DEF StubLogCopied, MovesOn, Writes, ladderPart, ReportInv, Closing
<1>7. CASE StubLogMissing
  BY <1>7 DEF StubLogMissing, Refuses, ladderPart, ReportInv, Closing
<1>8. CASE StatusRunning
  BY <1>8 DEF StatusRunning, MovesOn, ReportInv, Closing
<1>9. CASE PreflightPasses
  BY <1>9 DEF PreflightPasses, MovesOn, Writes, ladderPart, ReportInv, Closing
<1>10. CASE PreflightRefuses
  BY <1>10 DEF PreflightRefuses, Writes, Refuses, ladderPart, ReportInv, Closing
<1>11. CASE ManifestWritten
  BY <1>11 DEF ManifestWritten, MovesOn, Writes, ladderPart, ReportInv, Closing
<1>12. CASE DryRun
  <2>1. runAt = "targets" /\ runAt' = "halt" /\ UNCHANGED begunStages
    BY <1>12 DEF DryRun, MovesOn, ladderPart
  <2>2. begunStages = 0
    BY <2>1 DEF ControlInv, BeforeLadder, Preparing
  <2>3. QED
    BY <2>1, <2>2 DEF ReportInv, Closing
<1>13. CASE BadMetricsTarget
  BY <1>13 DEF BadMetricsTarget, MovesOn, writtenPart, ladderPart, ReportInv, Closing
<1>14. CASE CollectorStarts
  BY <1>14 DEF CollectorStarts, MovesOn, writtenPart, ladderPart, ReportInv, Closing
<1>15. CASE FirstSliceOnly
  BY <1>15 DEF FirstSliceOnly, MovesOn, writtenPart, ladderPart, ReportInv, Closing
<1>16. CASE NoCollector
  BY <1>16 DEF NoCollector, MovesOn, writtenPart, ladderPart, ReportInv, Closing
<1>17. CASE StageBegins
  BY <1>17 DEF StageBegins, MovesOn, writtenPart, ReportInv, ControlInv, SaidRunning,
      InLadder,
      Closing
<1>18. CASE StageJoined
  BY <1>18 DEF StageJoined, MovesOn, writtenPart, ReportInv, Closing
<1>19. CASE StageSunk
  BY <1>19 DEF StageSunk, MovesOn, ReportInv, Closing
<1>20. CASE LadderReturns
  BY <1>20 DEF LadderReturns, MovesOn, writtenPart, ReportInv, Closing
<1>21. CASE ReportWritten
  BY <1>21 DEF ReportWritten, MovesOn, Writes, ladderPart, ReportInv, Closing
<1>22. CASE MarkdownWritten
  BY <1>22 DEF MarkdownWritten, MovesOn, Writes, ladderPart, ReportInv
<1>23. CASE VerdictWritten
  BY <1>23 DEF VerdictWritten, MovesOn, ReportInv, Reported, CheckedInv, Closing
<1>24. CASE ReleasedEarly
  BY <1>24 DEF ReleasedEarly, MovesOn, writtenPart, ladderPart, ReportInv, Closing
<1>25. CASE Printed
  BY <1>25 DEF Printed, MovesOn, writtenPart, ladderPart, ReportInv, Closing
<1>26. CASE SectionFails
  BY <1>26 DEF SectionFails, writtenPart, ladderPart, Closing, ReportInv
<1>27. CASE CutShort
  BY <1>27 DEF CutShort, Exits, writtenPart, ReportInv, Closing
<1>28. CASE LoadHalted
  BY <1>28 DEF LoadHalted, MovesOn, writtenPart, ReportInv, Closing
<1>29. CASE ObserverStopped
  <2>1. runAt' = "status" /\ UNCHANGED <<statusFile, begunStages>>
    BY <1>29 DEF ObserverStopped, MovesOn, ladderPart
  <2>2. <<"gap">> \notin Reported
    BY DEF Reported
  <2>3. tree \ {<<"gap">>} \subseteq tree'
    BY <1>29 DEF ObserverStopped
  <2>4. Reported \subseteq tree => Reported \subseteq tree'
    BY <2>2, <2>3
  <2>5. QED
    BY <2>1, <2>4 DEF ReportInv, Closing
<1>30. CASE StatusAtLast
  <2>1. /\ runAt = "status" /\ runAt' = "release" /\ UNCHANGED <<tree, begunStages>>
        /\ stopping = NotStopped => statusFile' = statusFile
        /\ stopping # NotStopped => statusFile' = stopping.status
    BY <1>30 DEF StatusAtLast, MovesOn, ladderPart
  <2>2. CASE stopping = NotStopped
    BY <2>1, <2>2 DEF ReportInv, Closing
  <2>3. CASE stopping = Refused
    <3>1. begunStages = 0
      BY <2>1, <2>3 DEF EndInv, Finally
    <3>2. QED
      BY <2>1, <3>1 DEF ReportInv, Closing
  <2>4. CASE stopping = Aborted
    <3>1. statusFile' = "aborted"
      BY <2>1, <2>4 DEF Aborted, NotStopped
    <3>2. QED
      BY <2>1, <3>1 DEF ReportInv, Closing
  <2>5. QED
    BY <2>2, <2>3, <2>4 DEF MeasuredRunTypeOK
<1>31. CASE StatusUnwritten
  BY <1>31 DEF StatusUnwritten, Exits, writtenPart, ReportInv, Closing
<1>32. CASE ReleasedQuietly
  BY <1>32 DEF ReleasedQuietly, MovesOn, writtenPart, ladderPart, ReportInv, Closing
<1>33. CASE LeavesWithCode
  BY <1>33 DEF LeavesWithCode, Exits, writtenPart, ReportInv, Closing
<1>34. CASE ScrapeBegins
  BY <1>34 DEF ScrapeBegins, writtenPart, ladderPart, ReportInv
<1>35. CASE ScrapeEnds
  BY <1>35 DEF ScrapeEnds, writtenPart, ladderPart, ReportInv
<1>36. CASE UNCHANGED measuredRunVars
  BY <1>36 DEF measuredRunVars, ReportInv
<1>37. QED
  BY <1>1, <1>2, <1>3, <1>4, <1>5, <1>6, <1>7, <1>8, <1>9, <1>10, <1>11, <1>12, <1>13,
      <1>14, <1>15, <1>16, <1>17, <1>18, <1>19, <1>20, <1>21, <1>22, <1>23, <1>24, <1>25,
      <1>26, <1>27, <1>28, <1>29, <1>30, <1>31, <1>32, <1>33, <1>34, <1>35, <1>36 DEF
      MeasuredRunNext

Slice == [begun : 0 .. MaxStages, on : BOOLEAN]

\* A slice taken now is one.
LEMMA SliceNowIsOne == ASSUME MeasuredRunTypeOK PROVE SliceNow \in Slice
BY DEF SliceNow, Slice, MeasuredRunTypeOK

\* What an appended slice changes.
LEMMA SliceAppended ==
    ASSUME NEW s \in Seq(Slice), NEW x \in Slice
    PROVE  /\ Append(s, x) \in Seq(Slice) /\ Append(s, x) # <<>>
           /\ s # <<>> => Head(Append(s, x)) = Head(s)
           /\ x \in ToSet(Append(s, x)) /\ ToSet(s) \subseteq ToSet(Append(s, x))
<1>1. Append(s, x) \in Seq(Slice) /\ Append(s, x) # <<>>
  <2>1. Append(s, x) \in Seq(Slice) /\ Len(Append(s, x)) = Len(s) + 1 /\ Len(s) \in Nat
    BY AppendProperties, LenProperties
  <2>2. Len(<<>>) = 0
    OBVIOUS
  <2>3. QED
    BY <2>1, <2>2
<1>2. s # <<>> => Head(Append(s, x)) = Head(s)
  OBVIOUS
<1>3. Append(s, x)[Len(s) + 1] = x /\ Len(s) + 1 \in DOMAIN Append(s, x)
  OBVIOUS
<1>4. ASSUME NEW i \in DOMAIN s PROVE i \in DOMAIN Append(s, x) /\ Append(s, x)[i] = s[i]
  OBVIOUS
<1>5. QED
  BY <1>1, <1>2, <1>3, <1>4 DEF ToSet

\* A slice appended twice.
LEMMA TwoAppended ==
    ASSUME NEW s \in Seq(Slice), NEW x \in Slice, NEW y \in Slice
    PROVE  s \o <<x, y>> = Append(Append(s, x), y)
OBVIOUS

\* The observer's slices bracket the stages.
LEMMA SlicesStep ==
    ASSUME MeasuredRunTypeOK, ControlInv, LoadInv, EndInv, SlicesInv,
           [MeasuredRunNext]_measuredRunVars
    PROVE  SlicesInv'
<1>1. CASE Acquired
  BY <1>1 DEF Acquired, MovesOn, writtenPart, collectorPart, SlicesInv, ControlInv,
      BeforeLadder
<1>2. CASE NotAcquired
  BY <1>2 DEF NotAcquired, Exits, writtenPart, SlicesInv, ControlInv, BeforeLadder
<1>3. CASE EntersTry
  BY <1>3 DEF EntersTry, MovesOn, writtenPart, collectorPart, SlicesInv, ControlInv,
      BeforeLadder
<1>4. CASE LayoutCreated
  BY <1>4 DEF LayoutCreated, MovesOn, Writes, collectorPart, SlicesInv, ControlInv,
      BeforeLadder, Preparing
<1>5. CASE SnapshotWritten
  BY <1>5 DEF SnapshotWritten, MovesOn, Writes, collectorPart, SlicesInv, ControlInv,
      BeforeLadder, Preparing
<1>6. CASE StubLogCopied
  BY <1>6 DEF StubLogCopied, MovesOn, Writes, collectorPart, SlicesInv, ControlInv,
      BeforeLadder, Preparing
<1>7. CASE StubLogMissing
  BY <1>7 DEF StubLogMissing, Refuses, collectorPart, SlicesInv, ControlInv, BeforeLadder,
      Preparing
<1>8. CASE StatusRunning
  BY <1>8 DEF StatusRunning, MovesOn, collectorPart, SlicesInv, ControlInv, BeforeLadder,
      Preparing
<1>9. CASE PreflightPasses
  BY <1>9 DEF PreflightPasses, MovesOn, Writes, collectorPart, SlicesInv, ControlInv,
      BeforeLadder, Preparing
<1>10. CASE PreflightRefuses
  BY <1>10 DEF PreflightRefuses, Writes, Refuses, collectorPart, SlicesInv, ControlInv,
      BeforeLadder, Preparing
<1>11. CASE ManifestWritten
  BY <1>11 DEF ManifestWritten, MovesOn, Writes, collectorPart, SlicesInv, ControlInv,
      BeforeLadder, Preparing
<1>12. CASE DryRun
  BY <1>12 DEF DryRun, MovesOn, collectorPart, SlicesInv, ControlInv, BeforeLadder,
      Preparing
<1>13. CASE BadMetricsTarget
  BY <1>13 DEF BadMetricsTarget, MovesOn, writtenPart, collectorPart, SlicesInv,
      ControlInv, BeforeLadder, Preparing
<1>14. CASE CollectorStarts
  <2>1. /\ runAt = "targets" /\ runAt' = "rungs" /\ scraper' = "waiting"
        /\ slicesTaken' = <<SliceNow>> /\ UNCHANGED <<tree, begunStages>>
    BY <1>14 DEF CollectorStarts, MovesOn, writtenPart, ladderPart
  <2>2. begunStages = 0 /\ scraper = "none"
    BY <2>1 DEF ControlInv, BeforeLadder, Preparing
  <2>3. <<"server">> \notin tree'
    BY <2>1, <2>2 DEF SlicesInv
  <2>4. BeganBefore'
    BY <2>1, <2>2 DEF BeganBefore, SliceNow
  <2>5. QED
    BY <2>1, <2>3, <2>4 DEF SlicesInv, InLadder
<1>15. CASE FirstSliceOnly
  BY <1>15 DEF FirstSliceOnly, MovesOn, writtenPart, ladderPart, SlicesInv, ControlInv,
      BeforeLadder, Preparing, Finally
<1>16. CASE NoCollector
  BY <1>16 DEF NoCollector, MovesOn, writtenPart, collectorPart, SlicesInv, ControlInv,
      BeforeLadder, Preparing
<1>17. CASE StageBegins
  BY <1>17 DEF StageBegins, MovesOn, writtenPart, collectorPart, SlicesInv, BeganBefore,
      InLadder, Finally
<1>18. CASE StageJoined
  BY <1>18 DEF StageJoined, MovesOn, writtenPart, collectorPart, SlicesInv, BeganBefore,
      InLadder, Finally
<1>19. CASE StageSunk
  BY <1>19 DEF StageSunk, MovesOn, collectorPart, SlicesInv, BeganBefore, InLadder, Finally
<1>20. CASE LadderReturns
  BY <1>20 DEF LadderReturns, MovesOn, writtenPart, collectorPart, SlicesInv, BeganBefore,
      InLadder, Finally
<1>21. CASE ReportWritten
  BY <1>21 DEF ReportWritten, MovesOn, Writes, collectorPart, SlicesInv, BeganBefore,
      InLadder, Finally
<1>22. CASE MarkdownWritten
  BY <1>22 DEF MarkdownWritten, MovesOn, Writes, collectorPart, SlicesInv, BeganBefore,
      Closing, Finally
<1>23. CASE VerdictWritten
  BY <1>23 DEF VerdictWritten, MovesOn, collectorPart, SlicesInv, BeganBefore, Closing,
      Finally
<1>24. CASE ReleasedEarly
  BY <1>24 DEF ReleasedEarly, MovesOn, writtenPart, collectorPart, SlicesInv, BeganBefore,
      Closing, Finally
<1>25. CASE Printed
  BY <1>25 DEF Printed, MovesOn, writtenPart, collectorPart, SlicesInv, BeganBefore,
      Finally
<1>26. CASE SectionFails
  BY <1>26 DEF SectionFails, writtenPart, collectorPart, Preparing, InLadder, Closing,
      SlicesInv, BeganBefore, Finally
<1>27. CASE CutShort
  <2>1. /\ runAt' = "exited" /\ UNCHANGED <<tree, begunStages, slicesTaken>>
        /\ scraper' = IF scraper = "none" THEN "none" ELSE "over"
        /\ excuses \subseteq excuses'
    BY <1>27 DEF CutShort, Exits, writtenPart
  <2>2. (BeganBefore' <=> BeganBefore) /\ (EndedAfter' <=> EndedAfter)
    BY <2>1 DEF BeganBefore, EndedAfter
  <2>3. scraper \in {"none", "off", "waiting", "scraping", "over"}
    BY DEF MeasuredRunTypeOK
  <2>4. scraper # "none" /\ begunStages > 0 => BeganBefore
    BY <2>3 DEF SlicesInv
  <2>5. <<"server">> \in tree' =>
            scraper' = "over" /\ (begunStages' > 0 /\ "outlived" \notin excuses' => EndedAfter')
    BY <2>1, <2>2 DEF SlicesInv
  <2>6. scraper' = "over" => (begunStages' > 0 => BeganBefore')
    BY <2>1, <2>2, <2>4
  <2>7. QED
    BY <2>1, <2>5, <2>6 DEF SlicesInv
<1>28. CASE LoadHalted
  BY <1>28 DEF LoadHalted, MovesOn, writtenPart, collectorPart, SlicesInv, BeganBefore,
      Finally
<1>29. CASE ObserverStopped
  <2>1. /\ runAt = "observer" /\ runAt' = "status"
        /\ UNCHANGED <<begunStages, stageOn, excuses>>
        /\ slicesTaken' \in SlicesAtStop
    BY <1>29 DEF ObserverStopped, MovesOn, endPart, ladderPart
  <2>2. slicesTaken \in Seq(Slice) /\ scrapeOf \in Slice /\ SliceNow \in Slice
    BY SliceNowIsOne DEF MeasuredRunTypeOK, Slice
  <2>3. stageOn \in BOOLEAN /\ stageOn => "outlived" \in excuses
    BY <2>1 DEF LoadInv, Finally, MeasuredRunTypeOK
  <2>4. SliceNow \in ToSet(slicesTaken') /\ "outlived" \notin excuses' => EndedAfter'
    <3>1. SliceNow = [begun |-> begunStages, on |-> stageOn]
      BY DEF SliceNow
    <3>2. ~ stageOn => stageOn = FALSE
      BY DEF MeasuredRunTypeOK
    <3>3. QED
      BY <2>1, <2>3, <3>1, <3>2 DEF EndedAfter
  <2>5. scraper # "over"
    BY <2>1 DEF SlicesInv
  <2>6. CASE scraper = "none"
    <3>1. scraper' = "none" /\ UNCHANGED tree
      BY <1>29, <2>6 DEF ObserverStopped
    <3>2. <<"server">> \notin tree'
      BY <2>6, <3>1 DEF SlicesInv
    <3>3. QED
      BY <3>1, <3>2 DEF SlicesInv
  <2>7. CASE scraper # "none"
    <3>1. scraper' = "over"
      BY <1>29, <2>7 DEF ObserverStopped
    <3>2. CASE begunStages = 0
      BY <2>1, <3>1, <3>2 DEF SlicesInv
    <3>3. CASE begunStages # 0
      <4>1. scraper \in {"waiting", "scraping"} /\ BeganBefore
        <5>1. begunStages > 0
          BY <3>3, StageCounts
        <5>2. scraper \in {"none", "off", "waiting", "scraping", "over"}
          BY DEF MeasuredRunTypeOK
        <5>3. QED
          BY <2>5, <2>7, <3>3, <5>2 DEF SlicesInv
      <4>2. BeganBefore' /\ SliceNow \in ToSet(slicesTaken')
        <5>1. CASE slicesTaken' = Append(slicesTaken, SliceNow)
          BY <2>2, <4>1, <5>1, SliceAppended DEF BeganBefore
        <5>2. CASE slicesTaken' = Append(Append(slicesTaken, scrapeOf), SliceNow)
          BY <2>2, <4>1, <5>2, SliceAppended DEF BeganBefore
        <5>3. CASE slicesTaken' = Append(Append(slicesTaken, SliceNow), scrapeOf)
          BY <2>2, <4>1, <5>3, SliceAppended DEF BeganBefore
        <5>4. /\ slicesTaken \o <<scrapeOf, SliceNow>> = Append(Append(slicesTaken, scrapeOf), SliceNow)
              /\ slicesTaken \o <<SliceNow, scrapeOf>> = Append(Append(slicesTaken, SliceNow), scrapeOf)
          BY <2>2, TwoAppended
        <5>5. QED
          BY <2>1, <4>1, <5>1, <5>2, <5>3, <5>4 DEF SlicesAtStop
      <4>3. "outlived" \notin excuses' => EndedAfter'
        BY <2>4, <4>2
      <4>4. QED
        BY <2>1, <3>1, <4>2, <4>3 DEF SlicesInv
    <3>4. QED
      BY <3>2, <3>3
  <2>8. QED
    BY <2>6, <2>7
<1>30. CASE StatusAtLast
  BY <1>30 DEF StatusAtLast, MovesOn, endPart, ladderPart, collectorPart, SlicesInv,
      BeganBefore, EndedAfter, InLadder, Closing, Finally
<1>31. CASE StatusUnwritten
  <2>1. /\ runAt' = "exited" /\ UNCHANGED <<tree, begunStages, slicesTaken>>
        /\ scraper' = IF scraper = "none" THEN "none" ELSE "over"
        /\ excuses \subseteq excuses'
    BY <1>31 DEF StatusUnwritten, Exits, writtenPart
  <2>2. (BeganBefore' <=> BeganBefore) /\ (EndedAfter' <=> EndedAfter)
    BY <2>1 DEF BeganBefore, EndedAfter
  <2>3. scraper \in {"none", "off", "waiting", "scraping", "over"}
    BY DEF MeasuredRunTypeOK
  <2>4. scraper # "none" /\ begunStages > 0 => BeganBefore
    BY <2>3 DEF SlicesInv
  <2>5. <<"server">> \in tree' =>
            scraper' = "over" /\ (begunStages' > 0 /\ "outlived" \notin excuses' => EndedAfter')
    BY <2>1, <2>2 DEF SlicesInv
  <2>6. scraper' = "over" => (begunStages' > 0 => BeganBefore')
    BY <2>1, <2>2, <2>4
  <2>7. QED
    BY <2>1, <2>5, <2>6 DEF SlicesInv
<1>32. CASE ReleasedQuietly
  BY <1>32 DEF ReleasedQuietly, MovesOn, writtenPart, ladderPart, collectorPart, SlicesInv,
      BeganBefore, EndedAfter, InLadder, Closing, Finally
<1>33. CASE LeavesWithCode
  <2>1. /\ runAt' = "exited" /\ UNCHANGED <<tree, begunStages, slicesTaken>>
        /\ scraper' = IF scraper = "none" THEN "none" ELSE "over"
        /\ excuses \subseteq excuses'
    BY <1>33 DEF LeavesWithCode, Exits, writtenPart
  <2>2. (BeganBefore' <=> BeganBefore) /\ (EndedAfter' <=> EndedAfter)
    BY <2>1 DEF BeganBefore, EndedAfter
  <2>3. scraper \in {"none", "off", "waiting", "scraping", "over"}
    BY DEF MeasuredRunTypeOK
  <2>4. scraper # "none" /\ begunStages > 0 => BeganBefore
    BY <2>3 DEF SlicesInv
  <2>5. <<"server">> \in tree' =>
            scraper' = "over" /\ (begunStages' > 0 /\ "outlived" \notin excuses' => EndedAfter')
    BY <2>1, <2>2 DEF SlicesInv
  <2>6. scraper' = "over" => (begunStages' > 0 => BeganBefore')
    BY <2>1, <2>2, <2>4
  <2>7. QED
    BY <2>1, <2>5, <2>6 DEF SlicesInv
<1>34. CASE ScrapeBegins
  BY <1>34 DEF ScrapeBegins, writtenPart, SlicesInv, BeganBefore
<1>35. CASE ScrapeEnds
  <2>1. /\ scraper = "scraping" /\ scraper' = "waiting"
        /\ slicesTaken' = Append(slicesTaken, scrapeOf) /\ UNCHANGED <<runAt, tree>>
    BY <1>35 DEF ScrapeEnds, writtenPart
  <2>2. slicesTaken \in Seq(Slice) /\ scrapeOf \in Slice
    BY DEF MeasuredRunTypeOK, Slice
  <2>3. /\ runAt \in InLadder \cup Closing \cup {"halt", "observer"} /\ BeganBefore
        /\ <<"server">> \notin tree
    BY <2>1 DEF SlicesInv
  <2>4. BeganBefore'
    BY <2>1, <2>2, <2>3, SliceAppended DEF BeganBefore
  <2>5. QED
    BY <2>1, <2>3, <2>4 DEF SlicesInv
<1>36. CASE UNCHANGED measuredRunVars
  BY <1>36 DEF measuredRunVars, SlicesInv, BeganBefore, EndedAfter
<1>37. QED
  BY <1>1, <1>2, <1>3, <1>4, <1>5, <1>6, <1>7, <1>8, <1>9, <1>10, <1>11, <1>12, <1>13,
      <1>14, <1>15, <1>16, <1>17, <1>18, <1>19, <1>20, <1>21, <1>22, <1>23, <1>24, <1>25,
      <1>26, <1>27, <1>28, <1>29, <1>30, <1>31, <1>32, <1>33, <1>34, <1>35, <1>36 DEF
      MeasuredRunNext

\* The types of what controls the run.
LEMMA ControlTyped ==
    ASSUME MeasuredRunTypeOK, [MeasuredRunNext]_measuredRunVars
    PROVE  ControlIsTyped'
<1>1. CASE Acquired
  BY <1>1 DEF Acquired, MovesOn, writtenPart, ladderPart, collectorPart, MeasuredRunTypeOK,
      ControlIsTyped
<1>2. CASE NotAcquired
  BY <1>2 DEF NotAcquired, Exits, writtenPart, MeasuredRunTypeOK, ControlIsTyped
<1>3. CASE EntersTry
  BY <1>3 DEF EntersTry, MovesOn, endPart, writtenPart, ladderPart, collectorPart,
      MeasuredRunTypeOK, ControlIsTyped, Preparing
<1>4. CASE LayoutCreated
  BY <1>4 DEF LayoutCreated, MovesOn, endPart, ladderPart, collectorPart,
      MeasuredRunTypeOK, ControlIsTyped, Preparing
<1>5. CASE SnapshotWritten
  BY <1>5 DEF SnapshotWritten, MovesOn, endPart, ladderPart, collectorPart,
      MeasuredRunTypeOK, ControlIsTyped, Preparing
<1>6. CASE StubLogCopied
  BY <1>6 DEF StubLogCopied, MovesOn, endPart, ladderPart, collectorPart,
      MeasuredRunTypeOK, ControlIsTyped, Preparing
<1>7. CASE StubLogMissing
  BY <1>7 DEF StubLogMissing, Refuses, ladderPart, collectorPart, MeasuredRunTypeOK,
      ControlIsTyped, Finally
<1>8. CASE StatusRunning
  BY <1>8 DEF StatusRunning, MovesOn, endPart, ladderPart, collectorPart,
      MeasuredRunTypeOK, ControlIsTyped, Preparing
<1>9. CASE PreflightPasses
  BY <1>9 DEF PreflightPasses, MovesOn, endPart, ladderPart, collectorPart,
      MeasuredRunTypeOK, ControlIsTyped, Preparing
<1>10. CASE PreflightRefuses
  BY <1>10 DEF PreflightRefuses, Refuses, ladderPart, collectorPart, MeasuredRunTypeOK,
      ControlIsTyped, Finally
<1>11. CASE ManifestWritten
  BY <1>11 DEF ManifestWritten, MovesOn, endPart, ladderPart, collectorPart,
      MeasuredRunTypeOK, ControlIsTyped, Preparing
<1>12. CASE DryRun
  BY <1>12 DEF DryRun, MovesOn, ladderPart, collectorPart, MeasuredRunTypeOK,
      ControlIsTyped, Finally
<1>13. CASE BadMetricsTarget
  BY <1>13 DEF BadMetricsTarget, MovesOn, writtenPart, ladderPart, collectorPart,
      MeasuredRunTypeOK, ControlIsTyped, Finally
<1>14. CASE CollectorStarts
  BY <1>14 DEF CollectorStarts, MovesOn, endPart, writtenPart, ladderPart,
      MeasuredRunTypeOK, ControlIsTyped, InLadder
<1>15. CASE FirstSliceOnly
  BY <1>15 DEF FirstSliceOnly, MovesOn, writtenPart, ladderPart, MeasuredRunTypeOK,
      ControlIsTyped, Finally
<1>16. CASE NoCollector
  BY <1>16 DEF NoCollector, MovesOn, endPart, writtenPart, ladderPart, collectorPart,
      MeasuredRunTypeOK, ControlIsTyped, InLadder
<1>17. CASE StageBegins
  BY <1>17 DEF StageBegins, MovesOn, endPart, writtenPart, collectorPart,
      MeasuredRunTypeOK, ControlIsTyped, InLadder
<1>18. CASE StageJoined
  BY <1>18 DEF StageJoined, MovesOn, endPart, writtenPart, collectorPart,
      MeasuredRunTypeOK, ControlIsTyped, InLadder
<1>19. CASE StageSunk
  BY <1>19 DEF StageSunk, MovesOn, endPart, collectorPart, MeasuredRunTypeOK,
      ControlIsTyped, InLadder
<1>20. CASE LadderReturns
  BY <1>20 DEF LadderReturns, MovesOn, endPart, writtenPart, collectorPart,
      MeasuredRunTypeOK, ControlIsTyped, InLadder
<1>21. CASE ReportWritten
  BY <1>21 DEF ReportWritten, MovesOn, endPart, ladderPart, collectorPart,
      MeasuredRunTypeOK, ControlIsTyped, InLadder
<1>22. CASE MarkdownWritten
  BY <1>22 DEF MarkdownWritten, MovesOn, endPart, ladderPart, collectorPart,
      MeasuredRunTypeOK, ControlIsTyped, Closing
<1>23. CASE VerdictWritten
  BY <1>23 DEF VerdictWritten, MovesOn, ladderPart, collectorPart, MeasuredRunTypeOK,
      ControlIsTyped, Closing
<1>24. CASE ReleasedEarly
  BY <1>24 DEF ReleasedEarly, MovesOn, writtenPart, ladderPart, collectorPart,
      MeasuredRunTypeOK, ControlIsTyped, Closing
<1>25. CASE Printed
  BY <1>25 DEF Printed, MovesOn, endPart, writtenPart, ladderPart, collectorPart,
      MeasuredRunTypeOK, ControlIsTyped, Finally
<1>26. CASE SectionFails
  BY <1>26 DEF SectionFails, writtenPart, ladderPart, collectorPart, MeasuredRunTypeOK,
      ControlIsTyped, Finally
<1>27. CASE CutShort
  BY <1>27 DEF CutShort, Exits, writtenPart, MeasuredRunTypeOK, ControlIsTyped
<1>28. CASE LoadHalted
  BY <1>28 DEF LoadHalted, MovesOn, writtenPart, collectorPart, MeasuredRunTypeOK,
      ControlIsTyped, Finally
<1>29. CASE ObserverStopped
  BY <1>29 DEF ObserverStopped, MovesOn, endPart, ladderPart, MeasuredRunTypeOK,
      ControlIsTyped, Finally
<1>30. CASE StatusAtLast
  <2>1. /\ runAt' = "release" /\ UNCHANGED <<ladderSays, targetHeld, stageOn, scraper>>
        /\ statusFile' \in {statusFile, stopping.status}
    BY <1>30 DEF StatusAtLast, MovesOn, endPart, ladderPart, collectorPart
  <2>2. stopping # NotStopped => stopping.status \in {"failed", "aborted"}
    <3>1. stopping \in {NotStopped, Refused, Aborted}
      BY Zenon DEF MeasuredRunTypeOK
    <3>2. Refused.status \in {"failed", "aborted"} /\ Aborted.status \in {"failed", "aborted"}
      BY DEF Refused, Aborted
    <3>3. QED
      BY <3>1, <3>2
  <2>3. statusFile' \in {statusFile, "failed", "aborted"}
    BY <1>30, <2>1, <2>2 DEF StatusAtLast
  <2>4. QED
    BY <2>1, <2>3 DEF ControlIsTyped, MeasuredRunTypeOK, Finally
<1>31. CASE StatusUnwritten
  BY <1>31 DEF StatusUnwritten, Exits, writtenPart, MeasuredRunTypeOK, ControlIsTyped
<1>32. CASE ReleasedQuietly
  BY <1>32 DEF ReleasedQuietly, MovesOn, writtenPart, ladderPart, collectorPart,
      MeasuredRunTypeOK, ControlIsTyped, Finally
<1>33. CASE LeavesWithCode
  BY <1>33 DEF LeavesWithCode, Exits, writtenPart, MeasuredRunTypeOK, ControlIsTyped
<1>34. CASE ScrapeBegins
  BY <1>34 DEF ScrapeBegins, endPart, writtenPart, ladderPart, MeasuredRunTypeOK,
      ControlIsTyped
<1>35. CASE ScrapeEnds
  BY <1>35 DEF ScrapeEnds, endPart, writtenPart, ladderPart, MeasuredRunTypeOK,
      ControlIsTyped
<1>36. CASE UNCHANGED measuredRunVars
  BY <1>36 DEF measuredRunVars, MeasuredRunTypeOK, ControlIsTyped, Preparing, InLadder,
      Closing, Finally
<1>37. QED
  BY <1>1, <1>2, <1>3, <1>4, <1>5, <1>6, <1>7, <1>8, <1>9, <1>10, <1>11, <1>12, <1>13,
      <1>14, <1>15, <1>16, <1>17, <1>18, <1>19, <1>20, <1>21, <1>22, <1>23, <1>24, <1>25,
      <1>26, <1>27, <1>28, <1>29, <1>30, <1>31, <1>32, <1>33, <1>34, <1>35, <1>36 DEF
      MeasuredRunNext

\* The types of how it ends.
LEMMA ExitTyped ==
    ASSUME MeasuredRunTypeOK, [MeasuredRunNext]_measuredRunVars
    PROVE  ExitIsTyped'
<1>1. CASE Acquired
  BY <1>1 DEF Acquired, MeasuredRunTypeOK, ExitIsTyped
<1>2. CASE NotAcquired
  BY <1>2 DEF NotAcquired, Exits, MeasuredRunTypeOK, ExitIsTyped
<1>3. CASE EntersTry
  BY <1>3 DEF EntersTry, endPart, MeasuredRunTypeOK, ExitIsTyped
<1>4. CASE LayoutCreated
  BY <1>4 DEF LayoutCreated, endPart, MeasuredRunTypeOK, ExitIsTyped
<1>5. CASE SnapshotWritten
  BY <1>5 DEF SnapshotWritten, endPart, MeasuredRunTypeOK, ExitIsTyped
<1>6. CASE StubLogCopied
  BY <1>6 DEF StubLogCopied, endPart, MeasuredRunTypeOK, ExitIsTyped
<1>7. CASE StubLogMissing
  BY <1>7 DEF StubLogMissing, Refuses, MeasuredRunTypeOK, ExitIsTyped
<1>8. CASE StatusRunning
  BY <1>8 DEF StatusRunning, endPart, MeasuredRunTypeOK, ExitIsTyped
<1>9. CASE PreflightPasses
  BY <1>9 DEF PreflightPasses, endPart, MeasuredRunTypeOK, ExitIsTyped
<1>10. CASE PreflightRefuses
  BY <1>10 DEF PreflightRefuses, Refuses, MeasuredRunTypeOK, ExitIsTyped
<1>11. CASE ManifestWritten
  BY <1>11 DEF ManifestWritten, endPart, MeasuredRunTypeOK, ExitIsTyped
<1>12. CASE DryRun
  BY <1>12 DEF DryRun, MeasuredRunTypeOK, ExitIsTyped
<1>13. CASE BadMetricsTarget
  BY <1>13 DEF BadMetricsTarget, MeasuredRunTypeOK, ExitIsTyped
<1>14. CASE CollectorStarts
  BY <1>14 DEF CollectorStarts, endPart, MeasuredRunTypeOK, ExitIsTyped
<1>15. CASE FirstSliceOnly
  BY <1>15 DEF FirstSliceOnly, MeasuredRunTypeOK, ExitIsTyped
<1>16. CASE NoCollector
  BY <1>16 DEF NoCollector, endPart, MeasuredRunTypeOK, ExitIsTyped
<1>17. CASE StageBegins
  BY <1>17 DEF StageBegins, endPart, MeasuredRunTypeOK, ExitIsTyped
<1>18. CASE StageJoined
  BY <1>18 DEF StageJoined, endPart, MeasuredRunTypeOK, ExitIsTyped
<1>19. CASE StageSunk
  BY <1>19 DEF StageSunk, endPart, MeasuredRunTypeOK, ExitIsTyped
<1>20. CASE LadderReturns
  BY <1>20 DEF LadderReturns, endPart, MeasuredRunTypeOK, ExitIsTyped
<1>21. CASE ReportWritten
  BY <1>21 DEF ReportWritten, endPart, MeasuredRunTypeOK, ExitIsTyped
<1>22. CASE MarkdownWritten
  BY <1>22 DEF MarkdownWritten, endPart, MeasuredRunTypeOK, ExitIsTyped
<1>23. CASE VerdictWritten
  BY <1>23 DEF VerdictWritten, MeasuredRunTypeOK, ExitIsTyped
<1>24. CASE ReleasedEarly
  BY <1>24 DEF ReleasedEarly, MeasuredRunTypeOK, ExitIsTyped
<1>25. CASE Printed
  BY <1>25 DEF Printed, endPart, MeasuredRunTypeOK, ExitIsTyped
<1>26. CASE SectionFails
  BY <1>26 DEF SectionFails, MeasuredRunTypeOK, ExitIsTyped
<1>27. CASE CutShort
  BY <1>27 DEF CutShort, Exits, MeasuredRunTypeOK, ExitIsTyped
<1>28. CASE LoadHalted
  BY <1>28 DEF LoadHalted, MeasuredRunTypeOK, ExitIsTyped
<1>29. CASE ObserverStopped
  BY <1>29 DEF ObserverStopped, endPart, MeasuredRunTypeOK, ExitIsTyped
<1>30. CASE StatusAtLast
  BY <1>30 DEF StatusAtLast, endPart, MeasuredRunTypeOK, ExitIsTyped
<1>31. CASE StatusUnwritten
  BY <1>31 DEF StatusUnwritten, Exits, MeasuredRunTypeOK, ExitIsTyped
<1>32. CASE ReleasedQuietly
  BY <1>32 DEF ReleasedQuietly, MeasuredRunTypeOK, ExitIsTyped
<1>33. CASE LeavesWithCode
  <2>1. /\ exitCode' = IF stopping = NotStopped THEN exitWith ELSE stopping.code
        /\ UNCHANGED <<exitWith, stopping, excuses>>
    BY <1>33 DEF LeavesWithCode, Exits
  <2>2. stopping # NotStopped => stopping.code \in {2, 3}
    <3>1. stopping \in {NotStopped, Refused, Aborted}
      BY Zenon DEF MeasuredRunTypeOK
    <3>2. Refused.code \in {2, 3} /\ Aborted.code \in {2, 3}
      BY DEF Refused, Aborted
    <3>3. QED
      BY <3>1, <3>2
  <2>3. exitCode' \in {exitWith, 2, 3}
    BY <2>1, <2>2
  <2>4. QED
    BY <2>1, <2>3 DEF ExitIsTyped, MeasuredRunTypeOK
<1>34. CASE ScrapeBegins
  BY <1>34 DEF ScrapeBegins, endPart, MeasuredRunTypeOK, ExitIsTyped
<1>35. CASE ScrapeEnds
  BY <1>35 DEF ScrapeEnds, endPart, MeasuredRunTypeOK, ExitIsTyped
<1>36. CASE UNCHANGED measuredRunVars
  BY <1>36 DEF measuredRunVars, MeasuredRunTypeOK, ExitIsTyped
<1>37. QED
  BY <1>1, <1>2, <1>3, <1>4, <1>5, <1>6, <1>7, <1>8, <1>9, <1>10, <1>11, <1>12, <1>13,
      <1>14, <1>15, <1>16, <1>17, <1>18, <1>19, <1>20, <1>21, <1>22, <1>23, <1>24, <1>25,
      <1>26, <1>27, <1>28, <1>29, <1>30, <1>31, <1>32, <1>33, <1>34, <1>35, <1>36 DEF
      MeasuredRunNext

\* What a preflight may find.
LEMMA FindingsTypes == PreflightFindings \subseteq [RunTenants -> {"untouched", "refused", "skipped", "ok"}]
<1> DEFINE readings == [RunTenants -> {"ok", "refused"}]
           Read(o) == [t \in RunTenants |-> IF o[t] = "ok" THEN "untouched" ELSE "refused"]
           manifests == {Read(o) : o \in {o \in readings : \E t \in RunTenants : o[t] = "refused"}}
<1>1. PreflightFindings = manifests \cup readings \cup {[t \in RunTenants |-> "skipped"]}
  BY DEF PreflightFindings
<1>2. manifests \subseteq [RunTenants -> {"untouched", "refused"}]
  OBVIOUS
<1>3. readings \subseteq [RunTenants -> {"untouched", "refused", "skipped", "ok"}]
  OBVIOUS
<1>4. [RunTenants -> {"untouched", "refused"}] \subseteq [RunTenants -> {"untouched", "refused", "skipped", "ok"}]
  OBVIOUS
<1>5. QED
  BY <1>1, <1>2, <1>3, <1>4

\* The evidence consists of known artefacts.
LEMMA TreeTyped ==
    ASSUME MeasuredRunTypeOK, StagesInv, [MeasuredRunNext]_measuredRunVars
    PROVE  TreeIsTyped'
<1>1. CASE StageSunk
  <2>1. tree' = tree \cup ({"raw", "generator"} \X {begunStages})
    BY <1>1 DEF StageSunk
  <2>2. begunStages \in 1 .. MaxStages
    <3>1. runAt = "sinking"
      BY <1>1 DEF StageSunk, MovesOn
    <3>2. doneStages = begunStages - 1
      BY <3>1 DEF StagesInv, InLadder
    <3>3. QED
      BY <3>2, StageCounts, MeasuredRunAssumption
  <2>3. {"raw", "generator"} \X {begunStages} \subseteq Labels
    BY <2>2 DEF Labels
  <2>4. QED
    BY <2>1, <2>3 DEF TreeIsTyped, MeasuredRunTypeOK
<1>2. CASE tree' \subseteq tree \cup {<<a>> : a \in Artefacts}
  BY <1>2 DEF TreeIsTyped, MeasuredRunTypeOK
<1>3. QED
  BY <1>1, <1>2, WhoChangesWhat

\* The types of what was found of the tenants.
LEMMA FindingsTyped ==
    ASSUME MeasuredRunTypeOK, [MeasuredRunNext]_measuredRunVars
    PROVE  FindingsAreTyped'
<1>1. CASE PreflightPasses
  <2>1. checkedFor' \in PreflightFindings
    BY <1>1 DEF PreflightPasses
  <2>2. QED
    BY <2>1, FindingsTypes DEF FindingsAreTyped
<1>2. CASE PreflightRefuses
  <2>1. checkedFor' \in PreflightFindings \cup {checkedFor}
    BY <1>2 DEF PreflightRefuses
  <2>2. QED
    BY <2>1, FindingsTypes DEF FindingsAreTyped, MeasuredRunTypeOK
<1>3. CASE UNCHANGED checkedFor
  BY <1>3 DEF FindingsAreTyped, MeasuredRunTypeOK
<1>4. QED
  BY <1>1, <1>2, <1>3, WhoChangesWhat

\* No more stages are done than begun.
LEMMA StagesTyped ==
    ASSUME MeasuredRunTypeOK, StagesInv, [MeasuredRunNext]_measuredRunVars
    PROVE  StagesAreTyped'
<1>1. CASE StageBegins
  <2>1. begunStages' = begunStages + 1 /\ doneStages' = doneStages /\ begunStages < MaxStages
    BY <1>1 DEF StageBegins
  <2>2. QED
    BY <2>1, StageCounts, MeasuredRunAssumption DEF StagesAreTyped
<1>2. CASE StageSunk
  <2>1. begunStages' = begunStages /\ doneStages' = doneStages + 1 /\ runAt = "sinking"
    BY <1>2 DEF StageSunk, MovesOn
  <2>2. doneStages = begunStages - 1
    BY <2>1 DEF StagesInv, InLadder
  <2>3. QED
    BY <2>1, <2>2, StageCounts, MeasuredRunAssumption DEF StagesAreTyped
<1>3. CASE UNCHANGED <<begunStages, doneStages>>
  BY <1>3 DEF StagesAreTyped, MeasuredRunTypeOK
<1>4. QED
  BY <1>1, <1>2, <1>3, WhoChangesWhat

\* The types of the slices.
LEMMA SlicesTyped ==
    ASSUME MeasuredRunTypeOK, [MeasuredRunNext]_measuredRunVars
    PROVE  SlicesAreTyped'
<1>1. CASE CollectorStarts
  <2>1. slicesTaken' = <<SliceNow>> /\ scrapeOf' = scrapeOf
    BY <1>1 DEF CollectorStarts
  <2>2. slicesTaken' \in Seq(Slice)
    BY <2>1, SliceNowIsOne
  <2>3. QED
    BY <2>1, <2>2 DEF SlicesAreTyped, MeasuredRunTypeOK, Slice
<1>2. CASE FirstSliceOnly
  <2>1. slicesTaken' \in {<<>>, <<SliceNow>>} /\ scrapeOf' = scrapeOf
    BY <1>2 DEF FirstSliceOnly
  <2>2. slicesTaken' \in Seq(Slice)
    <3>1. <<>> \in Seq(Slice) /\ <<SliceNow>> \in Seq(Slice)
      BY SliceNowIsOne
    <3>2. QED
      BY <2>1, <3>1
  <2>3. QED
    BY <2>1, <2>2 DEF SlicesAreTyped, MeasuredRunTypeOK, Slice
<1>3. CASE ObserverStopped
  <2>1. slicesTaken' \in SlicesAtStop /\ scrapeOf' = scrapeOf
    BY <1>3 DEF ObserverStopped
  <2>2. slicesTaken \in Seq(Slice) /\ scrapeOf \in Slice /\ SliceNow \in Slice
    BY SliceNowIsOne DEF MeasuredRunTypeOK, Slice
  <2>3. /\ Append(slicesTaken, SliceNow) \in Seq(Slice)
        /\ slicesTaken \o <<scrapeOf, SliceNow>> \in Seq(Slice)
        /\ slicesTaken \o <<SliceNow, scrapeOf>> \in Seq(Slice)
    BY <2>2
  <2>4. slicesTaken' \in Seq(Slice)
    BY <2>1, <2>2, <2>3 DEF SlicesAtStop
  <2>5. QED
    BY <2>1, <2>2, <2>4 DEF SlicesAreTyped, Slice
<1>4. CASE ScrapeBegins
  <2>1. scrapeOf' = SliceNow /\ slicesTaken' = slicesTaken
    BY <1>4 DEF ScrapeBegins
  <2>2. QED
    BY <2>1, SliceNowIsOne DEF SlicesAreTyped, MeasuredRunTypeOK, Slice
<1>5. CASE ScrapeEnds
  <2>1. slicesTaken' = Append(slicesTaken, scrapeOf) /\ scrapeOf' = scrapeOf
    BY <1>5 DEF ScrapeEnds
  <2>2. slicesTaken \in Seq(Slice) /\ scrapeOf \in Slice
    BY DEF MeasuredRunTypeOK, Slice
  <2>3. slicesTaken' \in Seq(Slice)
    BY <2>1, <2>2
  <2>4. QED
    BY <2>1, <2>2, <2>3 DEF SlicesAreTyped, Slice
<1>6. CASE UNCHANGED <<scrapeOf, slicesTaken>>
  BY <1>6 DEF SlicesAreTyped, MeasuredRunTypeOK
<1>7. QED
  BY <1>1, <1>2, <1>3, <1>4, <1>5, <1>6, WhoChangesWhat

\* Every step of a run keeps all of it.
LEMMA RunStep == ASSUME RunInv, [MeasuredRunNext]_measuredRunVars PROVE RunInv'
<1>1. MeasuredRunTypeOK'
  <2>1. MeasuredRunTypeOK /\ StagesInv
    BY DEF RunInv
  <2>2. QED
    BY <2>1, ControlTyped, ExitTyped, TreeTyped, FindingsTyped, StagesTyped, SlicesTyped
       DEF MeasuredRunTypeOK, ControlIsTyped, ExitIsTyped, TreeIsTyped, FindingsAreTyped,
           StagesAreTyped, SlicesAreTyped
<1>2. ControlInv' /\ StagesInv' /\ LoadInv' /\ EndInv' /\ StatusTellsTheTruth'
  BY ControlStep, StagesStep, LoadStep, EndStep, TruthStep DEF RunInv
<1>3. SunkInv' /\ CheckedInv' /\ ReportInv' /\ SlicesInv'
  BY SunkStep, CheckedStep, ReportStep, SlicesStep DEF RunInv
<1>4. QED
  BY <1>1, <1>2, <1>3 DEF RunInv

\* A run starts with nothing written.
LEMMA RunStarts == MeasuredRunInit => RunInv
<1> SUFFICES ASSUME MeasuredRunInit PROVE RunInv
  OBVIOUS
<1> USE DEF MeasuredRunInit
<1>1. MeasuredRunTypeOK
  <2>1. checkedFor \in [RunTenants -> {"untouched", "refused", "skipped", "ok"}]
    OBVIOUS
  <2>2. begunStages \in 0 .. MaxStages /\ doneStages \in 0 .. begunStages
    BY MeasuredRunAssumption
  <2>3. /\ scrapeOf \in [begun : 0 .. MaxStages, on : BOOLEAN]
        /\ slicesTaken \in Seq([begun : 0 .. MaxStages, on : BOOLEAN])
    BY MeasuredRunAssumption
  <2>4. tree \subseteq {<<a>> : a \in Artefacts} \cup Labels
    OBVIOUS
  <2>5. QED
    BY <2>1, <2>2, <2>3, <2>4 DEF MeasuredRunTypeOK
<1>2. ControlInv /\ StagesInv /\ LoadInv /\ EndInv /\ StatusTellsTheTruth
  BY DEF ControlInv, StagesInv, LoadInv, EndInv, StatusTellsTheTruth, NotStopped, InSection,
      BeforeLadder, SaidRunning, Preparing, InLadder, Closing, Finally
<1>3. SunkInv /\ CheckedInv /\ ReportInv /\ SlicesInv
  BY DEF SunkInv, CheckedInv, ReportInv, SlicesInv, Preparing, InLadder, Closing, Finally
<1>4. QED
  BY <1>1, <1>2, <1>3 DEF RunInv

\* RunInv is an invariant of the measured run: where its steps stand, what each has left
\* behind, and what the status, the tree and the slices may say there.
THEOREM RunIsInOrder == MeasuredRunSpec => []RunInv
<1>1. RunInv /\ [MeasuredRunNext]_measuredRunVars => RunInv'
  BY RunStep
<1>2. QED
  BY <1>1, RunStarts, PTL DEF MeasuredRunSpec

\* What holds at each place makes the run believable.
LEMMA RunIsBelieved == RunInv => RunIsBelievable
<1> SUFFICES ASSUME RunInv PROVE RunIsBelievable
  OBVIOUS
<1> USE DEF RunInv
<1>1. LoadIsAllowed
  <2> SUFFICES ASSUME stageOn PROVE LoadIsAllowed
    BY DEF LoadIsAllowed
  <2>1. begunStages > 0 /\ runAt \in {"staging"} \cup Finally
    BY DEF LoadInv
  <2>2. <<"manifest">> \in tree /\ NoneRefused
    BY <2>1 DEF CheckedInv
  <2>3. excuses = {} => runAt \in {"staging", "halt"}
    BY <2>1 DEF LoadInv, Finally
  <2>4. runAt = "staging" => targetHeld
    BY DEF ControlInv, InSection, InLadder
  <2>5. runAt = "halt" => targetHeld
    BY DEF LoadInv
  <2>6. QED
    BY <2>2, <2>3, <2>4, <2>5 DEF LoadIsAllowed, NoneRefused
<1>2. EvidenceIsWhole
  BY DEF EvidenceIsWhole, SunkInv, ReportInv, Reported
<1>3. SlicesBracketTheLoad
  <2> SUFFICES ASSUME <<"server">> \in tree, begunStages > 0, "outlived" \notin excuses
               PROVE  Head(slicesTaken).begun = 0 /\ EndedAfter
    BY DEF SlicesBracketTheLoad, EndedAfter
  <2>1. scraper = "over" /\ EndedAfter
    BY DEF SlicesInv
  <2>2. BeganBefore
    BY <2>1 DEF SlicesInv
  <2>3. QED
    BY <2>1, <2>2 DEF BeganBefore
<1>4. QED
  BY <1>1, <1>2, <1>3 DEF RunIsBelievable

\* What a measured run leaves behind can be believed: the exit code and status.json tell
\* the truth, load was only put on an owned and checked target, and the evidence is whole.
THEOREM RunIsBelievableAlways == MeasuredRunSpec => []RunIsBelievable
BY RunIsInOrder, RunIsBelieved, PTL

-----------------------------------------------------------------------------
(* A benchmark run *)

\* What is so of every judgement by itself.
IsEarned(e) ==
    /\ e.verdict \in BenchVerdicts
    /\ e.verdict = "CORRECT" => ~e.broken /\ e.delivered /\ ~e.invented /\ e.lawful
    /\ e.broken => e.verdict = "ERROR" /\ e.blame # "agent"
    /\ e.invented => e.verdict \in {"WRONG", "ERROR"}
    /\ e.infra \/ e.blame = "infra" => e.verdict = "ERROR"

\* The sessions that may have a file in the backlog directory.
Recorders == Nat

\* Every question that is over is judged, from the record of its own turn if there is one.
QuestionsInv ==
    /\ fixture \in DOMAIN Fixtures
    /\ questioned \in Nat
    /\ evals \in Seq(ToSet(evals))
    /\ benchAt \in {"idle", "preflight"} => questioned = 0 /\ evals = << >>
    /\ benchAt = "asking" => Len(evals) = questioned
    /\ benchAt = "reading" => Len(evals) + 1 = questioned
    /\ backlogs \in Seq(Recorders)
    /\ \A i \in DOMAIN evals :
          /\ IsEarned(evals[i])
          /\ evals[i].of \in {NoRecord, i} \/ i \in unrecorded

BenchRunning == {"preflight", "asking", "reading", "finally"}

\* The lock, the manifest, the report and the exit code, by where the run is.
ReportsInv ==
    /\ benchAt \in {"idle", "exited"} \cup BenchRunning
    /\ benchAt = "idle" => benchManifest = "none"
    /\ benchAt \in BenchRunning => benchLock = "own" /\ benchManifest = "running"
    /\ benchAt = "exited" /\ benchManifest = "running" => benchLock = "dead"
    /\ benchAt \in {"idle", "preflight", "asking", "reading"} =>
          benchCode = 9 /\ ~finished /\ reportFile = NoReport
    /\ reportFile # NoReport => Len(evals) = Len(ActiveCases) /\ reportFile = BenchReport
    /\ finished => reportFile # NoReport
    /\ benchManifest = "completed" => finished
    /\ benchCode = 0 =>
          /\ finished /\ VerdictCount("WRONG") + VerdictCount("ERROR") = 0
          /\ benchAt \in {"finally", "exited"}
    /\ benchAt = "exited" /\ benchCode = 0 => benchManifest = "completed"

BenchInv == QuestionsInv /\ ReportsInv

-----------------------------------------------------------------------------
\* The verdicts

\* A verdict is one of those there are.
LEMMA VerdictIsOne ==
    ASSUME NEW c, NEW r, NEW metrics
    PROVE  VerdictOf(c, r, metrics) \in BenchVerdicts
BY DEF VerdictOf, BenchVerdicts

\* The first check looks for failures of the platform.
LEMMA ErrorIsInfra ==
    ASSUME NEW c, NEW r, NEW metrics
    PROVE  InfraFailed(r) => VerdictOf(c, r, metrics) = "ERROR"
BY Zenon DEF VerdictOf

\* An invented number is never forgiven.
LEMMA HallucinationIsWrong ==
    ASSUME NEW c, NEW r, NEW metrics, Hallucinates(c, r)
    PROVE  VerdictOf(c, r, metrics) \in {"WRONG", "ERROR"}
BY DEF VerdictOf

\* CORRECT takes all checks.
LEMMA CorrectIsSound ==
    ASSUME NEW c, NEW r, NEW metrics, VerdictOf(c, r, metrics) = "CORRECT"
    PROVE  /\ ~InfraFailed(r) /\ ~Hallucinates(c, r) /\ ~ForbiddenCall(c, r)
           /\ AnswerOk(c, r) /\ RetrievalOk(c, r)
BY DEF VerdictOf

\* A broken turn or tool is a failure of the platform.
LEMMA BrokenIsInfra ==
    ASSUME NEW r, r.errors \/ \E i \in DOMAIN r.results : r.results[i].kind = "error"
    PROVE  InfraFailed(r)
BY DEF InfraFailed, ToolFailed, Payloads, ToSet

\* What the judged run is said to have delivered, and to have made up.
Delivers(c, r) ==
    \/ c.type \in {"not_found", "list"}
    \/ /\ \A w \in c.wants : w \in r.says
       /\ \E i \in DOMAIN r.results : \A w \in c.wants : w \in r.results[i].has
MakesUp(c, r, n) ==
    /\ c.type # "not_found" /\ ~c.breakdown
    /\ n >= 10 /\ n \notin c.told /\ n \notin r.worked
    /\ \A i \in DOMAIN r.results : n \notin r.results[i].has
    /\ \A i \in DOMAIN r.results : \A b \in r.results[i].has, k \in SmallFactors : n # b * k
    /\ n \notin Sums(KnownNumbers(r))

\* An accepted answer delivers what the case wants.
LEMMA CorrectDelivers ==
    ASSUME NEW c, NEW r, AnswerOk(c, r), RetrievalOk(c, r)
    PROVE  Delivers(c, r)
<1> SUFFICES ASSUME c.type # "not_found", c.type # "list" PROVE Delivers(c, r)
  BY DEF Delivers
<1>1. c.wants \subseteq r.says
  BY DEF AnswerOk
<1>2. FactFound(c, r)
  BY DEF RetrievalOk
<1>3. \E i \in DOMAIN r.results : c.wants \subseteq r.results[i].has
  BY <1>2 DEF FactFound, Payloads, ToSet
<1>4. QED
  BY <1>1, <1>3 DEF Delivers

\* A number that neither the case, nor a result, nor an arithmetic of them has is seen.
LEMMA InventionIsSeen ==
    ASSUME NEW c, NEW r, NEW n \in r.says, MakesUp(c, r, n)
    PROVE  Hallucinates(c, r)
<1>1. n \notin KnownNumbers(r)
  BY DEF MakesUp, KnownNumbers, Payloads, ToSet
<1>2. n \notin Products(KnownNumbers(r))
  <2>1. SUFFICES ASSUME NEW b \in KnownNumbers(r), NEW k \in SmallFactors
                 PROVE  n # b * k
    BY <2>1 DEF Products
  <2>2. PICK i \in DOMAIN r.results : b \in r.results[i].has
    BY DEF KnownNumbers, Payloads, ToSet
  <2>3. QED
    BY <2>2 DEF MakesUp
<1>3. n \in Unsupported(c, r)
  BY <1>1, <1>2 DEF Unsupported, MakesUp
<1>4. BrokenDown(c, r) = {}
  BY DEF BrokenDown, MakesUp
<1>5. QED
  BY <1>3, <1>4 DEF Hallucinates, MakesUp

\* A judgement of a case from a record is earned.
LEMMA JudgementIsEarned ==
    ASSUME NEW r, NEW metrics
    PROVE  IsEarned(JudgedRun(r, metrics)) /\ JudgedRun(r, metrics).of = metrics.of
<1> DEFINE c == BenchCase
           e == JudgedRun(r, metrics)
<1>1. /\ e.verdict = VerdictOf(c, r, metrics) /\ e.blame = Blame(r) /\ e.of = metrics.of
      /\ e.infra <=> InfraFailed(r)
      /\ e.broken <=> r.errors \/ \E i \in DOMAIN r.results : r.results[i].kind = "error"
      /\ e.delivered <=> Delivers(c, r)
      /\ e.invented <=> \E n \in r.says : MakesUp(c, r, n)
      /\ e.lawful <=> \A i \in DOMAIN r.calls : r.calls[i] \notin c.mustNot
  BY DEF JudgedRun, Delivers, MakesUp
<1> HIDE DEF c, e
<1>2. e.verdict \in BenchVerdicts
  BY <1>1, VerdictIsOne
<1>3. e.broken => InfraFailed(r) /\ e.blame # "agent"
  BY <1>1, BrokenIsInfra DEF InfraFailed, Blame
<1>4. e.infra \/ e.blame = "infra" => InfraFailed(r)
  BY <1>1 DEF InfraFailed, Blame
<1>5. e.invented => Hallucinates(c, r)
  BY <1>1, InventionIsSeen
<1>6. ASSUME e.verdict = "CORRECT" PROVE ~e.broken /\ e.delivered /\ ~e.invented /\ e.lawful
  <2>1. /\ ~InfraFailed(r) /\ ~Hallucinates(c, r) /\ ~ForbiddenCall(c, r)
        /\ AnswerOk(c, r) /\ RetrievalOk(c, r)
    BY <1>1, <1>6, CorrectIsSound
  <2>2. e.lawful
    BY <1>1, <2>1 DEF ForbiddenCall, CalledNames, ToSet
  <2>3. QED
    BY <1>1, <1>3, <1>5, <2>1, <2>2, CorrectDelivers
<1>7. InfraFailed(r) => e.verdict = "ERROR"
  BY <1>1, ErrorIsInfra
<1>8. e.invented => e.verdict \in {"WRONG", "ERROR"}
  BY <1>1, <1>5, HallucinationIsWrong
<1>9. IsEarned(e)
  BY <1>2, <1>3, <1>4, <1>6, <1>7, <1>8 DEF IsEarned
<1>10. QED
  BY <1>1, <1>9 DEF e

-----------------------------------------------------------------------------
\* The questions and their judgements

\* What an appended judgement changes.
LEMMA EvalAppended ==
    ASSUME NEW s, s \in Seq(ToSet(s)), NEW x
    PROVE  /\ Append(s, x) \in Seq(ToSet(Append(s, x)))
           /\ Len(Append(s, x)) = Len(s) + 1 /\ Len(s) \in Nat
           /\ DOMAIN Append(s, x) = 1 .. Len(s) + 1 /\ DOMAIN s = 1 .. Len(s)
           /\ \A i \in 1 .. Len(s) : Append(s, x)[i] = s[i]
           /\ Append(s, x)[Len(s) + 1] = x
<1> DEFINE S == ToSet(s) \cup {x}
           t == Append(s, x)
<1>1. s \in Seq(S) /\ x \in S
  <2>1. ToSet(s) \subseteq S
    OBVIOUS
  <2>2. QED
    BY <2>1, SeqMonotonic
<1> HIDE DEF S
<1>2. /\ t \in Seq(S) /\ Len(t) = Len(s) + 1 /\ Len(s) \in Nat
      /\ \A i \in 1 .. Len(s) : t[i] = s[i]
      /\ t[Len(s) + 1] = x
  BY <1>1, AppendProperties, LenProperties
<1>3. DOMAIN t = 1 .. Len(s) + 1 /\ DOMAIN s = 1 .. Len(s)
  BY <1>1, <1>2, LenProperties
<1>4. t \in Seq(ToSet(t))
  <2>1. \A i \in 1 .. Len(t) : t[i] \in ToSet(t)
    BY <1>2, <1>3 DEF ToSet
  <2>2. t = [i \in 1 .. Len(t) |-> t[i]] /\ Len(t) \in Nat
    BY <1>2, LenProperties
  <2>3. [i \in 1 .. Len(t) |-> t[i]] \in Seq(ToSet(t))
    BY <2>1, <2>2
  <2>4. QED
    BY <2>2, <2>3
<1>5. QED
  BY <1>2, <1>3, <1>4

\* A judgement that is taken from a record of its own turn, or of none.
LEMMA Concluded ==
    ASSUME QuestionsInv, NEW r, NEW metrics, benchAt = "reading", Concludes(r, metrics),
           UNCHANGED <<fixture, questioned>>, unrecorded \subseteq unrecorded',
           backlogs' \in Seq(Recorders),
           \/ metrics.of \in {NoRecord, BenchSession}
           \/ BenchSession \in unrecorded'
    PROVE  QuestionsInv'
<1> DEFINE e == JudgedRun(r, metrics)
<1>1. /\ evals' = Append(evals, e) /\ benchAt' = "asking"
      /\ evals \in Seq(ToSet(evals)) /\ Len(evals) + 1 = questioned
  BY DEF Concludes, QuestionsInv
<1>2. IsEarned(e) /\ e.of = metrics.of
  BY JudgementIsEarned
<1> HIDE DEF e
<1>3. /\ evals' \in Seq(ToSet(evals')) /\ Len(evals') = questioned
      /\ DOMAIN evals' = 1 .. questioned /\ DOMAIN evals = 1 .. Len(evals) /\ Len(evals) \in Nat
      /\ \A i \in 1 .. Len(evals) : evals'[i] = evals[i]
      /\ evals'[questioned] = e
  BY <1>1, EvalAppended
<1>4. ASSUME NEW i \in DOMAIN evals'
      PROVE  /\ IsEarned(evals'[i])
             /\ evals'[i].of \in {NoRecord, i} \/ i \in unrecorded'
  <2>1. CASE i = questioned
    BY <1>2, <1>3, <2>1 DEF BenchSession
  <2>2. CASE i # questioned
    <3>1. i \in DOMAIN evals /\ evals'[i] = evals[i]
      BY <1>1, <1>3, <1>4, <2>2
    <3>2. QED
      BY <3>1 DEF QuestionsInv
  <2>3. QED
    BY <2>1, <2>2
<1>5. fixture' \in DOMAIN Fixtures /\ questioned' \in Nat /\ questioned' = questioned
  BY DEF QuestionsInv
<1>6. QED
  BY <1>1, <1>3, <1>4, <1>5 DEF QuestionsInv

\* What the API records of a turn.
LEMMA Recorded ==
    ASSUME QuestionsInv
    PROVE  /\ \A end : RecordsTurn(end) =>
                        /\ backlogs' \in Seq(Recorders) /\ unrecorded' = unrecorded
                        /\ BenchSession \in ToSet(backlogs')
           /\ RecordsNothing => /\ backlogs' \in Seq(Recorders) /\ unrecorded \subseteq unrecorded'
                                /\ BenchSession \in unrecorded'
<1>1. BenchSession \in Recorders /\ backlogs \in Seq(Recorders)
  BY DEF QuestionsInv, BenchSession, Recorders
<1>2. ASSUME NEW end, RecordsTurn(end)
      PROVE  /\ backlogs' \in Seq(Recorders) /\ unrecorded' = unrecorded
             /\ BenchSession \in ToSet(backlogs')
  <2>1. backlogs' = <<BenchSession>> \o backlogs /\ unrecorded' = unrecorded
    BY <1>2 DEF RecordsTurn
  <2>2. backlogs' \in Seq(Recorders) /\ 1 \in DOMAIN backlogs' /\ backlogs'[1] = BenchSession
    BY <1>1, <2>1
  <2>3. QED
    BY <2>1, <2>2 DEF ToSet
<1>3. QED
  BY <1>1, <1>2 DEF RecordsNothing

\* The judgements stay where no case is concluded.
LEMMA QuestionsKept ==
    ASSUME QuestionsInv, UNCHANGED <<fixture, questioned, evals>>,
           unrecorded \subseteq unrecorded', backlogs' \in Seq(Recorders),
           \/ benchAt' \in {"finally", "exited"}
           \/ benchAt' = benchAt
           \/ benchAt = "idle" /\ benchAt' = "preflight"
           \/ benchAt = "preflight" /\ benchAt' = "asking"
    PROVE  QuestionsInv'
<1>1. /\ fixture' \in DOMAIN Fixtures /\ questioned' \in Nat
      /\ evals' \in Seq(ToSet(evals')) /\ evals' = evals /\ questioned' = questioned
  BY DEF QuestionsInv
<1>2. \A i \in DOMAIN evals' :
          /\ IsEarned(evals'[i])
          /\ evals'[i].of \in {NoRecord, i} \/ i \in unrecorded'
  BY <1>1 DEF QuestionsInv
<1>3. /\ benchAt' \in {"idle", "preflight"} => questioned' = 0 /\ evals' = <<>>
      /\ benchAt' = "asking" => Len(evals') = questioned'
      /\ benchAt' = "reading" => Len(evals') + 1 = questioned'
  <2>1. benchAt \in {"idle", "preflight"} => questioned = 0 /\ evals = <<>> /\ Len(evals) = 0
    BY DEF QuestionsInv
  <2>2. /\ benchAt = "asking" => Len(evals) = questioned
        /\ benchAt = "reading" => Len(evals) + 1 = questioned
    BY DEF QuestionsInv
  <2>3. QED
    BY <1>1, <2>1, <2>2
<1>4. QED
  BY <1>1, <1>2, <1>3 DEF QuestionsInv

\* Each question is judged once, by what it left.
LEMMA QuestionsStep == ASSUME QuestionsInv, [BenchRunNext]_benchRunVars PROVE QuestionsInv'
<1> USE DEF benchLockPart, benchEndsPart, questionsPart
<1>0. backlogs \in Seq(Recorders)
  BY DEF QuestionsInv
<1>1. CASE BenchAcquire
  BY <1>0, <1>1, QuestionsKept DEF BenchAcquire
<1>2. CASE BenchRefused
  BY <1>0, <1>2, QuestionsKept DEF BenchRefused
<1>3. CASE BenchPreflightPasses
  BY <1>0, <1>3, QuestionsKept DEF BenchPreflightPasses
<1>4. CASE BenchPreflightFails
  BY <1>0, <1>4, QuestionsKept DEF BenchPreflightFails
<1>5. CASE AskNext
  <2>1. /\ benchAt = "asking" /\ benchAt' = "reading" /\ questioned' = questioned + 1
        /\ UNCHANGED <<fixture, evals, backlogs, unrecorded>>
    BY <1>5 DEF AskNext
  <2>2. Len(evals') + 1 = questioned' /\ questioned' \in Nat
    BY <2>1 DEF QuestionsInv
  <2>3. QED
    BY <2>1, <2>2 DEF QuestionsInv
<1>6. CASE RateLimited
  BY <1>0, <1>6, QuestionsKept DEF RateLimited
<1>7. CASE Unanswerable
  <2>1. NoMetrics.of \in {NoRecord, BenchSession}
    BY DEF NoMetrics
  <2>2. QED
    BY <1>0, <1>7, <2>1, Concluded DEF Unanswerable
<1>8. CASE StreamLost
  <2>1. NoMetrics.of \in {NoRecord, BenchSession}
    BY DEF NoMetrics
  <2>2. backlogs' \in Seq(Recorders) /\ unrecorded \subseteq unrecorded'
    BY <1>8, Recorded DEF StreamLost
  <2>3. QED
    BY <1>8, <2>1, <2>2, Concluded DEF StreamLost
<1>9. CASE Streamed
  <2>1. PICK r \in SampleRuns, tokens \in {1, 9} : Concludes(r, MetricsOf(tokens)')
    BY <1>9 DEF Streamed
  <2>2. benchAt = "reading" /\ UNCHANGED <<fixture, questioned>>
    BY <1>9 DEF Streamed
  <2>3. CASE RecordsTurn(TRUE)
    <3>1. /\ backlogs' \in Seq(Recorders) /\ unrecorded' = unrecorded
          /\ BenchSession \in ToSet(backlogs')
      BY <2>3, Recorded
    <3>2. BenchSession' = BenchSession
      BY <2>2 DEF BenchSession
    <3>3. MetricsOf(tokens)'.of \in {NoRecord, BenchSession}
      BY <3>1, <3>2 DEF MetricsOf, NoMetrics
    <3>4. QED
      BY <2>1, <2>2, <3>1, <3>3, Concluded
  <2>4. CASE RecordsNothing
    <3>1. /\ backlogs' \in Seq(Recorders) /\ unrecorded \subseteq unrecorded'
          /\ BenchSession \in unrecorded'
      BY <2>4, Recorded
    <3>2. QED
      BY <2>1, <2>2, <3>1, Concluded
  <2>5. QED
    BY <1>9, <2>3, <2>4 DEF Streamed
<1>10. CASE EvaluatorRaises
  <2>1. backlogs' \in Seq(Recorders) /\ unrecorded \subseteq unrecorded'
    BY <1>10, Recorded DEF EvaluatorRaises
  <2>2. QED
    BY <1>10, <2>1, QuestionsKept DEF EvaluatorRaises
<1>11. CASE VisitorChats
  <2>1. backlogs' = <<Visitor>> \o backlogs /\ Visitor \in Recorders
    BY <1>11 DEF VisitorChats, Recorders, Visitor
  <2>2. backlogs' \in Seq(Recorders)
    BY <1>0, <2>1
  <2>3. QED
    BY <1>11, <2>2, QuestionsKept DEF VisitorChats
<1>12. CASE BenchReportWritten
  BY <1>0, <1>12, QuestionsKept DEF BenchReportWritten
<1>13. CASE BenchReportFails
  BY <1>0, <1>13, QuestionsKept DEF BenchReportFails
<1>14. CASE Finalises
  BY <1>0, <1>14, QuestionsKept DEF Finalises
<1>15. CASE BenchDies
  BY <1>0, <1>15, QuestionsKept DEF BenchDies
<1>16. CASE UNCHANGED benchRunVars
  BY <1>0, <1>16, QuestionsKept DEF benchRunVars
<1>17. QED
  BY <1>1, <1>2, <1>3, <1>4, <1>5, <1>6, <1>7, <1>8, <1>9, <1>10, <1>11, <1>12, <1>13,
     <1>14, <1>15, <1>16 DEF BenchRunNext

-----------------------------------------------------------------------------
\* The report

\* The active cases of a fixture.
LEMMA CasesAreSome ==
    ASSUME fixture \in DOMAIN Fixtures
    PROVE  Len(ActiveCases) \in Nat /\ Len(ActiveCases) > 0
<1> DEFINE s == Fixtures[fixture]
           S == ToSet(s)
           I == {i \in DOMAIN s : ~s[i].deprecated}
<1>1. s \in Seq(S)
  BY BenchRunAssumption
<1>2. \E i \in DOMAIN s : i \in I
  BY BenchRunAssumption
<1>3. ActiveCases = SelectAt(s, I)
  BY DEF ActiveCases
<1> HIDE DEF s, S, I
<1>4. QED
  BY <1>1, <1>2, <1>3, SelectedIsSome

\* A report is written as one.
LEMMA ReportIsSome == fixture \in DOMAIN Fixtures => BenchReport # NoReport
<1>1. BenchReport.total = Len(ActiveCases) /\ NoReport.total = 0
  BY DEF BenchReport, NoReport
<1>2. QED
  BY <1>1, CasesAreSome

\* The judgements with verdict v.
Of(v) == {i \in DOMAIN evals : evals[i].verdict = v}

\* A verdict is given at some places among the judgements.
LEMMA CountsAreOf ==
    ASSUME QuestionsInv
    PROVE  /\ \A v : /\ VerdictCount(v) = Cardinality(Of(v)) /\ VerdictCount(v) \in Nat
                     /\ IsFiniteSet(Of(v))
           /\ DOMAIN evals = 1 .. Len(evals) /\ Len(evals) \in Nat
<1>1. DOMAIN evals = 1 .. Len(evals) /\ Len(evals) \in Nat
  BY LenProperties DEF QuestionsInv
<1>2. IsFiniteSet(DOMAIN evals)
  BY <1>1, FS_Interval
<1>3. \A v : IsFiniteSet(Of(v)) /\ VerdictCount(v) = Cardinality(Of(v))
  BY <1>2, FS_Subset DEF Of, VerdictCount
<1>4. QED
  BY <1>1, <1>3, FS_CardinalityType

\* The counts of the verdicts add up to the judgements.
LEMMA CountsAddUp ==
    ASSUME QuestionsInv
    PROVE  /\ VerdictCount("CORRECT") + VerdictCount("PARTIAL") + VerdictCount("WRONG")
                + VerdictCount("ERROR") = Len(evals)
           /\ Cardinality({i \in DOMAIN evals : evals[i].verdict \in {"CORRECT", "PARTIAL"}})
                = VerdictCount("CORRECT") + VerdictCount("PARTIAL")
<1> DEFINE good == Of("CORRECT") \cup Of("PARTIAL")
           bad == Of("WRONG") \cup Of("ERROR")
<1>1. /\ \A v : /\ VerdictCount(v) = Cardinality(Of(v)) /\ VerdictCount(v) \in Nat
                /\ IsFiniteSet(Of(v))
      /\ DOMAIN evals = 1 .. Len(evals) /\ Len(evals) \in Nat
  BY CountsAreOf
<1>2. \A v, w : v # w => Of(v) \cap Of(w) = {}
  BY DEF Of
<1>3. \A v, w : v # w =>
          /\ IsFiniteSet(Of(v) \cup Of(w))
          /\ Cardinality(Of(v) \cup Of(w)) = VerdictCount(v) + VerdictCount(w)
  <2>1. SUFFICES \A v, w : v # w =>
          /\ IsFiniteSet(Of(v) \cup Of(w))
          /\ Cardinality(Of(v) \cup Of(w)) = VerdictCount(v) + VerdictCount(w)
    OBVIOUS
  <2>2. TAKE v, w
  <2>3. HAVE v # w
  <2>4. Of(v) \cap Of(w) = {} /\ IsFiniteSet(Of(v)) /\ IsFiniteSet(Of(w))
    BY <1>1, <1>2, <2>3
  <2>5. /\ IsFiniteSet(Of(v) \cup Of(w))
        /\ Cardinality(Of(v) \cup Of(w)) = Cardinality(Of(v)) + Cardinality(Of(w))
                                            - Cardinality(Of(v) \cap Of(w))
    BY <2>4, FS_Union
  <2>6. Cardinality(Of(v) \cap Of(w)) = 0
    BY <2>4, FS_EmptySet
  <2>7. QED
    BY <1>1, <2>5, <2>6
<1>4. /\ IsFiniteSet(good) /\ Cardinality(good) = VerdictCount("CORRECT") + VerdictCount("PARTIAL")
      /\ IsFiniteSet(bad) /\ Cardinality(bad) = VerdictCount("WRONG") + VerdictCount("ERROR")
  BY <1>3
<1>5. good \cap bad = {} /\ good \cup bad = DOMAIN evals
  <2>1. \A i \in DOMAIN evals : evals[i].verdict \in {"CORRECT", "PARTIAL", "WRONG", "ERROR"}
    BY DEF QuestionsInv, IsEarned, BenchVerdicts
  <2>2. QED
    BY <2>1 DEF Of
<1>6. good = {i \in DOMAIN evals : evals[i].verdict \in {"CORRECT", "PARTIAL"}}
  BY DEF Of
<1> HIDE DEF good, bad
<1>7. Cardinality(good) + Cardinality(bad) = Len(evals)
  <2>1. Cardinality(good \cup bad) = Cardinality(good) + Cardinality(bad) - Cardinality(good \cap bad)
    BY <1>4, FS_Union
  <2>2. Cardinality(good \cap bad) = 0
    BY <1>5, FS_EmptySet
  <2>3. Cardinality(good \cup bad) = Len(evals)
    <3>1. Cardinality(1 .. Len(evals)) = Len(evals)
      <4>1. Cardinality(1 .. Len(evals)) =
                IF 1 > Len(evals) THEN 0 ELSE Len(evals) - 1 + 1
        BY <1>1, FS_Interval
      <4>2. QED
        BY <1>1, <4>1
    <3>2. QED
      BY <1>1, <1>5, <3>1
  <2>4. QED
    BY <1>1, <1>4, <2>1, <2>2, <2>3
<1>8. QED
  BY <1>1, <1>4, <1>6, <1>7

\* A verdict that is counted zero times is given to nobody.
LEMMA NoneIsCounted ==
    ASSUME QuestionsInv, NEW v, VerdictCount(v) = 0
    PROVE  \A i \in DOMAIN evals : evals[i].verdict # v
<1>1. IsFiniteSet(Of(v)) /\ Cardinality(Of(v)) = 0
  BY CountsAreOf
<1>2. Of(v) = {}
  BY <1>1, FS_EmptySet
<1>3. QED
  BY <1>2 DEF Of

\* The report and its counts do not change with anything but the judgements.
LEMMA ReportKept ==
    ASSUME UNCHANGED <<fixture, evals>>
    PROVE  /\ BenchReport' = BenchReport /\ Len(ActiveCases)' = Len(ActiveCases)
           /\ VerdictCount("WRONG")' = VerdictCount("WRONG")
           /\ VerdictCount("ERROR")' = VerdictCount("ERROR")
<1>1. ActiveCases' = ActiveCases
  BY DEF ActiveCases
<1>2. \A v : VerdictCount(v)' = VerdictCount(v)
  BY DEF VerdictCount
<1>3. QED
  BY <1>1, <1>2 DEF BenchReport

\* The report, the manifest and the exit code follow the judgements.
LEMMA ReportsStep == ASSUME BenchInv, [BenchRunNext]_benchRunVars PROVE ReportsInv'
<1> USE DEF benchLockPart, benchEndsPart, questionsPart, ReportsInv, BenchRunning, BenchInv
<1>1. CASE BenchAcquire
  BY <1>1 DEF BenchAcquire
<1>2. CASE BenchRefused
  BY <1>2 DEF BenchRefused
<1>3. CASE BenchPreflightPasses
  BY <1>3 DEF BenchPreflightPasses
<1>4. CASE BenchPreflightFails
  BY <1>4 DEF BenchPreflightFails
<1>5. CASE AskNext
  BY <1>5 DEF AskNext
<1>6. CASE RateLimited
  BY <1>6 DEF RateLimited
<1>7. CASE Unanswerable
  BY <1>7 DEF Unanswerable, Concludes
<1>8. CASE StreamLost
  BY <1>8 DEF StreamLost, Concludes
<1>9. CASE Streamed
  BY <1>9 DEF Streamed, Concludes
<1>10. CASE EvaluatorRaises
  BY <1>10 DEF EvaluatorRaises
<1>11. CASE VisitorChats
  BY <1>11 DEF VisitorChats
<1>12. CASE BenchReportWritten
  <2>1. /\ Len(evals) = Len(ActiveCases) /\ fixture \in DOMAIN Fixtures
        /\ VerdictCount("WRONG") \in Nat /\ VerdictCount("ERROR") \in Nat
    BY <1>12, CountsAreOf DEF BenchReportWritten, QuestionsInv
  <2>2. BenchReport # NoReport
    BY <2>1, ReportIsSome
  <2>3. /\ BenchReport' = BenchReport /\ Len(ActiveCases)' = Len(ActiveCases)
        /\ VerdictCount("WRONG")' = VerdictCount("WRONG")
        /\ VerdictCount("ERROR")' = VerdictCount("ERROR")
    BY <1>12, ReportKept DEF BenchReportWritten
  <2>4. benchCode' = 0 => VerdictCount("WRONG") + VerdictCount("ERROR") = 0
    BY <1>12, <2>1 DEF BenchReportWritten
  <2>5. QED
    BY <1>12, <2>1, <2>2, <2>3, <2>4 DEF BenchReportWritten
<1>13. CASE BenchReportFails
  <2>1. Len(evals) = Len(ActiveCases)
    BY <1>13 DEF BenchReportFails, QuestionsInv
  <2>2. /\ BenchReport' = BenchReport /\ Len(ActiveCases)' = Len(ActiveCases)
    BY <1>13, ReportKept DEF BenchReportFails
  <2>3. QED
    BY <1>13, <2>1, <2>2 DEF BenchReportFails
<1>14. CASE Finalises
  BY <1>14, ReportKept DEF Finalises
<1>15. CASE BenchDies
  BY <1>15, ReportKept DEF BenchDies
<1>16. CASE UNCHANGED benchRunVars
  BY <1>16, ReportKept DEF benchRunVars
<1>17. QED
  BY <1>1, <1>2, <1>3, <1>4, <1>5, <1>6, <1>7, <1>8, <1>9, <1>10, <1>11, <1>12, <1>13,
     <1>14, <1>15, <1>16 DEF BenchRunNext

\* A run starts with nothing asked.
LEMMA BenchStarts == BenchRunInit => BenchInv
<1>1. BenchRunInit => QuestionsInv
  BY DEF BenchRunInit, QuestionsInv
<1>2. BenchRunInit => ReportsInv
  BY DEF BenchRunInit, ReportsInv, BenchRunning
<1>3. QED
  BY <1>1, <1>2 DEF BenchInv

\* BenchInv is an invariant of the benchmark: every question that is over is judged once,
\* as earned, and the report, the manifest, the lock and the exit code go with that.
THEOREM BenchIsInOrder == BenchRunSpec => []BenchInv
<1>1. BenchInv /\ [BenchRunNext]_benchRunVars => BenchInv'
  BY QuestionsStep, ReportsStep DEF BenchInv
<1>2. QED
  BY <1>1, BenchStarts, PTL DEF BenchRunSpec

\* Judgements that are each earned are earned together.
LEMMA VerdictsFollow == QuestionsInv => VerdictsAreEarned
BY DEF QuestionsInv, IsEarned, VerdictsAreEarned

\* A report over all judgements accounts for every case.
LEMMA AccountFollows == BenchInv => RunIsAccountedFor
<1> SUFFICES ASSUME BenchInv PROVE RunIsAccountedFor
  OBVIOUS
<1> USE DEF BenchInv
<1> DEFINE c == reportFile.counts
<1>1. ASSUME reportFile # NoReport
      PROVE  /\ Len(evals) = Len(ActiveCases) /\ reportFile.total = Len(ActiveCases)
             /\ c["CORRECT"] + c["PARTIAL"] + c["WRONG"] + c["ERROR"] = reportFile.total
             /\ reportFile.passed = reportFile.total - c["WRONG"] - c["ERROR"]
  <2>1. Len(evals) = Len(ActiveCases) /\ reportFile = BenchReport
    BY <1>1 DEF ReportsInv
  <2>2. /\ c["CORRECT"] = VerdictCount("CORRECT") /\ c["PARTIAL"] = VerdictCount("PARTIAL")
        /\ c["WRONG"] = VerdictCount("WRONG") /\ c["ERROR"] = VerdictCount("ERROR")
        /\ reportFile.total = Len(ActiveCases)
        /\ reportFile.passed = Cardinality({i \in DOMAIN evals :
                                              evals[i].verdict \in {"CORRECT", "PARTIAL"}})
    BY <2>1 DEF BenchReport, BenchVerdicts
  <2>3. \A v : VerdictCount(v) \in Nat
    BY CountsAreOf
  <2>4. QED
    BY <2>1, <2>2, <2>3, CountsAddUp
<1>2. benchManifest = "completed" => reportFile # NoReport
  BY DEF ReportsInv
<1>3. benchManifest = "running" => benchLock \in {"own", "dead"}
  BY DEF ReportsInv, BenchRunning
<1>4. ASSUME benchAt = "exited", benchCode = 0
      PROVE  /\ benchManifest = "completed" /\ reportFile.infra = 0
             /\ \A i \in DOMAIN evals : evals[i].verdict \in {"CORRECT", "PARTIAL"}
  <2>1. /\ benchManifest = "completed" /\ reportFile = BenchReport
        /\ VerdictCount("WRONG") + VerdictCount("ERROR") = 0
    BY <1>4 DEF ReportsInv
  <2>2. VerdictCount("WRONG") = 0 /\ VerdictCount("ERROR") = 0
    <3>1. VerdictCount("WRONG") \in Nat /\ VerdictCount("ERROR") \in Nat
      BY CountsAreOf
    <3>2. QED
      BY <2>1, <3>1
  <2>3. \A i \in DOMAIN evals : evals[i].verdict # "WRONG" /\ evals[i].verdict # "ERROR"
    BY <2>2, NoneIsCounted
  <2>4. \A i \in DOMAIN evals : /\ evals[i].verdict \in {"CORRECT", "PARTIAL"}
                                /\ ~(evals[i].infra \/ evals[i].blame = "infra")
    BY <2>3 DEF QuestionsInv, IsEarned, BenchVerdicts
  <2>5. {i \in DOMAIN evals : evals[i].infra \/ evals[i].blame = "infra"} = {}
    BY <2>4
  <2>6. reportFile.infra = 0
    BY <2>1, <2>5, FS_EmptySet DEF BenchReport
  <2>7. QED
    BY <2>1, <2>4, <2>6
<1>5. QED
  BY <1>1, <1>2, <1>3, <1>4 DEF RunIsAccountedFor

-----------------------------------------------------------------------------
(* The records of a benchmark *)

\* Nobody's records begin twice: those of the current question have not begun while its
\* answer is read, and no later ones have.
BacklogsAreApart ==
    /\ ToSet(backlogs) \subseteq 1 .. questioned \cup {Visitor}
    /\ IsInjective(backlogs) /\ ended \subseteq ToSet(backlogs)
    /\ unrecorded \subseteq 1 .. questioned
    /\ benchAt = "reading" => questioned \notin ToSet(backlogs)

\* A case is given once, at most QuestionAttempts times over.
CasesAreGiven ==
    /\ questionTry \in 0 .. QuestionAttempts
    /\ questioned <= Len(ActiveCases) /\ Len(evals) <= questioned
    /\ benchLock \in {"free", "own", "dead", "other"}
    /\ benchManifest \in {"none", "running", "completed", "failed"}
    /\ finished \in BOOLEAN /\ benchCode \in {0, 1, 2, 9}

\* Records that begin are the newest.
LEMMA BacklogBegins ==
    ASSUME NEW S, NEW s \in Seq(S), NEW x \in S, IsInjective(s), x \notin ToSet(s)
    PROVE  IsInjective(<<x>> \o s) /\ ToSet(<<x>> \o s) = ToSet(s) \cup {x}
<1> DEFINE t == <<x>> \o s
<1>1. /\ Len(s) \in Nat /\ DOMAIN s = 1 .. Len(s) /\ DOMAIN t = 1 .. Len(s) + 1
      /\ t[1] = x /\ \A i \in 1 .. Len(s) : t[i + 1] = s[i]
  OBVIOUS
<1> HIDE DEF t
<1>2. \A i \in 2 .. Len(s) + 1 : i - 1 \in DOMAIN s /\ t[i] = s[i - 1] /\ t[i] \in ToSet(s)
  <2>1. TAKE i \in 2 .. Len(s) + 1
  <2>2. i - 1 \in 1 .. Len(s) /\ (i - 1) + 1 = i
    BY <1>1
  <2>3. t[i] = s[i - 1]
    BY <1>1, <2>2
  <2>4. QED
    BY <1>1, <2>2, <2>3 DEF ToSet
<1>3. ASSUME NEW i \in DOMAIN t, NEW j \in DOMAIN t, t[i] = t[j]
      PROVE  i = j
  <2>1. CASE i = 1 /\ j = 1
    BY <2>1
  <2>2. CASE i = 1 /\ j # 1
    <3>1. j \in 2 .. Len(s) + 1
      BY <1>1, <2>2
    <3>2. QED
      BY <1>1, <1>2, <1>3, <2>2, <3>1
  <2>3. CASE i # 1 /\ j = 1
    <3>1. i \in 2 .. Len(s) + 1
      BY <1>1, <2>3
    <3>2. QED
      BY <1>1, <1>2, <1>3, <2>3, <3>1
  <2>4. CASE i # 1 /\ j # 1
    <3>1. i \in 2 .. Len(s) + 1 /\ j \in 2 .. Len(s) + 1
      BY <1>1, <2>4
    <3>2. i - 1 = j - 1
      BY <1>2, <1>3, <3>1 DEF IsInjective
    <3>3. QED
      BY <3>1, <3>2
  <2>5. QED
    BY <2>1, <2>2, <2>3, <2>4
<1>4. ToSet(t) = ToSet(s) \cup {x}
  <2>1. \A i \in DOMAIN t : t[i] \in ToSet(s) \cup {x}
    <3>1. TAKE i \in DOMAIN t
    <3>2. i = 1 \/ i \in 2 .. Len(s) + 1
      BY <1>1
    <3>3. QED
      BY <1>1, <1>2, <3>2
  <2>2. \A i \in DOMAIN s : i + 1 \in DOMAIN t /\ t[i + 1] = s[i]
    BY <1>1
  <2>3. 1 \in DOMAIN t /\ t[1] = x
    BY <1>1
  <2>4. QED
    BY <2>1, <2>2, <2>3 DEF ToSet
<1>5. QED
  BY <1>3, <1>4 DEF IsInjective, t

\* The API's records of the current question begin once.
LEMMA RecordsStayApart ==
    ASSUME BenchInv, BacklogsAreApart, benchAt = "reading", UNCHANGED questioned,
           benchAt' # "reading",
           (\E end \in BOOLEAN : RecordsTurn(end)) \/ RecordsNothing
    PROVE  BacklogsAreApart'
<1>1. /\ questioned \in Nat /\ questioned >= 1 /\ backlogs \in Seq(Nat)
  <2>1. /\ questioned \in Nat /\ Len(evals) + 1 = questioned /\ evals \in Seq(ToSet(evals))
        /\ backlogs \in Seq(Nat)
    BY DEF BenchInv, QuestionsInv, Recorders
  <2>2. Len(evals) \in Nat
    BY <2>1, LenProperties
  <2>3. QED
    BY <2>1, <2>2
<1>2. questioned \in 1 .. questioned
  BY <1>1
<1>3. CASE RecordsNothing
  BY <1>2, <1>3 DEF BacklogsAreApart, RecordsNothing, BenchSession
<1>4. ASSUME NEW end \in BOOLEAN, RecordsTurn(end)
      PROVE  BacklogsAreApart'
  <2>1. /\ backlogs' = <<questioned>> \o backlogs /\ unrecorded' = unrecorded
        /\ ended' \in {ended, ended \cup {questioned}}
    BY <1>4 DEF RecordsTurn, BenchSession
  <2>2. IsInjective(backlogs') /\ ToSet(backlogs') = ToSet(backlogs) \cup {questioned}
    BY <1>1, <2>1, BacklogBegins DEF BacklogsAreApart
  <2>3. QED
    BY <1>2, <2>1, <2>2 DEF BacklogsAreApart
<1>5. QED
  BY <1>3, <1>4

\* No step of the benchmark records anybody twice.
LEMMA BacklogsStep ==
    ASSUME BenchInv, BacklogsAreApart, [BenchRunNext]_benchRunVars
    PROVE  BacklogsAreApart'
<1> USE DEF benchLockPart, benchEndsPart, questionsPart
<1>1. CASE /\ UNCHANGED <<questioned, backlogs, ended, unrecorded>>
           /\ benchAt' = "reading" => benchAt = "reading"
  BY <1>1 DEF BacklogsAreApart
<1>2. CASE AskNext
  <2>1. /\ questioned' = questioned + 1 /\ questioned \in Nat
        /\ UNCHANGED <<backlogs, ended, unrecorded>>
    BY <1>2 DEF AskNext, BenchInv, QuestionsInv
  <2>2. 1 .. questioned \subseteq 1 .. questioned' /\ questioned' \notin 1 .. questioned \cup {Visitor}
    BY <2>1 DEF Visitor
  <2>3. QED
    BY <2>1, <2>2 DEF BacklogsAreApart
<1>3. CASE StreamLost
  BY <1>3, RecordsStayApart DEF StreamLost, Concludes
<1>4. CASE Streamed
  BY <1>4, RecordsStayApart DEF Streamed, Concludes
<1>5. CASE EvaluatorRaises
  BY <1>5, RecordsStayApart DEF EvaluatorRaises
<1>6. CASE VisitorChats
  <2>1. /\ backlogs' = <<Visitor>> \o backlogs /\ ended' = ended \cup {Visitor}
        /\ UNCHANGED <<benchAt, questioned, unrecorded>> /\ Visitor \notin ToSet(backlogs)
    BY <1>6 DEF VisitorChats
  <2>2. /\ backlogs \in Seq(Nat) /\ Visitor \in Nat
    BY DEF BenchInv, QuestionsInv, Recorders, Visitor
  <2>3. IsInjective(backlogs') /\ ToSet(backlogs') = ToSet(backlogs) \cup {Visitor}
    BY <2>1, <2>2, BacklogBegins DEF BacklogsAreApart
  <2>4. benchAt = "reading" => questioned # Visitor
    <3>1. ASSUME benchAt = "reading" PROVE questioned # 0
      <4>1. Len(evals) + 1 = questioned /\ evals \in Seq(ToSet(evals))
        BY <3>1 DEF BenchInv, QuestionsInv
      <4>2. Len(evals) \in Nat
        BY <4>1, LenProperties
      <4>3. QED
        BY <4>1, <4>2
    <3>2. QED
      BY <3>1 DEF Visitor
  <2>5. QED
    BY <2>1, <2>3, <2>4 DEF BacklogsAreApart
<1>7. QED
  BY <1>1, <1>2, <1>3, <1>4, <1>5, <1>6
     DEF BenchRunNext, BenchAcquire, BenchRefused, BenchPreflightPasses, BenchPreflightFails,
         RateLimited, Unanswerable, Concludes, BenchReportWritten, BenchReportFails, Finalises,
         BenchDies, benchRunVars

\* No case is given twice or judged before it is given.
LEMMA CasesStep ==
    ASSUME BenchInv, CasesAreGiven, [BenchRunNext]_benchRunVars
    PROVE  CasesAreGiven'
<1> USE DEF benchLockPart, benchEndsPart, questionsPart
<1>1. /\ fixture \in DOMAIN Fixtures /\ questioned \in Nat /\ evals \in Seq(ToSet(evals))
      /\ Len(ActiveCases) \in Nat
  BY CasesAreSome DEF BenchInv, QuestionsInv
<1>2. fixture' = fixture
  BY DEF BenchRunNext, BenchAcquire, BenchRefused, BenchPreflightPasses, BenchPreflightFails,
         AskNext, RateLimited, Unanswerable, StreamLost, Streamed, EvaluatorRaises,
         VisitorChats, BenchReportWritten, BenchReportFails, Finalises, BenchDies, benchRunVars
<1>3. Len(ActiveCases)' = Len(ActiveCases)
  BY <1>2 DEF ActiveCases
<1>4. /\ benchLock' \in {"free", "own", "dead", "other"}
      /\ benchManifest' \in {"none", "running", "completed", "failed"}
      /\ finished' \in BOOLEAN /\ benchCode' \in {0, 1, 2, 9}
  BY DEF CasesAreGiven, BenchRunNext, BenchAcquire, BenchRefused, BenchPreflightPasses,
         BenchPreflightFails, AskNext, RateLimited, Unanswerable, StreamLost, Streamed,
         EvaluatorRaises, VisitorChats, BenchReportWritten, BenchReportFails, Finalises,
         BenchDies, benchRunVars
<1>5. questionTry' \in 0 .. QuestionAttempts
  <2>1. questionTry' \in {questionTry, 0, 1} \/ RateLimited
    BY DEF BenchRunNext, BenchAcquire, BenchRefused, BenchPreflightPasses,
           BenchPreflightFails, AskNext, Unanswerable, StreamLost, Streamed, Concludes,
           EvaluatorRaises, VisitorChats, BenchReportWritten, BenchReportFails, Finalises,
           BenchDies, benchRunVars
  <2>2. CASE RateLimited
    BY <2>2 DEF RateLimited, CasesAreGiven, QuestionAttempts
  <2>3. QED
    BY <2>1, <2>2 DEF CasesAreGiven, QuestionAttempts
<1>6. questioned' <= Len(ActiveCases)' /\ Len(evals') <= questioned'
  <2>1. Len(evals) \in Nat
    BY <1>1, LenProperties
  <2>2. CASE AskNext
    BY <1>1, <1>3, <2>1, <2>2 DEF AskNext, CasesAreGiven
  <2>3. CASE benchAt = "reading" /\ UNCHANGED questioned /\ \E e : evals' = Append(evals, e)
    <3>1. Len(evals') = Len(evals) + 1
      BY <1>1, <2>3, EvalAppended
    <3>2. Len(evals) + 1 = questioned
      BY <2>3 DEF BenchInv, QuestionsInv
    <3>3. QED
      BY <1>1, <1>3, <2>3, <3>1, <3>2 DEF CasesAreGiven
  <2>4. CASE UNCHANGED <<questioned, evals>>
    BY <1>3, <2>4 DEF CasesAreGiven
  <2>5. QED
    BY <2>2, <2>3, <2>4
       DEF BenchRunNext, BenchAcquire, BenchRefused, BenchPreflightPasses, BenchPreflightFails,
           RateLimited, Unanswerable, StreamLost, Streamed, Concludes, EvaluatorRaises,
           VisitorChats, BenchReportWritten, BenchReportFails, Finalises, BenchDies,
           benchRunVars
<1>7. QED
  BY <1>4, <1>5, <1>6 DEF CasesAreGiven

\* A benchmark gives each case once and tells apart whose records are whose.
THEOREM BenchStaysTyped == BenchRunSpec => []BenchRunTypeOK
<1>1. BenchRunInit => BacklogsAreApart /\ CasesAreGiven
  <2> SUFFICES ASSUME BenchRunInit PROVE BacklogsAreApart /\ CasesAreGiven
    OBVIOUS
  <2>1. ToSet(backlogs) = {} /\ IsInjective(backlogs) /\ Len(evals) = 0
    BY DEF BenchRunInit, ToSet, IsInjective
  <2>2. Len(ActiveCases) \in Nat
    BY CasesAreSome DEF BenchRunInit
  <2>3. /\ benchAt = "idle" /\ benchLock \in {"free", "dead", "other"} /\ benchManifest = "none"
        /\ questionTry = 0 /\ questioned = 0 /\ ended = {} /\ unrecorded = {}
        /\ finished = FALSE /\ benchCode = 9
    BY DEF BenchRunInit
  <2>4. BacklogsAreApart
    BY <2>1, <2>3 DEF BacklogsAreApart
  <2>5. /\ questionTry \in 0 .. QuestionAttempts /\ questioned <= Len(ActiveCases)
        /\ Len(evals) <= questioned
    BY <2>1, <2>2, <2>3 DEF QuestionAttempts
  <2>6. finished \in BOOLEAN
    BY <2>3
  <2>7. QED
    BY <2>3, <2>4, <2>5, <2>6 DEF CasesAreGiven
<1>2. BenchInv /\ BacklogsAreApart /\ CasesAreGiven /\ [BenchRunNext]_benchRunVars
         => BacklogsAreApart' /\ CasesAreGiven'
  BY BacklogsStep, CasesStep
<1>3. ASSUME BenchInv, BacklogsAreApart, CasesAreGiven
      PROVE  BenchRunTypeOK
  <2>1. /\ questioned \in Nat /\ Len(ActiveCases) \in Nat
        /\ questioned <= Len(ActiveCases)
    BY <1>3, CasesAreSome DEF BenchInv, QuestionsInv, CasesAreGiven
  <2>2. 1 .. questioned \subseteq BenchSessions /\ questioned \in 0 .. Len(ActiveCases)
    BY <2>1 DEF BenchSessions
  <2>3. \A i \in DOMAIN evals : evals[i].verdict \in BenchVerdicts
    BY <1>3 DEF BenchInv, QuestionsInv, IsEarned
  <2>4. ToSet(backlogs) \subseteq BenchSessions \cup {Visitor} /\ unrecorded \subseteq BenchSessions
    BY <1>3, <2>2 DEF BacklogsAreApart
  <2>5. fixture \in DOMAIN Fixtures /\ benchAt \in {"idle", "exited"} \cup BenchRunning
    BY <1>3 DEF BenchInv, QuestionsInv, ReportsInv
  <2>6. QED
    BY <1>3, <2>2, <2>3, <2>4, <2>5
       DEF BenchRunning, BacklogsAreApart, CasesAreGiven, BenchRunTypeOK
<1>4. QED
  BY <1>1, <1>2, <1>3, BenchIsInOrder, PTL DEF BenchRunSpec

\* A verdict of the benchmark is earned by the turn it is about, measured by that turn's
\* record, and the report, the manifest and the exit code account for every case.
THEOREM BenchIsFairAlways == BenchRunSpec => []BenchIsFair
<1>1. BenchInv /\ BenchRunTypeOK => BenchIsFair
  BY VerdictsFollow, AccountFollows DEF BenchInv, BenchIsFair
<1>2. QED
  BY <1>1, BenchIsInOrder, BenchStaysTyped, PTL

-----------------------------------------------------------------------------
(* The turns of chat *)

\* The turns of a session that are over: the last one is, unless it is in flight.
OverBy(s) == IF flight[s] = "idle" THEN turnsMade[s] ELSE turnsMade[s] - 1

DrivenTyped ==
    /\ bound \in [ChatSessionIds -> Nat] /\ turnsMade \in [ChatSessionIds -> Nat]
    /\ \A s \in ChatSessionIds :
          /\ bound[s] <= turnsMade[s] /\ turnsMade[s] <= TurnsOf[s]
          /\ flight[s] # "idle" => turnsMade[s] > 0 /\ stageVerdict = "open"

\* Each turn that is over has its one record.
TurnsAreFiled ==
    \A s \in ChatSessionIds : \A n \in Nat :
        <<s, n>> \in DOMAIN filed <=> n \in 1 .. OverBy(s)

\* A connection is left in a bad state by a turn that failed.
WiresAreKnown ==
    \A s \in ChatSessionIds :
        wire[s] = "stuck" => \E n \in 1 .. OverBy(s) : filed[<<s, n>>].class # "ok"

\* The client has the token, or still reads the stream it comes with, or that stream broke.
TokensAreKnown ==
    \A s \in ChatSessionIds :
        /\ flight[s] = "sent" => bound[s] # turnsMade[s]
        /\ bound[s] # 0 /\ ~holds[s] =>
              \/ bound[s] = turnsMade[s] /\ flight[s] = "streaming"
              \/ /\ bound[s] \in 1 .. OverBy(s)
                 /\ filed[<<s, bound[s]>>].class \in Broken \cup {"sse_abort"}

\* The stub logs what it has answered.
RowsAreServed == \A t \in DrivenTurns : logRows[t] <= served[t]

ChatTurnsInv ==
    /\ ChatTurnsTypeOK /\ DrivenTyped /\ TurnsAreFiled /\ WiresAreKnown /\ TokensAreKnown
    /\ RowsAreServed /\ OverheadIsOwn /\ FaultsStayInSession

-----------------------------------------------------------------------------
\* A turn is one of a session, and its number.
LEMMA TurnIs ==
    ASSUME NEW s, NEW n
    PROVE  <<s, n>> \in DrivenTurns <=> s \in ChatSessionIds /\ n \in 1 .. TurnsOf[s]
<1>1. <<s, n>> \in DrivenTurns <=> \E q \in ChatSessionIds : <<s, n>> \in {q} \X (1 .. TurnsOf[q])
  BY DEF DrivenTurns
<1>2. QED
  BY <1>1

\* What is kept of a turn.
LEMMA TurnHas ==
    ASSUME NEW t \in DrivenTurns
    PROVE  /\ t[1] \in ChatSessionIds /\ t[2] \in 1 .. TurnsOf[t[1]] /\ t = <<t[1], t[2]>>
<1>1. PICK s \in ChatSessionIds : t \in {s} \X (1 .. TurnsOf[s])
  BY DEF DrivenTurns
<1>2. QED
  BY <1>1

\* The bounds are numbers.
LEMMA TurnLimits ==
    ASSUME NEW s \in ChatSessionIds
    PROVE  TurnsOf[s] \in Nat /\ TurnsOf[s] > 0
BY ChatTurnsAssumption

\* A sum of one member.
LEMMA LoggedIsOwn ==
    ASSUME NEW t \in DrivenTurns, logRows \in [DrivenTurns -> 0 .. RoundsEach]
    PROVE  LoggedTime(MarkerOf(t)) = logRows[t] /\ logRows[t] \in Nat
<1>1. {u \in DrivenTurns : MarkerOf(u) = MarkerOf(t)} = {t}
  BY DEF MarkerOf
<1>2. logRows[t] \in Nat
  BY ChatTurnsAssumption
<1>3. IsFiniteSet({t}) /\ {t} \ {t} = {}
  BY FS_Singleton
<1>4. SumOver(logRows, {t}) = logRows[t] + SumOver(logRows, {})
  BY <1>2, <1>3, SumTakes
<1>5. QED
  BY <1>1, <1>2, <1>4, SumOfNone DEF LoggedTime

\* What a stage is judged on is not touched any more, and while it is not judged, anything goes.
LEMMA OpenIsOwn ==
    ASSUME stageVerdict' = "open"
    PROVE  OverheadIsOwn'
BY DEF OverheadIsOwn

-----------------------------------------------------------------------------
\* A turn of session s that ends with a record.
FiledOne(s, n, class) ==
    /\ n = OverBy(s) + 1 /\ n <= TurnsOf[s]
    /\ class \in {"ok", "sse_abort"} \cup StatusClasses \cup Broken
    /\ stageVerdict = "open" /\ stageVerdict' = "open"
    /\ DOMAIN filed' = DOMAIN filed \cup {<<s, n>>}
    /\ \A t \in DOMAIN filed : t # <<s, n>> => filed'[t] = filed[t]
    /\ filed'[<<s, n>>].class = class
    /\ filed'[<<s, n>>].sent \/ wire[s] = "stuck"
    /\ turnsMade' = [turnsMade EXCEPT ![s] = n]
    /\ \A q \in ChatSessionIds : flight'[q] = IF q = s THEN "idle" ELSE flight[q]
    /\ \A q \in ChatSessionIds :
          wire'[q] = "stuck" => wire[q] = "stuck" \/ (q = s /\ class # "ok")
    /\ class = "401" => bound[s] # 0 /\ ~holds[s] /\ bound[s] # n
    /\ bound' \in [ChatSessionIds -> Nat]
    /\ \A q \in ChatSessionIds : bound'[q] # bound[q] => q = s /\ bound'[q] = n
    /\ holds' = holds
    /\ bound'[s] = n /\ ~holds[s] => class \in Broken \cup {"sse_abort"}
    /\ logRows' = logRows /\ served' = served

\* The record of the turn in flight, and of no other, is added.
LEMMA FilingKeeps ==
    ASSUME ChatTurnsInv, ChatTurnsTypeOK', NEW s \in ChatSessionIds, NEW n \in Nat,
           NEW class, FiledOne(s, n, class)
    PROVE  ChatTurnsInv'
<1> USE DEF FiledOne
<1>1. /\ ChatTurnsTypeOK /\ DrivenTyped /\ TurnsAreFiled /\ WiresAreKnown /\ TokensAreKnown
      /\ RowsAreServed /\ FaultsStayInSession
  BY DEF ChatTurnsInv
<1>2. /\ turnsMade \in [ChatSessionIds -> Nat] /\ bound \in [ChatSessionIds -> Nat]
      /\ turnsMade' \in [ChatSessionIds -> Nat]
      /\ turnsMade'[s] = n /\ \A q \in ChatSessionIds \ {s} : turnsMade'[q] = turnsMade[q]
  BY <1>1 DEF DrivenTyped
<1>3. /\ OverBy(s)' = n
      /\ \A q \in ChatSessionIds \ {s} : OverBy(q)' = OverBy(q)
      /\ \A q \in ChatSessionIds : OverBy(q) \in Nat /\ OverBy(q)' \in Nat
  <2>1. OverBy(s)' = n
    BY <1>2 DEF OverBy
  <2>2. ASSUME NEW q \in ChatSessionIds PROVE OverBy(q) \in Nat
    BY <1>1, <1>2 DEF OverBy, DrivenTyped
  <2>3. ASSUME NEW q \in ChatSessionIds \ {s} PROVE OverBy(q)' = OverBy(q)
    BY <1>2 DEF OverBy
  <2>4. QED
    BY <2>1, <2>2, <2>3
<1>4. /\ DOMAIN filed' = DOMAIN filed \cup {<<s, n>>}
      /\ filed'[<<s, n>>].class = class
      /\ \A t \in DOMAIN filed : t # <<s, n>> => filed'[t] = filed[t]
  OBVIOUS
<1>5. \A q \in ChatSessionIds : \A k \in 1 .. OverBy(q) :
         /\ <<q, k>> \in DOMAIN filed /\ <<q, k>> # <<s, n>>
         /\ filed'[<<q, k>>] = filed[<<q, k>>]
  <2> SUFFICES ASSUME NEW q \in ChatSessionIds, NEW k \in 1 .. OverBy(q)
               PROVE  <<q, k>> \in DOMAIN filed /\ <<q, k>> # <<s, n>>
    BY <1>4
  <2>1. k \in Nat
    BY <1>3
  <2>2. <<q, k>> \in DOMAIN filed
    BY <1>1, <2>1 DEF TurnsAreFiled
  <2>3. q = s => k < n
    BY <1>3
  <2>4. QED
    BY <2>2, <2>3
<1>6. DrivenTyped'
  <2> SUFFICES ASSUME NEW q \in ChatSessionIds
               PROVE  /\ bound'[q] <= turnsMade'[q] /\ turnsMade'[q] <= TurnsOf[q]
                      /\ flight'[q] # "idle" => turnsMade'[q] > 0
    BY <1>2 DEF DrivenTyped
  <2>1. CASE q = s
    <3>1. turnsMade[s] <= n
      BY <1>2 DEF OverBy
    <3>2. QED
      BY <1>1, <1>2, <2>1, <3>1, TurnLimits DEF DrivenTyped
  <2>2. CASE q # s
    BY <1>1, <1>2, <2>2 DEF DrivenTyped
  <2>3. QED
    BY <2>1, <2>2
<1>7. TurnsAreFiled'
  <2> SUFFICES ASSUME NEW q \in ChatSessionIds, NEW k \in Nat
               PROVE  <<q, k>> \in DOMAIN filed' <=> k \in 1 .. OverBy(q)'
    BY DEF TurnsAreFiled, OverBy
  <2>1. <<q, k>> \in DOMAIN filed <=> k \in 1 .. OverBy(q)
    BY <1>1 DEF TurnsAreFiled
  <2>2. <<q, k>> = <<s, n>> <=> q = s /\ k = n
    OBVIOUS
  <2>3. <<q, k>> \in DOMAIN filed' <=> k \in 1 .. OverBy(q) \/ (q = s /\ k = n)
    BY <1>4, <2>1, <2>2
  <2>4. CASE q = s
    BY <1>3, <2>3, <2>4
  <2>5. CASE q # s
    BY <1>3, <2>3, <2>5
  <2>6. QED
    BY <2>4, <2>5
<1>8. WiresAreKnown'
  <2> SUFFICES ASSUME NEW q \in ChatSessionIds, wire'[q] = "stuck"
               PROVE  \E k \in 1 .. OverBy(q)' : filed'[<<q, k>>].class # "ok"
    BY DEF WiresAreKnown, OverBy
  <2>1. CASE wire[q] = "stuck"
    <3>1. PICK k \in 1 .. OverBy(q) : filed[<<q, k>>].class # "ok"
      BY <1>1, <2>1 DEF WiresAreKnown
    <3>2. k \in 1 .. OverBy(q)'
      BY <1>3
    <3>3. QED
      BY <1>5, <3>1, <3>2
  <2>2. CASE wire[q] # "stuck"
    <3>1. q = s /\ class # "ok"
      BY <2>2
    <3>2. n \in 1 .. OverBy(s)'
      BY <1>3
    <3>3. filed'[<<q, n>>].class # "ok"
      BY <1>4, <3>1
    <3>4. QED
      BY <3>1, <3>2, <3>3
  <2>3. QED
    BY <2>1, <2>2
<1>9. TokensAreKnown'
  <2> SUFFICES ASSUME NEW q \in ChatSessionIds
               PROVE  /\ flight'[q] = "sent" => bound'[q] # turnsMade'[q]
                      /\ bound'[q] # 0 /\ ~holds[q] =>
                            \/ bound'[q] = turnsMade'[q] /\ flight'[q] = "streaming"
                            \/ /\ bound'[q] \in 1 .. OverBy(q)'
                               /\ filed'[<<q, bound'[q]>>].class \in Broken \cup {"sse_abort"}
    BY DEF TokensAreKnown, OverBy
  <2>1. CASE q = s /\ bound'[s] = n
    <3>1. n \in 1 .. OverBy(s)' /\ filed'[<<s, n>>].class = class
      BY <1>3, <1>4
    <3>2. QED
      BY <2>1, <3>1
  <2>2. CASE q = s /\ bound'[s] # n
    <3>1. bound'[s] = bound[s]
      BY <2>2
    <3>2. ~(bound[s] = turnsMade[s] /\ flight[s] = "streaming")
      BY <1>2, <2>2, <3>1 DEF OverBy
    <3>3. bound[s] # 0 /\ ~holds[s] =>
             /\ bound[s] \in 1 .. OverBy(s)
             /\ filed[<<s, bound[s]>>].class \in Broken \cup {"sse_abort"}
      BY <1>1, <3>2 DEF TokensAreKnown
    <3>4. bound[s] \in 1 .. OverBy(s) => bound[s] \in 1 .. OverBy(s)'
      BY <1>3
    <3>5. QED
      BY <1>5, <2>2, <3>1, <3>3, <3>4
  <2>3. CASE q # s
    <3>1. bound'[q] = bound[q] /\ flight'[q] = flight[q] /\ turnsMade'[q] = turnsMade[q]
          /\ OverBy(q)' = OverBy(q)
      BY <1>2, <1>3, <2>3
    <3>2. QED
      BY <1>1, <1>5, <3>1 DEF TokensAreKnown
  <2>4. QED
    BY <2>1, <2>2, <2>3
<1>10. FaultsStayInSession'
  <2> DEFINE before(t) == {filed[<<t[1], k>>].class : k \in 1 .. t[2] - 1}
             after(t) == {filed'[<<t[1], k>>].class : k \in 1 .. t[2] - 1}
  <2>1. \A t \in DOMAIN filed' :
           t \in DrivenTurns /\ t[2] \in 1 .. OverBy(t[1])' /\ t = <<t[1], t[2]>>
    <3> SUFFICES ASSUME NEW t \in DOMAIN filed'
                 PROVE  t \in DrivenTurns /\ t[2] \in 1 .. OverBy(t[1])' /\ t = <<t[1], t[2]>>
      OBVIOUS
    <3>1. t \in DrivenTurns
      BY DEF ChatTurnsTypeOK
    <3>2. t[1] \in ChatSessionIds /\ t[2] \in Nat /\ t = <<t[1], t[2]>>
      BY <3>1, TurnHas, TurnLimits
    <3>3. QED
      BY <1>7, <3>1, <3>2 DEF TurnsAreFiled, OverBy
  <2>2. \A t \in DOMAIN filed' : after(t) = before(t)
    <3> SUFFICES ASSUME NEW t \in DOMAIN filed', NEW k \in 1 .. t[2] - 1
                 PROVE  filed'[<<t[1], k>>] = filed[<<t[1], k>>]
      OBVIOUS
    <3>1. t[1] \in ChatSessionIds /\ t[2] \in 1 .. OverBy(t[1])'
      BY <2>1, TurnHas
    <3>2. k \in 1 .. OverBy(t[1])
      <4>1. CASE t[1] = s
        BY <1>3, <3>1, <4>1
      <4>2. CASE t[1] # s
        BY <1>3, <3>1, <4>2
      <4>3. QED
        BY <4>1, <4>2
    <3>3. QED
      BY <1>5, <3>1, <3>2
  <2>3. ASSUME NEW t \in DOMAIN filed'
        PROVE  /\ ~filed'[t].sent => after(t) # {} /\ after(t) # {"ok"}
               /\ filed'[t].class = "401" => after(t) \cap (Broken \cup {"sse_abort"}) # {}
    <3>1. CASE t # <<s, n>>
      <4>1. t \in DOMAIN filed /\ filed'[t] = filed[t]
        BY <1>4, <3>1
      <4>2. /\ ~filed[t].sent => before(t) # {} /\ before(t) # {"ok"}
            /\ filed[t].class = "401" => before(t) \cap (Broken \cup {"sse_abort"}) # {}
        BY <1>1, <4>1 DEF FaultsStayInSession
      <4>3. after(t) = before(t)
        BY <2>2
      <4> HIDE DEF after, before
      <4>4. QED
        BY <4>1, <4>2, <4>3
    <3>2. CASE t = <<s, n>>
      <4>1. (filed'[t].sent \/ wire[s] = "stuck") /\ filed'[t].class = class /\ t[1] = s /\ t[2] = n
        BY <1>4, <3>2
      <4>2. ASSUME NEW k \in 1 .. OverBy(s) PROVE filed[<<s, k>>].class \in before(t)
        <5>1. t[2] - 1 = OverBy(s)
          BY <1>3, <4>1
        <5>2. k \in 1 .. t[2] - 1 /\ <<s, k>> = <<t[1], k>>
          BY <4>1, <5>1
        <5>3. QED
          BY <5>2
      <4>3. wire[s] = "stuck" => before(t) # {} /\ before(t) # {"ok"}
        <5>1. SUFFICES ASSUME wire[s] = "stuck" PROVE before(t) # {} /\ before(t) # {"ok"}
          OBVIOUS
        <5>2. PICK k \in 1 .. OverBy(s) : filed[<<s, k>>].class # "ok"
          BY <1>1, <5>1 DEF WiresAreKnown
        <5>3. filed[<<s, k>>].class \in before(t)
          BY <4>2, <5>2
        <5> HIDE DEF before
        <5>4. QED
          BY <5>2, <5>3
      <4>4. class = "401" => before(t) \cap (Broken \cup {"sse_abort"}) # {}
        <5>1. SUFFICES ASSUME class = "401"
                       PROVE  before(t) \cap (Broken \cup {"sse_abort"}) # {}
          OBVIOUS
        <5>2. bound[s] # 0 /\ ~holds[s] /\ bound[s] # n
          BY <5>1
        <5>3. ~(bound[s] = turnsMade[s] /\ flight[s] = "streaming")
          BY <1>2, <5>2 DEF OverBy
        <5>4. /\ bound[s] \in 1 .. OverBy(s)
              /\ filed[<<s, bound[s]>>].class \in Broken \cup {"sse_abort"}
          BY <1>1, <5>2, <5>3 DEF TokensAreKnown
        <5>5. filed[<<s, bound[s]>>].class \in before(t)
          BY <4>2, <5>4
        <5> HIDE DEF before
        <5>6. QED
          BY <5>4, <5>5
      <4>5. after(t) = before(t)
        BY <2>2
      <4> HIDE DEF after, before
      <4>6. QED
        BY <4>1, <4>3, <4>4, <4>5
    <3>3. QED
      BY <3>1, <3>2
  <2>4. QED
    BY <2>3 DEF FaultsStayInSession
<1>11. RowsAreServed'
  BY <1>1 DEF RowsAreServed
<1>12. QED
  BY <1>6, <1>7, <1>8, <1>9, <1>10, <1>11, OpenIsOwn DEF ChatTurnsInv

\* A step that files nothing and judges nothing.
LEMMA QuietKeeps ==
    ASSUME ChatTurnsInv, ChatTurnsTypeOK', DrivenTyped', TokensAreKnown', RowsAreServed',
           filed' = filed, wire' = wire, stageVerdict' = stageVerdict,
           \A q \in ChatSessionIds : OverBy(q)' = OverBy(q),
           \A t \in DrivenTurns : served[t] <= served'[t]
    PROVE  ChatTurnsInv'
<1>1. /\ ChatTurnsTypeOK /\ TurnsAreFiled /\ WiresAreKnown /\ OverheadIsOwn /\ FaultsStayInSession
  BY DEF ChatTurnsInv
<1>2. TurnsAreFiled'
  <2> SUFFICES ASSUME NEW q \in ChatSessionIds, NEW k \in Nat
               PROVE  <<q, k>> \in DOMAIN filed <=> k \in 1 .. OverBy(q)'
    BY DEF TurnsAreFiled, OverBy
  <2>1. QED
    BY <1>1 DEF TurnsAreFiled
<1>3. WiresAreKnown'
  <2> SUFFICES ASSUME NEW q \in ChatSessionIds, wire[q] = "stuck"
               PROVE  \E k \in 1 .. OverBy(q)' : filed[<<q, k>>].class # "ok"
    BY DEF WiresAreKnown, OverBy
  <2>1. QED
    BY <1>1 DEF WiresAreKnown
<1>4. FaultsStayInSession'
  <2> DEFINE before(t) == {filed[<<t[1], k>>].class : k \in 1 .. t[2] - 1}
  <2>1. ASSUME NEW t \in DOMAIN filed
        PROVE  /\ ~filed[t].sent => before(t) # {} /\ before(t) # {"ok"}
               /\ filed[t].class = "401" => before(t) \cap (Broken \cup {"sse_abort"}) # {}
    BY <1>1 DEF FaultsStayInSession
  <2>2. \A t : {filed'[<<t[1], k>>].class : k \in 1 .. t[2] - 1} = before(t)
    OBVIOUS
  <2> HIDE DEF before
  <2>3. QED
    BY <2>1, <2>2 DEF FaultsStayInSession
<1>5. OverheadIsOwn'
  <2> SUFFICES ASSUME stageVerdict # "open", NEW t \in DOMAIN filed
               PROVE  filed[t].llm <= served'[t]
    BY <1>1 DEF OverheadIsOwn
  <2>1. filed[t].llm <= served[t] /\ t \in DrivenTurns
    BY <1>1 DEF OverheadIsOwn, ChatTurnsTypeOK
  <2>2. filed[t].llm \in Int
    BY <1>1 DEF ChatTurnsTypeOK, TurnRecord, NoTime
  <2>3. served[t] \in Nat /\ served'[t] \in Nat
    BY <1>1, <2>1, ChatTurnsAssumption DEF ChatTurnsTypeOK
  <2>4. served[t] <= served'[t]
    BY <2>1
  <2>5. QED
    BY <2>1, <2>2, <2>3, <2>4
<1>6. QED
  BY <1>2, <1>3, <1>4, <1>5 DEF ChatTurnsInv

\* What is known of a session.
LEMMA SessionIs ==
    ASSUME ChatTurnsInv, NEW s \in ChatSessionIds
    PROVE  /\ wire[s] \in {"clean", "stuck"} /\ holds[s] \in BOOLEAN
           /\ flight[s] \in {"idle", "sent", "streaming", "refused"}
           /\ bound[s] \in Nat /\ turnsMade[s] \in Nat /\ TurnsOf[s] \in Nat
           /\ bound[s] <= turnsMade[s] /\ turnsMade[s] <= TurnsOf[s]
           /\ flight[s] # "idle" => /\ turnsMade[s] > 0 /\ stageVerdict = "open"
                                    /\ OverBy(s) = turnsMade[s] - 1
                                    /\ Current(s) \in DrivenTurns
           /\ flight[s] = "idle" => OverBy(s) = turnsMade[s]
           /\ OverBy(s) \in Nat
<1>1. ChatTurnsTypeOK /\ DrivenTyped
  BY DEF ChatTurnsInv
<1>2. /\ wire[s] \in {"clean", "stuck"} /\ holds[s] \in BOOLEAN
      /\ flight[s] \in {"idle", "sent", "streaming", "refused"}
  BY <1>1 DEF ChatTurnsTypeOK
<1>3. /\ bound[s] \in Nat /\ turnsMade[s] \in Nat /\ TurnsOf[s] \in Nat
      /\ bound[s] <= turnsMade[s] /\ turnsMade[s] <= TurnsOf[s]
      /\ flight[s] # "idle" => turnsMade[s] > 0 /\ stageVerdict = "open"
  BY <1>1, TurnLimits DEF DrivenTyped
<1>4. flight[s] # "idle" => Current(s) \in DrivenTurns
  BY <1>3, TurnIs DEF Current
<1>5. QED
  BY <1>2, <1>3, <1>4 DEF OverBy

\* A record has its type, and so has what is filed.
LEMMA FilesTyped ==
    ASSUME ChatTurnsInv, NEW s \in ChatSessionIds, NEW n \in 1 .. TurnsOf[s],
           NEW class \in {"ok", "sse_abort"} \cup StatusClasses \cup Broken,
           NEW sent \in BOOLEAN, Files(<<s, n>>, class, sent)
    PROVE  DOMAIN filed' \subseteq DrivenTurns /\ \A t \in DOMAIN filed' : filed'[t] \in TurnRecord
<1>1. <<s, n>> \in DrivenTurns
  BY TurnIs
<1>2. DOMAIN filed \subseteq DrivenTurns /\ \A t \in DOMAIN filed : filed[t] \in TurnRecord
  BY DEF ChatTurnsInv, ChatTurnsTypeOK
<1>3. [class |-> class, sent |-> sent, llm |-> NoTime] \in TurnRecord
  BY DEF TurnRecord
<1>4. QED
  BY <1>1, <1>2, <1>3 DEF Files

\* An admission binds the token to the turn that found none.
LEMMA AdmittedIs ==
    ASSUME ChatTurnsInv, NEW s \in ChatSessionIds, NEW n \in 1 .. TurnsOf[s],
           Admitted(s, n) \/ Unknown
    PROVE  /\ bound' \in [ChatSessionIds -> Nat]
           /\ \A q \in ChatSessionIds : bound'[q] # bound[q] => q = s /\ bound'[q] = n
           /\ \A q \in ChatSessionIds : bound'[q] \in 0 .. TurnsOf[q]
           /\ serving' \subseteq DrivenTurns
           /\ Admitted(s, n) => /\ bound[s] # 0 => holds[s] /\ bound'[s] = bound[s]
                                /\ bound[s] = 0 => bound'[s] = n
<1>1. bound \in [ChatSessionIds -> Nat] /\ serving \subseteq DrivenTurns /\ TurnsOf[s] \in Nat
  BY SessionIs DEF ChatTurnsInv, ChatTurnsTypeOK, DrivenTyped
<1>2. <<s, n>> \in DrivenTurns /\ n \in Nat
  BY <1>1, TurnIs
<1>3. \A q \in ChatSessionIds : bound[q] \in 0 .. TurnsOf[q]
  BY DEF ChatTurnsInv, ChatTurnsTypeOK
<1>4. CASE Admitted(s, n)
  <2>1. /\ bound[s] # 0 => holds[s]
        /\ bound' = [bound EXCEPT ![s] = IF bound[s] = 0 THEN n ELSE bound[s]]
        /\ serving' = serving \cup {<<s, n>>}
    BY <1>4 DEF Admitted
  <2>2. bound' \in [ChatSessionIds -> Nat]
    BY <1>1, <1>2, <2>1
  <2>3. \A q \in ChatSessionIds : bound'[q] = IF q = s /\ bound[s] = 0 THEN n ELSE bound[q]
    BY <1>1, <2>1
  <2>4. QED
    BY <1>2, <1>3, <1>1, <2>1, <2>2, <2>3
<1>5. CASE ~Admitted(s, n)
  <2>1. bound' = bound /\ serving' = serving
    BY <1>5 DEF Unknown
  <2>2. QED
    BY <1>1, <1>3, <1>5, <2>1
<1>6. QED
  BY <1>4, <1>5

-----------------------------------------------------------------------------
\* The steps of a turn, one by one.

\* A turn is sent after the last one is over.
LEMMA SendTurnKeeps ==
    ASSUME ChatTurnsInv, NEW s \in ChatSessionIds, SendTurn(s)
    PROVE  ChatTurnsInv'
<1>1. /\ stageVerdict = "open" /\ flight[s] = "idle" /\ turnsMade[s] < TurnsOf[s]
      /\ turnsMade' = [turnsMade EXCEPT ![s] = turnsMade[s] + 1]
      /\ flight' = [flight EXCEPT ![s] = "sent"]
      /\ UNCHANGED <<wire, holds, bound, serving, served, logRows, filed, stageVerdict>>
  BY DEF SendTurn, Numbered
<1>2. ChatTurnsTypeOK /\ DrivenTyped /\ TokensAreKnown /\ RowsAreServed
  BY DEF ChatTurnsInv
<1>3. /\ turnsMade' \in [ChatSessionIds -> Nat]
      /\ \A q \in ChatSessionIds :
            /\ turnsMade'[q] = IF q = s THEN turnsMade[s] + 1 ELSE turnsMade[q]
            /\ flight'[q] = IF q = s THEN "sent" ELSE flight[q]
  BY <1>1, <1>2, SessionIs DEF DrivenTyped, ChatTurnsTypeOK
<1>4. ChatTurnsTypeOK'
  BY <1>1, <1>2, <1>3, SessionIs DEF ChatTurnsTypeOK
<1>5. DrivenTyped'
  BY <1>1, <1>2, <1>3, SessionIs DEF DrivenTyped
<1>6. \A q \in ChatSessionIds : OverBy(q)' = OverBy(q)
  BY <1>1, <1>3, SessionIs DEF OverBy
<1>7. TokensAreKnown'
  <2> SUFFICES ASSUME NEW q \in ChatSessionIds
               PROVE  /\ flight'[q] = "sent" => bound[q] # turnsMade'[q]
                      /\ bound[q] # 0 /\ ~holds[q] =>
                            \/ bound[q] = turnsMade'[q] /\ flight'[q] = "streaming"
                            \/ /\ bound[q] \in 1 .. OverBy(q)'
                               /\ filed[<<q, bound[q]>>].class \in Broken \cup {"sse_abort"}
    BY <1>1 DEF TokensAreKnown, OverBy
  <2>1. CASE q = s
    BY <1>1, <1>2, <1>3, <1>6, <2>1, SessionIs DEF TokensAreKnown
  <2>2. CASE q # s
    BY <1>2, <1>3, <1>6, <2>2 DEF TokensAreKnown
  <2>3. QED
    BY <2>1, <2>2
<1>8. RowsAreServed'
  BY <1>1, <1>2 DEF RowsAreServed
<1>9. \A t \in DrivenTurns : served[t] <= served'[t]
  BY <1>1, <1>2, ChatTurnsAssumption DEF ChatTurnsTypeOK
<1>10. QED
  BY <1>1, <1>4, <1>5, <1>6, <1>7, <1>8, <1>9, QuietKeeps

\* A step of a session in flight that stays in flight.
LEMMA InFlightKeeps ==
    ASSUME ChatTurnsInv, NEW s \in ChatSessionIds, flight[s] # "idle",
           NEW to \in {"streaming", "refused"}, flight' = [flight EXCEPT ![s] = to],
           UNCHANGED <<wire, turnsMade, served, logRows, filed, stageVerdict>>,
           bound' \in [ChatSessionIds -> Nat], holds' \in [ChatSessionIds -> BOOLEAN],
           serving' \subseteq DrivenTurns,
           \A q \in ChatSessionIds : bound'[q] # bound[q] => q = s /\ bound'[q] = turnsMade[s],
           \A q \in ChatSessionIds : holds'[q] # holds[q] => q = s /\ holds'[s],
           bound'[s] # 0 /\ ~holds'[s] =>
              \/ bound'[s] = turnsMade[s] /\ to = "streaming"
              \/ /\ bound'[s] = bound[s] /\ ~holds[s]
                 /\ ~(bound[s] = turnsMade[s] /\ flight[s] = "streaming")
    PROVE  ChatTurnsInv'
<1>2. ChatTurnsTypeOK /\ DrivenTyped /\ TokensAreKnown /\ RowsAreServed
  BY DEF ChatTurnsInv
<1>3. \A q \in ChatSessionIds : flight'[q] = IF q = s THEN to ELSE flight[q]
  BY <1>2 DEF ChatTurnsTypeOK
<1>4. \A q \in ChatSessionIds : bound'[q] \in 0 .. TurnsOf[q] /\ bound'[q] <= turnsMade[q]
  BY SessionIs
<1>5. ChatTurnsTypeOK'
  BY <1>2, <1>3, <1>4 DEF ChatTurnsTypeOK
<1>6. DrivenTyped'
  BY <1>2, <1>3, <1>4, SessionIs DEF DrivenTyped
<1>7. \A q \in ChatSessionIds : OverBy(q)' = OverBy(q)
  BY <1>3 DEF OverBy
<1>8. TokensAreKnown'
  <2> SUFFICES ASSUME NEW q \in ChatSessionIds
               PROVE  /\ flight'[q] = "sent" => bound'[q] # turnsMade[q]
                      /\ bound'[q] # 0 /\ ~holds'[q] =>
                            \/ bound'[q] = turnsMade[q] /\ flight'[q] = "streaming"
                            \/ /\ bound'[q] \in 1 .. OverBy(q)'
                               /\ filed[<<q, bound'[q]>>].class \in Broken \cup {"sse_abort"}
    BY DEF TokensAreKnown, OverBy
  <2>1. CASE q = s
    BY <1>2, <1>3, <1>7, <2>1 DEF TokensAreKnown
  <2>2. CASE q # s
    <3>1. bound'[q] = bound[q] /\ holds'[q] = holds[q]
      BY <2>2
    <3>2. QED
      BY <1>2, <1>3, <1>7, <2>2, <3>1 DEF TokensAreKnown
  <2>3. QED
    BY <2>1, <2>2
<1>9. RowsAreServed'
  BY <1>2 DEF RowsAreServed
<1>10. \A t \in DrivenTurns : served[t] <= served'[t]
  BY <1>2, ChatTurnsAssumption DEF ChatTurnsTypeOK
<1>11. QED
  BY <1>5, <1>6, <1>7, <1>8, <1>9, <1>10, QuietKeeps

\* A turn that is admitted streams.
LEMMA TurnAdmittedKeeps ==
    ASSUME ChatTurnsInv, NEW s \in ChatSessionIds, TurnAdmitted(s)
    PROVE  ChatTurnsInv'
<1>1. /\ flight[s] = "sent" /\ Admitted(s, turnsMade[s])
      /\ flight' = [flight EXCEPT ![s] = "streaming"]
      /\ UNCHANGED <<wire, holds, turnsMade, served, logRows, filed, stageVerdict>>
  BY DEF TurnAdmitted
<1>2. turnsMade[s] \in 1 .. TurnsOf[s]
  BY <1>1, SessionIs
<1>3. /\ bound' \in [ChatSessionIds -> Nat] /\ serving' \subseteq DrivenTurns
      /\ \A q \in ChatSessionIds : bound'[q] # bound[q] => q = s /\ bound'[q] = turnsMade[s]
      /\ bound[s] # 0 => holds[s] /\ bound'[s] = bound[s]
      /\ bound[s] = 0 => bound'[s] = turnsMade[s]
  BY <1>1, <1>2, AdmittedIs
<1>4. holds' \in [ChatSessionIds -> BOOLEAN]
  BY <1>1 DEF ChatTurnsInv, ChatTurnsTypeOK
<1>5. QED
  BY <1>1, <1>3, <1>4, InFlightKeeps

\* The token is read from the stream of the turn it came with.
LEMMA ReadTokenKeeps ==
    ASSUME ChatTurnsInv, NEW s \in ChatSessionIds, ReadToken(s)
    PROVE  ChatTurnsInv'
<1>1. /\ flight[s] = "streaming" /\ holds' = [holds EXCEPT ![s] = TRUE]
      /\ UNCHANGED <<wire, bound, turnsMade, flight, serving, served, logRows, filed, stageVerdict>>
  BY DEF ReadToken
<1>2. ChatTurnsTypeOK /\ bound \in [ChatSessionIds -> Nat]
  BY DEF ChatTurnsInv, DrivenTyped
<1>3. flight' = [flight EXCEPT ![s] = "streaming"]
  BY <1>1, <1>2 DEF ChatTurnsTypeOK
<1>4. /\ holds' \in [ChatSessionIds -> BOOLEAN] /\ holds'[s]
      /\ \A q \in ChatSessionIds : holds'[q] # holds[q] => q = s
  BY <1>1, <1>2 DEF ChatTurnsTypeOK
<1>5. serving' \subseteq DrivenTurns
  BY <1>1, <1>2 DEF ChatTurnsTypeOK
<1>6. QED
  BY <1>1, <1>2, <1>3, <1>4, <1>5, InFlightKeeps

\* An error event is not the end of the stream.
LEMMA ReadErrorKeeps ==
    ASSUME ChatTurnsInv, NEW s \in ChatSessionIds, ReadError(s)
    PROVE  ChatTurnsInv'
<1>1. /\ flight[s] = "streaming" /\ ~(bound[s] = turnsMade[s] /\ ~holds[s])
      /\ flight' = [flight EXCEPT ![s] = "refused"]
      /\ UNCHANGED <<wire, holds, bound, turnsMade, serving, served, logRows, filed, stageVerdict>>
  BY DEF ReadError, TokenDue
<1>2. /\ bound' \in [ChatSessionIds -> Nat] /\ holds' \in [ChatSessionIds -> BOOLEAN]
      /\ serving' \subseteq DrivenTurns
  BY <1>1 DEF ChatTurnsInv, ChatTurnsTypeOK, DrivenTyped
<1>3. QED
  BY <1>1, <1>2, InFlightKeeps

\* The end of a turn in flight, with its record.
LEMMA TurnEndsKeeps ==
    ASSUME ChatTurnsInv, NEW s \in ChatSessionIds, flight[s] # "idle",
           NEW class \in {"ok", "sse_abort"} \cup StatusClasses \cup Broken,
           NEW left \in {"clean", "stuck"}, TurnEnds(s, class, left),
           left = "stuck" => class # "ok" \/ wire[s] = "stuck",
           class = "401" => bound[s] # 0 /\ ~holds[s] /\ flight[s] = "sent",
           bound' \in [ChatSessionIds -> Nat], serving' \subseteq DrivenTurns,
           \A q \in ChatSessionIds : bound'[q] # bound[q] => q = s /\ bound'[q] = turnsMade[s],
           bound'[s] = turnsMade[s] /\ ~holds[s] => class \in Broken \cup {"sse_abort"},
           UNCHANGED <<holds, turnsMade, served, logRows, stageVerdict>>
    PROVE  ChatTurnsInv'
<1>1. /\ flight' = [flight EXCEPT ![s] = "idle"] /\ wire' = [wire EXCEPT ![s] = left]
      /\ Files(<<s, turnsMade[s]>>, class, TRUE)
  BY DEF TurnEnds, Current
<1>2. ChatTurnsTypeOK /\ DrivenTyped /\ TokensAreKnown
  BY DEF ChatTurnsInv
<1>3. /\ turnsMade[s] \in 1 .. TurnsOf[s] /\ turnsMade[s] \in Nat /\ turnsMade[s] = OverBy(s) + 1
      /\ turnsMade[s] <= TurnsOf[s] /\ stageVerdict = "open"
  BY SessionIs
<1>4. /\ \A q \in ChatSessionIds : flight'[q] = IF q = s THEN "idle" ELSE flight[q]
      /\ \A q \in ChatSessionIds : wire'[q] = IF q = s THEN left ELSE wire[q]
  BY <1>1, <1>2 DEF ChatTurnsTypeOK
<1>5. \A q \in ChatSessionIds : bound'[q] \in 0 .. TurnsOf[q]
  BY <1>3, SessionIs
<1>6. DOMAIN filed' \subseteq DrivenTurns /\ \A t \in DOMAIN filed' : filed'[t] \in TurnRecord
  BY <1>1, <1>3, FilesTyped
<1>7. ChatTurnsTypeOK'
  BY <1>1, <1>2, <1>5, <1>6 DEF ChatTurnsTypeOK
<1>8. turnsMade' = [turnsMade EXCEPT ![s] = turnsMade[s]]
  BY <1>2 DEF DrivenTyped
<1>9. \A q \in ChatSessionIds :
         wire'[q] = "stuck" => wire[q] = "stuck" \/ (q = s /\ class # "ok")
  BY <1>4
<1>10. flight[s] = "sent" => bound[s] # turnsMade[s]
  BY <1>2 DEF TokensAreKnown
<1>11. stageVerdict' = "open"
  BY <1>3
<1>12. /\ class = "401" => bound[s] # 0 /\ ~holds[s] /\ bound[s] # turnsMade[s]
       /\ holds' = holds /\ logRows' = logRows /\ served' = served
       /\ \A q \in ChatSessionIds : flight'[q] = IF q = s THEN "idle" ELSE flight[q]
       /\ stageVerdict = "open" /\ TRUE \in BOOLEAN
  BY <1>3, <1>4, <1>10
<1>13. /\ DOMAIN filed' = DOMAIN filed \cup {<<s, turnsMade[s]>>}
       /\ \A t \in DOMAIN filed : t # <<s, turnsMade[s]>> => filed'[t] = filed[t]
       /\ filed'[<<s, turnsMade[s]>>].class = class
       /\ filed'[<<s, turnsMade[s]>>].sent \/ wire[s] = "stuck"
  BY <1>1 DEF Files
<1>14. FiledOne(s, turnsMade[s], class)
  BY <1>3, <1>8, <1>9, <1>11, <1>12, <1>13 DEF FiledOne
<1>15. QED
  BY <1>3, <1>7, <1>14, FilingKeeps

\* On a connection left in a bad state a turn fails at once.
LEMMA SendOnStuckWireKeeps ==
    ASSUME ChatTurnsInv, NEW s \in ChatSessionIds, SendOnStuckWire(s)
    PROVE  ChatTurnsInv'
<1> DEFINE n == turnsMade[s] + 1
<1>1. /\ stageVerdict = "open" /\ flight[s] = "idle" /\ turnsMade[s] < TurnsOf[s]
      /\ turnsMade' = [turnsMade EXCEPT ![s] = n] /\ wire[s] = "stuck"
      /\ UNCHANGED <<wire, holds, flight, served, logRows, stageVerdict>>
  BY DEF SendOnStuckWire, Numbered
<1>2. ChatTurnsTypeOK /\ DrivenTyped
  BY DEF ChatTurnsInv
<1>3. n \in 1 .. TurnsOf[s] /\ n \in Nat /\ n = OverBy(s) + 1 /\ n <= TurnsOf[s]
  BY <1>1, SessionIs
<1>4. turnsMade'[s] = n
  BY <1>1, <1>2 DEF DrivenTyped
<1>5. Files(<<s, n>>, "reset", FALSE) /\ (Admitted(s, n) \/ Unknown)
  BY <1>4 DEF SendOnStuckWire
<1> HIDE DEF n
<1>6. /\ DOMAIN filed' = DOMAIN filed \cup {<<s, n>>}
      /\ \A t \in DOMAIN filed : t # <<s, n>> => filed'[t] = filed[t]
      /\ filed'[<<s, n>>].class = "reset"
  BY <1>5 DEF Files
<1>7. DOMAIN filed' \subseteq DrivenTurns /\ \A t \in DOMAIN filed' : filed'[t] \in TurnRecord
  BY <1>3, <1>5, FilesTyped DEF Broken
<1>8. /\ bound' \in [ChatSessionIds -> Nat] /\ serving' \subseteq DrivenTurns
      /\ \A q \in ChatSessionIds : bound'[q] # bound[q] => q = s /\ bound'[q] = n
      /\ \A q \in ChatSessionIds : bound'[q] \in 0 .. TurnsOf[q]
  BY <1>3, <1>5, AdmittedIs
<1>9. \A q \in ChatSessionIds : turnsMade'[q] \in 0 .. TurnsOf[q]
  BY <1>1, <1>2, <1>3 DEF ChatTurnsTypeOK, DrivenTyped
<1>10. ChatTurnsTypeOK'
  BY <1>1, <1>2, <1>7, <1>8, <1>9 DEF ChatTurnsTypeOK
<1>11. FiledOne(s, n, "reset")
  BY <1>1, <1>3, <1>6, <1>8 DEF FiledOne, Broken
<1>12. QED
  BY <1>3, <1>10, <1>11, FilingKeeps

\* A turn that is refused is over.
LEMMA TurnRejectedKeeps ==
    ASSUME ChatTurnsInv, NEW s \in ChatSessionIds, NEW class \in StatusClasses,
           NEW left \in {"clean", "stuck"}, TurnRejected(s, class, left)
    PROVE  ChatTurnsInv'
<1>1. /\ flight[s] = "sent" /\ (class = "401") = (bound[s] # 0 /\ ~holds[s])
      /\ TurnEnds(s, class, left)
      /\ UNCHANGED <<holds, bound, turnsMade, serving, served, logRows, stageVerdict>>
  BY DEF TurnRejected
<1>2. /\ bound' \in [ChatSessionIds -> Nat] /\ serving' \subseteq DrivenTurns
      /\ bound[s] # turnsMade[s]
  BY <1>1 DEF ChatTurnsInv, ChatTurnsTypeOK, DrivenTyped, TokensAreKnown
<1>3. class # "ok"
  BY DEF StatusClasses
<1>4. /\ class \in {"ok", "sse_abort"} \cup StatusClasses \cup Broken
      /\ class = "401" => bound[s] # 0 /\ ~holds[s]
  BY <1>1
<1>5. QED
  BY <1>1, <1>2, <1>3, <1>4, TurnEndsKeeps

\* A turn that nobody answers is over.
LEMMA TurnUnansweredKeeps ==
    ASSUME ChatTurnsInv, NEW s \in ChatSessionIds, NEW class \in Broken,
           NEW left \in {"clean", "stuck"}, TurnUnanswered(s, class, left)
    PROVE  ChatTurnsInv'
<1>1. /\ flight[s] = "sent" /\ (Admitted(s, turnsMade[s]) \/ Unknown)
      /\ TurnEnds(s, class, left)
      /\ UNCHANGED <<holds, turnsMade, served, logRows, stageVerdict>>
  BY DEF TurnUnanswered
<1>2. turnsMade[s] \in 1 .. TurnsOf[s]
  BY <1>1, SessionIs
<1>3. /\ bound' \in [ChatSessionIds -> Nat] /\ serving' \subseteq DrivenTurns
      /\ \A q \in ChatSessionIds : bound'[q] # bound[q] => q = s /\ bound'[q] = turnsMade[s]
  BY <1>1, <1>2, AdmittedIs
<1>4. class \in {"ok", "sse_abort"} \cup StatusClasses \cup Broken /\ class \notin {"ok", "401"}
  BY DEF Broken
<1>5. QED
  BY <1>1, <1>3, <1>4, TurnEndsKeeps

\* The end of a stream, whatever it was.
LEMMA StreamEndsKeeps ==
    ASSUME ChatTurnsInv, NEW s \in ChatSessionIds, InStream(s),
           NEW class \in {"ok", "sse_abort"} \cup Broken, NEW left \in {"clean", "stuck"},
           TurnEnds(s, class, left), class = "ok" => left = "clean" /\ ~TokenDue(s),
           serving' \subseteq serving,
           UNCHANGED <<holds, bound, turnsMade, served, logRows, stageVerdict>>
    PROVE  ChatTurnsInv'
<1>1. flight[s] # "idle"
  BY DEF InStream
<1>2. bound' \in [ChatSessionIds -> Nat] /\ serving' \subseteq DrivenTurns
  BY DEF ChatTurnsInv, ChatTurnsTypeOK, DrivenTyped
<1>3. class \in {"ok", "sse_abort"} \cup StatusClasses \cup Broken /\ class # "401"
  BY DEF Broken
<1>4. bound'[s] = turnsMade[s] /\ ~holds[s] => class \in Broken \cup {"sse_abort"}
  BY DEF TokenDue
<1>5. QED
  BY <1>1, <1>2, <1>3, <1>4, TurnEndsKeeps

\* The stub and the server go on.
LEMMA ServerKeeps ==
    ASSUME ChatTurnsInv, serving' \subseteq serving,
           UNCHANGED <<wire, holds, bound, turnsMade, flight, filed, stageVerdict>>,
           served' \in [DrivenTurns -> 0 .. RoundsEach],
           logRows' \in [DrivenTurns -> 0 .. RoundsEach],
           \A t \in DrivenTurns : served[t] <= served'[t] /\ logRows'[t] <= served'[t]
    PROVE  ChatTurnsInv'
<1>1. ChatTurnsTypeOK /\ DrivenTyped /\ TokensAreKnown
  BY DEF ChatTurnsInv
<1>2. ChatTurnsTypeOK'
  BY <1>1 DEF ChatTurnsTypeOK
<1>3. DrivenTyped' /\ RowsAreServed'
  BY <1>1 DEF DrivenTyped, RowsAreServed
<1>4. \A q \in ChatSessionIds : OverBy(q)' = OverBy(q)
  BY DEF OverBy
<1>5. TokensAreKnown'
  BY <1>1 DEF TokensAreKnown, OverBy
<1>6. QED
  BY <1>2, <1>3, <1>4, <1>5, QuietKeeps

\* The stub serves a turn and logs it.
LEMMA StubKeeps ==
    ASSUME ChatTurnsInv, NEW t \in DrivenTurns,
           StubAnswers(t) \/ StubLogs(t) \/ ServerGivesUp(t)
    PROVE  ChatTurnsInv'
<1>1. /\ served \in [DrivenTurns -> 0 .. RoundsEach]
      /\ logRows \in [DrivenTurns -> 0 .. RoundsEach]
      /\ RoundsEach \in Nat /\ \A u \in DrivenTurns : logRows[u] <= served[u]
  BY ChatTurnsAssumption DEF ChatTurnsInv, ChatTurnsTypeOK, RowsAreServed
<1>2. CASE StubAnswers(t)
  <2>1. /\ served[t] < RoundsEach /\ served' = [served EXCEPT ![t] = served[t] + 1]
        /\ UNCHANGED <<wire, holds, bound, turnsMade, flight, serving, logRows, filed,
                       stageVerdict>>
    BY <1>2 DEF StubAnswers
  <2>2. served' \in [DrivenTurns -> 0 .. RoundsEach]
    BY <1>1, <2>1
  <2>3. \A u \in DrivenTurns : served[u] <= served'[u] /\ logRows'[u] <= served'[u]
    BY <1>1, <2>1
  <2>4. QED
    BY <1>1, <2>1, <2>2, <2>3, ServerKeeps
<1>3. CASE StubLogs(t)
  <2>1. /\ logRows[t] < served[t] /\ logRows' = [logRows EXCEPT ![t] = logRows[t] + 1]
        /\ UNCHANGED <<wire, holds, bound, turnsMade, flight, serving, served, filed, stageVerdict>>
    BY <1>3 DEF StubLogs
  <2>2. logRows' \in [DrivenTurns -> 0 .. RoundsEach]
    BY <1>1, <2>1
  <2>3. \A u \in DrivenTurns : served[u] <= served'[u] /\ logRows'[u] <= served'[u]
    BY <1>1, <2>1
  <2>4. QED
    BY <1>1, <2>1, <2>2, <2>3, ServerKeeps
<1>4. CASE ServerGivesUp(t)
  <2>1. /\ serving' \subseteq serving
        /\ UNCHANGED <<wire, holds, bound, turnsMade, flight, served, logRows, filed, stageVerdict>>
    BY <1>4 DEF ServerGivesUp
  <2>2. \A u \in DrivenTurns : served[u] <= served'[u] /\ logRows'[u] <= served'[u]
    BY <1>1, <2>1
  <2>3. QED
    BY <1>1, <2>1, <2>2, ServerKeeps
<1>5. QED
  BY <1>2, <1>3, <1>4

-----------------------------------------------------------------------------
\* What a record says once it is stamped.
LEMMA StampedIs ==
    ASSUME ChatTurnsInv, NEW t \in DOMAIN filed
    PROVE  /\ Stamped(t) \in TurnRecord
           /\ Stamped(t).class = filed[t].class /\ Stamped(t).sent = filed[t].sent
           /\ Stamped(t).llm <= served[t] /\ Stamped(t).llm \in {NoTime} \cup Nat
           /\ Stamped(t).llm # NoTime =>
                 Stamped(t).llm >= IF filed[t].class = "ok" THEN 1 ELSE 0
           /\ Stamped(t).llm = NoTime => filed[t].class = "ok"
<1>1. /\ t \in DrivenTurns /\ filed[t] \in TurnRecord
      /\ served \in [DrivenTurns -> 0 .. RoundsEach]
      /\ logRows \in [DrivenTurns -> 0 .. RoundsEach]
      /\ RoundsEach \in Nat /\ logRows[t] <= served[t]
  BY ChatTurnsAssumption DEF ChatTurnsInv, ChatTurnsTypeOK, RowsAreServed
<1> DEFINE l == IF logRows[t] > 0 THEN logRows[t] ELSE IF filed[t].class = "ok" THEN NoTime ELSE 0
<1>2. Stamped(t) = [filed[t] EXCEPT !.llm = l]
  BY <1>1, LoggedIsOwn DEF Stamped
<1>3. /\ l \in {NoTime} \cup Nat /\ l <= served[t]
      /\ l # NoTime => l >= IF filed[t].class = "ok" THEN 1 ELSE 0
      /\ l = NoTime => filed[t].class = "ok"
  BY <1>1 DEF NoTime
<1> HIDE DEF l
<1>4. Stamped(t) \in TurnRecord /\ Stamped(t).llm = l
  BY <1>1, <1>2, <1>3 DEF TurnRecord
<1>5. Stamped(t).class = filed[t].class /\ Stamped(t).sent = filed[t].sent
  BY <1>1, <1>2 DEF TurnRecord
<1>6. QED
  BY <1>3, <1>4, <1>5

\* The verdict is given on the records there are.
LEMMA StageClosedKeeps == ASSUME ChatTurnsInv, StageClosed PROVE ChatTurnsInv'
<1>1. /\ \A s \in ChatSessionIds : flight[s] = "idle"
      /\ DOMAIN filed # {} /\ filed' = [t \in DOMAIN filed |-> Stamped(t)]
      /\ UNCHANGED <<wire, holds, bound, turnsMade, flight, serving, served, logRows>>
  BY DEF StageClosed
<1>2. LET unstamped == {t \in DOMAIN filed : filed'[t].llm = NoTime}
      IN  stageVerdict' = IF unstamped = {} THEN "overhead"
                          ELSE IF unstamped = DOMAIN filed THEN "none" ELSE "refused"
  BY DEF StageClosed
<1>3. ChatTurnsTypeOK /\ DrivenTyped /\ TurnsAreFiled /\ WiresAreKnown /\ TokensAreKnown
      /\ RowsAreServed /\ FaultsStayInSession
  BY DEF ChatTurnsInv
<1>4. DOMAIN filed' = DOMAIN filed /\ \A t \in DOMAIN filed : filed'[t] = Stamped(t)
  BY <1>1
<1>5. \A t \in DOMAIN filed : /\ filed'[t] \in TurnRecord
                              /\ filed'[t].class = filed[t].class
                              /\ filed'[t].sent = filed[t].sent
  BY <1>4, StampedIs
<1>6. stageVerdict' \in {"overhead", "none", "refused"}
  BY <1>2
<1>7. ChatTurnsTypeOK'
  BY <1>1, <1>3, <1>4, <1>5, <1>6 DEF ChatTurnsTypeOK
<1>8. DrivenTyped' /\ RowsAreServed'
  BY <1>1, <1>3 DEF DrivenTyped, RowsAreServed
<1>9. \A q \in ChatSessionIds : OverBy(q)' = OverBy(q)
  BY <1>1 DEF OverBy
<1>10. TurnsAreFiled'
  BY <1>1, <1>3, <1>4 DEF TurnsAreFiled, OverBy
<1>11. \A q \in ChatSessionIds : \A k \in 1 .. OverBy(q) :
          <<q, k>> \in DOMAIN filed /\ filed'[<<q, k>>].class = filed[<<q, k>>].class
  <2> SUFFICES ASSUME NEW q \in ChatSessionIds, NEW k \in 1 .. OverBy(q)
               PROVE  <<q, k>> \in DOMAIN filed
    BY <1>5
  <2>1. k \in Nat
    BY SessionIs
  <2>2. QED
    BY <1>3, <2>1 DEF TurnsAreFiled
<1>12. WiresAreKnown'
  <2> SUFFICES ASSUME NEW q \in ChatSessionIds, wire[q] = "stuck"
               PROVE  \E k \in 1 .. OverBy(q)' : filed'[<<q, k>>].class # "ok"
    BY <1>1 DEF WiresAreKnown, OverBy
  <2>1. PICK k \in 1 .. OverBy(q) : filed[<<q, k>>].class # "ok"
    BY <1>3 DEF WiresAreKnown
  <2>2. QED
    BY <1>9, <1>11, <2>1
<1>13. TokensAreKnown'
  <2> SUFFICES ASSUME NEW q \in ChatSessionIds, bound[q] # 0, ~holds[q]
               PROVE  /\ bound[q] \in 1 .. OverBy(q)'
                      /\ filed'[<<q, bound[q]>>].class \in Broken \cup {"sse_abort"}
    BY <1>1 DEF TokensAreKnown, OverBy
  <2>1. /\ bound[q] \in 1 .. OverBy(q)
        /\ filed[<<q, bound[q]>>].class \in Broken \cup {"sse_abort"}
    BY <1>1, <1>3 DEF TokensAreKnown
  <2>2. QED
    BY <1>9, <1>11, <2>1
<1>14. FaultsStayInSession'
  <2> DEFINE before(t) == {filed[<<t[1], k>>].class : k \in 1 .. t[2] - 1}
             after(t) == {filed'[<<t[1], k>>].class : k \in 1 .. t[2] - 1}
  <2>1. ASSUME NEW t \in DOMAIN filed
        PROVE  /\ ~filed[t].sent => before(t) # {} /\ before(t) # {"ok"}
               /\ filed[t].class = "401" => before(t) \cap (Broken \cup {"sse_abort"}) # {}
    BY <1>3 DEF FaultsStayInSession
  <2>2. ASSUME NEW t \in DOMAIN filed PROVE after(t) = before(t)
    <3>1. t \in DrivenTurns
      BY <1>3 DEF ChatTurnsTypeOK
    <3>2. /\ t[1] \in ChatSessionIds /\ t[2] \in Nat /\ t = <<t[1], t[2]>>
      BY <3>1, TurnHas, TurnLimits
    <3>3. t[2] \in 1 .. OverBy(t[1])
      BY <1>3, <3>2 DEF TurnsAreFiled
    <3>4. ASSUME NEW k \in 1 .. t[2] - 1
          PROVE  filed'[<<t[1], k>>].class = filed[<<t[1], k>>].class
      <4>1. OverBy(t[1]) \in Nat
        BY <3>2, SessionIs
      <4>2. k \in 1 .. OverBy(t[1])
        BY <3>2, <3>3, <4>1
      <4>3. QED
        BY <1>11, <3>2, <4>2
    <3>5. QED
      BY <3>4
  <2>3. ASSUME NEW t \in DOMAIN filed
        PROVE  /\ ~filed'[t].sent => after(t) # {} /\ after(t) # {"ok"}
               /\ filed'[t].class = "401" => after(t) \cap (Broken \cup {"sse_abort"}) # {}
    <3>1. after(t) = before(t)
      BY <2>2
    <3>2. filed'[t].class = filed[t].class /\ filed'[t].sent = filed[t].sent
      BY <1>5
    <3> HIDE DEF after, before
    <3>3. QED
      BY <2>1, <3>1, <3>2
  <2>4. QED
    BY <1>4, <2>3 DEF FaultsStayInSession
<1>15. OverheadIsOwn'
  <2>1. \A t \in DOMAIN filed' : filed'[t].llm <= served'[t]
    BY <1>1, <1>4, StampedIs
  <2>2. ASSUME stageVerdict' = "overhead", NEW t \in DOMAIN filed'
        PROVE  filed'[t].llm >= IF filed'[t].class = "ok" THEN 1 ELSE 0
    <3>1. filed'[t].llm # NoTime
      BY <1>2, <1>4, <2>2
    <3>2. t \in DOMAIN filed /\ filed'[t] = Stamped(t)
      BY <1>4
    <3>3. Stamped(t).llm >= IF filed[t].class = "ok" THEN 1 ELSE 0
      BY <3>1, <3>2, StampedIs
    <3>4. QED
      BY <1>5, <3>2, <3>3
  <2>3. ASSUME stageVerdict' = "none", NEW t \in DOMAIN filed'
        PROVE  filed'[t].class = "ok"
    <3>1. filed'[t].llm = NoTime
      BY <1>2, <1>4, <2>3
    <3>2. QED
      BY <1>4, <1>5, <3>1, StampedIs
  <2>4. QED
    BY <2>1, <2>2, <2>3 DEF OverheadIsOwn
<1>16. QED
  BY <1>7, <1>8, <1>10, <1>12, <1>13, <1>14, <1>15 DEF ChatTurnsInv

\* No session has made a turn yet.
LEMMA TurnsStart == ChatTurnsInit => ChatTurnsInv
<1> SUFFICES ASSUME ChatTurnsInit PROVE ChatTurnsInv
  OBVIOUS
<1>1. DOMAIN filed = {}
  BY DEF ChatTurnsInit
<1>2. \A s \in ChatSessionIds : TurnsOf[s] \in Nat /\ OverBy(s) = 0
  BY TurnLimits DEF ChatTurnsInit, OverBy
<1>3. ChatTurnsTypeOK
  BY <1>1, <1>2, ChatTurnsAssumption DEF ChatTurnsInit, ChatTurnsTypeOK
<1>4. DrivenTyped
  BY <1>2 DEF ChatTurnsInit, DrivenTyped
<1>5. TurnsAreFiled
  BY <1>1, <1>2 DEF TurnsAreFiled
<1>6. WiresAreKnown /\ TokensAreKnown /\ RowsAreServed
  BY DEF ChatTurnsInit, WiresAreKnown, TokensAreKnown, RowsAreServed
<1>7. OverheadIsOwn /\ FaultsStayInSession
  BY <1>1 DEF ChatTurnsInit, OverheadIsOwn, FaultsStayInSession
<1>8. QED
  BY <1>3, <1>4, <1>5, <1>6, <1>7 DEF ChatTurnsInv

\* Every step keeps what the records say of their sessions.
LEMMA TurnsStep == ChatTurnsInv /\ [ChatTurnsNext]_chatTurnVars => ChatTurnsInv'
<1> SUFFICES ASSUME ChatTurnsInv, [ChatTurnsNext]_chatTurnVars PROVE ChatTurnsInv'
  OBVIOUS
<1>1. ASSUME NEW s \in ChatSessionIds,
             SendTurn(s) \/ SendOnStuckWire(s) \/ TurnAdmitted(s) \/ ReadToken(s) \/ ReadError(s)
      PROVE  ChatTurnsInv'
  BY <1>1, SendTurnKeeps, SendOnStuckWireKeeps, TurnAdmittedKeeps, ReadTokenKeeps, ReadErrorKeeps
<1>2. ASSUME NEW s \in ChatSessionIds, ReadDone(s) PROVE ChatTurnsInv'
  <2> DEFINE class == IF flight[s] = "refused" THEN "sse_abort" ELSE "ok"
  <2>1. /\ InStream(s) /\ ~TokenDue(s) /\ TurnEnds(s, class, "clean")
        /\ serving' \subseteq serving
        /\ UNCHANGED <<holds, bound, turnsMade, served, logRows, stageVerdict>>
    BY <1>2 DEF ReadDone
  <2>2. class \in {"ok", "sse_abort"} \cup Broken
    OBVIOUS
  <2> HIDE DEF class
  <2>3. QED
    BY <2>1, <2>2, StreamEndsKeeps
<1>3. ASSUME NEW s \in ChatSessionIds, StreamCloses(s) PROVE ChatTurnsInv'
  <2>1. /\ InStream(s) /\ TurnEnds(s, "sse_abort", "clean") /\ serving' \subseteq serving
        /\ UNCHANGED <<holds, bound, turnsMade, served, logRows, stageVerdict>>
    BY <1>3 DEF StreamCloses
  <2>2. QED
    BY <2>1, StreamEndsKeeps
<1>4. ASSUME NEW s \in ChatSessionIds, NEW class \in Broken, NEW left \in Leaves(class),
             TurnUnanswered(s, class, left) \/ StreamBreaks(s, class, left)
      PROVE  ChatTurnsInv'
  <2>1. left \in {"clean", "stuck"}
    BY DEF Leaves
  <2>2. CASE TurnUnanswered(s, class, left)
    BY <2>1, <2>2, TurnUnansweredKeeps
  <2>3. CASE StreamBreaks(s, class, left)
    <3>1. /\ InStream(s) /\ TurnEnds(s, class, left) /\ serving' \subseteq serving
          /\ UNCHANGED <<holds, bound, turnsMade, served, logRows, stageVerdict>>
      BY <2>3 DEF StreamBreaks
    <3>2. class # "ok"
      BY DEF Broken
    <3>3. QED
      BY <2>1, <3>1, <3>2, StreamEndsKeeps
  <2>4. QED
    BY <1>4, <2>2, <2>3
<1>5. ASSUME NEW s \in ChatSessionIds, NEW left \in {"clean", "stuck"}, DeadlinePasses(s, left)
      PROVE  ChatTurnsInv'
  <2>1. /\ InStream(s) /\ TurnEnds(s, "sse_abort", left) /\ serving' \subseteq serving
        /\ UNCHANGED <<holds, bound, turnsMade, served, logRows, stageVerdict>>
    BY <1>5 DEF DeadlinePasses
  <2>2. QED
    BY <2>1, StreamEndsKeeps
<1>6. ASSUME NEW s \in ChatSessionIds, NEW left \in {"clean", "stuck"},
             NEW class \in StatusClasses, TurnRejected(s, class, left)
      PROVE  ChatTurnsInv'
  BY <1>6, TurnRejectedKeeps
<1>7. ASSUME NEW t \in DrivenTurns, StubAnswers(t) \/ StubLogs(t) \/ ServerGivesUp(t)
      PROVE  ChatTurnsInv'
  BY <1>7, StubKeeps
<1>8. CASE StageClosed
  BY <1>8, StageClosedKeeps
<1>9. CASE UNCHANGED chatTurnVars
  <2>1. /\ UNCHANGED <<wire, holds, bound, turnsMade, flight, filed, stageVerdict>>
        /\ UNCHANGED <<serving, served, logRows>>
    BY <1>9 DEF chatTurnVars
  <2>2. /\ served \in [DrivenTurns -> 0 .. RoundsEach]
        /\ logRows \in [DrivenTurns -> 0 .. RoundsEach]
        /\ RoundsEach \in Nat /\ \A u \in DrivenTurns : logRows[u] <= served[u]
    BY ChatTurnsAssumption DEF ChatTurnsInv, ChatTurnsTypeOK, RowsAreServed
  <2>3. \A u \in DrivenTurns : served[u] <= served'[u] /\ logRows'[u] <= served'[u]
    BY <2>1, <2>2
  <2>4. QED
    BY <2>1, <2>2, <2>3, ServerKeeps
<1>10. QED
  BY <1>1, <1>2, <1>3, <1>4, <1>5, <1>6, <1>7, <1>8, <1>9 DEF ChatTurnsNext

\* The turns of a session that are over have one record each, in their order; a connection
\* in a bad state and a token the client has not got follow a record that says why.
THEOREM TurnsAreInOrder == ChatTurnsSpec => []ChatTurnsInv
BY TurnsStart, TurnsStep, PTL DEF ChatTurnsSpec

\* What a stage of chat says of the platform is about the platform, for any sessions, turns
\* and rounds, however sends, streams, timeouts and the stub's log interleave.
THEOREM TurnsAreAlwaysHonest == ChatTurnsSpec => []ChatTurnsAreHonest
<1>1. ChatTurnsInv => ChatTurnsAreHonest
  BY DEF ChatTurnsInv, ChatTurnsAreHonest
<1>2. QED
  BY TurnsAreInOrder, <1>1, PTL

-----------------------------------------------------------------------------
(* The turns of the tools *)

ToolRecords == [calls : Seq(Outcomes), ok : BOOLEAN, reinitialisations : {0, 1}]

ToolTyped ==
    /\ link \in [ToolSessions -> {"none", "usable", "stuck", "closed"}]
    /\ known \in [ToolSessions -> BOOLEAN]
    /\ place \in [ToolSessions -> {"new", "idle", "calling", "replaying", "repeating",
                                   "dead", "gone"}]
    /\ callsMade \in [ToolSessions -> Seq(Outcomes)]
    /\ turnsDone \in [ToolSessions -> Seq(ToolRecords)]
    /\ replayed \in [ToolSessions -> BOOLEAN]
    /\ replays \in [ToolSessions -> Nat]
    /\ stats \in [calls : Nat, reinitialisations : Nat]
    /\ forgets \in Nat /\ forgets <= MaxForgets

\* A turn under way has made calls that succeeded, and not all of its plan.
PlanIsUnderWay ==
    \A s \in ToolSessions :
        /\ Len(callsMade[s]) < PlannedCalls /\ Len(turnsDone[s]) <= ToolTurnsOf[s]
        /\ \A k \in DOMAIN callsMade[s] : callsMade[s][k] = "ok"
        /\ place[s] \in {"calling", "replaying", "repeating"}
              => Len(turnsDone[s]) < ToolTurnsOf[s]

\* A session whose id the gateway has forgotten has a replay left; what is replayed has yet
\* to be recorded.
ReplaysAreOwed ==
    \A s \in ToolSessions :
        /\ place[s] \in {"idle", "calling", "repeating"} /\ ~known[s] => replays[s] < forgets
        /\ place[s] = "calling" => ~replayed[s]
        /\ ReplaysIn(turnsDone[s]) <= replays[s]
        /\ place[s] \in {"replaying", "repeating"} => ReplaysIn(turnsDone[s]) < replays[s]

StatsAreExact ==
    /\ stats.calls =
          SumOver([s \in ToolSessions |-> CallsIn(turnsDone[s]) + Len(callsMade[s])],
                  ToolSessions)
    /\ stats.reinitialisations = SumOver(replays, ToolSessions)

ToolInv ==
    /\ ToolTyped /\ PlanIsUnderWay /\ ReplaysAreOwed /\ StatsAreExact
    /\ TurnIsPlan /\ TroubleIsLocal

\* What a record adds to the calls and the replays of a session.
LEMMA RecordAdds ==
    ASSUME NEW t \in Seq(ToolRecords), NEW r \in ToolRecords
    PROVE  /\ CallsIn(t) \in Nat /\ ReplaysIn(t) \in Nat
           /\ CallsIn(Append(t, r)) = CallsIn(t) + Len(r.calls)
           /\ ReplaysIn(Append(t, r)) = ReplaysIn(t) + r.reinitialisations
<1> DEFINE u == Append(t, r)
           D == DOMAIN t
           n == Len(t) + 1
           a == [i \in D |-> Len(t[i].calls)]
           b == [i \in D |-> t[i].reinitialisations]
           c == [i \in DOMAIN u |-> Len(u[i].calls)]
           d == [i \in DOMAIN u |-> u[i].reinitialisations]
<1>1. /\ D = 1 .. Len(t) /\ Len(t) \in Nat /\ n \notin D /\ DOMAIN u = D \cup {n}
      /\ \A i \in D : u[i] = t[i] /\ t[i] \in ToolRecords
      /\ u[n] = r
  BY AppendProperties
<1>2. IsFiniteSet(D)
  BY <1>1, FS_Interval
<1>3. \A i \in D : a[i] \in Nat /\ b[i] \in Nat
  <2> TAKE i \in D
  <2>1. t[i].calls \in Seq(Outcomes) /\ t[i].reinitialisations \in {0, 1}
    BY <1>1 DEF ToolRecords
  <2>2. QED
    BY <2>1
<1>4. r.calls \in Seq(Outcomes) /\ r.reinitialisations \in {0, 1} /\ Len(r.calls) \in Nat
  BY DEF ToolRecords
<1>5. /\ \A i \in D : c[i] = a[i] /\ d[i] = b[i]
      /\ c[n] = Len(r.calls) /\ d[n] = r.reinitialisations
  BY <1>1
<1>6. /\ CallsIn(t) = SumOver(a, D) /\ ReplaysIn(t) = SumOver(b, D)
      /\ CallsIn(u) = SumOver(c, D \cup {n}) /\ ReplaysIn(u) = SumOver(d, D \cup {n})
  BY <1>1 DEF CallsIn, ReplaysIn
<1> HIDE DEF u, D, n, a, b, c, d
<1>7. SumOver(a, D) \in Nat /\ SumOver(b, D) \in Nat
  BY <1>2, <1>3, SumIsNat
<1>8. SumOver(c, D) = SumOver(a, D) /\ SumOver(d, D) = SumOver(b, D)
  BY <1>2, <1>5, SumAgrees
<1>9. \A i \in D \cup {n} : c[i] \in Int /\ d[i] \in Int
  BY <1>3, <1>4, <1>5
<1>10. n \notin D
  BY <1>1
<1>11. /\ SumOver(c, D \cup {n}) = c[n] + SumOver(c, D)
       /\ SumOver(d, D \cup {n}) = d[n] + SumOver(d, D)
  BY <1>2, <1>9, <1>10, SumAdds
<1>12. QED
  BY <1>4, <1>5, <1>6, <1>7, <1>8, <1>11 DEF u

\* The bounds are numbers.
LEMMA ToolAmounts ==
    /\ PlannedCalls \in Nat /\ PlannedCalls > 0 /\ MaxForgets \in Nat
    /\ IsFiniteSet(ToolSessions) /\ \A s \in ToolSessions : ToolTurnsOf[s] \in Nat
<1>1. PlannedCalls \in Nat /\ PlannedCalls > 0
  BY ToolTurnsAssumption
<1>2. MaxForgets \in Nat /\ IsFiniteSet(ToolSessions)
  BY ToolTurnsAssumption
<1>3. \A s \in ToolSessions : ToolTurnsOf[s] \in Nat
  BY ToolTurnsAssumption
<1>4. QED
  BY <1>1, <1>2, <1>3

\* What is kept of a session.
LEMMA SessionTyped ==
    ASSUME ToolTyped, NEW s \in ToolSessions
    PROVE  /\ callsMade[s] \in Seq(Outcomes) /\ Len(callsMade[s]) \in Nat
           /\ turnsDone[s] \in Seq(ToolRecords) /\ Len(turnsDone[s]) \in Nat
           /\ replays[s] \in Nat /\ forgets \in Nat /\ PlannedCalls \in Nat
           /\ ToolTurnsOf[s] \in Nat /\ PlannedCalls > 0
           /\ CallsIn(turnsDone[s]) \in Nat /\ ReplaysIn(turnsDone[s]) \in Nat
<1>1. callsMade[s] \in Seq(Outcomes) /\ turnsDone[s] \in Seq(ToolRecords)
  BY DEF ToolTyped
<1>2. CallsIn(turnsDone[s]) \in Nat /\ ReplaysIn(turnsDone[s]) \in Nat
  <2>1. [calls |-> << >>, ok |-> TRUE, reinitialisations |-> 0] \in ToolRecords
    BY DEF ToolRecords
  <2>2. QED
    BY <1>1, <2>1, RecordAdds
<1>3. Len(callsMade[s]) \in Nat /\ Len(turnsDone[s]) \in Nat
  BY <1>1
<1>4. replays[s] \in Nat /\ forgets \in Nat
  BY DEF ToolTyped
<1>5. QED
  BY <1>1, <1>2, <1>3, <1>4, ToolAmounts

-----------------------------------------------------------------------------
\* A step that makes no call: where the session stands, what it replays and what the
\* gateway knows of it may change.
LEMMA QuietToolsKeep ==
    ASSUME ToolInv, NEW s \in ToolSessions, NEW at, NEW left, NEW knows \in BOOLEAN,
           NEW again \in BOOLEAN,
           at \in {"new", "idle", "calling", "replaying", "repeating", "dead", "gone"},
           left \in {"none", "usable", "stuck", "closed"},
           place' = [place EXCEPT ![s] = at], link' = [link EXCEPT ![s] = left],
           known' = [known EXCEPT ![s] = knows], replayed' = [replayed EXCEPT ![s] = again],
           left = "stuck" => link[s] = "stuck",
           at \in {"calling", "replaying", "repeating"} => Len(turnsDone[s]) < ToolTurnsOf[s],
           at \in {"idle", "calling", "repeating"} /\ ~knows => replays[s] < forgets,
           at = "calling" => ~again,
           at \in {"replaying", "repeating"} => place[s] \in {"replaying", "repeating"},
           UNCHANGED <<callsMade, turnsDone, replays, stats, forgets>>
    PROVE  ToolInv'
<1>1. /\ ToolTyped
      /\ \A q \in ToolSessions :
            /\ place'[q] = IF q = s THEN at ELSE place[q]
            /\ link'[q] = IF q = s THEN left ELSE link[q]
            /\ known'[q] = IF q = s THEN knows ELSE known[q]
            /\ replayed'[q] = IF q = s THEN again ELSE replayed[q]
  BY DEF ToolInv, ToolTyped
<1>2. ToolTyped'
  BY <1>1 DEF ToolTyped
<1>0. \A q \in ToolSessions :
         /\ Len(callsMade[q]) \in Nat /\ Len(turnsDone[q]) \in Nat /\ PlannedCalls \in Nat
         /\ ToolTurnsOf[q] \in Nat /\ replays[q] \in Nat /\ forgets \in Nat
         /\ ReplaysIn(turnsDone[q]) \in Nat
  BY <1>1, SessionTyped
<1>3. PlanIsUnderWay'
  BY <1>0, <1>1 DEF ToolInv, PlanIsUnderWay
<1>4. ReplaysAreOwed'
  <2> SUFFICES ASSUME NEW q \in ToolSessions
               PROVE  /\ place'[q] \in {"idle", "calling", "repeating"} /\ ~known'[q]
                            => replays[q] < forgets
                      /\ place'[q] = "calling" => ~replayed'[q]
                      /\ ReplaysIn(turnsDone[q]) <= replays[q]
                      /\ place'[q] \in {"replaying", "repeating"}
                            => ReplaysIn(turnsDone[q]) < replays[q]
    BY DEF ReplaysAreOwed
  <2>1. /\ ReplaysIn(turnsDone[q]) <= replays[q]
        /\ place[q] \in {"replaying", "repeating"} => ReplaysIn(turnsDone[q]) < replays[q]
        /\ place[q] \in {"idle", "calling", "repeating"} /\ ~known[q] => replays[q] < forgets
        /\ place[q] = "calling" => ~replayed[q]
    BY DEF ToolInv, ReplaysAreOwed
  <2>2. ReplaysIn(turnsDone[q]) \in Nat /\ replays[q] \in Nat
    BY <1>1, SessionTyped
  <2>3. CASE q = s
    BY <1>1, <2>1, <2>2, <2>3
  <2>4. CASE q # s
    BY <1>1, <2>1, <2>4
  <2>5. QED
    BY <2>3, <2>4
<1>5. TroubleIsLocal'
  BY <1>0, <1>1 DEF ToolInv, TroubleIsLocal
<1>6. StatsAreExact' /\ TurnIsPlan'
  BY DEF ToolInv, StatsAreExact, TurnIsPlan
<1>7. QED
  BY <1>2, <1>3, <1>4, <1>5, <1>6 DEF ToolInv

\* A session starts with an id the gateway knows, or is gone.
LEMMA OpenToolKeeps ==
    ASSUME ToolInv, NEW s \in ToolSessions, OpenToolSession(s) \/ OpenToolSessionFails(s)
    PROVE  ToolInv'
<1> DEFINE knows == IF place'[s] = "idle" THEN TRUE ELSE known[s]
<1>1. /\ place[s] = "new" /\ link' = [link EXCEPT ![s] = "usable"]
      /\ place'[s] \in {"idle", "gone"} /\ place' = [place EXCEPT ![s] = place'[s]]
      /\ known' = [known EXCEPT ![s] = knows]
      /\ UNCHANGED <<callsMade, replayed, turnsDone, replays, stats, forgets>>
  BY DEF OpenToolSession, OpenToolSessionFails, ToolInv, ToolTyped
<1>2. /\ knows \in BOOLEAN /\ replayed[s] \in BOOLEAN
      /\ replayed' = [replayed EXCEPT ![s] = replayed[s]]
      /\ place'[s] = "idle" => knows
  BY <1>1 DEF ToolInv, ToolTyped
<1> HIDE DEF knows
<1>3. QED
  BY <1>1, <1>2, QuietToolsKeep

\* A call that begins was not replayed.
LEMMA BeginCallKeeps ==
    ASSUME ToolInv, NEW s \in ToolSessions, BeginCall(s)
    PROVE  ToolInv'
<1>1. /\ place[s] = "idle" /\ Len(turnsDone[s]) < ToolTurnsOf[s]
      /\ place' = [place EXCEPT ![s] = "calling"]
      /\ replayed' = [replayed EXCEPT ![s] = FALSE]
      /\ UNCHANGED <<link, known, callsMade, turnsDone, replays, stats, forgets>>
  BY DEF BeginCall
<1>2. /\ link' = [link EXCEPT ![s] = link[s]] /\ known' = [known EXCEPT ![s] = known[s]]
      /\ known[s] \in BOOLEAN /\ link[s] \in {"none", "usable", "stuck", "closed"}
      /\ ~known[s] => replays[s] < forgets
  BY <1>1 DEF ToolInv, ToolTyped, ReplaysAreOwed
<1>3. QED
  BY <1>1, <1>2, QuietToolsKeep

\* The second handshake, or the end of the worker.
LEMMA HandshakeKeeps ==
    ASSUME ToolInv, NEW s \in ToolSessions, ShakesHandsAgain(s) \/ HandshakeRaises(s)
    PROVE  ToolInv'
<1>1. /\ link' = [link EXCEPT ![s] = link[s]] /\ link[s] \in {"none", "usable", "stuck", "closed"}
      /\ known[s] \in BOOLEAN /\ replayed[s] \in BOOLEAN
  BY DEF ToolInv, ToolTyped, ShakesHandsAgain, HandshakeRaises
<1>2. CASE ShakesHandsAgain(s)
  <2>1. /\ place[s] = "replaying" /\ place' = [place EXCEPT ![s] = "repeating"]
        /\ known' = [known EXCEPT ![s] = TRUE] /\ replayed' = [replayed EXCEPT ![s] = TRUE]
        /\ UNCHANGED <<callsMade, turnsDone, replays, stats, forgets>>
    BY <1>2 DEF ShakesHandsAgain
  <2>2. Len(turnsDone[s]) < ToolTurnsOf[s]
    BY <2>1 DEF ToolInv, PlanIsUnderWay
  <2>3. QED
    BY <1>1, <2>1, <2>2, QuietToolsKeep
<1>3. CASE HandshakeRaises(s)
  <2>1. /\ place' = [place EXCEPT ![s] = "dead"]
        /\ known' = [known EXCEPT ![s] = known[s]]
        /\ replayed' = [replayed EXCEPT ![s] = replayed[s]]
        /\ UNCHANGED <<callsMade, turnsDone, replays, stats, forgets>>
    BY <1>3 DEF HandshakeRaises, ToolInv, ToolTyped
  <2>2. QED
    BY <1>1, <2>1, QuietToolsKeep
<1>4. QED
  BY <1>2, <1>3

\* A session is closed between turns, or after its worker died.
LEMMA CloseToolKeeps ==
    ASSUME ToolInv, NEW s \in ToolSessions, CloseToolSession(s)
    PROVE  ToolInv'
<1>1. /\ link' = [link EXCEPT ![s] = "closed"] /\ place' = [place EXCEPT ![s] = "gone"]
      /\ known' = [known EXCEPT ![s] = known[s]]
      /\ replayed' = [replayed EXCEPT ![s] = replayed[s]]
      /\ known[s] \in BOOLEAN /\ replayed[s] \in BOOLEAN
      /\ UNCHANGED <<callsMade, turnsDone, replays, stats, forgets>>
  BY DEF CloseToolSession, ToolInv, ToolTyped
<1>2. QED
  BY <1>1, QuietToolsKeep

-----------------------------------------------------------------------------
\* A replay is counted before it is tried, and one the gateway owes.
LEMMA ForgottenKeeps ==
    ASSUME ToolInv, NEW s \in ToolSessions, SessionForgotten(s)
    PROVE  ToolInv'
<1>1. /\ place[s] = "calling" /\ ~known[s]
      /\ place' = [place EXCEPT ![s] = "replaying"] /\ link' = [link EXCEPT ![s] = "usable"]
      /\ replays' = [replays EXCEPT ![s] = replays[s] + 1]
      /\ stats' = [stats EXCEPT !.reinitialisations = stats.reinitialisations + 1]
      /\ UNCHANGED <<known, callsMade, replayed, turnsDone, forgets>>
  BY DEF SessionForgotten, Possible
<1>2. ToolTyped /\ \A q \in ToolSessions : replays[q] \in Nat /\ ReplaysIn(turnsDone[q]) \in Nat
  BY SessionTyped DEF ToolInv
<1>3. \A q \in ToolSessions :
         /\ place'[q] = IF q = s THEN "replaying" ELSE place[q]
         /\ link'[q] = IF q = s THEN "usable" ELSE link[q]
         /\ replays'[q] = IF q = s THEN replays[s] + 1 ELSE replays[q]
  BY <1>1, <1>2 DEF ToolTyped
<1>4. /\ stats'.calls = stats.calls /\ stats'.reinitialisations = stats.reinitialisations + 1
      /\ stats' \in [calls : Nat, reinitialisations : Nat]
  <2>1. stats \in [calls : Nat, reinitialisations : Nat] /\ stats.reinitialisations \in Nat
    BY <1>2 DEF ToolTyped
  <2>2. stats.reinitialisations + 1 \in Nat
    BY <2>1
  <2>3. QED
    BY <1>1, <2>1, <2>2
<1>5. replays[s] < forgets /\ forgets \in Nat
  BY <1>1, <1>2, SessionTyped DEF ToolInv, ReplaysAreOwed
<1>6. ToolTyped'
  BY <1>1, <1>2, <1>4 DEF ToolTyped
<1>7. PlanIsUnderWay'
  BY <1>1, <1>3 DEF ToolInv, PlanIsUnderWay
<1>8. ReplaysAreOwed'
  <2> SUFFICES ASSUME NEW q \in ToolSessions
               PROVE  /\ place'[q] \in {"idle", "calling", "repeating"} /\ ~known'[q]
                            => replays'[q] < forgets'
                      /\ place'[q] = "calling" => ~replayed'[q]
                      /\ ReplaysIn(turnsDone[q]) <= replays'[q]
                      /\ place'[q] \in {"replaying", "repeating"}
                            => ReplaysIn(turnsDone[q]) < replays'[q]
    BY <1>1 DEF ReplaysAreOwed
  <2>1. /\ ReplaysIn(turnsDone[q]) <= replays[q]
        /\ place[q] \in {"replaying", "repeating"} => ReplaysIn(turnsDone[q]) < replays[q]
        /\ place[q] \in {"idle", "calling", "repeating"} /\ ~known[q] => replays[q] < forgets
        /\ place[q] = "calling" => ~replayed[q]
    BY DEF ToolInv, ReplaysAreOwed
  <2>3. CASE q = s
    BY <1>1, <1>2, <1>3, <2>1, <2>3
  <2>4. CASE q # s
    BY <1>1, <1>2, <1>3, <2>1, <2>4
  <2>5. QED
    BY <2>3, <2>4
<1>9. TroubleIsLocal'
  BY <1>1, <1>2, <1>3, <1>5 DEF ToolInv, TroubleIsLocal
<1>10. StatsAreExact'
  <2>1. SumOver(replays', ToolSessions)
          = SumOver(replays, ToolSessions) + (replays'[s] - replays[s])
    <3>1. \A q \in ToolSessions : replays[q] \in Int /\ replays'[q] \in Int
      BY <1>2, <1>3
    <3>2. \A q \in ToolSessions \ {s} : replays[q] = replays'[q]
      BY <1>3
    <3>3. IsFiniteSet(ToolSessions)
      BY ToolTurnsAssumption
    <3>4. QED
      BY <3>1, <3>2, <3>3, SumChanges
  <2>2. SumOver(replays', ToolSessions) = stats.reinitialisations + 1
    BY <1>2, <1>3, <2>1 DEF ToolInv, StatsAreExact, ToolTyped
  <2>3. QED
    BY <1>1, <1>4, <2>2 DEF ToolInv, StatsAreExact
<1>11. TurnIsPlan'
  BY <1>1 DEF ToolInv, TurnIsPlan
<1>12. QED
  BY <1>6, <1>7, <1>8, <1>9, <1>10, <1>11 DEF ToolInv

\* What the gateway forgets of all sessions is one more it may have forgotten of each.
LEMMA ForgetsKeeps == ASSUME ToolInv, GatewayForgets PROVE ToolInv'
<1>1. /\ forgets < MaxForgets /\ forgets' = forgets + 1
      /\ known' = [s \in ToolSessions |-> FALSE]
      /\ UNCHANGED <<link, place, callsMade, replayed, turnsDone, replays, stats>>
  BY DEF GatewayForgets
<1>2. ToolTyped /\ forgets \in Nat /\ MaxForgets \in Nat
  BY ToolTurnsAssumption DEF ToolInv, ToolTyped
<1>3. ToolTyped'
  BY <1>1, <1>2 DEF ToolTyped
<1>4. \A s \in ToolSessions : replays[s] <= forgets /\ replays[s] \in Nat
  BY <1>2, SessionTyped DEF ToolInv, TroubleIsLocal
<1>5. \A s \in ToolSessions : replays[s] < forgets + 1 /\ replays[s] <= forgets + 1
  BY <1>2, <1>4
<1>6. ReplaysAreOwed'
  BY <1>1, <1>5 DEF ToolInv, ReplaysAreOwed
<1>7. TroubleIsLocal'
  BY <1>1, <1>5 DEF ToolInv, TroubleIsLocal
<1>8. PlanIsUnderWay' /\ StatsAreExact' /\ TurnIsPlan'
  BY <1>1 DEF ToolInv, PlanIsUnderWay, StatsAreExact, TurnIsPlan
<1>9. QED
  BY <1>3, <1>6, <1>7, <1>8 DEF ToolInv

-----------------------------------------------------------------------------
(* A call *)

\* TurnIsPlan, of one record.
AsPlanned(turn) ==
    /\ \A k \in 1 .. Len(turn.calls) - 1 : turn.calls[k] = "ok"
    /\ turn.ok => Len(turn.calls) = PlannedCalls

\* What a call that returns makes of its turn: made is what the turn has made since, done what
\* is recorded.
Returned(s, made, done, left) ==
    /\ made \in Seq(Outcomes) /\ done \in Seq(ToolRecords) /\ left \in {"usable", "stuck"}
    /\ place' = [place EXCEPT ![s] = "idle"] /\ link' = [link EXCEPT ![s] = left]
    /\ callsMade' = [callsMade EXCEPT ![s] = made] /\ turnsDone' = [turnsDone EXCEPT ![s] = done]
    /\ stats' = [stats EXCEPT !.calls = stats.calls + 1]
    /\ UNCHANGED <<known, replayed, replays, forgets>>
    /\ Len(made) < PlannedCalls /\ \A k \in DOMAIN made : made[k] = "ok"
    /\ Len(done) <= ToolTurnsOf[s]
    /\ CallsIn(done) + Len(made) = CallsIn(turnsDone[s]) + Len(callsMade[s]) + 1
    /\ ReplaysIn(done) <= replays[s]
    /\ \A i \in DOMAIN turnsDone[s] : i \in DOMAIN done /\ done[i] = turnsDone[s][i]
    /\ \A i \in DOMAIN done : AsPlanned(done[i])
    /\ left = "stuck" =>
          \E i \in DOMAIN done : \E k \in DOMAIN done[i].calls : done[i].calls[k] \in Exceptions

\* A call that returns keeps all of it, whether the turn goes on or not.
LEMMA ReturnedKeeps ==
    ASSUME ToolInv, NEW s \in ToolSessions, NEW made, NEW done, NEW left,
           Returned(s, made, done, left), place[s] \in {"calling", "repeating"}
    PROVE  ToolInv'
<1>1. /\ made \in Seq(Outcomes) /\ done \in Seq(ToolRecords) /\ left \in {"usable", "stuck"}
      /\ place' = [place EXCEPT ![s] = "idle"] /\ link' = [link EXCEPT ![s] = left]
      /\ callsMade' = [callsMade EXCEPT ![s] = made]
      /\ turnsDone' = [turnsDone EXCEPT ![s] = done]
      /\ stats' = [stats EXCEPT !.calls = stats.calls + 1]
      /\ UNCHANGED <<known, replayed, replays, forgets>>
  BY DEF Returned
<1>2. ToolTyped /\ \A q \in ToolSessions :
         /\ Len(callsMade[q]) \in Nat /\ Len(turnsDone[q]) \in Nat
         /\ replays[q] \in Nat /\ ToolTurnsOf[q] \in Nat /\ forgets \in Nat
         /\ CallsIn(turnsDone[q]) \in Nat /\ ReplaysIn(turnsDone[q]) \in Nat
         /\ PlannedCalls \in Nat
  BY SessionTyped DEF ToolInv
<1>3. Len(made) \in Nat /\ Len(done) \in Nat
  BY <1>1
<1>4. CallsIn(done) \in Nat /\ ReplaysIn(done) \in Nat
  <2>1. [calls |-> << >>, ok |-> TRUE, reinitialisations |-> 0] \in ToolRecords
    BY DEF ToolRecords
  <2>2. QED
    BY <1>1, <2>1, RecordAdds
<1>5. \A q \in ToolSessions :
         /\ place'[q] = IF q = s THEN "idle" ELSE place[q]
         /\ link'[q] = IF q = s THEN left ELSE link[q]
         /\ callsMade'[q] = IF q = s THEN made ELSE callsMade[q]
         /\ turnsDone'[q] = IF q = s THEN done ELSE turnsDone[q]
  BY <1>1, <1>2 DEF ToolTyped
<1>6. stats' \in [calls : Nat, reinitialisations : Nat] /\ stats'.calls = stats.calls + 1
      /\ stats'.reinitialisations = stats.reinitialisations /\ stats.calls \in Nat
  <2>1. stats \in [calls : Nat, reinitialisations : Nat] /\ stats.calls \in Nat
    BY <1>2 DEF ToolTyped
  <2>2. stats.calls + 1 \in Nat
    BY <2>1
  <2>3. QED
    BY <1>1, <2>1, <2>2
<1>7. ToolTyped'
  BY <1>1, <1>2, <1>6 DEF ToolTyped
<1>8. PlanIsUnderWay'
  BY <1>2, <1>3, <1>5 DEF ToolInv, PlanIsUnderWay, Returned
<1>9. ReplaysAreOwed'
  <2>1. ReplaysIn(done) <= replays[s]
    BY DEF Returned
  <2>2. ~known[s] => replays[s] < forgets
    BY DEF ToolInv, ReplaysAreOwed
  <2> SUFFICES ASSUME NEW q \in ToolSessions
               PROVE  /\ place'[q] \in {"idle", "calling", "repeating"} /\ ~known[q]
                            => replays[q] < forgets
                      /\ place'[q] = "calling" => ~replayed[q]
                      /\ ReplaysIn(turnsDone'[q]) <= replays[q]
                      /\ place'[q] \in {"replaying", "repeating"}
                            => ReplaysIn(turnsDone'[q]) < replays[q]
    BY <1>1 DEF ReplaysAreOwed
  <2>3. CASE q = s
    BY <1>2, <1>4, <1>5, <2>1, <2>2, <2>3
  <2>4. CASE q # s
    BY <1>2, <1>5, <2>4 DEF ToolInv, ReplaysAreOwed
  <2>5. QED
    BY <2>3, <2>4
<1>10. StatsAreExact'
  <2> DEFINE before == [q \in ToolSessions |-> CallsIn(turnsDone[q]) + Len(callsMade[q])]
             after == [q \in ToolSessions |-> CallsIn(turnsDone'[q]) + Len(callsMade'[q])]
  <2>0. CallsIn(done) + Len(made) = CallsIn(turnsDone[s]) + Len(callsMade[s]) + 1
    BY DEF Returned
  <2>1. /\ \A q \in ToolSessions : before[q] \in Int /\ after[q] \in Int
        /\ \A q \in ToolSessions \ {s} : before[q] = after[q]
    <3>1. \A q \in ToolSessions :
            /\ before[q] = CallsIn(turnsDone[q]) + Len(callsMade[q])
            /\ after[q] = IF q = s THEN CallsIn(done) + Len(made)
                          ELSE CallsIn(turnsDone[q]) + Len(callsMade[q])
      BY <1>5
    <3> HIDE DEF before, after
    <3>2. CallsIn(done) + Len(made) \in Int
      BY <1>3, <1>4
    <3>3. \A q \in ToolSessions : CallsIn(turnsDone[q]) + Len(callsMade[q]) \in Int
      BY <1>2
    <3>4. QED
      BY <3>1, <3>2, <3>3
  <2>2. after[s] = before[s] + 1
    BY <1>2, <1>3, <1>4, <1>5, <2>0
  <2>3. stats.calls = SumOver(before, ToolSessions)
        /\ stats.reinitialisations = SumOver(replays, ToolSessions)
    BY DEF ToolInv, StatsAreExact
  <2>4. StatsAreExact' <=> stats'.calls = SumOver(after, ToolSessions)
                           /\ stats'.reinitialisations = SumOver(replays', ToolSessions)
    BY DEF StatsAreExact
  <2> HIDE DEF before, after
  <2>5. SumOver(after, ToolSessions) = SumOver(before, ToolSessions) + (after[s] - before[s])
    BY <2>1, ToolAmounts, SumChanges
  <2>6. before[s] \in Int /\ after[s] \in Int
    BY <2>1
  <2>7. SumOver(after, ToolSessions) = stats.calls + 1
    BY <1>6, <2>2, <2>3, <2>5, <2>6
  <2>8. QED
    BY <1>1, <1>6, <2>3, <2>4, <2>7
<1>11. TurnIsPlan'
  <2> SUFFICES ASSUME NEW q \in ToolSessions, NEW i \in DOMAIN turnsDone'[q]
               PROVE  AsPlanned(turnsDone'[q][i])
    BY DEF TurnIsPlan, AsPlanned
  <2>1. CASE q = s
    BY <1>5, <2>1 DEF Returned
  <2>2. CASE q # s
    BY <1>5, <2>2 DEF ToolInv, TurnIsPlan, AsPlanned
  <2>3. QED
    BY <2>1, <2>2
<1>12. TroubleIsLocal'
  <2> SUFFICES ASSUME NEW q \in ToolSessions
               PROVE  link'[q] = "stuck" =>
                            \E i \in DOMAIN turnsDone'[q] :
                               \E k \in DOMAIN turnsDone'[q][i].calls :
                                  turnsDone'[q][i].calls[k] \in Exceptions
    BY <1>1 DEF TroubleIsLocal, ToolInv
  <2>1. CASE q = s
    BY <1>5, <2>1 DEF Returned
  <2>2. CASE q # s
    BY <1>5, <2>2 DEF ToolInv, TroubleIsLocal
  <2>3. QED
    BY <2>1, <2>2
<1>13. QED
  BY <1>7, <1>8, <1>9, <1>10, <1>11, <1>12 DEF ToolInv

\* The calls of a turn with one more.
CallsWith(s, outcome) == Append(callsMade[s], outcome)

\* It has one more, after calls that succeeded.
LEMMA OneMoreCall ==
    ASSUME ToolInv, NEW s \in ToolSessions, NEW outcome \in Outcomes
    PROVE  LET calls == CallsWith(s, outcome) IN
           /\ calls \in Seq(Outcomes) /\ Len(calls) \in Nat /\ DOMAIN calls = 1 .. Len(calls)
           /\ Len(calls) = Len(callsMade[s]) + 1 /\ Len(calls) <= PlannedCalls
           /\ calls[Len(calls)] = outcome /\ Len(calls) \in DOMAIN calls
           /\ \A k \in 1 .. Len(calls) - 1 : calls[k] = "ok"
<1> DEFINE calls == CallsWith(s, outcome)
<1>1. /\ callsMade[s] \in Seq(Outcomes) /\ Len(callsMade[s]) \in Nat
      /\ DOMAIN callsMade[s] = 1 .. Len(callsMade[s])
      /\ Len(callsMade[s]) < PlannedCalls /\ PlannedCalls \in Nat
      /\ \A k \in DOMAIN callsMade[s] : callsMade[s][k] = "ok"
  BY SessionTyped DEF ToolInv, PlanIsUnderWay
<1>2. /\ calls \in Seq(Outcomes) /\ Len(calls) = Len(callsMade[s]) + 1
      /\ \A k \in 1 .. Len(callsMade[s]) : calls[k] = callsMade[s][k]
      /\ calls[Len(callsMade[s]) + 1] = outcome
  BY <1>1, AppendProperties DEF CallsWith
<1> HIDE DEF calls
<1>3. Len(calls) \in Nat /\ DOMAIN calls = 1 .. Len(calls)
  BY <1>2
<1>4. 1 .. Len(calls) - 1 = 1 .. Len(callsMade[s])
  BY <1>1, <1>2
<1>5. /\ calls \in Seq(Outcomes) /\ Len(calls) \in Nat /\ DOMAIN calls = 1 .. Len(calls)
      /\ Len(calls) = Len(callsMade[s]) + 1 /\ Len(calls) <= PlannedCalls
      /\ calls[Len(calls)] = outcome /\ Len(calls) \in DOMAIN calls
      /\ \A k \in 1 .. Len(calls) - 1 : calls[k] = "ok"
  BY <1>1, <1>2, <1>3, <1>4
<1>6. QED
  BY <1>5 DEF calls

\* It goes on after a call that succeeded, unless that was the last of its plan.
LEMMA GoesOnIsReturned ==
    ASSUME ToolInv, NEW s \in ToolSessions, NEW left \in {"usable", "stuck"},
           NEW calls, calls = CallsWith(s, "ok"), Len(calls) # PlannedCalls,
           left # "stuck", link' = [link EXCEPT ![s] = left],
           place' = [place EXCEPT ![s] = "idle"],
           callsMade' = [callsMade EXCEPT ![s] = calls],
           stats' = [stats EXCEPT !.calls = stats.calls + 1],
           UNCHANGED <<turnsDone, known, replayed, replays, forgets>>
    PROVE  Returned(s, calls, turnsDone[s], left)
<1>1. "ok" \in Outcomes
  BY DEF Outcomes
<1>2. /\ calls \in Seq(Outcomes) /\ Len(calls) \in Nat /\ DOMAIN calls = 1 .. Len(calls)
      /\ Len(calls) = Len(callsMade[s]) + 1 /\ Len(calls) <= PlannedCalls
      /\ calls[Len(calls)] = "ok" /\ \A k \in 1 .. Len(calls) - 1 : calls[k] = "ok"
  BY <1>1, OneMoreCall
<1>3. /\ turnsDone[s] \in Seq(ToolRecords) /\ PlannedCalls \in Nat
      /\ CallsIn(turnsDone[s]) \in Nat /\ Len(callsMade[s]) \in Nat
  BY SessionTyped DEF ToolInv
<1>4. \A k \in DOMAIN calls : calls[k] = "ok"
  <2> TAKE k \in DOMAIN calls
  <2>1. k \in 1 .. Len(calls) - 1 \/ k = Len(calls)
    BY <1>2
  <2>2. QED
    BY <1>2, <2>1
<1>5. Len(calls) < PlannedCalls
  BY <1>2, <1>3
<1>6. turnsDone' = [turnsDone EXCEPT ![s] = turnsDone[s]]
  BY DEF ToolInv, ToolTyped
<1>7. CallsIn(turnsDone[s]) + Len(calls) = CallsIn(turnsDone[s]) + Len(callsMade[s]) + 1
  BY <1>2, <1>3
<1>8. /\ Len(turnsDone[s]) <= ToolTurnsOf[s] /\ ReplaysIn(turnsDone[s]) <= replays[s]
      /\ \A i \in DOMAIN turnsDone[s] : AsPlanned(turnsDone[s][i])
  BY DEF ToolInv, PlanIsUnderWay, ReplaysAreOwed, TurnIsPlan, AsPlanned
<1>9. QED
  BY <1>2, <1>3, <1>4, <1>5, <1>6, <1>7, <1>8 DEF Returned

\* It is over with a call that failed, or the last of its plan.
LEMMA OverIsReturned ==
    ASSUME ToolInv, NEW s \in ToolSessions, NEW left \in {"usable", "stuck"},
           NEW outcome \in Outcomes, NEW calls, calls = CallsWith(s, outcome),
           outcome # "ok" \/ Len(calls) = PlannedCalls,
           left = "stuck" => outcome \in Exceptions, link' = [link EXCEPT ![s] = left],
           place[s] \in {"calling", "repeating"}, place' = [place EXCEPT ![s] = "idle"],
           callsMade' = [callsMade EXCEPT ![s] = << >>],
           turnsDone' = [turnsDone EXCEPT ![s] = Append(turnsDone[s], TurnOf(calls, s))],
           stats' = [stats EXCEPT !.calls = stats.calls + 1],
           UNCHANGED <<known, replayed, replays, forgets>>
    PROVE  Returned(s, << >>, Append(turnsDone[s], TurnOf(calls, s)), left)
<1> DEFINE record == TurnOf(calls, s)
           done == Append(turnsDone[s], record)
           again == IF replayed[s] THEN 1 ELSE 0
           well == outcome = "ok"
<1>1. /\ calls \in Seq(Outcomes) /\ Len(calls) \in Nat
      /\ Len(calls) = Len(callsMade[s]) + 1 /\ calls[Len(calls)] = outcome
      /\ Len(calls) \in DOMAIN calls /\ \A k \in 1 .. Len(calls) - 1 : calls[k] = "ok"
  BY OneMoreCall
<1>2. /\ turnsDone[s] \in Seq(ToolRecords) /\ Len(turnsDone[s]) \in Nat
      /\ CallsIn(turnsDone[s]) \in Nat /\ ReplaysIn(turnsDone[s]) \in Nat
      /\ Len(callsMade[s]) \in Nat /\ PlannedCalls \in Nat /\ PlannedCalls > 0
      /\ ToolTurnsOf[s] \in Nat /\ replays[s] \in Nat
  BY SessionTyped DEF ToolInv
<1>3. record = [calls |-> calls, ok |-> well, reinitialisations |-> again]
  BY <1>1 DEF TurnOf, CallFailed
<1>4. well \in BOOLEAN /\ again \in {0, 1} /\ (well => Len(calls) = PlannedCalls)
      /\ again = IF replayed[s] THEN 1 ELSE 0
  OBVIOUS
<1> HIDE DEF record, well, again
<1>5. /\ record \in ToolRecords /\ record.calls = calls /\ record.ok = well
      /\ record.reinitialisations = again
  BY <1>1, <1>3, <1>4 DEF ToolRecords
<1>0. /\ done \in Seq(ToolRecords) /\ Len(done) = Len(turnsDone[s]) + 1
      /\ \A i \in 1 .. Len(turnsDone[s]) : done[i] = turnsDone[s][i]
      /\ done[Len(turnsDone[s]) + 1] = record
  BY <1>2, <1>5, AppendProperties
<1>6. /\ done \in Seq(ToolRecords) /\ Len(done) = Len(turnsDone[s]) + 1
      /\ \A i \in DOMAIN turnsDone[s] : i \in DOMAIN done /\ done[i] = turnsDone[s][i]
      /\ \A i \in DOMAIN done : i \in DOMAIN turnsDone[s] \/ done[i] = record
      /\ \E i \in DOMAIN done : done[i] = record
  <2> HIDE DEF done
  <2>1. /\ DOMAIN done = 1 .. Len(turnsDone[s]) + 1
        /\ DOMAIN turnsDone[s] = 1 .. Len(turnsDone[s])
    BY <1>0, <1>2
  <2>2. Len(turnsDone[s]) + 1 \in DOMAIN done
    BY <1>2, <2>1
  <2>3. QED
    BY <1>0, <1>2, <2>1, <2>2
<1>7. /\ CallsIn(done) = CallsIn(turnsDone[s]) + Len(calls)
      /\ ReplaysIn(done) = ReplaysIn(turnsDone[s]) + again
  BY <1>2, <1>5, RecordAdds
<1> HIDE DEF done
<1>8. Len(done) <= ToolTurnsOf[s]
  <2>1. Len(turnsDone[s]) < ToolTurnsOf[s]
    BY DEF ToolInv, PlanIsUnderWay
  <2>2. QED
    BY <1>2, <1>6, <2>1
<1>9. ReplaysIn(done) <= replays[s]
  <2>1. /\ ReplaysIn(turnsDone[s]) <= replays[s] /\ (place[s] = "calling" => ~replayed[s])
        /\ place[s] = "repeating" => ReplaysIn(turnsDone[s]) < replays[s]
    BY DEF ToolInv, ReplaysAreOwed
  <2>2. CASE again = 0
    BY <1>2, <1>7, <2>1, <2>2
  <2>3. CASE again = 1
    <3>1. ReplaysIn(turnsDone[s]) < replays[s]
      BY <1>4, <2>1, <2>3
    <3>2. QED
      BY <1>2, <1>7, <2>3, <3>1
  <2>4. QED
    BY <1>4, <2>2, <2>3
<1>10. \A i \in DOMAIN done : AsPlanned(done[i])
  <2>1. AsPlanned(record)
    BY <1>1, <1>4, <1>5 DEF AsPlanned
  <2>2. \A i \in DOMAIN turnsDone[s] : AsPlanned(turnsDone[s][i])
    BY DEF ToolInv, TurnIsPlan, AsPlanned
  <2>3. QED
    BY <1>6, <2>1, <2>2
<1>11. left = "stuck" =>
          \E i \in DOMAIN done : \E k \in DOMAIN done[i].calls : done[i].calls[k] \in Exceptions
  BY <1>1, <1>5, <1>6
<1>12. /\ << >> \in Seq(Outcomes) /\ Len(<< >>) = 0 /\ DOMAIN << >> = {}
  OBVIOUS
<1>13. CallsIn(done) + Len(<< >>) = CallsIn(turnsDone[s]) + Len(callsMade[s]) + 1
  BY <1>1, <1>2, <1>7, <1>12
<1>14. turnsDone' = [turnsDone EXCEPT ![s] = done]
  BY DEF done, record
<1>15. Len(<< >>) < PlannedCalls
  BY <1>2, <1>12
<1>16. Returned(s, << >>, done, left)
  BY <1>6, <1>8, <1>9, <1>10, <1>11, <1>12, <1>13, <1>14, <1>15 DEF Returned
<1>17. QED
  BY <1>16 DEF done, record

\* A call that returns, on a connection that breaks only with it.
LEMMA ReturnKeeps ==
    ASSUME ToolInv, NEW s \in ToolSessions, NEW outcome \in Outcomes, CallReturns(s, outcome),
           place[s] \in {"calling", "repeating"},
           NEW left \in {"usable", "stuck"}, link' = [link EXCEPT ![s] = left],
           left = "stuck" => outcome \in Exceptions,
           UNCHANGED <<known, replayed, replays, forgets>>
    PROVE  ToolInv'
<1> DEFINE calls == Append(callsMade[s], outcome)
<1>1. /\ place' = [place EXCEPT ![s] = "idle"]
      /\ stats' = [stats EXCEPT !.calls = stats.calls + 1]
  BY DEF CallReturns
<1>2. CASE outcome # "ok" \/ Len(calls) = PlannedCalls
  <2>1. /\ callsMade' = [callsMade EXCEPT ![s] = << >>]
        /\ turnsDone' = [turnsDone EXCEPT ![s] = Append(turnsDone[s], TurnOf(calls, s))]
    BY <1>2 DEF CallReturns, CallFailed
  <2> HIDE DEF calls
  <2>2. calls = CallsWith(s, outcome)
    BY DEF calls, CallsWith
  <2>3. Returned(s, << >>, Append(turnsDone[s], TurnOf(calls, s)), left)
    BY <1>1, <1>2, <2>1, <2>2, OverIsReturned
  <2>4. QED
    BY <2>3, ReturnedKeeps
<1>3. CASE outcome = "ok" /\ Len(calls) # PlannedCalls
  <2>1. callsMade' = [callsMade EXCEPT ![s] = calls] /\ turnsDone' = turnsDone
    BY <1>3 DEF CallReturns, CallFailed
  <2>2. left # "stuck"
    BY <1>3 DEF Exceptions
  <2>3. calls = CallsWith(s, "ok")
    BY <1>3 DEF CallsWith
  <2> HIDE DEF calls
  <2>4. Returned(s, calls, turnsDone[s], left)
    BY <1>1, <1>3, <2>1, <2>2, <2>3, GoesOnIsReturned
  <2>5. QED
    BY <2>4, ReturnedKeeps
<1>4. QED
  BY <1>2, <1>3

\* The first answer and the second.
LEMMA AnsweredKeeps ==
    ASSUME ToolInv, NEW s \in ToolSessions, NEW outcome \in Outcomes,
           Answered(s, outcome) \/ AnsweredAgain(s, outcome)
    PROVE  ToolInv'
<1>1. /\ CallReturns(s, outcome) /\ place[s] \in {"calling", "repeating"}
      /\ UNCHANGED <<known, replayed, replays, forgets>>
      /\ link[s] = "stuck" => outcome = "reset"
      /\ \E left \in LinkAfter(outcome) :
            \/ link' = [link EXCEPT ![s] = left]
            \/ link[s] = "stuck" /\ link' = [link EXCEPT ![s] = "stuck"]
  BY DEF Answered, AnsweredAgain, Possible
<1>2. \A left \in LinkAfter(outcome) :
         left \in {"usable", "stuck"} /\ (left = "stuck" => outcome \in Exceptions)
  BY DEF LinkAfter, Exceptions
<1>3. \E left \in {"usable", "stuck"} :
         link' = [link EXCEPT ![s] = left] /\ (left = "stuck" => outcome \in Exceptions)
  BY <1>1, <1>2 DEF Exceptions
<1>4. QED
  BY <1>1, <1>3, ReturnKeeps

-----------------------------------------------------------------------------
\* No session has called yet.
LEMMA ToolsStart == ToolTurnsInit => ToolInv
<1> SUFFICES ASSUME ToolTurnsInit PROVE ToolInv
  OBVIOUS
<1>1. IsFiniteSet(ToolSessions) /\ ToolTurnsOf \in [ToolSessions -> Nat] /\ MaxForgets \in Nat
      /\ PlannedCalls \in Nat /\ PlannedCalls > 0
  BY ToolTurnsAssumption
<1>2. ToolTyped
  BY <1>1 DEF ToolTurnsInit, ToolTyped
<1>3. CallsIn(<< >>) = 0 /\ ReplaysIn(<< >>) = 0
  <2>1. DOMAIN << >> = {}
    OBVIOUS
  <2>2. QED
    BY <2>1, SumOfNone DEF CallsIn, ReplaysIn
<1>4. PlanIsUnderWay
  BY <1>1 DEF ToolTurnsInit, PlanIsUnderWay
<1>5. ReplaysAreOwed
  BY <1>3 DEF ToolTurnsInit, ReplaysAreOwed
<1>6. StatsAreExact
  <2> DEFINE f == [s \in ToolSessions |-> CallsIn(turnsDone[s]) + Len(callsMade[s])]
  <2>1. /\ \A s \in ToolSessions : f[s] = 0 /\ replays[s] = 0
        /\ stats.calls = 0 /\ stats.reinitialisations = 0
    BY <1>3 DEF ToolTurnsInit
  <2>2. StatsAreExact <=> stats.calls = SumOver(f, ToolSessions)
                          /\ stats.reinitialisations = SumOver(replays, ToolSessions)
    BY DEF StatsAreExact
  <2> HIDE DEF f
  <2>3. SumOver(f, ToolSessions) = 0 /\ SumOver(replays, ToolSessions) = 0
    BY <1>1, <2>1, SumOfZeros
  <2>4. QED
    BY <2>1, <2>2, <2>3
<1>7. TurnIsPlan /\ TroubleIsLocal
  BY DEF ToolTurnsInit, TurnIsPlan, TroubleIsLocal
<1>8. QED
  BY <1>2, <1>4, <1>5, <1>6, <1>7 DEF ToolInv

\* Every step keeps all of it.
LEMMA ToolsStep == ToolInv /\ [ToolTurnsNext]_toolTurnVars => ToolInv'
<1> SUFFICES ASSUME ToolInv, [ToolTurnsNext]_toolTurnVars PROVE ToolInv'
  OBVIOUS
<1>1. CASE UNCHANGED toolTurnVars
  BY <1>1 DEF toolTurnVars, ToolInv, ToolTyped, PlanIsUnderWay, ReplaysAreOwed,
              StatsAreExact, TurnIsPlan, TroubleIsLocal
<1>2. CASE GatewayForgets
  BY <1>2, ForgetsKeeps
<1>3. ASSUME NEW s \in ToolSessions,
             OpenToolSession(s) \/ OpenToolSessionFails(s) \/ BeginCall(s)
             \/ SessionForgotten(s) \/ ShakesHandsAgain(s) \/ HandshakeRaises(s)
             \/ CloseToolSession(s)
      PROVE  ToolInv'
  BY <1>3, OpenToolKeeps, BeginCallKeeps, ForgottenKeeps, HandshakeKeeps, CloseToolKeeps
<1>4. ASSUME NEW s \in ToolSessions, NEW outcome \in Outcomes,
             Answered(s, outcome) \/ AnsweredAgain(s, outcome)
      PROVE  ToolInv'
  BY <1>4, AnsweredKeeps
<1>5. QED
  BY <1>1, <1>2, <1>3, <1>4 DEF ToolTurnsNext

\* What a turn of layer L1 leaves in the statistics and on its connection, for any plan.
THEOREM ToolsAreInOrder == ToolTurnsSpec => []ToolInv
<1>1. ToolTurnsInit => ToolInv
  BY ToolsStart
<1>2. QED
  BY <1>1, ToolsStep, PTL DEF ToolTurnsSpec

\* The records know of no more replays than there were.
LEMMA ToolsFollow == ToolInv => ToolTurnsAreWhole
<1> SUFFICES ASSUME ToolInv PROVE CallsAreCounted
  BY DEF ToolInv, ToolTurnsAreWhole
<1> DEFINE f == [s \in ToolSessions |-> ReplaysIn(turnsDone[s])]
<1>1. \A s \in ToolSessions : f[s] \in Int /\ replays[s] \in Int /\ f[s] <= replays[s]
  <2> SUFFICES ASSUME NEW s \in ToolSessions
               PROVE  f[s] \in Int /\ replays[s] \in Int /\ f[s] <= replays[s]
    OBVIOUS
  <2>1. ReplaysIn(turnsDone[s]) \in Nat /\ replays[s] \in Nat
    BY SessionTyped DEF ToolInv
  <2>2. ReplaysIn(turnsDone[s]) <= replays[s]
    BY DEF ToolInv, ReplaysAreOwed
  <2>3. QED
    BY <2>1, <2>2
<1>2. IsFiniteSet(ToolSessions)
  BY ToolTurnsAssumption
<1>3. CallsAreCounted <=>
        /\ stats.calls = SumOver([s \in ToolSessions |-> CallsIn(turnsDone[s]) + Len(callsMade[s])],
                                 ToolSessions)
        /\ stats.reinitialisations >= SumOver(f, ToolSessions)
  BY DEF CallsAreCounted
<1> HIDE DEF f
<1>4. SumOver(f, ToolSessions) <= SumOver(replays, ToolSessions)
  BY <1>1, <1>2, SumGrows
<1>5. SumOver(f, ToolSessions) \in Int /\ SumOver(replays, ToolSessions) \in Int
  BY <1>1, <1>2, SumIsInt
<1>6. QED
  BY <1>3, <1>4, <1>5 DEF ToolInv, StatsAreExact

\* A tool turn is its plan up to the first failure and every call is counted, whatever the
\* gateway forgets.
THEOREM ToolTurnsAreAlwaysWhole == ToolTurnsSpec => []ToolTurnsAreWhole
<1>1. QED
  BY ToolsAreInOrder, ToolsFollow, PTL

-----------------------------------------------------------------------------
(* Both clients *)

LEMMA ToolTurnsHaveTheirType == ToolInv => ToolTurnsTypeOK
<1> SUFFICES ASSUME ToolInv PROVE ToolTurnsTypeOK
  OBVIOUS
<1>1. ToolTyped /\ PlanIsUnderWay /\ PlannedCalls \in Nat /\ MaxForgets \in Nat
  BY ToolTurnsAssumption DEF ToolInv
<1>2. ASSUME NEW s \in ToolSessions
      PROVE  /\ callsMade[s] \in Seq(Outcomes) /\ Len(callsMade[s]) <= PlannedCalls
             /\ Len(turnsDone[s]) <= ToolTurnsOf[s]
  <2>1. callsMade[s] \in Seq(Outcomes)
    BY <1>1 DEF ToolTyped
  <2>2. Len(callsMade[s]) \in Nat /\ Len(callsMade[s]) < PlannedCalls
    BY <1>1, <2>1, LenProperties DEF PlanIsUnderWay
  <2>3. QED
    BY <1>1, <2>1, <2>2 DEF PlanIsUnderWay
<1>3. forgets \in 0 .. MaxForgets
  BY <1>1 DEF ToolTyped
<1>4. QED
  BY <1>1, <1>2, <1>3 DEF ToolTyped, ToolTurnsTypeOK

\* What the two clients of the load generator record of their turns is what happened to
\* them, for any sessions, plans, faults and interleavings.
THEOREM ClientsStayHonest == LoadClientsSpec => []ClientTurnsAreHonest
<1>1. ChatTurnsInv => ChatTurnsTypeOK
  BY DEF ChatTurnsInv
<1>2. ChatTurnsTypeOK /\ ToolTurnsTypeOK /\ ChatTurnsAreHonest /\ ToolTurnsAreWhole
        => ClientTurnsAreHonest
  BY DEF ClientTurnsAreHonest
<1>3. QED
  BY <1>1, <1>2, TurnsAreInOrder, TurnsAreAlwaysHonest, ToolsAreInOrder, ToolTurnsAreAlwaysWhole,
     ToolTurnsHaveTheirType, PTL DEF LoadClientsSpec
=============================================================================
