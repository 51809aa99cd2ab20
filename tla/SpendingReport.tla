---------------------------- MODULE SpendingReport ----------------------------
(***************************************************************************)
(* The spending report of the api-service (SpendingChecker in spending.py, *)
(* its adapter in agent/adapters.py, _check_spending of agent/loop.py and  *)
(* the budget endpoint of server/routes/admin.py).                         *)
(*                                                                         *)
(* Every worker process keeps what each tenant spent, and the budgets that *)
(* were set, in memory, and writes both to the one file after each change. *)
(* A turn records the cost of a model call for each of its tenants in a    *)
(* thread, and without reservations asks afterwards whether it may go on;  *)
(* the administrator sets budgets on the event loop.  A turn may be        *)
(* cancelled, a write may fail, a worker may crash.  Each call costs 1; one *)
(* that costs nothing is neither recorded nor checked.  A worker reads the *)
(* file when a turn or a budget first needs its checker.                   *)
(***************************************************************************)
EXTENDS Naturals, Sequences, FiniteSets, FiniteSetsExt, SequencesExt, FiniteSums

CONSTANTS
    ReportWorkers,
    ReportTurns,
    TenantIds,          \* of each turn, the tenants of its scope in their order
    ReportTenants,
    SettableBudgets,    \* what the administrator may set; 0 is no limit
    DefaultBudget,
    NoBudget,           \* no override
    Unloaded,           \* the worker has not asked for its checker yet
    MaxReportCalls,     \* bound: calls of each turn
    MaxReportUpsets     \* bound: budgets set, and crashes

\* What SpendingChecker keeps, and writes: _spending and _overrides.
Report == [spent : [ReportTenants -> Nat],
           overrides : [ReportTenants -> SettableBudgets \cup {NoBudget}]]

ASSUME SpendingReportAssumption ==
    /\ IsFiniteSet(ReportTurns)
    /\ Unloaded \notin Report
    /\ TenantIds \in [ReportTurns -> Seq(ReportTenants) \ {<<>>}]
    /\ \A turn \in ReportTurns : IsInjective(TenantIds[turn])
    /\ ReportTurns \cap ReportWorkers = {}
    /\ MaxReportCalls \in [ReportTurns -> Nat]
    /\ SettableBudgets \cup {DefaultBudget, MaxReportUpsets} \subseteq Nat

VARIABLES
    workerOf,       \* the worker each turn runs in
    reserving,      \* spending is admitted by the ledger: nothing is checked here
    checker,        \* of each worker: _spending and _overrides
    spendingFile,   \* spending.json
    paying,         \* of each turn: where it is
    saver,          \* of each thread, and of each event loop: its _persist
    reportUpsets,
    found,          \* history: of each worker, what it read from the file
    inForce,        \* history: the budgets each tenant ever had
    crashed,        \* history: the workers that did
    settled         \* history: the last write was the last change's

reportVars == <<workerOf, reserving, checker, spendingFile, paying, saver, reportUpsets,
                found, inForce, crashed, settled>>

EmptyReport == [spent |-> [t \in ReportTenants |-> 0],
                overrides |-> [t \in ReportTenants |-> NoBudget]]

\* No _persist, one that is to read the memory, and one that has read it.
NotSaving == [at |-> "none"]
Changed == [at |-> "changed", newest |-> TRUE]
Writing(s) == [at |-> "write", newest |-> saver[s].newest, snapshot |-> checker[
                   IF s \in ReportTurns THEN workerOf[s] ELSE s]]

SpendingReportInit ==
    /\ workerOf \in [ReportTurns -> ReportWorkers]
    /\ reserving \in BOOLEAN
    /\ checker = [w \in ReportWorkers |-> Unloaded]
    /\ spendingFile = EmptyReport
    /\ paying = [turn \in ReportTurns |->
          [at |-> "ready", calls |-> 0, nth |-> 1, budget |-> 0, cancelled |-> FALSE]]
    /\ saver = [s \in ReportTurns \cup ReportWorkers |-> NotSaving]
    /\ reportUpsets = 0
    /\ found = [w \in ReportWorkers |-> EmptyReport.spent]
    /\ inForce = [t \in ReportTenants |-> {DefaultBudget}]
    /\ crashed = {}
    /\ settled = TRUE

SpendingReportTypeOK ==
    /\ \A w \in ReportWorkers : checker[w] = Unloaded \/ checker[w] \in Report
    /\ spendingFile \in Report
    /\ \A turn \in ReportTurns :
          /\ paying[turn].at \in {"ready", "record", "thread", "check", "judge",
                                  "limited", "over"}
          /\ paying[turn].nth \in 1 .. Len(TenantIds[turn])
    /\ \A s \in DOMAIN saver : saver[s].at \in {"none", "changed", "write"}

-----------------------------------------------------------------------------
\* get_spending_checker: a worker reads the file when it first needs its checker.
CheckerOf(w) == IF checker[w] = Unloaded THEN spendingFile ELSE checker[w]

BudgetOf(t, report) ==
    IF report.overrides[t] = NoBudget THEN DefaultBudget ELSE report.overrides[t]

\* A handler of worker w that does not await: nothing else happens on its loop.
LoopFree(w) ==
    /\ saver[w] = NotSaving
    /\ \A turn \in ReportTurns : workerOf[turn] = w => paying[turn].at # "judge"

Runs(turn) == LoopFree(workerOf[turn]) /\ ~paying[turn].cancelled

\* Worker w has its checker.
Loads(w) ==
    found' = [found EXCEPT ![w] = IF checker[w] = Unloaded THEN spendingFile.spent ELSE @]

\* Saver s has changed what worker w remembers, and is about to persist it.
Change(s, w, report) ==
    /\ checker' = [checker EXCEPT ![w] = report]
    /\ saver' = [o \in DOMAIN saver |->
          IF o = s THEN Changed
          ELSE IF saver[o] = NotSaving THEN NotSaving ELSE [saver[o] EXCEPT !.newest = FALSE]]
    /\ settled' = FALSE

-----------------------------------------------------------------------------
(* A turn *)

CallModel(turn) ==
    /\ Runs(turn) /\ paying[turn].at = "ready" /\ paying[turn].calls < MaxReportCalls[turn]
    /\ paying' = [paying EXCEPT ![turn].at = "record", ![turn].calls = @ + 1]
    /\ UNCHANGED <<workerOf, reserving, checker, spendingFile, saver, reportUpsets, found,
                   inForce, crashed, settled>>

\* The turn hands the record of its next tenant to a thread.
StartThread(turn) ==
    LET w == workerOf[turn] IN
    /\ Runs(turn) /\ paying[turn].at = "record"
    /\ paying' = [paying EXCEPT ![turn].at = "thread"]
    /\ checker' = [checker EXCEPT ![w] = CheckerOf(w)]
    /\ Loads(w)
    /\ UNCHANGED <<workerOf, reserving, spendingFile, saver, reportUpsets, inForce, crashed,
                   settled>>

\* record_spending, in that thread, whatever the loop does meanwhile.
RecordSpending(turn) ==
    LET w == workerOf[turn] IN
    /\ paying[turn].at = "thread" /\ saver[turn] = NotSaving
    /\ Change(turn, w,
          [checker[w] EXCEPT !.spent[TenantIds[turn][paying[turn].nth]] = @ + 1])
    /\ UNCHANGED <<workerOf, reserving, spendingFile, paying, reportUpsets, found, inForce,
                   crashed>>

\* check_limits, where it is enabled, reads the budget and, in a second turn of the lock,
\* what was spent.
ReadBudget(turn) ==
    /\ Runs(turn) /\ paying[turn].at = "check"
    /\ LET budget == BudgetOf(TenantIds[turn][1], checker[workerOf[turn]]) IN
       paying' = [paying EXCEPT ![turn].budget = budget,
                                ![turn].at = IF budget = 0 THEN "ready" ELSE "judge"]
    /\ UNCHANGED <<workerOf, reserving, checker, spendingFile, saver, reportUpsets, found,
                   inForce, crashed, settled>>

JudgeSpending(turn) ==
    /\ paying[turn].at = "judge"
    /\ paying' = [paying EXCEPT ![turn].at =
          IF checker[workerOf[turn]].spent[TenantIds[turn][1]] >= paying[turn].budget
          THEN "limited" ELSE "ready"]
    /\ UNCHANGED <<workerOf, reserving, checker, spendingFile, saver, reportUpsets, found,
                   inForce, crashed, settled>>

\* The thread of a cancelled turn goes on to its end, or never began.  (One cancelled
\* between two calls makes no further call, as any turn may.)
CancelTurn(turn) ==
    /\ Runs(turn) /\ paying[turn].at \in {"record", "thread", "check"}
    /\ paying' = [paying EXCEPT ![turn].cancelled = TRUE]
    /\ UNCHANGED <<workerOf, reserving, checker, spendingFile, saver, reportUpsets, found,
                   inForce, crashed, settled>>

-----------------------------------------------------------------------------
(* _persist *)

TakeSnapshot(s) ==
    /\ saver[s].at = "changed"
    /\ saver' = [saver EXCEPT ![s] = Writing(s)]
    /\ UNCHANGED <<workerOf, reserving, checker, spendingFile, paying, reportUpsets, found,
                   inForce, crashed, settled>>

\* The next tenant of the scope; after the last the check, of one tenant's turns alone.
Recorded(turn) ==
    IF paying[turn].nth < Len(TenantIds[turn])
    THEN [paying[turn] EXCEPT !.nth = @ + 1, !.at = "record"]
    ELSE [paying[turn] EXCEPT !.nth = 1,
             !.at = IF ~reserving /\ Len(TenantIds[turn]) = 1 THEN "check" ELSE "ready"]

\* The temporary file replaces the report, or an OSError is logged and forgotten.
ReplaceFile(s) ==
    /\ saver[s].at = "write"
    /\ \/ /\ spendingFile' = saver[s].snapshot
          /\ settled' = saver[s].newest
       \/ /\ UNCHANGED spendingFile
          /\ settled' = FALSE
    /\ saver' = [saver EXCEPT ![s] = NotSaving]
    /\ paying' = IF s \in ReportTurns THEN [paying EXCEPT ![s] = Recorded(s)] ELSE paying
    /\ UNCHANGED <<workerOf, reserving, checker, reportUpsets, found, inForce, crashed>>

-----------------------------------------------------------------------------
(* The administrator, and crashes *)

SetBudget(w, t, budget) ==
    /\ LoopFree(w) /\ reportUpsets < MaxReportUpsets
    /\ reportUpsets' = reportUpsets + 1
    /\ Change(w, w, [CheckerOf(w) EXCEPT !.overrides[t] = budget])
    /\ Loads(w)
    /\ inForce' = [inForce EXCEPT ![t] = @ \cup {budget}]
    /\ UNCHANGED <<workerOf, reserving, spendingFile, paying, crashed>>

\* The threads die with the process.
CrashReport(w) ==
    LET died == {turn \in ReportTurns : workerOf[turn] = w} IN
    /\ reportUpsets < MaxReportUpsets
    /\ reportUpsets' = reportUpsets + 1
    /\ checker' = [checker EXCEPT ![w] = Unloaded]
    /\ saver' = [s \in DOMAIN saver |-> IF s \in died \cup {w} THEN NotSaving ELSE saver[s]]
    /\ paying' = [turn \in ReportTurns |->
          IF turn \in died THEN [paying[turn] EXCEPT !.at = "over"] ELSE paying[turn]]
    /\ crashed' = crashed \cup {w}
    /\ settled' = FALSE
    /\ UNCHANGED <<workerOf, reserving, spendingFile, found, inForce>>

SpendingReportNext ==
    \/ \E turn \in ReportTurns :
        \/ CallModel(turn) \/ StartThread(turn) \/ RecordSpending(turn)
        \/ ReadBudget(turn) \/ JudgeSpending(turn) \/ CancelTurn(turn)
    \/ \E s \in DOMAIN saver : TakeSnapshot(s) \/ ReplaceFile(s)
    \/ \E w \in ReportWorkers :
        \/ \E t \in ReportTenants, budget \in SettableBudgets : SetBudget(w, t, budget)
        \/ CrashReport(w)

SpendingReportSpec == SpendingReportInit /\ [][SpendingReportNext]_reportVars

-----------------------------------------------------------------------------
(* Properties *)

CallsFor(turn, t) == IF Contains(TenantIds[turn], t) THEN paying[turn].calls ELSE 0
CallsOfAll(turns, t) == SumOver([turn \in ReportTurns |-> CallsFor(turn, t)], turns)
TurnsOfWorker(w) == {turn \in ReportTurns : workerOf[turn] = w}

\* The call under way that is not recorded for t: it never is when the turn is cancelled
\* before its thread for t begins.
Outstanding(turn, t) ==
    /\ paying[turn].at \in {"record", "thread"}
    /\ \E n \in paying[turn].nth .. Len(TenantIds[turn]) :
          /\ TenantIds[turn][n] = t
          /\ n = paying[turn].nth => saver[turn] = NotSaving

\* A worker that did not crash remembers, beyond what it found in the file, every call of
\* its turns once for every tenant of their scope, whatever was recorded, written or set
\* meanwhile; a turn that is cancelled between two tenants leaves the later ones out.
PaidCallsAreCounted ==
    \A w \in ReportWorkers \ crashed, t \in ReportTenants : checker[w] # Unloaded =>
        checker[w].spent[t]
            + Cardinality({turn \in TurnsOfWorker(w) : Outstanding(turn, t)})
        = found[w][t] + CallsOfAll(TurnsOfWorker(w), t)

\* No call is counted twice, in memory or in the file, over restarts of any worker.
NothingIsCountedTwice ==
    \A t \in ReportTenants :
        /\ spendingFile.spent[t] <= CallsOfAll(ReportTurns, t)
        /\ \A w \in ReportWorkers : checker[w] # Unloaded =>
              checker[w].spent[t] <= CallsOfAll(ReportTurns, t)

\* Without reservations the calls of a tenant's own turns exceed the largest budget it
\* ever had, in a worker that did not crash, by the calls under way when it was used up:
\* one of each turn ("can only stop the NEXT call", the tests of the checker).
OverrunIsBounded ==
    \A w \in ReportWorkers \ crashed, t \in ReportTenants :
        ~reserving /\ 0 \notin inForce[t] =>
            LET own == {turn \in TurnsOfWorker(w) : TenantIds[turn] = <<t>>} IN
            CallsOfAll(own, t) <= Max(inForce[t]) - 1 + Cardinality(own)

\* While one worker runs, the file is as its memory when the last write was the last
\* change's, as a quiet one's is ("must converge the file with memory", the tests); the
\* write of an older change that comes after it may take the file back.
LastWriteConverges ==
    \A w \in ReportWorkers :
        settled /\ checker[w] # Unloaded /\ TurnsOfWorker(w) = ReportTurns
            /\ (\A o \in ReportWorkers \ {w} : checker[o] = Unloaded)
        => spendingFile = checker[w]

\* What the report says was spent, and what it stops.
ReportIsSound ==
    PaidCallsAreCounted /\ NothingIsCountedTwice /\ OverrunIsBounded /\ LastWriteConverges
=============================================================================
