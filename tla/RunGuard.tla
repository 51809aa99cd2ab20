------------------------------ MODULE RunGuard ------------------------------
(***************************************************************************)
(* Ownership of a measured target (agent_db/stress/guard.py and the guarded *)
(* section of stress/cli.py): a load run takes a lock file, names itself in *)
(* it, measures, writes its terminal status and unlinks the file.  A run    *)
(* that finds the file of a dead process removes it and tries again.        *)
(* Processes are killed at any point.                                      *)
(*                                                                         *)
(* The file is created with O_EXCL and unlinked by its path, so a process   *)
(* unlinks whatever file is there by then: between the reading of a holder  *)
(* and the unlinking others run.                                           *)
(***************************************************************************)
EXTENDS Naturals, FiniteSets

CONSTANTS
    LoadRuns,   \* the processes started against one target
    NoRun       \* no process

ASSUME GuardAssumption == NoRun \notin LoadRuns

\* Where a process is.  "created" to "releasing" own the lock in their own
\* eyes; "gone" has exited by itself, "killed" has not.
Owning == {"created", "holding", "measuring", "stopping", "finished",
           "stopped", "dropping", "dropped"}
GuardAts == {"new", "clearing", "gone", "killed"} \cup Owning
Exited == {"gone", "killed"}

VARIABLES
    lockFile,    \* the file: who created it, and whether it names its creator
    guardAt,     \* where each process is
    judged,      \* the dead holder a process is about to clean up after
    runStatus,   \* status.json of each run
    traffic,     \* processes whose workers fire at the target
    robbed,      \* a clean-up took the file of another process than it judged
    outlived     \* processes whose workers outlived the join of an abort

guardVars == <<lockFile, guardAt, judged, runStatus, traffic, robbed, outlived>>

FreeLock == [by |-> NoRun, named |-> FALSE]

GuardTypeOK ==
    /\ lockFile \in [by : LoadRuns \cup {NoRun}, named : BOOLEAN]
    /\ guardAt \in [LoadRuns -> GuardAts]
    /\ judged \in [LoadRuns -> LoadRuns \cup {NoRun}]
    /\ runStatus \in [LoadRuns -> {"none", "running", "completed", "aborted"}]
    /\ traffic \subseteq LoadRuns
    /\ robbed \in BOOLEAN
    /\ outlived \subseteq LoadRuns

GuardInit ==
    /\ lockFile = FreeLock
    /\ guardAt = [p \in LoadRuns |-> "new"]
    /\ judged = [p \in LoadRuns |-> NoRun]
    /\ runStatus = [p \in LoadRuns |-> "none"]
    /\ traffic = {}
    /\ robbed = FALSE
    /\ outlived = {}

Goes(p, at) == guardAt' = [guardAt EXCEPT ![p] = at]

\* The process p unlinks the path, believing the file to be that of "of".
Unlink(of) ==
    /\ lockFile' = FreeLock
    /\ robbed' = (robbed \/ lockFile.by \notin {of, NoRun})

-----------------------------------------------------------------------------
\* acquire

Create(p) ==
    /\ guardAt[p] = "new"
    /\ lockFile.by = NoRun
    /\ lockFile' = [by |-> p, named |-> FALSE]
    /\ Goes(p, "created")
    /\ UNCHANGED <<judged, runStatus, traffic, robbed, outlived>>

\* Faulty variant of Stale: a holder is taken for dead.
StaleByName == lockFile.named

\* The file is there: its content is read and the holder's pid is probed.  A
\* file that names nobody (its creator died, or has not written yet) is never
\* taken for stale.
Stale == lockFile.named /\ guardAt[lockFile.by] \in Exited

FindStale(p) ==
    /\ guardAt[p] = "new"
    /\ lockFile.by # NoRun
    /\ Stale
    /\ judged' = [judged EXCEPT ![p] = lockFile.by]
    /\ Goes(p, "clearing")
    /\ UNCHANGED <<lockFile, runStatus, traffic, robbed, outlived>>

Refuse(p) ==
    /\ guardAt[p] = "new"
    /\ lockFile.by # NoRun
    /\ ~Stale
    /\ Goes(p, "gone")
    /\ UNCHANGED <<lockFile, judged, runStatus, traffic, robbed, outlived>>

CleanStale(p) ==
    /\ guardAt[p] = "clearing"
    /\ Unlink(judged[p])
    /\ Goes(p, "new")
    /\ UNCHANGED <<judged, runStatus, traffic, outlived>>

\* The holder is written through the descriptor: when the path has meanwhile
\* been unlinked, into a file nobody can read.
NameHolder(p) ==
    /\ guardAt[p] = "created"
    /\ lockFile' = IF lockFile.by = p THEN [lockFile EXCEPT !.named = TRUE]
                                      ELSE lockFile
    /\ Goes(p, "holding")
    /\ UNCHANGED <<judged, runStatus, traffic, robbed, outlived>>

\* Writing the holder or making the run directory fails: the path is unlinked
\* and the error goes out of acquire.
AcquireFails(p) ==
    /\ guardAt[p] = "created"
    /\ Unlink(p)
    /\ Goes(p, "gone")
    /\ UNCHANGED <<judged, runStatus, traffic, outlived>>

-----------------------------------------------------------------------------
\* The guarded section of run_cmd

\* RunLayout.create fails: the "finally" block asserts that there is a layout
\* and raises before it releases anything.
LayoutFails(p) ==
    /\ guardAt[p] = "holding"
    /\ Goes(p, "gone")
    /\ UNCHANGED <<lockFile, judged, runStatus, traffic, robbed, outlived>>

Measure(p) ==
    /\ guardAt[p] = "holding"
    /\ runStatus' = [runStatus EXCEPT ![p] = "running"]
    /\ traffic' = traffic \cup {p}
    /\ Goes(p, "measuring")
    /\ UNCHANGED <<lockFile, judged, robbed, outlived>>

\* The ladder returned: every stage joined its workers, the report is written.
Conclude(p) ==
    /\ guardAt[p] = "measuring"
    /\ runStatus' = [runStatus EXCEPT ![p] = "completed"]
    /\ traffic' = traffic \ {p}
    /\ Goes(p, "finished")
    /\ UNCHANGED <<lockFile, judged, robbed, outlived>>

\* Ctrl-C, a crash of the ladder, a failed preflight.
StopRun(p) ==
    /\ guardAt[p] = "measuring"
    /\ Goes(p, "stopping")
    /\ UNCHANGED <<lockFile, judged, runStatus, traffic, robbed, outlived>>

\* The workers are told to stop and joined, for ten seconds each: a turn that
\* lasts longer outlives the join.  The terminal status follows.
AbortRun(p, late) ==
    /\ guardAt[p] = "stopping"
    /\ late => p \in traffic
    /\ traffic' = IF late THEN traffic ELSE traffic \ {p}
    /\ outlived' = IF late THEN outlived \cup {p} ELSE outlived
    /\ runStatus' = [runStatus EXCEPT ![p] = "aborted"]
    /\ Goes(p, "stopped")
    /\ UNCHANGED <<lockFile, judged, robbed>>

-----------------------------------------------------------------------------
\* release

MyLock(p) == lockFile = [by |-> p, named |-> TRUE]

ReadHolder(p) ==
    /\ guardAt[p] \in {"finished", "stopped"}
    /\ MyLock(p)
    /\ Goes(p, "dropping")
    /\ UNCHANGED <<lockFile, judged, runStatus, traffic, robbed, outlived>>

\* The file is not this run's any more: after a completed ladder that is an
\* error, which turns the status into "aborted"; an aborted run stays quiet.
Dispossessed(p) ==
    /\ guardAt[p] \in {"finished", "stopped"}
    /\ ~MyLock(p)
    /\ Goes(p, IF guardAt[p] = "finished" THEN "stopping" ELSE "dropped")
    /\ UNCHANGED <<lockFile, judged, runStatus, traffic, robbed, outlived>>

DropLock(p) ==
    /\ guardAt[p] = "dropping"
    /\ Unlink(p)
    /\ Goes(p, "dropped")
    /\ UNCHANGED <<judged, runStatus, traffic, outlived>>

\* The process ends: its threads are daemons and end with it.
ExitRun(p) ==
    /\ guardAt[p] = "dropped"
    /\ traffic' = traffic \ {p}
    /\ Goes(p, "gone")
    /\ UNCHANGED <<lockFile, judged, runStatus, robbed, outlived>>

Kill(p) ==
    /\ guardAt[p] \notin Exited
    /\ traffic' = traffic \ {p}
    /\ Goes(p, "killed")
    /\ UNCHANGED <<lockFile, judged, runStatus, robbed, outlived>>

GuardNext ==
    \E p \in LoadRuns :
        \/ Create(p) \/ FindStale(p) \/ Refuse(p) \/ CleanStale(p)
        \/ NameHolder(p) \/ AcquireFails(p) \/ LayoutFails(p) \/ Measure(p)
        \/ Conclude(p) \/ StopRun(p)
        \/ \E late \in BOOLEAN : AbortRun(p, late)
        \/ ReadHolder(p) \/ Dispossessed(p) \/ DropLock(p)
        \/ ExitRun(p) \/ Kill(p)

GuardSpec == GuardInit /\ [][GuardNext]_guardVars

-----------------------------------------------------------------------------
\* "Own one measured target at a time" (guard.py): two processes never fire
\* at the target together, and the lock is there while one does.  Two faults
\* of the code are excepted, and the model reaches both: two processes that
\* clean up after the same dead holder, of which the slower one unlinks the
\* lock the faster one has just taken (robbed); and an abort whose workers
\* outlive the bounded join, so that the lock is free while they still fire
\* (outlived).
OneGenerator ==
    ~robbed => \A p, q \in traffic \ outlived :
                  p = q /\ lockFile = [by |-> p, named |-> TRUE]

\* A run that ended by itself says how: its status is terminal, also when
\* another process took its lock away; and none says "completed" that leaves
\* workers behind.
StatusIsTruthful ==
    /\ \A p \in LoadRuns : guardAt[p] = "gone" => runStatus[p] # "running"
    /\ \A p \in LoadRuns :
          guardAt[p] \in {"dropped", "gone"} /\ runStatus[p] = "completed"
              => p \notin traffic \cup outlived

\* What the evidence of a run rests on.
TargetIsOwned == OneGenerator /\ StatusIsTruthful
=============================================================================
