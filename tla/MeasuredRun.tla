------------------------------ MODULE MeasuredRun ------------------------------
(***************************************************************************)
(* One run of the load harness, from the lock of its target to its exit     *)
(* code: run_cmd of stress/cli.py with the preflight, the manifest, the      *)
(* evidence tree, the report and the collector of server metrics, whose     *)
(* thread scrapes beside the ladder.  Ctrl-C and a failing write can come    *)
(* at every step, a second Ctrl-C during the cleaning up.                   *)
(***************************************************************************)
EXTENDS Naturals, Sequences, FiniteSets, SequencesExt

CONSTANTS
    RunTenants,   \* tenants of the profile
    MaxStages,    \* bound: stages of the ladder, attempts and repeats included
    MaxSlices     \* bound: slices the thread takes on its interval

ASSUME MeasuredRunAssumption ==
    /\ IsFiniteSet(RunTenants)
    /\ MaxStages \in Nat \ {0}
    /\ MaxSlices \in Nat

\* _RunStopped: the status it writes and the exit code.
Refused == [status |-> "failed", code |-> 2]
Aborted == [status |-> "aborted", code |-> 3]
NotStopped == [status |-> "none", code |-> 0]

\* The steps of the guarded section before the ladder, the ladder, and what follows.
Preparing == {"layout", "stack", "snapshot", "started", "preflight", "manifest", "targets"}
InLadder == {"rungs", "staging", "sinking", "reporting", "rendering"}
Closing == {"verdict", "releasing", "printing"}
Finally == {"halt", "observer", "status", "release", "leaving"}

VARIABLES
    runAt,        \* where run_cmd is
    statusFile,   \* status.json, or "none"
    exitCode,     \* of the process; 9 while it runs
    exitWith,     \* the code of the typer.Exit on its way through finally
    stopping,     \* the _RunStopped that was caught
    targetHeld,   \* the lock of the target is there
    tree,         \* the artefacts of the run directory
    checkedFor,   \* what the preflight found about each tenant
    begunStages, stageOn, doneStages,
    ladderSays,   \* LadderResult.status, coarsely
    scraper,      \* the collector's thread
    scrapeOf,     \* what it is about to report
    slicesTaken,  \* the slices of one service, in the order they were appended
    excuses       \* events after which less is promised

measuredRunVars ==
    <<runAt, statusFile, exitCode, exitWith, stopping, targetHeld, tree, checkedFor,
      begunStages, stageOn, doneStages, ladderSays, scraper, scrapeOf, slicesTaken, excuses>>
ladderPart == <<begunStages, stageOn, doneStages, ladderSays>>
collectorPart == <<scraper, scrapeOf, slicesTaken>>
writtenPart == <<statusFile, tree, checkedFor>>
endPart == <<exitCode, exitWith, stopping, targetHeld, excuses>>

\* One scrape describes the moment it began.  (A slice may be a gap; it is then a named
\* one.)
SliceNow == [begun |-> begunStages, on |-> stageOn]

Labels == {"raw", "generator"} \X (1 .. MaxStages)
Artefacts == {"gap", "profile", "stub", "preflight", "manifest", "report", "markdown", "server"}

MeasuredRunTypeOK ==
    /\ runAt \in {"begin", "locked", "exited"} \cup Preparing \cup InLadder \cup Closing \cup Finally
    /\ statusFile \in {"none", "running", "completed", "failed", "aborted"}
    /\ exitCode \in {0, 1, 2, 3, 4, 9} /\ exitWith \in {0, 2, 3, 4}
    /\ stopping \in {NotStopped, Refused, Aborted}
    /\ targetHeld \in BOOLEAN
    /\ tree \subseteq {<<a>> : a \in Artefacts} \cup Labels
    /\ checkedFor \in [RunTenants -> {"untouched", "refused", "skipped", "ok"}]
    /\ begunStages \in 0 .. MaxStages /\ doneStages \in 0 .. begunStages
    /\ stageOn \in BOOLEAN
    /\ ladderSays \in {"none", "knee", "no knee", "unjudgeable"}
    /\ scraper \in {"none", "off", "waiting", "scraping", "over"}
    /\ scrapeOf \in [begun : 0 .. MaxStages, on : BOOLEAN]
    /\ slicesTaken \in Seq([begun : 0 .. MaxStages, on : BOOLEAN])
    /\ excuses \subseteq {"bad target", "cut", "unwritten", "outlived"}

MeasuredRunInit ==
    /\ runAt = "begin"
    /\ statusFile = "none"
    /\ exitCode = 9 /\ exitWith = 0 /\ stopping = NotStopped
    /\ targetHeld = FALSE
    /\ tree = {}
    /\ checkedFor = [t \in RunTenants |-> "untouched"]
    /\ begunStages = 0 /\ stageOn = FALSE /\ doneStages = 0 /\ ladderSays = "none"
    /\ scraper = "none" /\ scrapeOf = [begun |-> 0, on |-> FALSE] /\ slicesTaken = << >>
    /\ excuses = {}

MovesOn(from, to) == runAt = from /\ runAt' = to
Writes(artefacts) == tree' = tree \cup {<<a>> : a \in artefacts}

\* The process is over, and with it the daemon threads of the workers and the collector.
Exits(code) ==
    /\ runAt' = "exited"
    /\ exitCode' = code
    /\ stageOn' = FALSE
    /\ scraper' = IF scraper = "none" THEN "none" ELSE "over"

-----------------------------------------------------------------------------
\* The lock, and the section it guards.

Acquired ==
    /\ MovesOn("begin", "locked")
    /\ targetHeld' = TRUE
    /\ UNCHANGED <<exitCode, exitWith, stopping, excuses, writtenPart, ladderPart, collectorPart>>

\* The profile cannot be run, or somebody else holds the target.
NotAcquired ==
    /\ runAt = "begin"
    /\ Exits(2)
    /\ UNCHANGED <<exitWith, stopping, targetHeld, excuses, writtenPart, begunStages,
                   doneStages, ladderSays, scrapeOf, slicesTaken>>

EntersTry ==
    /\ MovesOn("locked", "layout")
    /\ UNCHANGED <<endPart, writtenPart, ladderPart, collectorPart>>

LayoutCreated ==
    /\ MovesOn("layout", "stack")
    /\ Writes({"gap"})
    /\ UNCHANGED <<endPart, statusFile, checkedFor, ladderPart, collectorPart>>

SnapshotWritten ==
    /\ MovesOn("stack", "snapshot")
    /\ Writes({"profile"})
    /\ UNCHANGED <<endPart, statusFile, checkedFor, ladderPart, collectorPart>>

StubLogCopied ==
    /\ MovesOn("snapshot", "started")
    /\ Writes({"stub"}) \/ UNCHANGED tree
    /\ UNCHANGED <<endPart, statusFile, checkedFor, ladderPart, collectorPart>>

StatusRunning ==
    /\ MovesOn("started", "preflight")
    /\ statusFile' = "running"
    /\ UNCHANGED <<endPart, tree, checkedFor, ladderPart, collectorPart>>

\* _RunStopped(failed) is caught: finally comes next.
Refuses ==
    /\ runAt' = "halt"
    /\ stopping' = Refused
    /\ UNCHANGED <<exitCode, exitWith, targetHeld, excuses, ladderPart,
                   collectorPart>>

StubLogMissing ==
    /\ runAt = "snapshot"
    /\ Refuses
    /\ UNCHANGED <<statusFile, tree, checkedFor>>

\* What a preflight finds of its tenants.  The one of L1 reads every manifest first, and
\* probes only if none was refused; the one of the chat layers only probes.
PreflightFindings ==
    LET outcomes == [RunTenants -> {"ok", "refused"}]
        manifests == {[t \in RunTenants |-> IF o[t] = "ok" THEN "untouched" ELSE "refused"] :
                         o \in {o \in outcomes : \E t \in RunTenants : o[t] = "refused"}}
    IN  manifests \cup outcomes \cup {[t \in RunTenants |-> "skipped"]}

PreflightPasses ==
    /\ MovesOn("preflight", "manifest")
    /\ \E found \in PreflightFindings :
          /\ "refused" \notin {found[t] : t \in RunTenants}
          /\ checkedFor' = found
    /\ Writes({"preflight"})
    /\ UNCHANGED <<endPart, statusFile, ladderPart, collectorPart>>

\* The stand is not there at all (fixture or health), a tenant is refused, or the
\* preflight itself raises: its artefact is written all the same.
PreflightRefuses ==
    /\ runAt = "preflight"
    /\ \/ UNCHANGED checkedFor
       \/ \E found \in PreflightFindings :
             /\ "refused" \in {found[t] : t \in RunTenants}
             /\ checkedFor' = found
    /\ Writes({"preflight"})
    /\ Refuses
    /\ UNCHANGED statusFile

ManifestWritten ==
    /\ MovesOn("manifest", "targets")
    /\ Writes({"manifest"})
    /\ UNCHANGED <<endPart, statusFile, checkedFor, ladderPart, collectorPart>>

\* typer.Exit passes the handlers by: finally finds nothing to write.
DryRun ==
    /\ MovesOn("targets", "halt")
    /\ statusFile' = "completed"
    /\ exitWith' = 0
    /\ UNCHANGED <<exitCode, stopping, targetHeld, excuses, tree, checkedFor,
                   ladderPart, collectorPart>>

\* A --metrics-target that cannot be read raises an Exit of its own, past the status.
BadMetricsTarget ==
    /\ MovesOn("targets", "halt")
    /\ exitWith' = 2
    /\ excuses' = excuses \cup {"bad target"}
    /\ UNCHANGED <<exitCode, stopping, targetHeld, writtenPart, ladderPart, collectorPart>>

\* MetricsCollector.start: a slice before the first tick, then the thread.
CollectorStarts ==
    /\ MovesOn("targets", "rungs")
    /\ scraper' = "waiting"
    /\ slicesTaken' = <<SliceNow>>
    /\ UNCHANGED <<endPart, writtenPart, ladderPart, scrapeOf>>

\* Ctrl-C during the first slice: it may be there, but no thread is.
FirstSliceOnly ==
    /\ MovesOn("targets", "halt")
    /\ scraper' = "off"
    /\ slicesTaken' \in {<< >>, <<SliceNow>>}
    /\ stopping' = Aborted
    /\ UNCHANGED <<exitCode, exitWith, targetHeld, excuses, writtenPart, ladderPart, scrapeOf>>

NoCollector ==
    /\ MovesOn("targets", "rungs")
    /\ UNCHANGED <<endPart, writtenPart, ladderPart, collectorPart>>

-----------------------------------------------------------------------------
\* The ladder, as far as this command sees it, and the report.

StageBegins ==
    /\ MovesOn("rungs", "staging")
    /\ begunStages < MaxStages
    /\ begunStages' = begunStages + 1
    /\ stageOn' = TRUE
    /\ UNCHANGED <<endPart, writtenPart, doneStages, ladderSays, collectorPart>>

\* All workers are joined before a stage returns.
StageJoined ==
    /\ MovesOn("staging", "sinking")
    /\ stageOn' = FALSE
    /\ UNCHANGED <<endPart, writtenPart, begunStages, doneStages, ladderSays, collectorPart>>

\* StageEvidenceSink, before the ladder goes on.
StageSunk ==
    /\ MovesOn("sinking", "rungs")
    /\ tree' = tree \cup ({"raw", "generator"} \X {begunStages})
    /\ doneStages' = doneStages + 1
    /\ UNCHANGED <<endPart, statusFile, checkedFor, begunStages, stageOn, ladderSays,
                   collectorPart>>

\* What the ladder may conclude from at least one stage.
LadderReturns ==
    /\ MovesOn("rungs", "reporting")
    /\ doneStages > 0
    /\ ladderSays' \in {"knee", "no knee", "unjudgeable"}
    /\ UNCHANGED <<endPart, writtenPart, begunStages, stageOn, doneStages, collectorPart>>

ReportWritten ==
    /\ MovesOn("reporting", "rendering")
    /\ Writes({"report"})
    /\ UNCHANGED <<endPart, statusFile, checkedFor, ladderPart, collectorPart>>

\* build_report has cleared the verdicts of an unjudgeable run, and _knee_chart calls
\* upper() on them: only the others are rendered.
MarkdownWritten ==
    /\ MovesOn("rendering", "verdict")
    /\ ladderSays # "unjudgeable"
    /\ Writes({"markdown"})
    /\ UNCHANGED <<endPart, statusFile, checkedFor, ladderPart, collectorPart>>

\* The terminal status, then guard.release, then the report on the console.
VerdictWritten ==
    /\ MovesOn("verdict", "releasing")
    /\ LET end == CASE ladderSays = "knee"    -> <<"completed", 0>>
                    [] ladderSays = "no knee" -> <<"failed", 4>>
                    [] OTHER                  -> <<"aborted", 3>>
       IN  statusFile' = end[1] /\ exitWith' = end[2]
    /\ UNCHANGED <<exitCode, stopping, targetHeld, excuses, tree, checkedFor,
                   ladderPart, collectorPart>>

ReleasedEarly ==
    /\ MovesOn("releasing", "printing")
    /\ targetHeld' = FALSE
    /\ UNCHANGED <<exitCode, exitWith, stopping, excuses, writtenPart, ladderPart, collectorPart>>

Printed ==
    /\ MovesOn("printing", "halt")
    /\ UNCHANGED <<endPart, writtenPart, ladderPart, collectorPart>>

-----------------------------------------------------------------------------
\* Ctrl-C, failures, and the cleaning up.

\* An exception that is no refusal, or Ctrl-C, anywhere in the guarded section.
SectionFails ==
    /\ runAt \in Preparing \cup InLadder \cup Closing
    /\ runAt' = "halt"
    /\ stopping' = Aborted
    /\ UNCHANGED <<exitCode, exitWith, targetHeld, excuses, writtenPart, ladderPart, collectorPart>>

\* Ctrl-C between the lock and the try, or during finally, leaves at once.
CutShort ==
    /\ runAt \in {"locked"} \cup Finally
    /\ Exits(1)
    /\ excuses' = excuses \cup {"cut"}
    /\ UNCHANGED <<exitWith, stopping, targetHeld, writtenPart, begunStages, doneStages,
                   ladderSays, scrapeOf, slicesTaken>>

\* Faulty variant of LoadHalted: the workers are told to stop, but not waited for.
LoadToldToStop ==
    /\ MovesOn("halt", "observer")
    /\ UNCHANGED <<endPart, writtenPart, ladderPart, collectorPart>>

\* runner.stop and join_workers, which waits for ten seconds: a slow turn may last longer.
LoadHalted ==
    /\ MovesOn("halt", "observer")
    /\ \/ stageOn' = FALSE /\ UNCHANGED excuses
       \/ stageOn /\ excuses' = excuses \cup {"outlived"} /\ UNCHANGED stageOn
    /\ UNCHANGED <<exitCode, exitWith, stopping, targetHeld, writtenPart, begunStages,
                   doneStages, ladderSays, collectorPart>>

\* The thread is waited for, for a while: a scrape that outlasts that appends its slice
\* after the last one, or too late to be written.
SlicesAtStop ==
    CASE scraper = "waiting"  -> {Append(slicesTaken, SliceNow)}
      [] scraper = "scraping" -> {slicesTaken \o <<scrapeOf, SliceNow>>,
                                  slicesTaken \o <<SliceNow, scrapeOf>>,
                                  Append(slicesTaken, SliceNow)}
      [] OTHER                -> {slicesTaken}

\* collector.stop with its last slice, then server/<service>.json; the marker of the gap
\* goes when every service is written, and a write that fails is let go.
ObserverStopped ==
    /\ MovesOn("observer", "status")
    /\ slicesTaken' \in SlicesAtStop
    /\ IF scraper = "none"
       THEN UNCHANGED <<scraper, tree>>
       ELSE /\ scraper' = "over"
            /\ tree' \in {tree, tree \cup {<<"server">>}, (tree \cup {<<"server">>}) \ {<<"gap">>}}
    /\ UNCHANGED <<endPart, statusFile, checkedFor, ladderPart, scrapeOf>>

StatusAtLast ==
    /\ MovesOn("status", "release")
    /\ IF stopping = NotStopped
       THEN UNCHANGED statusFile
       ELSE tree # {} /\ statusFile' = stopping.status
    /\ UNCHANGED <<endPart, tree, checkedFor, ladderPart, collectorPart>>

\* The layout was never made (an assertion fails), or the status cannot be written: the
\* exception replaces everything, the release too.
StatusUnwritten ==
    /\ runAt = "status"
    /\ stopping # NotStopped
    /\ Exits(1)
    /\ excuses' = excuses \cup {"unwritten"}
    /\ UNCHANGED <<exitWith, stopping, targetHeld, writtenPart, begunStages, doneStages,
                   ladderSays, scrapeOf, slicesTaken>>

ReleasedQuietly ==
    /\ MovesOn("release", "leaving")
    /\ targetHeld' = FALSE
    /\ UNCHANGED <<exitCode, exitWith, stopping, excuses, writtenPart, ladderPart, collectorPart>>

LeavesWithCode ==
    /\ runAt = "leaving"
    /\ Exits(IF stopping = NotStopped THEN exitWith ELSE stopping.code)
    /\ UNCHANGED <<exitWith, stopping, targetHeld, excuses, writtenPart, begunStages,
                   doneStages, ladderSays, scrapeOf, slicesTaken>>

-----------------------------------------------------------------------------
\* The collector's thread.

ScrapeBegins ==
    /\ runAt # "exited"
    /\ scraper = "waiting"
    /\ Len(slicesTaken) <= MaxSlices
    /\ scraper' = "scraping"
    /\ scrapeOf' = SliceNow
    /\ UNCHANGED <<runAt, endPart, writtenPart, ladderPart, slicesTaken>>

ScrapeEnds ==
    /\ scraper = "scraping"
    /\ scraper' = "waiting"
    /\ slicesTaken' = Append(slicesTaken, scrapeOf)
    /\ UNCHANGED <<runAt, endPart, writtenPart, ladderPart, scrapeOf>>

MeasuredRunNext ==
    \/ Acquired \/ NotAcquired \/ EntersTry \/ LayoutCreated \/ SnapshotWritten
    \/ StubLogCopied \/ StubLogMissing \/ StatusRunning \/ PreflightPasses
    \/ PreflightRefuses \/ ManifestWritten \/ DryRun \/ BadMetricsTarget
    \/ CollectorStarts \/ FirstSliceOnly \/ NoCollector
    \/ StageBegins \/ StageJoined \/ StageSunk \/ LadderReturns
    \/ ReportWritten \/ MarkdownWritten \/ VerdictWritten \/ ReleasedEarly \/ Printed
    \/ SectionFails \/ CutShort \/ LoadHalted \/ ObserverStopped
    \/ StatusAtLast \/ StatusUnwritten \/ ReleasedQuietly \/ LeavesWithCode
    \/ ScrapeBegins \/ ScrapeEnds

MeasuredRunSpec == MeasuredRunInit /\ [][MeasuredRunNext]_measuredRunVars

-----------------------------------------------------------------------------
\* The exit code and status.json tell the same, and the truth: 2 means that no load was
\* ever put on the target, 3 that the run was aborted, 4 that a whole ladder found no
\* knee, 0 that it found one, or that the run was dry.  (Not after a Ctrl-C during the
\* cleaning up, a failing write of the status, or a metrics target that cannot be read,
\* which leaves status.json at "running".)
StatusTellsTheTruth ==
    runAt = "exited" /\ excuses \cap {"cut", "unwritten", "bad target"} = {} =>
        \/ exitCode = 2 /\ statusFile \in {"none", "failed"} /\ begunStages = 0
        \/ exitCode = 3 /\ statusFile = "aborted"
        \/ exitCode = 4 /\ statusFile = "failed" /\ ladderSays = "no knee"
        \/ exitCode = 0 /\ statusFile = "completed" /\ (begunStages = 0 \/ ladderSays = "knee")

\* Load is put on a target only while this run owns it, and only when the preflight found
\* nothing against any of its tenants.
LoadIsAllowed ==
    stageOn =>
        /\ "refused" \notin {checkedFor[t] : t \in RunTenants}
        /\ <<"manifest">> \in tree
        /\ excuses = {} => targetHeld /\ runAt \in {"staging", "halt"}

\* The evidence is whole: a report rests on stages whose records and generator facts are
\* all there, and a ladder that ran to its end has its report.
EvidenceIsWhole ==
    /\ <<"report">> \in tree => {"raw", "generator"} \X (1 .. doneStages) \subseteq tree
    /\ statusFile \in {"completed", "failed"} /\ begunStages > 0 =>
          {<<"report">>, <<"markdown">>, <<"manifest">>, <<"preflight">>} \subseteq tree

\* The server's slices bracket the load: one is from before the first tick, one from
\* after the last.
SlicesBracketTheLoad ==
    <<"server">> \in tree /\ begunStages > 0 /\ excuses \cap {"outlived"} = {} =>
        /\ Head(slicesTaken).begun = 0
        /\ [begun |-> begunStages, on |-> FALSE] \in ToSet(slicesTaken)

\* What a run leaves behind can be believed.
RunIsBelievable ==
    StatusTellsTheTruth /\ LoadIsAllowed /\ EvidenceIsWhole /\ SlicesBracketTheLoad
=============================================================================
