------------------------------- MODULE BenchRun -------------------------------
(***************************************************************************)
(* The benchmark of the agent: run_cmd of bench/cli.py owns a target, asks   *)
(* every case of the fixture through the API, reads the metrics of the turn  *)
(* back from the API's backlog directory, lets DeterministicEvaluator judge  *)
(* the run and aggregates a report.  What a tool returned and what the       *)
(* answer says are sets of numbers (prices, counts); the wording of the      *)
(* answer is the set of markers the evaluator looks for.                     *)
(***************************************************************************)
EXTENDS Integers, Sequences, FiniteSets, SequencesExt, FiniteSetsExt, Selections

CONSTANTS
    Fixtures,        \* the sequences of cases the command may be given
    SampleRuns       \* what a turn may have streamed

ASSUME BenchRunAssumption ==
    /\ IsFiniteSet(SampleRuns)
    /\ \A f \in DOMAIN Fixtures :
          /\ Fixtures[f] \in Seq(ToSet(Fixtures[f]))
          /\ \E i \in DOMAIN Fixtures[f] : ~Fixtures[f][i].deprecated

QuestionAttempts == 3
NoTotal == -1
\* Sessions are numbered by their cases.
NoRecord == -1
Visitor == 0                                          \* somebody else's chat with the agent
BenchVerdicts == {"CORRECT", "PARTIAL", "WRONG", "ERROR"}

NoReport == [total |-> 0, counts |-> [v \in BenchVerdicts |-> 0], passed |-> 0, infra |-> 0]

-----------------------------------------------------------------------------
\* The evaluator.  A payload is [tool, kind, has, total]: kind is "rows", "text" (not
\* JSON), "scalar", "empty", "error" or "rejected" (the agent's own bad arguments).

Payloads(r) == ToSet(r.results)
ToolFailed(r) == \E p \in Payloads(r) : p.kind = "error"
InfraFailed(r) == ToolFailed(r) \/ r.errors

CalledNames(r) == ToSet(r.calls)
ForbiddenCall(c, r) == CalledNames(r) \cap c.mustNot # {}
ToolOk(c, r) ==
    /\ r.calls # << >>
    /\ c.mustCall # {} => CalledNames(r) \cap c.mustCall # {}
    /\ ~ForbiddenCall(c, r)

\* No result holds a row; what describes the schema does not count.
NoRows(r) ==
    \A p \in Payloads(r) :
        p.tool = "db_map" \/ p.kind \in {"empty", "scalar", "error", "rejected"}

\* All of the expected atoms, in one result.
FactFound(c, r) == \E p \in Payloads(r) : c.wants \subseteq p.has

\* A row is told from another by its id and the tool that returned it.
RowsOf(p) ==
    CASE p.kind = "rows" -> {p.tool} \X p.has
      [] p.kind \in {"text", "scalar"} -> {<<p.tool, "raw">>}
      [] OTHER -> {}
RetrievalOk(c, r) ==
    CASE c.type = "not_found" -> NoRows(r)
      [] c.type = "list" -> Cardinality(UNION {RowsOf(p) : p \in Payloads(r)}) >= c.least
      [] OTHER -> FactFound(c, r)

\* The forbidden data is there only when all of it is.
SaysForbidden(c, r) == c.bans # {} /\ c.bans \subseteq r.says
HasText(r) == r.says # {} \/ r.marks # {}
AnswerOk(c, r) ==
    CASE c.type = "not_found" -> ~SaysForbidden(c, r)
      [] c.type = "list" -> HasText(r)
      [] OTHER -> c.wants \subseteq r.says

LooksLikeData(r) == (\E n \in r.says : n >= 10) \/ "claims" \in r.marks
RefusalOk(c, r) ==
    \/ ~c.refusal
    \/ NoRows(r) /\ ~SaysForbidden(c, r) /\ ~LooksLikeData(r)
    \/ "refuses" \in r.marks

\* Products with a small factor, and sums of two or three with a small term: numbers the
\* agent may have worked out from what the tools returned.
SmallFactors == 1 .. 9
Products(known) == {b * s : b \in known \ SmallFactors, s \in SmallFactors}
Sums(known) ==
    {SumSet(terms) : terms \in
        {t \in SUBSET known : Cardinality(t) \in {2, 3} /\ t \cap SmallFactors # {}}}
KnownNumbers(r) == UNION {p.has : p \in Payloads(r)}
Unsupported(c, r) ==
    {n \in r.says : n >= 10} \ (KnownNumbers(r) \cup c.told \cup r.worked
        \cup Products(KnownNumbers(r)) \cup Sums(KnownNumbers(r)))

\* With breakdown_allowed, parts of a confirmed total that the answer states.
Totals(r) == SelectSeq([i \in DOMAIN r.results |-> r.results[i].total], LAMBDA t : t # NoTotal)
BrokenDown(c, r) ==
    LET total == Max({0} \cup ToSet(Totals(r)))
        parts == {n \in Unsupported(c, r) : n < total}
    IN  IF /\ c.breakdown /\ Totals(r) # << >> /\ total \in r.says
           /\ parts # {} /\ SumSet(parts) <= total
        THEN parts
        ELSE {}
Hallucinates(c, r) ==
    IF c.type = "not_found"
    THEN ~RefusalOk(c, r) \/ SaysForbidden(c, r)
    ELSE Unsupported(c, r) \ BrokenDown(c, r) # {}

\* The tools returned the total, and the answer leaves it out.
LosesTotal(c, r) ==
    /\ c.type = "count"
    /\ \E total \in ToSet(Totals(r)) : total \in c.wants /\ total \notin r.says
    /\ HasText(r)
HedgesFact(c, r) ==
    "unsure" \in r.marks /\ c.type # "not_found" /\ c.wants # {} /\ FactFound(c, r)
Overuses(c, r, metrics) == Len(r.calls) > c.maxCalls \/ metrics.tokens > c.maxTokens

\* A faulty ladder of verdicts: the answer is judged before the platform's failures are.
VerdictAnswerFirst(c, r, metrics) ==
    IF Hallucinates(c, r) \/ ~AnswerOk(c, r) \/ ~RetrievalOk(c, r) THEN "WRONG"
    ELSE IF InfraFailed(r) THEN "ERROR"
    ELSE IF Overuses(c, r, metrics) \/ ~ToolOk(c, r) THEN "PARTIAL"
    ELSE "CORRECT"

VerdictOf(c, r, metrics) ==
    IF InfraFailed(r) \/ (~HasText(r) /\ r.calls = << >>) THEN "ERROR"
    ELSE IF Hallucinates(c, r) THEN "WRONG"
    ELSE IF LosesTotal(c, r) THEN "PARTIAL"
    ELSE IF ~AnswerOk(c, r) \/ ~RetrievalOk(c, r) \/ ~RefusalOk(c, r) THEN "WRONG"
    ELSE IF \/ HedgesFact(c, r) \/ Overuses(c, r, metrics) \/ r.badEntity
            \/ ForbiddenCall(c, r) \/ ~ToolOk(c, r) THEN "PARTIAL"
    ELSE "CORRECT"
Blame(r) == IF ToolFailed(r) THEN "tool" ELSE IF r.errors THEN "infra" ELSE "agent"

\* _check_total_mentioned looks for "total" in whatever the JSON was: in a number it raises.
Chokes(c, r) ==
    /\ c.type = "count"
    /\ \E i \in DOMAIN r.results :
        r.results[i].kind = "scalar" /\ \A j \in 1 .. i - 1 : r.results[j].total = NoTotal

-----------------------------------------------------------------------------
VARIABLES
    fixture,        \* the cases of this run
    benchAt,        \* where run_cmd is
    benchLock,      \* whose the lock of the target is; a dead owner's is stale
    benchManifest,       \* of the run, in its directory
    reportFile,     \* benchmark_report.json
    questionTry,        \* of the current case
    questioned,          \* cases given to the API so far
    evals,          \* what was judged, in the order of the cases
    backlogs,       \* sessions with a file in the backlog directory, newest first
    ended,          \* those with a turn_end record
    unrecorded,     \* sessions whose records could not be written
    finished,       \* the report, and the copy questioned for, were written
    benchCode       \* exit code, 9 while it runs

benchRunVars ==
    <<fixture, benchAt, benchLock, benchManifest, reportFile, questionTry, questioned,
      evals, backlogs, ended, unrecorded, finished, benchCode>>
questionsPart == <<fixture, questionTry, questioned, evals, backlogs, ended, unrecorded>>
benchLockPart == <<benchLock, benchManifest>>
benchEndsPart == <<reportFile, finished, benchCode>>

\* _load_cases drops the deprecated ones.
ActiveCases ==
    SelectAt(Fixtures[fixture], {i \in DOMAIN Fixtures[fixture] : ~Fixtures[fixture][i].deprecated})
BenchSessions == 1 .. Len(ActiveCases)
NoMetrics == [of |-> NoRecord, tokens |-> 0]

BenchRunTypeOK ==
    /\ fixture \in DOMAIN Fixtures
    /\ benchAt \in {"idle", "preflight", "asking", "reading", "finally", "exited"}
    /\ benchLock \in {"free", "own", "dead", "other"}
    /\ benchManifest \in {"none", "running", "completed", "failed"}
    /\ questionTry \in 0 .. QuestionAttempts
    /\ questioned \in 0 .. Len(ActiveCases)
    /\ Len(evals) <= questioned
    /\ \A i \in DOMAIN evals : evals[i].verdict \in BenchVerdicts
    /\ ToSet(backlogs) \subseteq BenchSessions \cup {Visitor} /\ IsInjective(backlogs)
    /\ ended \subseteq ToSet(backlogs)
    /\ unrecorded \subseteq BenchSessions
    /\ finished \in BOOLEAN /\ benchCode \in {0, 1, 2, 9}

BenchRunInit ==
    /\ fixture \in DOMAIN Fixtures
    /\ benchAt = "idle"
    /\ benchLock \in {"free", "dead", "other"}
    /\ benchManifest = "none" /\ reportFile = NoReport
    /\ questionTry = 0 /\ questioned = 0 /\ evals = << >>
    /\ backlogs = << >> /\ ended = {} /\ unrecorded = {}
    /\ finished = FALSE /\ benchCode = 9

\* acquire(): a lock whose owner is dead is removed first; another owner's is not.
BenchAcquire ==
    /\ benchAt = "idle" /\ benchLock \in {"free", "dead"}
    /\ benchAt' = "preflight"
    /\ benchLock' = "own"
    /\ benchManifest' = "running"
    /\ UNCHANGED <<questionsPart, benchEndsPart>>

\* Somebody else runs against this target, or the run directory or the benchManifest cannot
\* be written: then the lock is given back.
BenchRefused ==
    /\ benchAt = "idle"
    /\ benchAt' = "exited"
    /\ \/ benchLock = "other" /\ benchCode' = 2 /\ UNCHANGED benchLock
       \/ benchLock # "other" /\ benchCode' = 1 /\ benchLock' = "free"
    /\ UNCHANGED <<benchManifest, reportFile, finished, questionsPart>>

BenchPreflightPasses ==
    /\ benchAt = "preflight"
    /\ benchAt' = "asking"
    /\ UNCHANGED <<benchLockPart, benchEndsPart, questionsPart>>

BenchPreflightFails ==
    /\ benchAt = "preflight"
    /\ benchAt' = "finally"
    /\ benchCode' = 2
    /\ UNCHANGED <<benchLockPart, reportFile, finished, questionsPart>>

BenchCase == ActiveCases[questioned]
BenchSession == questioned

\* The judged run, with what a reader would say of it: it never got through, the answer
\* has what was questioned for and the tools returned it, it says nothing of its own.
JudgedRun(r, metrics) ==
    [verdict |-> VerdictOf(BenchCase, r, metrics),
     blame |-> Blame(r),
     infra |-> InfraFailed(r),
     of |-> metrics.of,
     broken |-> r.errors \/ (\E i \in DOMAIN r.results : r.results[i].kind = "error"),
     delivered |->
        \/ BenchCase.type \in {"not_found", "list"}
        \/ /\ \A w \in BenchCase.wants : w \in r.says
           /\ \E i \in DOMAIN r.results : \A w \in BenchCase.wants : w \in r.results[i].has,
     invented |-> \E n \in r.says :
        /\ BenchCase.type # "not_found" /\ ~BenchCase.breakdown
        /\ n >= 10 /\ n \notin BenchCase.told /\ n \notin r.worked
        /\ \A i \in DOMAIN r.results : n \notin r.results[i].has
        /\ \A i \in DOMAIN r.results : \A b \in r.results[i].has, k \in SmallFactors : n # b * k
        /\ n \notin Sums(KnownNumbers(r)),
     lawful |-> \A i \in DOMAIN r.calls : r.calls[i] \notin BenchCase.mustNot]

\* parse_backlog_data: the file of the session, else the newest of the agent.
MetricsOf(tokens) ==
    LET file == IF BenchSession \in ToSet(backlogs) THEN BenchSession
                ELSE IF backlogs # << >> THEN Head(backlogs)
                ELSE NoRecord
    IN  IF file \in ended THEN [of |-> file, tokens |-> tokens] ELSE NoMetrics

\* run_case sends the next question.
AskNext ==
    /\ benchAt = "asking" /\ questioned < Len(ActiveCases)
    /\ benchAt' = "reading"
    /\ questioned' = questioned + 1
    /\ questionTry' = 1
    /\ UNCHANGED <<benchLockPart, benchEndsPart, fixture, evals, backlogs, ended,
                   unrecorded>>

\* 429: no turn was begun.  After the last questionTry the case has failed.
RateLimited ==
    /\ benchAt = "reading" /\ questionTry < QuestionAttempts
    /\ questionTry' = questionTry + 1
    /\ UNCHANGED <<benchLockPart, benchEndsPart, fixture, benchAt, questioned, evals,
                   backlogs, ended, unrecorded>>

ErrorRun == [calls |-> << >>, badEntity |-> FALSE, results |-> << >>, says |-> {},
             worked |-> {}, marks |-> {}, errors |-> TRUE]
Concludes(r, metrics) ==
    /\ evals' = Append(evals, JudgedRun(r, metrics))
    /\ benchAt' = "asking"
    /\ questionTry' = 0

\* The attempts are used up, or the API refused the turn: no backlog is read.
Unanswerable ==
    /\ benchAt = "reading"
    /\ Concludes(ErrorRun, NoMetrics)
    /\ UNCHANGED <<benchLockPart, benchEndsPart, fixture, questioned, backlogs, ended,
                   unrecorded>>

\* The API begins and ends the records of the turn, when it can write them.
RecordsTurn(end) ==
    /\ backlogs' = <<BenchSession>> \o backlogs
    /\ ended' = IF end THEN ended \cup {BenchSession} ELSE ended
    /\ UNCHANGED unrecorded
RecordsNothing ==
    /\ unrecorded' = unrecorded \cup {BenchSession}
    /\ UNCHANGED <<backlogs, ended>>

\* The stream breaks or times out: what had been streamed is lost with it.
StreamLost ==
    /\ benchAt = "reading"
    /\ Concludes(ErrorRun, NoMetrics)
    /\ (\E end \in BOOLEAN : RecordsTurn(end)) \/ RecordsNothing
    /\ UNCHANGED <<benchLockPart, benchEndsPart, fixture, questioned>>

\* A whole turn, whose metrics are then read.
Streamed ==
    /\ benchAt = "reading"
    /\ RecordsTurn(TRUE) \/ RecordsNothing
    /\ UNCHANGED <<benchLockPart, benchEndsPart, fixture, questioned>>
    /\ \E r \in SampleRuns, tokens \in {1, 9} :
        /\ ~Chokes(BenchCase, r)
        /\ Concludes(r, MetricsOf(tokens)')

\* evaluate() raises: the command ends, and the cases judged so far are in no report.
EvaluatorRaises ==
    /\ benchAt = "reading"
    /\ \E r \in SampleRuns : Chokes(BenchCase, r)
    /\ RecordsTurn(TRUE) \/ RecordsNothing
    /\ benchAt' = "finally"
    /\ benchCode' = 1
    /\ questionTry' = 0
    /\ UNCHANGED <<benchLockPart, reportFile, finished, fixture, questioned, evals>>

\* Somebody else chats with the agent.
VisitorChats ==
    /\ benchAt \in {"asking", "reading"}
    /\ Visitor \notin ToSet(backlogs)
    /\ backlogs' = <<Visitor>> \o backlogs
    /\ ended' = ended \cup {Visitor}
    /\ UNCHANGED <<benchLockPart, benchEndsPart, fixture, benchAt, questionTry, questioned,
                   evals, unrecorded>>

\* aggregate_report
VerdictCount(v) == Cardinality({i \in DOMAIN evals : evals[i].verdict = v})
BenchReport ==
    [total |-> Len(ActiveCases),
     counts |-> [v \in BenchVerdicts |-> VerdictCount(v)],
     passed |-> Cardinality({i \in DOMAIN evals : evals[i].verdict \in {"CORRECT", "PARTIAL"}}),
     infra |-> Cardinality({i \in DOMAIN evals : evals[i].infra \/ evals[i].blame = "infra"})]

BenchReportWritten ==
    /\ benchAt = "asking" /\ questioned = Len(ActiveCases)
    /\ benchAt' = "finally"
    /\ reportFile' = BenchReport
    /\ finished' = TRUE
    /\ benchCode' = IF VerdictCount("WRONG") + VerdictCount("ERROR") > 0 THEN 1 ELSE 0
    /\ UNCHANGED <<benchLockPart, questionsPart>>

\* The report, or the copy of it that was questioned for, cannot be written.
BenchReportFails ==
    /\ benchAt = "asking" /\ questioned = Len(ActiveCases)
    /\ benchAt' = "finally"
    /\ reportFile' \in {reportFile, BenchReport}
    /\ benchCode' = 1
    /\ UNCHANGED <<benchLockPart, finished, questionsPart>>

\* finalize(): the benchManifest is closed, then the lock is given back.
Finalises ==
    /\ benchAt = "finally"
    /\ benchAt' = "exited"
    /\ benchManifest' = IF finished THEN "completed" ELSE "failed"
    /\ benchLock' = "free"
    /\ UNCHANGED <<benchEndsPart, questionsPart>>

\* The benchManifest cannot be written, or the process is killed: the lock stays, for the next
\* run to clean.
BenchDies ==
    /\ benchAt \notin {"idle", "exited"}
    /\ benchAt' = "exited"
    /\ benchLock' = "dead"
    /\ benchCode' = 1
    /\ UNCHANGED <<benchManifest, reportFile, finished, questionsPart>>

BenchRunNext ==
    \/ BenchAcquire \/ BenchRefused \/ BenchPreflightPasses \/ BenchPreflightFails
    \/ AskNext \/ RateLimited \/ Unanswerable \/ StreamLost \/ Streamed \/ EvaluatorRaises
    \/ VisitorChats
    \/ BenchReportWritten \/ BenchReportFails \/ Finalises \/ BenchDies

BenchRunSpec == BenchRunInit /\ [][BenchRunNext]_benchRunVars

-----------------------------------------------------------------------------
\* A verdict is earned.  CORRECT is given only to a turn that got through, delivered what
\* was questioned for from what the tools returned, invented nothing and called nothing
\* forbidden; a turn the platform failed is an ERROR that the agent is not blamed for;
\* and a turn is measured by its own record unless the API could not write one.
VerdictsAreEarned ==
    \A i \in DOMAIN evals :
        LET e == evals[i] IN
        /\ e.verdict = "CORRECT" => ~e.broken /\ e.delivered /\ ~e.invented /\ e.lawful
        /\ e.broken => e.verdict = "ERROR" /\ e.blame # "agent"
        /\ e.invented => e.verdict \in {"WRONG", "ERROR"}
        /\ e.of \in {NoRecord, i} \/ i \in unrecorded

\* The report accounts for every case of the run; a completed benchManifest and exit code 0
\* stand for a whole report without a platform failure or a wrong answer in it; and a run
\* that gave its lock back has said how it ended.
RunIsAccountedFor ==
    LET c == reportFile.counts IN
    /\ reportFile # NoReport =>
        /\ Len(evals) = Len(ActiveCases) /\ reportFile.total = Len(ActiveCases)
        /\ c["CORRECT"] + c["PARTIAL"] + c["WRONG"] + c["ERROR"] = reportFile.total
        /\ reportFile.passed = reportFile.total - c["WRONG"] - c["ERROR"]
    /\ benchManifest = "completed" => reportFile # NoReport
    /\ benchManifest = "running" => benchLock \in {"own", "dead"}
    /\ benchAt = "exited" /\ benchCode = 0 =>
        /\ benchManifest = "completed"
        /\ reportFile.infra = 0
        /\ \A i \in DOMAIN evals : evals[i].verdict \in {"CORRECT", "PARTIAL"}

\* A verdict and a report can be believed: each case is given and judged once, and the
\* records of the turns are told apart.
BenchIsFair == BenchRunTypeOK /\ VerdictsAreEarned /\ RunIsAccountedFor
=============================================================================
