----------------------------- MODULE TurnEvidence -----------------------------
(***************************************************************************)
(* The evidence of the turns of the api-service: the records of            *)
(* ModelBacklog (backlog.py) and the llm_* series, both fed by the         *)
(* recorder of agent/adapters.py from the loop and the orchestrator.       *)
(*                                                                         *)
(* A worker process appends to the file of a session on its event loop.  A *)
(* record that fits in the buffer is one write; a larger one is a head and *)
(* a tail, and another process, or the end of this one, may come between.  *)
(* Sessions whose names differ in the characters _path replaces share one  *)
(* file.                                                                   *)
(***************************************************************************)
EXTENDS Integers, Sequences, FiniteSets, Functions, FiniteSums

CONSTANTS
    EvidenceTurns,
    EvidenceWorkers,    \* the processes of the api-service
    BacklogFiles,
    SessionOf,          \* of each turn
    BacklogPath,             \* the file of each session
    BacklogModes,       \* settings.backlog_mode: "full", "errors", "off"
    MaxCompletionsOf,      \* of each turn, the completions until its limit ends it
    MaxEvidenceFaults   \* bound: writes that fail and processes that die

ASSUME TurnEvidenceAssumption ==
    /\ IsFiniteSet(EvidenceTurns) /\ IsFiniteSet(EvidenceWorkers) /\ EvidenceWorkers # {}
    /\ BacklogPath \in [Range(SessionOf) -> BacklogFiles] /\ DOMAIN SessionOf = EvidenceTurns
    /\ BacklogModes \subseteq {"full", "errors", "off"}
    /\ MaxCompletionsOf \in [EvidenceTurns -> Nat] /\ MaxEvidenceFaults \in Nat
    /\ "none" \notin EvidenceTurns

VARIABLES
    backlogMode,
    backlogFile,    \* the pieces each file consists of
    halfWritten,    \* the record whose tail a process has yet to write
    evTurn,         \* each turn: where it is, its process and its LoopMetrics
    llmCalls,       \* llm_calls_total of each process
    evFaults,
    unwritten,     \* history: turns with a record that could not be written
    erased          \* history: turns whose records were swept or died with their process

evidenceVars ==
    <<backlogMode, backlogFile, halfWritten, evTurn, llmCalls, evFaults, unwritten, erased>>

-----------------------------------------------------------------------------
Rec(t, kind, calls, tokens) == [turn |-> t, kind |-> kind, calls |-> calls, tokens |-> tokens]
NoRec    == [turn |-> "none", kind |-> "none", calls |-> 0, tokens |-> 0]
Piece(r, part) == [of |-> r, part |-> part]

FileOf(t) == BacklogPath[SessionOf[t]]
OnTurn(t) == evTurn[t].at \notin {"new", "over", "dead"}

\* _should_write.
Wanted(kind) == \/ backlogMode = "full"
                \/ backlogMode = "errors" /\ kind = "error"

\* _read_records: what stands between two separators is a record or is not read.  A head
\* has no separator of its own.
IsHead(s, i) == i \in DOMAIN s /\ s[i].part = "head"

EndsRecord(s, i) ==
    \/ s[i].part = "whole" /\ ~ IsHead(s, i - 1)
    \/ s[i].part = "tail" /\ IsHead(s, i - 1) /\ s[i - 1].of = s[i].of /\ ~ IsHead(s, i - 2)

RecordsIn(s)   == {i \in DOMAIN s : EndsRecord(s, i)}
ReadRecords(f) == RecordsIn(backlogFile[f])
RecordsOf(t)   == {i \in ReadRecords(FileOf(t)) : backlogFile[FileOf(t)][i].of.turn = t}

\* get_session_stats.
TokensAt(s) == [i \in DOMAIN s |-> s[i].of.tokens]

SessionStats(f) ==
    LET answered == {i \in ReadRecords(f) : backlogFile[f][i].of.kind = "llm"}
    IN  [calls  |-> Cardinality(answered),
         tokens |-> SumOver(TokensAt(backlogFile[f]), answered)]

-----------------------------------------------------------------------------
\* ModelBacklog._write: dropped by the mode, appended in one piece or begun, or not written
\* because the file cannot be opened.
Put(f, piece) == backlogFile' = [backlogFile EXCEPT ![f] = Append(@, piece)]

WriteWhole(t, r) ==
    /\ IF Wanted(r.kind) THEN Put(FileOf(t), Piece(r, "whole")) ELSE UNCHANGED backlogFile
    /\ UNCHANGED <<halfWritten, evFaults, unwritten>>

WriteLarge(t, r) ==
    /\ Wanted(r.kind)
    /\ Put(FileOf(t), Piece(r, "head"))
    /\ halfWritten' = [halfWritten EXCEPT ![evTurn[t].worker] = r]
    /\ UNCHANGED <<evFaults, unwritten>>

WriteFails(t, r) ==
    /\ Wanted(r.kind) /\ evFaults < MaxEvidenceFaults
    /\ evFaults' = evFaults + 1
    /\ unwritten' = unwritten \cup {t}
    /\ UNCHANGED <<backlogFile, halfWritten>>

WriteSmall(t, r) == WriteWhole(t, r) \/ WriteFails(t, r)

\* The rest of a large record; or the disk is full by then.
WriteTail(w) ==
    /\ halfWritten[w] # NoRec
    /\ Put(FileOf(halfWritten[w].turn), Piece(halfWritten[w], "tail"))
    /\ halfWritten' = [halfWritten EXCEPT ![w] = NoRec]
    /\ UNCHANGED <<backlogMode, evTurn, llmCalls, evFaults, unwritten, erased>>

LoseTail(w) ==
    /\ halfWritten[w] # NoRec /\ evFaults < MaxEvidenceFaults
    /\ halfWritten' = [halfWritten EXCEPT ![w] = NoRec]
    /\ evFaults' = evFaults + 1
    /\ unwritten' = unwritten \cup {halfWritten[w].turn}
    /\ UNCHANGED <<backlogMode, backlogFile, evTurn, llmCalls, erased>>

\* The event loop does one thing at a time, and a write is one thing.
StandsAt(t, place) == evTurn[t].at = place /\ halfWritten[evTurn[t].worker] = NoRec
Moves(t, to) == evTurn' = [evTurn EXCEPT ![t].at = to]

-----------------------------------------------------------------------------
\* LLMAgent.stream_events: the turn is recorded before it waits for the lock of its session.
TurnStart(t, w) ==
    /\ evTurn[t].at = "new" /\ halfWritten[w] = NoRec
    /\ evTurn' = [evTurn EXCEPT ![t].at = "waiting", ![t].worker = w]
    /\ IF Wanted("start")
       THEN \/ /\ Put(FileOf(t), Piece(Rec(t, "start", 0, 0), "whole"))
               /\ UNCHANGED <<evFaults, unwritten>>
            \/ WriteFails(t, Rec(t, "start", 0, 0))
       ELSE UNCHANGED <<backlogFile, evFaults, unwritten>>
    /\ UNCHANGED <<backlogMode, halfWritten, llmCalls, erased>>

TakesLock(t) ==
    /\ StandsAt(t, "waiting")
    /\ \A u \in EvidenceTurns \ {t} :
           /\ SessionOf[u] = SessionOf[t] /\ evTurn[u].worker = evTurn[t].worker
           => evTurn[u].at \in {"new", "waiting", "over", "dead"}
    /\ \/ Moves(t, "loop")
       \/ Moves(t, "failed")      \* resolve_llm, get_session or the history raises
    /\ UNCHANGED <<backlogMode, backlogFile, halfWritten, llmCalls, evFaults, unwritten, erased>>

\* _record_provider_response: the metrics of the turn, the record, the series.
CountsCallAlone(t, tokens) == [evTurn EXCEPT ![t].calls = @ + 1, ![t].answered = @ + 1]
CountsCall(t, tokens) == [evTurn EXCEPT ![t].calls = @ + 1, ![t].tokens = @ + tokens,
                                        ![t].answered = @ + 1]
Observes(t) == [llmCalls EXCEPT ![evTurn[t].worker] = @ + 1]

IsAnswered(t) ==
    /\ StandsAt(t, "loop") /\ evTurn[t].calls < MaxCompletionsOf[t]
    /\ \E to \in {"tool", "done"} :
           evTurn' = [CountsCall(t, evTurn[t].calls + 1) EXCEPT ![t].at = to]
    /\ WriteSmall(t, Rec(t, "llm", 1, evTurn[t].calls + 1))
    /\ llmCalls' = Observes(t)
    /\ UNCHANGED <<backlogMode, erased>>

\* The provider raises: the call is counted, there is no usage to record.  A limit ends the
\* loop with an outcome that is recorded as an error.
IsNotAnswered(t) ==
    /\ StandsAt(t, "loop")
    /\ evTurn' = [evTurn EXCEPT ![t].at = "failed",
                                ![t].calls = IF @ < MaxCompletionsOf[t] THEN @ + 1 ELSE @]
    /\ UNCHANGED <<backlogMode, backlogFile, halfWritten, llmCalls, evFaults, unwritten, erased>>

\* The arguments are recorded before the call.  Text that has no UTF-8 form is not an
\* OSError: it ends the turn.
RecordToolCall(t) ==
    /\ StandsAt(t, "tool")
    /\ \/ Moves(t, "result") /\ WriteSmall(t, Rec(t, "call", 0, 0))
       \/ /\ Wanted("call")
          /\ Moves(t, "failed")
          /\ UNCHANGED <<backlogFile, halfWritten, evFaults, unwritten>>
    /\ UNCHANGED <<backlogMode, llmCalls, erased>>

RecordToolResult(t) ==
    /\ StandsAt(t, "result")
    /\ Moves(t, "loop")
    /\ WriteSmall(t, Rec(t, "result", 0, 0)) \/ WriteLarge(t, Rec(t, "result", 0, 0))
    /\ UNCHANGED <<backlogMode, llmCalls, erased>>

RecordError(t) ==
    /\ StandsAt(t, "failed")
    /\ Moves(t, "done")
    /\ WriteSmall(t, Rec(t, "error", 0, 0))
    /\ UNCHANGED <<backlogMode, llmCalls, erased>>

\* A cancelled turn goes to the finally without a record of its own.
CancelEvidence(t) ==
    /\ evTurn[t].at \in {"loop", "result"} /\ StandsAt(t, evTurn[t].at)
    /\ Moves(t, "done")
    /\ UNCHANGED <<backlogMode, backlogFile, halfWritten, llmCalls, evFaults, unwritten, erased>>

\* _record_turn_end, from the metrics of the turn.
TurnEnd(t) ==
    /\ StandsAt(t, "done")
    /\ Moves(t, "over")
    /\ WriteSmall(t, Rec(t, "end", evTurn[t].calls, evTurn[t].tokens))
    /\ UNCHANGED <<backlogMode, llmCalls, erased>>

\* A process dies, with its turns and the series it kept; uvicorn starts another.
WorkerDies(w) ==
    /\ evFaults < MaxEvidenceFaults
    /\ \E t \in EvidenceTurns : OnTurn(t) /\ evTurn[t].worker = w
    /\ evFaults' = evFaults + 1
    /\ evTurn' = [t \in EvidenceTurns |->
                     IF OnTurn(t) /\ evTurn[t].worker = w THEN [evTurn[t] EXCEPT !.at = "dead"]
                     ELSE evTurn[t]]
    /\ erased' = erased \cup {t \in EvidenceTurns : evTurn[t].worker = w /\ evTurn[t].at # "new"}
    /\ halfWritten' = [halfWritten EXCEPT ![w] = NoRec]
    /\ llmCalls' = [llmCalls EXCEPT ![w] = 0]
    /\ UNCHANGED <<backlogMode, backlogFile, unwritten>>

\* cleanup_old, in main before the workers are started: a file nobody wrote for days.
SweepBacklog(f) ==
    /\ backlogFile[f] # << >> /\ ~ \E t \in EvidenceTurns : OnTurn(t)
    /\ erased' = erased \cup {t \in EvidenceTurns : evTurn[t].at # "new"}
    /\ backlogFile' = [backlogFile EXCEPT ![f] = << >>]
    /\ llmCalls' = [w \in EvidenceWorkers |-> 0]
    /\ UNCHANGED <<backlogMode, halfWritten, evTurn, evFaults, unwritten>>

-----------------------------------------------------------------------------
TurnEvidenceInit ==
    /\ backlogMode \in BacklogModes
    /\ backlogFile = [f \in BacklogFiles |-> << >>]
    /\ halfWritten = [w \in EvidenceWorkers |-> NoRec]
    /\ evTurn = [t \in EvidenceTurns |->
                    [at |-> "new", worker |-> CHOOSE w \in EvidenceWorkers : TRUE,
                     calls |-> 0, tokens |-> 0, answered |-> 0]]
    /\ llmCalls = [w \in EvidenceWorkers |-> 0]
    /\ evFaults = 0
    /\ unwritten = {}
    /\ erased = {}

TurnEvidenceNext ==
    \/ \E t \in EvidenceTurns :
           \/ \E w \in EvidenceWorkers : TurnStart(t, w)
           \/ TakesLock(t) \/ IsAnswered(t) \/ IsNotAnswered(t)
           \/ RecordToolCall(t) \/ RecordToolResult(t) \/ RecordError(t)
           \/ CancelEvidence(t) \/ TurnEnd(t)
    \/ \E w \in EvidenceWorkers : WriteTail(w) \/ LoseTail(w) \/ WorkerDies(w)
    \/ \E f \in BacklogFiles : SweepBacklog(f)

TurnEvidenceSpec == TurnEvidenceInit /\ [][TurnEvidenceNext]_evidenceVars

-----------------------------------------------------------------------------
Records ==
    [turn : EvidenceTurns, kind : {"start", "llm", "call", "result", "error", "end"},
     calls : Nat, tokens : Nat]

TurnEvidenceTypeOK ==
    /\ backlogMode \in BacklogModes
    /\ backlogFile \in
           [BacklogFiles -> Seq([of : Records, part : {"whole", "head", "tail"}])]
    /\ \A f \in BacklogFiles : \A i \in DOMAIN backlogFile[f] :
           FileOf(backlogFile[f][i].of.turn) = f
    /\ halfWritten \in [EvidenceWorkers -> Records \cup {NoRec}]
    /\ evTurn \in
           [EvidenceTurns ->
               [at : {"new", "waiting", "loop", "tool", "result", "failed", "done", "over",
                      "dead"},
                worker : EvidenceWorkers, calls : Nat, tokens : Nat, answered : Nat]]
    /\ \A t \in EvidenceTurns : evTurn[t].calls <= MaxCompletionsOf[t]
    /\ llmCalls \in [EvidenceWorkers -> Nat]
    /\ evFaults \in 0..MaxEvidenceFaults
    /\ unwritten \cup erased \subseteq EvidenceTurns

(***************************************************************************)
(* PROPERTIES                                                              *)
(***************************************************************************)
\* Pieces of f of which no record is read.
Begun(s)  == {i \in DOMAIN s : s[i].part # "tail"}
Unread(f) == Cardinality(Begun(backlogFile[f])) - Cardinality(ReadRecords(f))

\* While one process writes a file, a record is never lost to another one that is being
\* written: each write that fails and each process that dies costs at most the record it
\* tore and the one that follows it.
TearsAreLocal ==
    \A f \in BacklogFiles :
        Cardinality({evTurn[t].worker : t \in {u \in EvidenceTurns :
                                                   FileOf(u) = f /\ evTurn[u].at # "new"}}) <= 1
        => Unread(f) <= 2 * evFaults
                            + Cardinality({w \in EvidenceWorkers : halfWritten[w] # NoRec})

\* What is read of a finished turn, when all it recorded can be read, is the turn: it begins
\* with its start and ends with its end whatever other turns wrote in between, a result
\* follows its call, and the end states what the calls add up to.
EvidenceIsTheTurn ==
    \A t \in EvidenceTurns \ (unwritten \cup erased) :
        backlogMode = "full" /\ evTurn[t].at = "over" /\ halfWritten[evTurn[t].worker] = NoRec
            /\ Unread(FileOf(t)) = 0
        => LET file     == backlogFile[FileOf(t)]
               Of(kind) == {i \in RecordsOf(t) : file[i].of.kind = kind}
           IN  \E first, last \in RecordsOf(t) :
                  /\ \A i \in RecordsOf(t) : first <= i /\ i <= last
                  /\ Of("start") = {first} /\ Of("end") = {last}
                  /\ Cardinality(Of("error")) <= 1
                  /\ file[last].of.tokens = SumOver(TokensAt(file), Of("llm"))
                  /\ file[last].of.calls - Cardinality(Of("llm"))
                         \in 0 .. Cardinality(Of("error"))
                  /\ \A i \in Of("result") : \E j \in Of("call") :
                         j < i /\ ~ \E k \in RecordsOf(t) : j < k /\ k < i

\* A run with the backlog off or a full disk measures the same completions: the series
\* count each answer, whatever became of its record.
SeriesCountEveryAnswer ==
    \A w \in EvidenceWorkers :
        llmCalls[w] = SumOver([t \in EvidenceTurns |-> evTurn[t].answered],
                          {t \in EvidenceTurns \ erased : evTurn[t].worker = w})

\* The statistics of a file are those of the turns it has records of, the ones of another
\* session with the same path among them.
StatsAddUp ==
    \A f \in BacklogFiles :
        LET turns == {t \in EvidenceTurns : FileOf(t) = f}
        IN  backlogMode = "full" /\ Unread(f) = 0 /\ turns \cap (unwritten \cup erased) = {}
            => /\ SessionStats(f).calls =
                      SumOver([t \in EvidenceTurns |-> evTurn[t].answered], turns)
               /\ SessionStats(f).tokens =
                      SumOver([t \in EvidenceTurns |-> evTurn[t].tokens], turns)

\* The records and the series tell what happened, torn writes and crashes included.
EvidenceIsTrue ==
    TurnEvidenceTypeOK /\ TearsAreLocal /\ EvidenceIsTheTurn /\ SeriesCountEveryAnswer /\ StatsAddUp
=============================================================================
