------------------------------ MODULE Completions ------------------------------
(* What a turn relies on beside its loop: the retries of a completion, what goes over
   its wire, the report of what was spent, and the voice messages turns begin with.  They
   share no state, so that together they are the conjunction of their specifications. *)
EXTENDS CompletionRetry, CompletionWire, SpendingReport, VoiceInput

CompletionsSpec ==
    RetrySpec /\ CompletionWireSpec /\ SpendingReportSpec /\ VoiceInputSpec

CompletionsTypeOK ==
    RetryTypeOK /\ CompletionWireTypeOK /\ SpendingReportTypeOK /\ VoiceInputTypeOK

\* A turn is heard, answered and billed as it was meant: a voice message is a chat request
\* of the agent it names, a completion is retried within its bounds and taken whole or not
\* at all, and what it cost is reported once (completion_retry.py, agent/providers,
\* spending.py, audio).
CompletionsAreSound ==
    CompletionsTypeOK /\ RetriesAreBounded /\ WireIsFaithful /\ ReportIsSound /\ VoiceIsSound
=============================================================================
