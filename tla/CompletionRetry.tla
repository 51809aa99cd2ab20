---------------------------- MODULE CompletionRetry ----------------------------
(***************************************************************************)
(* The completions of one agent turn over its candidate providers:         *)
(* FallbackProvider (agent/provider_pool.py) asks one candidate after the  *)
(* other, and each retries its request within a deadline of its own        *)
(* (CompletionRetryExecutor, agent/completion_retry.py).                   *)
(*                                                                         *)
(* Time is counted in ticks.  asyncio.wait_for ends an attempt on time,    *)
(* sleep ends when it is due: while one of them is due, no time passes.    *)
(***************************************************************************)
EXTENDS Naturals, Sequences, FiniteSetsExt

CONSTANTS
    Candidates,         \* how many the turn was given
    MaxAttempts,        \* CompletionRetryPolicy
    MaxElapsed,
    Base,               \* [throttled, transient]: *_base_seconds
    MaxBackoff,
    AttemptTimeout,     \* the timeout of a provider
    RetryAfters,        \* the values of Retry-After headers
    MaxCompletions      \* bound of the turn

ASSUME CompletionRetryAssumption ==
    /\ {Candidates, MaxAttempts, MaxElapsed, AttemptTimeout} \subseteq Nat \ {0}
    /\ Base \in [{"throttled", "transient"} -> Nat]
    /\ {MaxBackoff, MaxCompletions} \subseteq Nat
    /\ RetryAfters \subseteq Nat

VARIABLES
    completion,      \* of the completion under way
    active,     \* FallbackProvider._active_index
    offset,     \* the candidates that failed in this completion
    attempt,    \* of the candidate that is asked now
    spent,      \* the time since that candidate was first asked
    due,        \* the time left to the running wait_for or sleep
    completions,
    asked       \* history: the candidates asked in this completion

retryVars == <<completion, active, offset, attempt, spent, due, completions, asked>>

RetryTypeOK ==
    /\ completion \in {"idle", "calling", "sleeping", "answered", "failed", "cancelled"}
    /\ active \in 0..Candidates - 1
    /\ offset \in 0..Candidates
    /\ attempt \in 0..MaxAttempts
    /\ {spent, due} \subseteq Nat
    /\ completions \in 0..MaxCompletions
    /\ asked \in Seq(0..Candidates - 1)

RetryInit ==
    /\ completion = "idle"
    /\ active = 0
    /\ offset = 0
    /\ attempt = 0
    /\ spent = 0
    /\ due = 0
    /\ completions = 0
    /\ asked = << >>

Remaining == IF spent < MaxElapsed THEN MaxElapsed - spent ELSE 0

\* Faulty variant of Index: the preferred candidate is forgotten.
IndexFromFirst(k) == k

\* The candidate k places after the preferred one.
Index(k) == (active + k) % Candidates

-----------------------------------------------------------------------------
\* The k-th candidate is asked for the first time, after those asked before.
Ask(k, before) ==
    /\ completion' = "calling"
    /\ offset' = k
    /\ attempt' = 1
    /\ spent' = 0
    /\ due' = Min({AttemptTimeout, MaxElapsed})
    /\ asked' = Append(before, Index(k))

Complete ==
    /\ completion \in {"idle", "answered"}
    /\ completions < MaxCompletions
    /\ completions' = completions + 1
    /\ Ask(0, << >>)
    /\ UNCHANGED active

\* A candidate has failed for good: FallbackProvider tries the next, or gives up.
NextCandidate ==
    IF offset + 1 < Candidates
    THEN Ask(offset + 1, asked)
    ELSE /\ completion' = "failed"
         /\ offset' = offset + 1
         /\ UNCHANGED <<attempt, spent, due, asked>>

Passing ==
    /\ due > 0
    /\ completion \in {"calling", "sleeping"}
    /\ due' = due - 1
    /\ spent' = spent + 1
    /\ UNCHANGED <<completion, active, offset, attempt, completions, asked>>

\* The candidate that answers is preferred from now on.
Answer ==
    /\ completion = "calling"
    /\ due > 0
    /\ completion' = "answered"
    /\ active' = Index(offset)
    /\ UNCHANGED <<offset, attempt, spent, due, completions, asked>>

\* retry_category is None, or the answer cannot be used: the next candidate.
Unretryable ==
    /\ completion = "calling"
    /\ due > 0
    /\ NextCandidate
    /\ UNCHANGED <<active, completions>>

\* _exhausted_reason
Exhausted == attempt >= MaxAttempts \/ Remaining = 0

\* _retry_delay: what the server asks for, or a random part of the backoff.
Delays(category, headers) ==
    IF headers # {} THEN {Min({h, Remaining}) : h \in headers}
    ELSE {d \in 0..Remaining : d <= MaxBackoff /\ d <= Base[category] * 2 ^ (attempt - 1)}

\* A failure that may be retried; a wait_for that is due raises a transient one.
RetryableFailure ==
    /\ completion = "calling"
    /\ IF Exhausted THEN NextCandidate
       ELSE /\ \E category \in DOMAIN Base, headers \in {{}} \cup {{h} : h \in RetryAfters} :
                /\ due = 0 => category = "transient" /\ headers = {}
                /\ due' \in Delays(category, headers)
            /\ completion' = "sleeping"
            /\ UNCHANGED <<offset, attempt, spent, asked>>
    /\ UNCHANGED <<active, completions>>

\* The sleep is over: the next attempt, unless the deadline has come.
Wake ==
    /\ completion = "sleeping"
    /\ due = 0
    /\ IF Remaining = 0 THEN NextCandidate
       ELSE /\ completion' = "calling"
            /\ attempt' = attempt + 1
            /\ due' = Min({AttemptTimeout, Remaining})
            /\ UNCHANGED <<offset, spent, asked>>
    /\ UNCHANGED <<active, completions>>

\* The turn is cancelled: CancelledError passes through every handler.
CancelCompletion ==
    /\ completion \in {"calling", "sleeping"}
    /\ completion' = "cancelled"
    /\ UNCHANGED <<active, offset, attempt, spent, due, completions, asked>>

RetryNext ==
    \/ Complete \/ Passing \/ Answer \/ Unretryable \/ RetryableFailure \/ Wake
    \/ CancelCompletion

RetrySpec == RetryInit /\ [][RetryNext]_retryVars

-----------------------------------------------------------------------------
(* Properties *)

\* A candidate is given up by its deadline: attempts, backoff and the waits that
\* servers ask for never add up to more.
WithinDeadline == spent + due <= MaxElapsed

\* A completion fails only after every candidate was asked; none is asked twice, and
\* the one that answered last is asked first.
EveryCandidateOnce ==
    /\ \A i, j \in DOMAIN asked : i # j => asked[i] # asked[j]
    /\ completion = "failed" => Len(asked) = Candidates
    /\ completion \in {"calling", "sleeping", "failed"} => Head(asked) = active

\* A completion costs what it may, and asks everybody before it fails.
RetriesAreBounded == WithinDeadline /\ EveryCandidateOnce
=============================================================================
