----------------------------- MODULE LoadLadder -----------------------------
(***************************************************************************)
(* The capacity ladder (agent_db/stress/ladder.py): rates are measured in   *)
(* ascending order up to the first that fails; the bracket between the last *)
(* that passed and the one that failed is halved; the knee is measured      *)
(* again for its spread.  A stage that is invalid is run again with twice   *)
(* the workers, unless the generator itself was the bottleneck.            *)
(*                                                                         *)
(* Rates are positions on a logarithmic scale: the geometric midpoint is    *)
(* the middle position, and the tolerance, a ratio, is a distance.  What a  *)
(* stage measures is a choice of the environment, in no relation to the     *)
(* rate: the platform may pass at 40 and fail at 20.                       *)
(***************************************************************************)
EXTENDS Integers, Sequences, FiniteSets

CONSTANTS
    Rungs,              \* plan.rates: a sequence of ascending positions
    Tolerance,          \* plan.tolerance, as a distance
    MaxBisectionSteps,  \* plan.max_bisection_steps
    KneeRuns,           \* plan.repeats
    MaxPoolExpansions,  \* plan.max_pool_expansions
    NoRate              \* no rate

ASSUME LadderAssumption ==
    /\ Rungs \in Seq(Nat) /\ Rungs # << >>
    /\ \A i, j \in 1 .. Len(Rungs) : i < j => Rungs[i] < Rungs[j]
    /\ {Tolerance, KneeRuns} \subseteq Nat \ {0}
    /\ {MaxBisectionSteps, MaxPoolExpansions} \subseteq Nat
    /\ NoRate \notin Nat

Rates == Rungs[1] .. Rungs[Len(Rungs)]

\* What runner.run brings back.  "starved" and "bound" are invalid: too few
\* workers, or a generator out of CPU.  A valid stage may lack the platform
\* overhead that layers L3 and L4 are judged on.
Stages == [result : {"pass", "fail"}, overhead : BOOLEAN]
            \cup [result : {"starved", "bound"}, overhead : {FALSE}]
Verdict(stage) == IF stage.result \in {"pass", "fail"} THEN stage.result
                                                       ELSE "invalid"

VARIABLES
    ladderAt,    \* where run_ladder is
    options,     \* its caller's choice: expand_pool, and the layer's rule
    rung,        \* index of the rate the loop is at
    bracket,     \* passing and failing; low and high in the bisection
    halvings,    \* steps of the bisection
    expansions,  \* pool expansions of the rung being run
    repeatsDone, \* knee repeats done
    outcomes,    \* result.stages
    repeats,     \* result.repeats
    evidence,    \* the tickets the sink got, in order
    knee,        \* result.knee.rate
    verdict      \* result.status

ladderVars == <<ladderAt, options, rung, bracket, halvings, expansions,
                repeatsDone, outcomes, repeats, evidence, knee, verdict>>

LadderStatuses == {"knee_found", "knee_lower_bound", "below_first_rung", "invalid",
              "unjudgeable"}
Outcome == [rate : Rates, verdict : {"pass", "fail", "invalid"},
            overhead : BOOLEAN]
Ticket == [rate : Rates, attempt : 0 .. MaxPoolExpansions, run : 0 .. KneeRuns]

LadderTypeOK ==
    /\ ladderAt \in {"planned", "rungs", "bisection", "repeats", "done"}
    /\ options \in [expand : BOOLEAN, needsOverhead : BOOLEAN]
    /\ rung \in 1 .. Len(Rungs)
    /\ bracket \in [low : Rates \cup {NoRate}, high : Rates \cup {NoRate}]
    /\ halvings \in 0 .. MaxBisectionSteps
    /\ expansions \in 0 .. MaxPoolExpansions
    /\ repeatsDone \in 0 .. KneeRuns - 1
    /\ outcomes \in Seq(Outcome)
    /\ repeats \in Seq(Outcome)
    /\ evidence \in Seq(Ticket)
    /\ knee \in Rates \cup {NoRate}
    /\ verdict \in LadderStatuses

LadderInit ==
    /\ ladderAt = "planned"
    /\ options = [expand |-> TRUE, needsOverhead |-> FALSE]
    /\ rung = 1
    /\ bracket = [low |-> NoRate, high |-> NoRate]
    /\ halvings = 0
    /\ expansions = 0
    /\ repeatsDone = 0
    /\ outcomes = << >>
    /\ repeats = << >>
    /\ evidence = << >>
    /\ knee = NoRate
    /\ verdict = "knee_found"

StartLadder(expand, needsOverhead) ==
    /\ ladderAt = "planned"
    /\ ladderAt' = "rungs"
    /\ options' = [expand |-> expand, needsOverhead |-> needsOverhead]
    /\ UNCHANGED <<rung, bracket, halvings, expansions, repeatsDone, outcomes,
                   repeats, evidence, knee, verdict>>

-----------------------------------------------------------------------------
\* One run of the stage runner (_run_rung): its evidence goes to the sink
\* whether it counts or not.

Midpoint == (bracket.low + bracket.high) \div 2
RateNow == CASE ladderAt = "rungs" -> Rungs[rung]
             [] ladderAt = "bisection" -> Midpoint
             [] ladderAt = "repeats" -> knee

Filed ==
    evidence' = Append(evidence,
                       [rate |-> RateNow, attempt |-> expansions,
                        run |-> IF ladderAt = "repeats" THEN repeatsDone + 1
                                                        ELSE 0])

Retried(stage) ==
    /\ stage.result = "starved"
    /\ options.expand
    /\ expansions < MaxPoolExpansions

\* An undersized pool is answered with a bigger one.
WidenPool(stage) ==
    /\ ladderAt \in {"rungs", "bisection", "repeats"}
    /\ Retried(stage)
    /\ Filed
    /\ expansions' = expansions + 1
    /\ UNCHANGED <<ladderAt, options, rung, bracket, halvings, repeatsDone,
                   outcomes, repeats, knee, verdict>>

\* Otherwise the stage is the rung's outcome.
Counted(stage) ==
    /\ ~Retried(stage)
    /\ Filed
    /\ expansions' = 0

OutcomeOf(stage) == [rate |-> RateNow, verdict |-> Verdict(stage),
                     overhead |-> stage.overhead]
Entered(stage) == outcomes' = Append(outcomes, OutcomeOf(stage))

\* The ladder has its answer; the knee, if there is one, is measured again.
AnswerWith(status, rate) ==
    /\ verdict' = status
    /\ knee' = rate
    /\ ladderAt' = IF rate # NoRate /\ KneeRuns > 1 THEN "repeats" ELSE "done"

-----------------------------------------------------------------------------
\* The rungs, in ascending order.

OnRung(stage) == ladderAt = "rungs" /\ Counted(stage) /\ Entered(stage)
Judgeable(stage) ==
    \/ ~options.needsOverhead
    \/ Verdict(stage) = "invalid"
    \/ stage.overhead

\* A layer judged on the platform overhead refuses a valid stage without it.
RungUnjudgeable(stage) ==
    /\ OnRung(stage)
    /\ ~Judgeable(stage)
    /\ AnswerWith("unjudgeable", NoRate)
    /\ UNCHANGED <<options, rung, bracket, halvings, repeatsDone, repeats>>

RungPassed(stage) ==
    /\ OnRung(stage)
    /\ Judgeable(stage) /\ Verdict(stage) = "pass"
    /\ bracket' = [bracket EXCEPT !.low = Rungs[rung]]
    /\ IF rung < Len(Rungs)
       THEN rung' = rung + 1 /\ UNCHANGED <<ladderAt, knee, verdict>>
       ELSE UNCHANGED rung /\ AnswerWith("knee_lower_bound", Rungs[rung])
    /\ UNCHANGED <<options, halvings, repeatsDone, repeats>>

\* The last rate that passed is a lower bound only.
RungInvalid(stage) ==
    /\ OnRung(stage)
    /\ Verdict(stage) = "invalid"
    /\ AnswerWith(IF bracket.low = NoRate THEN "invalid" ELSE "knee_lower_bound",
                 bracket.low)
    /\ UNCHANGED <<options, rung, bracket, halvings, repeatsDone, repeats>>

\* The loop of the bisection goes on while the bracket is wide, steps are
\* left and there is a rate between its ends.
Halving(low, high, steps) ==
    /\ high - low > Tolerance
    /\ steps < MaxBisectionSteps
    /\ (low + high) \div 2 \notin {low, high}

Narrowed(low, high, steps) ==
    /\ bracket' = [low |-> low, high |-> high]
    /\ halvings' = steps
    /\ IF Halving(low, high, steps)
       THEN ladderAt' = "bisection" /\ UNCHANGED <<knee, verdict>>
       ELSE AnswerWith("knee_found", low)

RungFailed(stage) ==
    /\ OnRung(stage)
    /\ Judgeable(stage) /\ Verdict(stage) = "fail"
    /\ IF bracket.low = NoRate
       THEN /\ AnswerWith("below_first_rung", NoRate)
            /\ UNCHANGED <<bracket, halvings>>
       ELSE Narrowed(bracket.low, Rungs[rung], 0)
    /\ UNCHANGED <<options, rung, repeatsDone, repeats>>

-----------------------------------------------------------------------------
\* The bisection.  It does not ask for the platform overhead.

\* Faulty variant of Halved: an invalid midpoint counts as a failed one.
HalvedInvalidFails(stage) ==
    /\ ladderAt = "bisection"
    /\ Counted(stage)
    /\ Entered(stage)
    /\ IF Verdict(stage) = "pass" THEN Narrowed(Midpoint, bracket.high, halvings + 1)
       ELSE Narrowed(bracket.low, Midpoint, halvings + 1)
    /\ UNCHANGED <<options, rung, repeatsDone, repeats>>

Halved(stage) ==
    /\ ladderAt = "bisection"
    /\ Counted(stage)
    /\ Entered(stage)
    /\ CASE Verdict(stage) = "pass" -> Narrowed(Midpoint, bracket.high, halvings + 1)
         [] Verdict(stage) = "fail" -> Narrowed(bracket.low, Midpoint, halvings + 1)
         [] OTHER -> /\ halvings' = halvings + 1
                     /\ AnswerWith("knee_found", bracket.low)
                     /\ UNCHANGED bracket
    /\ UNCHANGED <<options, rung, repeatsDone, repeats>>

\* The repeats of the knee (_repeat_knee).
Repeated(stage) ==
    /\ ladderAt = "repeats"
    /\ Counted(stage)
    /\ repeats' = Append(repeats, OutcomeOf(stage))
    /\ IF repeatsDone + 2 < KneeRuns
       THEN repeatsDone' = repeatsDone + 1 /\ UNCHANGED ladderAt
       ELSE ladderAt' = "done" /\ UNCHANGED repeatsDone
    /\ UNCHANGED <<options, rung, bracket, halvings, outcomes, knee, verdict>>

LadderNext ==
    \/ \E expand, needsOverhead \in BOOLEAN : StartLadder(expand, needsOverhead)
    \/ \E stage \in Stages :
          \/ WidenPool(stage)
          \/ RungUnjudgeable(stage) \/ RungPassed(stage)
          \/ RungInvalid(stage) \/ RungFailed(stage)
          \/ Halved(stage) \/ Repeated(stage)

LadderSpec == LadderInit /\ [][LadderNext]_ladderVars

-----------------------------------------------------------------------------
Found(rate, v) ==
    \E i \in 1 .. Len(outcomes) : outcomes[i].rate = rate /\ outcomes[i].verdict = v
AnsweredLadder == ladderAt \in {"repeats", "done"}

\* The knee is a rate that was measured and passed.  When the ladder says it
\* found the knee, the bracket's upper end was measured and failed, nothing
\* between the two ends was judged, and the bracket is within the tolerance
\* unless the steps ran out or the last midpoint was not measurable.
KneeIsBracketed ==
    AnsweredLadder =>
        /\ knee # NoRate => Found(knee, "pass")
        /\ knee # NoRate <=> verdict \in {"knee_found", "knee_lower_bound"}
        /\ verdict = "knee_found" =>
              /\ knee = bracket.low
              /\ Found(bracket.high, "fail")
              /\ \A i \in 1 .. Len(outcomes) :
                    outcomes[i].rate \in bracket.low + 1 .. bracket.high - 1
                        => outcomes[i].verdict = "invalid"
              /\ \/ ~Halving(bracket.low, bracket.high, halvings)
                 \/ outcomes[Len(outcomes)].verdict = "invalid"
        /\ verdict = "knee_lower_bound" =>
              \A i \in 1 .. Len(outcomes) : outcomes[i].verdict # "fail"

\* Nothing is measured at or above a rate that failed: those numbers are
\* about a platform that had already degraded.
StopsAtFailure ==
    \A i, j \in 1 .. Len(outcomes) :
        i < j /\ outcomes[i].verdict = "fail" => outcomes[j].rate < outcomes[i].rate

\* No two runs of the runner share a label, so no evidence is overwritten;
\* and the repeats are repeats of the knee.
EvidenceIsApart ==
    /\ \A i, j \in 1 .. Len(evidence) : i # j => evidence[i] # evidence[j]
    /\ \A i \in 1 .. Len(repeats) : repeats[i].rate = knee

\* What the report of a ladder claims.
LadderIsHonest == KneeIsBracketed /\ StopsAtFailure /\ EvidenceIsApart
=============================================================================
