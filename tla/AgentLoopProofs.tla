--------------------------- MODULE AgentLoopProofs ---------------------------
(***************************************************************************)
(* What the agent's turns owe the spending ledger, for any number of       *)
(* turns, principals and model calls; and, at the end, what the provider   *)
(* pool owes its operator, what a completion is retried for and what of it *)
(* goes over the wire, and what the spending report says, however many     *)
(* candidates, attempts, tenants and workers there are.                    *)
(*                                                                         *)
(* The properties are not inductive by themselves: where a turn stands     *)
(* must be related to the row of its current request, to what a worker was *)
(* asked to do and to the transactions that outlived their turn.  TurnOK   *)
(* relates them, one turn at a time; what the other turns do to the rows   *)
(* of a turn is at most to notice that a hold of it has expired.           *)
(***************************************************************************)
EXTENDS
    AgentLoop, ProviderPool, Completions, FoldTheorems

Books == INSTANCE SpendingLedgerProofs

\* The row of the current request of turn t, in state s.
RowOf(t, s) == reservations[<<t, s.calls>>]

\* The hold of that request, noticed to have expired or not.
Held(t, s) ==
    /\ RowOf(t, s).status \in {"ACTIVE", "EXPIRED"}
    /\ RowOf(t, s).principal = Payer[t]
    /\ RowOf(t, s).estimate = s.estimate

\* Where a turn can stand with what it has counted.
PlaceOK(t, s) ==
    /\ s.job = "none" <=> s.at \notin {"reserving", "releasing", "committing"}
    /\ s.job = "refused" => s.at = "reserving"
    /\ s.at \in {"reserving", "releasing", "committing"} => t \in Reserving
    /\ s.at \in {"new", "listing"} => s.calls = 0
    /\ s.at \in {"reserving", "calling", "releasing", "committing", "recording", "batch", "tooling"}
           => s.calls > 0
    /\ s.at = "tooling" => s.open > 0
    /\ s.at = "reserving" => s.estimate \in Estimates
    /\ s.at = "committing" => s.cost \in Costs
    /\ s.at # "done" => s.outcome = "none" /\ (MaxEmpty > 0 => s.empties < MaxEmpty)

Delivered == {"answer", "needs_clarification", "tool_error"}

\* The row of the current request, by where the turn stands.
RowOK(t, s) ==
    /\ s.at \in {"round", "recording", "batch", "tooling"} => RowOf(t, s).status = "COMMITTED"
    /\ s.at = "reserving" => IF s.job = "ok" THEN Held(t, s) ELSE RowOf(t, s).status = "NONE"
    /\ s.at = "calling" => Held(t, s)
    /\ s.at = "releasing" =>
         /\ s.job = "queued" => Held(t, s)
         /\ s.job = "ok" => RowOf(t, s).status \in {"RELEASED", "EXPIRED"}
         /\ s.job = "failed" => <<t, s.calls>> \in cut
    /\ s.at = "committing" =>
         /\ s.job = "queued" => Held(t, s)
         /\ s.job = "ok" => RowOf(t, s).status = "COMMITTED"
         /\ s.job = "failed" => <<t, s.calls>> \in cut
    /\ s.at = "done" =>
         /\ s.outcome \in Delivered => RowOf(t, s).status = "COMMITTED"
         /\ RowOf(t, s).status = "ACTIVE" => s.outcome = "killed" \/ <<t, s.calls>> \in cut

\* The rows of all requests of the turn.
RowsOK(t, s) ==
    /\ \A k \in 1..MaxModelCalls :
         /\ t \notin Reserving \/ k > s.calls => reservations[<<t, k>>].status = "NONE"
         /\ t \in Reserving /\ k < s.calls => reservations[<<t, k>>].status = "COMMITTED"
    /\ t \in Reserving /\ s.calls > 0 => RowOK(t, s)

Operations == {"reserve", "release", "commit"}

\* A transaction that outlived its turn.
LooseOK(t, s) ==
    \A op \in Operations, k \in 1..MaxModelCalls :
        <<op, <<t, k>>>> \in loose =>
            /\ s.at = "done"
            /\ t \in Reserving
            /\ k = s.calls
            /\ <<t, k>> \in cut
            /\ s.outcome \notin Delivered
            /\ op = "reserve" => RowOf(t, s).status = "NONE" /\ s.estimate \in Estimates
            /\ op \in {"release", "commit"} => RowOf(t, s).status \in {"ACTIVE", "EXPIRED"}
            /\ op = "commit" => s.cost \in Costs
            /\ \A o \in Operations : <<o, <<t, k>>>> \in loose => o = op

StateOK(t, s) == PlaceOK(t, s) /\ RowsOK(t, s) /\ LooseOK(t, s)

TurnOK(t) == StateOK(t, turn[t])

\* Nobody sets a budget while turns run.
BudgetsFollow == \A p \in Principals : ~balances[p].override

\* The inductive invariant.
LoopInv ==
    /\ TypeOK
    /\ Books!LedgerInv
    /\ BudgetsFollow
    /\ \A t \in Turns : TurnOK(t)

-----------------------------------------------------------------------------
(* The steps of the ledger, as the loop takes them *)

LEMMA LedgerAssumptions ==
    /\ Estimates \subseteq Nat /\ Costs \subseteq Nat /\ Limits \subseteq Nat
    /\ IsFiniteSet(Requests) /\ Books!IsFiniteSet(Requests)
    /\ Unlimited \notin Nat
    /\ Nobody \notin Principals \cup Limits \cup {Unlimited}
<1>1. IsFiniteSet(1..MaxModelCalls)
  BY FS_Interval, LimitsAssumption
<1>2. IsFiniteSet(Requests)
  BY <1>1, FS_Product, LedgerAssumption DEF Requests
<1>3. Books!IsFiniteSet(Requests)
  BY <1>2 DEF IsFiniteSet, Books!IsFiniteSet
<1>4. QED
  BY <1>2, <1>3, LedgerAssumption

LEMMA PaidBySomeone == ASSUME NEW t \in Turns PROVE Payer[t] \in Principals
BY PayerAssumption

\* The ledger of the loop and the ledger of the proofs are one.
LEMMA SameLedger ==
    /\ Ledger!TypeOK <=> Books!TypeOK
    /\ Ledger!Init <=> Books!Init
    /\ \A p, r, e : Ledger!Admit(p, r, e) <=> Books!Admit(p, r, e)
    /\ \A r, c : Ledger!Commit(r, c) <=> Books!Commit(r, c)
    /\ \A r : Ledger!Release(r) <=> Books!Release(r)
    /\ \A r : Ledger!Lapse(r) <=> Books!Lapse(r)
<1>1. Ledger!TypeOK <=> Books!TypeOK
  BY DEF Ledger!TypeOK, Books!TypeOK, Ledger!Balance, Books!Balance, Ledger!Budgets, Books!Budgets,
         Ledger!Statuses, Books!Statuses
<1>2. Ledger!Init <=> Books!Init
  BY DEF Ledger!Init, Books!Init, Ledger!Budgets, Books!Budgets, Ledger!NoRow, Books!NoRow,
         Ledger!Row, Books!Row
<1>3. \A p, r, e : Ledger!Admit(p, r, e) <=> Books!Admit(p, r, e)
  BY DEF Ledger!Admit, Books!Admit, Ledger!Overdue, Books!Overdue, Ledger!Active, Books!Active,
         Ledger!Of, Books!Of, Ledger!NoRow, Books!NoRow, Ledger!Row, Books!Row,
         Ledger!Admissible, Books!Admissible, Ledger!Followed, Books!Followed,
         Ledger!Account, Books!Account, Ledger!Freed, Books!Freed, Ledger!Seeded, Books!Seeded,
         Ledger!Estimated, Books!Estimated, Ledger!SumOver, Books!SumOver,
         Ledger!Available, Books!Available, Ledger!Mark, Books!Mark,
         Ledger!FoldFunctionOnSet, Books!FoldFunctionOnSet,
         Ledger!MapThenFoldSet, Books!MapThenFoldSet
<1>4. \A r, c : Ledger!Commit(r, c) <=> Books!Commit(r, c)
  BY DEF Ledger!Commit, Books!Commit
<1>5. \A r : /\ Ledger!Release(r) <=> Books!Release(r)
             /\ Ledger!Lapse(r) <=> Books!Lapse(r)
  BY DEF Ledger!Release, Books!Release, Ledger!Lapse, Books!Lapse
<1>6. QED
  BY <1>1, <1>2, <1>3, <1>4, <1>5


\* What a transaction on r may do to the other rows: expire their holds.
OthersMove(r) ==
    \A x \in Requests \ {r} :
        /\ reservations'[x].principal = reservations[x].principal
        /\ reservations'[x].estimate = reservations[x].estimate
        /\ reservations'[x].cost = reservations[x].cost
        /\ \/ reservations'[x].status = reservations[x].status
           \/ reservations[x].status = "ACTIVE" /\ reservations'[x].status = "EXPIRED"

LEMMA AdmitMoves ==
    ASSUME LoopInv, NEW p \in Principals, NEW r \in Requests, NEW e \in Estimates,
           Ledger!Admit(p, r, e)
    PROVE  /\ Books!LedgerInv' /\ BudgetsFollow' /\ UNCHANGED default
           /\ reservations[r].status = "NONE"
           /\ reservations'[r].status = "ACTIVE"
           /\ reservations'[r].principal = p
           /\ reservations'[r].estimate = e
           /\ OthersMove(r)
<1>1. Books!Admit(p, r, e) /\ Books!LedgerInv
  BY SameLedger DEF LoopInv
<1>2. Books!LedgerInv'
  BY <1>1, LedgerAssumptions, Books!AdmitKeepsInv
<1>3. PICK S \in SUBSET Books!Overdue(p) :
        /\ reservations[r] = Books!NoRow
        /\ balances' = [balances EXCEPT ![p] =
                          [Books!Followed(Books!Account(p, S)) EXCEPT !.reserved = @ + e]]
        /\ reservations' = [Books!Mark(S, "EXPIRED") EXCEPT ![r] = Books!Row("ACTIVE", p, e, 0)]
        /\ UNCHANGED default
  BY <1>1 DEF Books!Admit
<1>4. BudgetsFollow'
  <2>1. /\ Books!Account(p, S) \in Books!Balance
        /\ Books!Account(p, S).override = balances[p].override
    BY <1>1, LedgerAssumptions, Books!AccountIsExact
  <2>2. balances \in [Principals -> Books!Balance]
    BY <1>1 DEF Books!LedgerInv, Books!TypeOK
  <2>3. \A q \in Principals : balances'[q].override = balances[q].override
    BY <1>3, <2>1, <2>2 DEF Books!Followed, Books!Balance
  <2>4. QED
    BY <2>3 DEF BudgetsFollow, LoopInv
<1>5. /\ reservations[r].status = "NONE"
      /\ reservations'[r].status = "ACTIVE"
      /\ reservations'[r].principal = p
      /\ reservations'[r].estimate = e
  BY <1>3 DEF Books!NoRow, Books!Row, Books!Mark
<1>6. S \in SUBSET overdue /\ \A x \in S : reservations[x].status = "ACTIVE"
  BY DEF Books!Overdue, Books!Active
<1>7. ASSUME NEW x \in Requests \ {r}
      PROVE  /\ reservations'[x].principal = reservations[x].principal
             /\ reservations'[x].estimate = reservations[x].estimate
             /\ reservations'[x].cost = reservations[x].cost
             /\ \/ reservations'[x].status = reservations[x].status
                \/ reservations[x].status = "ACTIVE" /\ reservations'[x].status = "EXPIRED"
  <2>1. reservations'[x] = Books!Mark(S, "EXPIRED")[x]
    BY <1>3, <1>7 DEF Books!Mark
  <2>2. /\ Books!Mark(S, "EXPIRED")[x].principal = reservations[x].principal
        /\ Books!Mark(S, "EXPIRED")[x].estimate = reservations[x].estimate
        /\ Books!Mark(S, "EXPIRED")[x].cost = reservations[x].cost
        /\ Books!Mark(S, "EXPIRED")[x].status =
               IF x \in S THEN "EXPIRED" ELSE reservations[x].status
    BY <1>1, <1>6, LedgerAssumptions, Books!ExpiryKeepsRows
  <2>3. QED
    BY <1>6, <2>1, <2>2
<1>8. QED
  BY <1>2, <1>3, <1>4, <1>5, <1>7 DEF OthersMove

LEMMA CommitMoves ==
    ASSUME LoopInv, NEW r \in Requests, NEW c \in Costs, Ledger!Commit(r, c)
    PROVE  /\ Books!LedgerInv' /\ BudgetsFollow' /\ UNCHANGED default
           /\ reservations[r].status \in {"ACTIVE", "EXPIRED"}
           /\ reservations'[r].status = "COMMITTED"
           /\ reservations'[r].principal = reservations[r].principal
           /\ reservations'[r].estimate = reservations[r].estimate
           /\ reservations'[r].cost = c
           /\ OthersMove(r)
<1>1. Books!Commit(r, c) /\ Books!LedgerInv
  BY SameLedger DEF LoopInv
<1>2. Books!LedgerInv'
  BY <1>1, LedgerAssumptions, Books!CommitKeepsInv
<1>3. /\ reservations[r].status \in {"ACTIVE", "EXPIRED"}
      /\ reservations' = [reservations EXCEPT ![r].status = "COMMITTED", ![r].cost = c]
      /\ UNCHANGED default
  BY <1>1 DEF Books!Commit
<1>4. /\ reservations \in [Requests -> [status: Books!Statuses,
                principal: Principals \cup {Nobody},
                estimate: Estimates \cup {0}, cost: Costs \cup {0}]]
      /\ balances \in [Principals -> Books!Balance]
  BY <1>1 DEF Books!LedgerInv, Books!TypeOK
<1>5. BudgetsFollow'
  BY <1>1, <1>4 DEF BudgetsFollow, LoopInv, Books!Commit, Books!Balance
<1>6. OthersMove(r)
  BY <1>3, <1>4 DEF OthersMove
<1>7. QED
  BY <1>2, <1>3, <1>4, <1>5, <1>6

LEMMA ReleaseMoves ==
    ASSUME LoopInv, NEW r \in Requests, Ledger!Release(r)
    PROVE  /\ Books!LedgerInv' /\ BudgetsFollow' /\ UNCHANGED default
           /\ reservations[r].status = "ACTIVE"
           /\ reservations'[r].status = "RELEASED"
           /\ reservations'[r].principal = reservations[r].principal
           /\ reservations'[r].estimate = reservations[r].estimate
           /\ OthersMove(r)
<1>1. Books!Release(r) /\ Books!LedgerInv
  BY SameLedger DEF LoopInv
<1>2. Books!LedgerInv'
  BY <1>1, LedgerAssumptions, Books!ReleaseKeepsInv
<1>3. /\ reservations[r].status = "ACTIVE"
      /\ reservations' = [reservations EXCEPT ![r].status = "RELEASED"]
      /\ UNCHANGED default
  BY <1>1 DEF Books!Release
<1>4. /\ reservations \in [Requests -> [status: Books!Statuses,
                principal: Principals \cup {Nobody},
                estimate: Estimates \cup {0}, cost: Costs \cup {0}]]
      /\ balances \in [Principals -> Books!Balance]
  BY <1>1 DEF Books!LedgerInv, Books!TypeOK
<1>5. BudgetsFollow'
  BY <1>1, <1>4 DEF BudgetsFollow, LoopInv, Books!Release, Books!Balance
<1>6. OthersMove(r)
  BY <1>3, <1>4 DEF OthersMove
<1>7. QED
  BY <1>2, <1>3, <1>4, <1>5, <1>6


-----------------------------------------------------------------------------
(* The state of a turn *)

\* A finite set of numbers has a greatest one.
LEMMA MaxIsGreatest ==
    ASSUME NEW S, IsFiniteSet(S), \A n \in S : n \in Nat, S # {}
    PROVE  Max(S) \in S /\ \A n \in S : n <= Max(S)
<1> DEFINE T == {s \in SUBSET S : s # {} /\ ~ \E m \in s : \A n \in s : n <= m}
<1>1. SUFFICES ASSUME T # {} PROVE FALSE
  <2>1. S \notin T
    BY <1>1
  <2>2. \E m \in S : \A n \in S : n <= m
    BY <2>1
  <2>3. QED
    BY <2>2 DEF Max
<1>2. PICK x \in T : \A y \in T : y \subseteq x => y = x
  <2>1. T \subseteq SUBSET S
    OBVIOUS
  <2> HIDE DEF T
  <2>2. QED
    BY <1>1, <2>1, LeastSubset
<1>3. PICK a \in x : TRUE
  OBVIOUS
<1>4. x \ {a} \notin T /\ x \subseteq Nat
  BY <1>2, <1>3
<1>5. CASE x \ {a} = {}
  BY <1>3, <1>4, <1>5
<1>6. CASE x \ {a} # {}
  <2>1. PICK m \in x \ {a} : \A n \in x \ {a} : n <= m
    BY <1>4, <1>6
  <2>2. m <= a \/ a <= m
    BY <1>3, <1>4, <2>1
  <2>3. \A n \in x : (m <= a => n <= a) /\ (a <= m => n <= m)
    BY <1>3, <1>4, <2>1
  <2>4. QED
    BY <1>3, <2>1, <2>2, <2>3
<1>7. QED
  BY <1>5, <1>6

LEMMA OpenIsBounded ==
    /\ Max(Batches \cup {0}) \in Nat
    /\ \A n \in Batches : n \in 0..Max(Batches \cup {0})
<1>1. IsFiniteSet(Batches \cup {0})
  BY FS_AddElement, LimitsAssumption
<1>2. Batches \cup {0} \subseteq Nat /\ Batches \cup {0} # {}
  BY LimitsAssumption
<1> DEFINE S == Batches \cup {0}
<1>3. Max(S) \in S /\ \A n \in S : n <= Max(S)
  <2> HIDE DEF S
  <2>1. QED
    BY <1>1, <1>2, MaxIsGreatest DEF S
<1>4. QED
  BY <1>2, <1>3

\* The request under way is one of the turn's.
LEMMA CurrentIsRequest ==
    ASSUME NEW t \in Turns, NEW s \in Turn, s.calls > 0
    PROVE  s.calls \in 1..MaxModelCalls /\ <<t, s.calls>> \in Requests
BY LimitsAssumption DEF Turn, Requests

\* What may happen to the rows of a turn while others act: its holds expire.
RowsExpire(t) ==
    \A k \in 1..MaxModelCalls :
        /\ reservations'[<<t, k>>].principal = reservations[<<t, k>>].principal
        /\ reservations'[<<t, k>>].estimate = reservations[<<t, k>>].estimate
        /\ \/ reservations'[<<t, k>>].status = reservations[<<t, k>>].status
           \/ /\ reservations[<<t, k>>].status = "ACTIVE"
              /\ reservations'[<<t, k>>].status = "EXPIRED"

\* It bears that.
LEMMA ExpiryIsBorne ==
    ASSUME NEW t \in Turns, NEW s \in Turn, StateOK(t, s), RowsExpire(t), cut \subseteq cut',
           \A op \in Operations, k \in 1..MaxModelCalls :
              <<op, <<t, k>>>> \in loose' => <<op, <<t, k>>>> \in loose
    PROVE  StateOK(t, s)'
<1> DEFINE row == RowOf(t, s)
<1>1. ASSUME s.calls > 0
      PROVE  /\ row'.principal = row.principal
             /\ row'.estimate = row.estimate
             /\ row'.status = row.status \/ (row.status = "ACTIVE" /\ row'.status = "EXPIRED")
  BY <1>1, CurrentIsRequest DEF RowOf, RowsExpire
<1>2. PlaceOK(t, s)'
  BY DEF StateOK, PlaceOK
<1>3. RowsOK(t, s)'
  <2>1. ASSUME t \in Reserving, s.calls > 0
        PROVE  RowOK(t, s)'
    <3>1. RowOK(t, s)
      BY <2>1 DEF StateOK, RowsOK
    <3>2. Held(t, s) => Held(t, s)'
      BY <1>1, <2>1 DEF Held
    <3>3. QED
      BY <1>1, <2>1, <3>1, <3>2 DEF RowOK
  <2>2. QED
    BY <2>1 DEF StateOK, RowsOK, RowsExpire
<1>4. LooseOK(t, s)'
  <2>1. SUFFICES ASSUME NEW op \in Operations, NEW k \in 1..MaxModelCalls,
                        <<op, <<t, k>>>> \in loose'
                 PROVE  /\ s.at = "done"
                        /\ t \in Reserving
                        /\ k = s.calls
                        /\ <<t, k>> \in cut'
                        /\ s.outcome \notin Delivered
                        /\ op = "reserve" => row'.status = "NONE" /\ s.estimate \in Estimates
                        /\ op \in {"release", "commit"} => row'.status \in {"ACTIVE", "EXPIRED"}
                        /\ op = "commit" => s.cost \in Costs
                        /\ \A o \in Operations : <<o, <<t, k>>>> \in loose' => o = op
    BY DEF LooseOK
  <2>2. <<op, <<t, k>>>> \in loose
    BY <2>1
  <2>3. k = s.calls
    BY <2>2 DEF StateOK, LooseOK
  <2>4. k > 0
    BY LimitsAssumption
  <2>5. QED
    BY <1>1, <2>2, <2>3, <2>4 DEF StateOK, LooseOK
<1>5. QED
  BY <1>2, <1>3, <1>4 DEF StateOK

\* A step of one turn that leaves the ledger alone.
LEMMA QuietStep ==
    ASSUME LoopInv, Quietly, NEW t \in Turns, NEW s \in Turn, turn' = [turn EXCEPT ![t] = s],
           turn[t].at # "done", PlaceOK(t, s), RowsOK(t, s)
    PROVE  LoopInv'
<1>1. UNCHANGED <<balances, reservations, default, overdue, loose, late, cut>>
  BY DEF Quietly, ledgerVars
<1>2. TypeOK'
  <2>1. Ledger!TypeOK'
    BY <1>1 DEF LoopInv, TypeOK, Ledger!TypeOK
  <2>2. QED
    BY <1>1, <2>1 DEF LoopInv, TypeOK
<1>3. Books!LedgerInv'
  BY <1>1 DEF LoopInv, Books!LedgerInv, Books!TypeOK, Books!CountersExact, Books!RowsAreWhole,
              Books!OverdueIsActive, Books!OverridesAreKnown, Books!Estimated, Books!Active, Books!Of
<1>4. BudgetsFollow'
  BY <1>1 DEF LoopInv, BudgetsFollow
<1>5. ASSUME NEW u \in Turns
      PROVE  TurnOK(u)'
  <2>1. RowsExpire(u)
    BY <1>1 DEF RowsExpire
  <2>2. ASSUME NEW z \in Turn, StateOK(u, z)
        PROVE  StateOK(u, z)'
    BY <1>1, <2>1, <2>2, ExpiryIsBorne
  <2>3. CASE u # t
    <3>1. turn'[u] = turn[u] /\ turn[u] \in Turn /\ StateOK(u, turn[u])
      BY <2>3 DEF LoopInv, TypeOK, TurnOK
    <3>2. QED
      BY <2>2, <3>1 DEF TurnOK
  <2>4. CASE u = t
    <3>1. LooseOK(t, s)
      BY DEF LoopInv, TurnOK, StateOK, LooseOK
    <3>2. turn'[t] = s
      BY DEF LoopInv, TypeOK
    <3>3. QED
      BY <2>2, <2>4, <3>1, <3>2 DEF TurnOK, StateOK
  <2>5. QED
    BY <2>3, <2>4
<1>6. QED
  BY <1>2, <1>3, <1>4, <1>5 DEF LoopInv

\* The same, when the request stays the current one.
LEMMA QuietMove ==
    ASSUME LoopInv, Quietly, NEW t \in Turns, NEW s \in Turn, turn' = [turn EXCEPT ![t] = s],
           turn[t].at # "done", s.calls = turn[t].calls, PlaceOK(t, s),
           t \in Reserving /\ s.calls > 0 => RowOK(t, s)
    PROVE  LoopInv'
<1>1. RowsOK(t, s)
  BY DEF LoopInv, TurnOK, StateOK, RowsOK
<1>2. QED
  BY <1>1, QuietStep

\* What is known of a turn.
LEMMA KnownOfTurn ==
    ASSUME LoopInv, NEW t \in Turns
    PROVE  /\ turn[t] \in Turn
           /\ PlaceOK(t, turn[t])
           /\ t \in Reserving /\ turn[t].calls > 0 => RowOK(t, turn[t])
BY DEF LoopInv, TypeOK, TurnOK, StateOK, RowsOK

-----------------------------------------------------------------------------
(* The steps of a turn that leave the ledger alone *)

\* A turn ends undelivered with no hold of its own left.
LEMMA FinishKeepsInv ==
    ASSUME LoopInv, Quietly, NEW t \in Turns, NEW kind \in Outcomes, Finish(t, kind),
           turn[t].at # "done",
           t \in Reserving /\ turn[t].calls > 0 =>
              /\ kind \in Delivered => RowOf(t, turn[t]).status = "COMMITTED"
              /\ RowOf(t, turn[t]).status = "ACTIVE" => <<t, turn[t].calls>> \in cut
    PROVE  LoopInv'
<1> DEFINE s == [turn[t] EXCEPT !.at = "done", !.job = "none", !.outcome = kind]
<1>1. turn[t] \in Turn
  BY KnownOfTurn
<1>2. turn' = [turn EXCEPT ![t] = s]
  BY DEF Finish, LoopInv, TypeOK
<1>3. s \in Turn /\ s.calls = turn[t].calls /\ s.at = "done" /\ s.job = "none" /\ s.outcome = kind
  BY <1>1 DEF Turn, Places
<1>4. PlaceOK(t, s)
  BY <1>3 DEF PlaceOK
<1>5. t \in Reserving /\ s.calls > 0 => RowOK(t, s)
  BY <1>3 DEF RowOK, RowOf
<1> HIDE DEF s
<1>6. QED
  BY <1>2, <1>3, <1>4, <1>5, QuietMove

LEMMA StartKeepsInv == ASSUME LoopInv, NEW t \in Turns, Start(t) PROVE LoopInv'
<1>1. turn[t] \in Turn /\ PlaceOK(t, turn[t]) /\ turn[t].at = "new" /\ Quietly
  BY KnownOfTurn DEF Start
<1>2. turn[t].calls = 0 /\ turn[t].job = "none" /\ ~ (turn[t].calls > 0)
  BY <1>1 DEF PlaceOK
<1>3. CASE Goto(t, "listing")
  <2> DEFINE s == [turn[t] EXCEPT !.at = "listing", !.job = "none"]
  <2>1. turn' = [turn EXCEPT ![t] = s]
    BY <1>3 DEF Goto, LoopInv, TypeOK
  <2>2. s \in Turn /\ s.calls = turn[t].calls
    BY <1>1, <1>2 DEF Turn, Places
  <2>3. PlaceOK(t, s)
    BY <1>1, <1>2 DEF PlaceOK, Turn
  <2> HIDE DEF s
  <2>4. QED
    BY <1>1, <1>2, <2>1, <2>2, <2>3, QuietMove
<1>4. CASE Finish(t, "input_blocked")
  BY <1>1, <1>2, <1>4, FinishKeepsInv DEF Outcomes
<1>5. QED
  BY <1>3, <1>4 DEF Start

LEMMA ListedKeepsInv == ASSUME LoopInv, NEW t \in Turns, Listed(t) PROVE LoopInv'
<1>1. turn[t] \in Turn /\ PlaceOK(t, turn[t]) /\ turn[t].at = "listing" /\ Quietly
  BY KnownOfTurn DEF Listed
<1>2. turn[t].calls = 0 /\ turn[t].job = "none" /\ ~ (turn[t].calls > 0)
  BY <1>1 DEF PlaceOK
<1>3. CASE Goto(t, "round")
  <2> DEFINE s == [turn[t] EXCEPT !.at = "round", !.job = "none"]
  <2>1. turn' = [turn EXCEPT ![t] = s]
    BY <1>3 DEF Goto, LoopInv, TypeOK
  <2>2. s \in Turn /\ s.calls = turn[t].calls
    BY <1>1, <1>2 DEF Turn, Places
  <2>3. PlaceOK(t, s)
    BY <1>1, <1>2 DEF PlaceOK, Turn
  <2> HIDE DEF s
  <2>4. QED
    BY <1>1, <1>2, <2>1, <2>2, <2>3, QuietMove
<1>4. CASE Finish(t, "dependency_unavailable")
  BY <1>1, <1>2, <1>4, FinishKeepsInv DEF Outcomes
<1>5. QED
  BY <1>3, <1>4 DEF Listed

LEMMA StopKeepsInv == ASSUME LoopInv, NEW t \in Turns, Stop(t) PROVE LoopInv'
<1>1. /\ turn[t].at = "round" /\ Quietly /\ Finish(t, "limit_reached")
      /\ t \in Reserving /\ turn[t].calls > 0 => RowOK(t, turn[t])
  BY KnownOfTurn DEF Stop
<1>2. QED
  BY <1>1, FinishKeepsInv DEF RowOK, Outcomes, Delivered


\* A turn goes on elsewhere with its counts unchanged.
LEMMA MoveKeepsInv ==
    ASSUME LoopInv, Quietly, NEW t \in Turns, turn[t].at # "done", turn[t].calls > 0,
           NEW place \in {"round", "calling", "releasing", "recording"},
           NEW job \in {"none", "queued"}, job = "queued" <=> place = "releasing",
           turn' = [turn EXCEPT ![t].at = place, ![t].job = job],
           place = "releasing" => t \in Reserving,
           t \in Reserving => IF place \in {"round", "recording"}
                              THEN RowOf(t, turn[t]).status = "COMMITTED"
                              ELSE Held(t, turn[t])
    PROVE  LoopInv'
<1> DEFINE s == [turn[t] EXCEPT !.at = place, !.job = job]
<1>1. turn[t] \in Turn /\ PlaceOK(t, turn[t])
  BY KnownOfTurn
<1>2. turn' = [turn EXCEPT ![t] = s]
  BY DEF LoopInv, TypeOK
<1>3. /\ s \in Turn /\ s.calls = turn[t].calls /\ s.at = place /\ s.job = job
      /\ s.outcome = turn[t].outcome /\ s.open = turn[t].open /\ s.empties = turn[t].empties
      /\ s.estimate = turn[t].estimate /\ s.cost = turn[t].cost
  BY <1>1 DEF Turn, Places
<1> HIDE DEF s
<1>4. t \in Reserving => RowOK(t, s)
  BY <1>3 DEF RowOK, Held, RowOf
<1>5. PlaceOK(t, s)
  BY <1>1, <1>3 DEF PlaceOK
<1>6. QED
  BY <1>2, <1>3, <1>4, <1>5, QuietMove

LEMMA ReservedKeepsInv == ASSUME LoopInv, NEW t \in Turns, Reserved(t) PROVE LoopInv'
<1>1. /\ turn[t] \in Turn /\ PlaceOK(t, turn[t]) /\ turn[t].at = "reserving" /\ Quietly
      /\ t \in Reserving /\ turn[t].calls > 0 => RowOK(t, turn[t])
  BY KnownOfTurn DEF Reserved
<1>2. turn[t].calls > 0 /\ t \in Reserving
  BY <1>1 DEF PlaceOK
<1>3. IF turn[t].job = "ok" THEN Held(t, turn[t]) ELSE RowOf(t, turn[t]).status = "NONE"
  BY <1>1, <1>2 DEF RowOK
<1>4. CASE turn[t].job = "ok" /\ Goto(t, "calling")
  <2>1. turn' = [turn EXCEPT ![t].at = "calling", ![t].job = "none"]
    BY <1>4 DEF Goto
  <2>2. QED
    BY <1>1, <1>2, <1>3, <1>4, <2>1, MoveKeepsInv
<1>5. CASE turn[t].job \in {"refused", "failed"}
           /\ (Finish(t, "limit_reached") \/ Finish(t, "provider_error"))
  <2>1. RowOf(t, turn[t]).status = "NONE"
    BY <1>3, <1>5
  <2>2. QED
    BY <1>1, <1>5, <2>1, FinishKeepsInv DEF Outcomes, Delivered
<1>6. QED
  BY <1>4, <1>5 DEF Reserved

LEMMA AnsweredKeepsInv == ASSUME LoopInv, NEW t \in Turns, Answered(t) PROVE LoopInv'
<1>1. /\ turn[t] \in Turn /\ PlaceOK(t, turn[t]) /\ turn[t].at = "calling" /\ Quietly
      /\ t \in Reserving /\ turn[t].calls > 0 => RowOK(t, turn[t])
  BY KnownOfTurn DEF Answered
<1>2. turn[t].calls > 0
  BY <1>1 DEF PlaceOK
<1>3. PICK c \in Costs :
        turn' = [turn EXCEPT ![t].cost = c,
                             ![t].at = IF t \in Reserving THEN "committing" ELSE "recording",
                             ![t].job = IF t \in Reserving THEN "queued" ELSE "none"]
  BY DEF Answered
<1> DEFINE s == [turn[t] EXCEPT !.cost = c,
                                !.at = IF t \in Reserving THEN "committing" ELSE "recording",
                                !.job = IF t \in Reserving THEN "queued" ELSE "none"]
<1>4. turn' = [turn EXCEPT ![t] = s]
  BY <1>3 DEF LoopInv, TypeOK
<1>5. /\ s \in Turn /\ s.calls = turn[t].calls
      /\ s.at = IF t \in Reserving THEN "committing" ELSE "recording"
      /\ s.job = IF t \in Reserving THEN "queued" ELSE "none"
      /\ s.cost = c /\ s.estimate = turn[t].estimate
      /\ s.outcome = turn[t].outcome /\ s.empties = turn[t].empties
  BY <1>1 DEF Turn, Places
<1> HIDE DEF s
<1>6. PlaceOK(t, s)
  BY <1>1, <1>5 DEF PlaceOK
<1>7. t \in Reserving => RowOK(t, s)
  BY <1>1, <1>2, <1>5 DEF RowOK, Held, RowOf
<1>8. QED
  BY <1>1, <1>4, <1>5, <1>6, <1>7, QuietMove

LEMMA CallFailsKeepsInv == ASSUME LoopInv, NEW t \in Turns, CallFails(t) PROVE LoopInv'
<1>1. /\ turn[t] \in Turn /\ PlaceOK(t, turn[t]) /\ turn[t].at = "calling" /\ Quietly
      /\ t \in Reserving /\ turn[t].calls > 0 => RowOK(t, turn[t])
  BY KnownOfTurn DEF CallFails
<1>2. turn[t].calls > 0
  BY <1>1 DEF PlaceOK
<1>3. CASE t \in Reserving
  <2>1. Held(t, turn[t])
    BY <1>1, <1>2, <1>3 DEF RowOK
  <2>2. turn' = [turn EXCEPT ![t].at = "releasing", ![t].job = "queued"]
    BY <1>3 DEF CallFails, Await
  <2>3. QED
    BY <1>1, <1>2, <1>3, <2>1, <2>2, MoveKeepsInv
<1>4. CASE t \notin Reserving
  <2>1. Finish(t, "provider_error")
    BY <1>4 DEF CallFails
  <2>2. QED
    BY <1>1, <1>4, <2>1, FinishKeepsInv DEF Outcomes
<1>5. QED
  BY <1>3, <1>4

LEMMA ReleasedKeepsInv == ASSUME LoopInv, NEW t \in Turns, Released(t) PROVE LoopInv'
<1>1. /\ turn[t] \in Turn /\ PlaceOK(t, turn[t]) /\ turn[t].at = "releasing" /\ Quietly
      /\ t \in Reserving /\ turn[t].calls > 0 => RowOK(t, turn[t])
      /\ turn[t].job \in {"ok", "failed"}
      /\ Finish(t, "cancelled") \/ Finish(t, "provider_error")
  BY KnownOfTurn DEF Released
<1>2. turn[t].calls > 0 /\ t \in Reserving
  BY <1>1 DEF PlaceOK
<1>3. RowOf(t, turn[t]).status = "ACTIVE" => <<t, turn[t].calls>> \in cut
  BY <1>1, <1>2 DEF RowOK
<1>4. QED
  BY <1>1, <1>3, FinishKeepsInv DEF Outcomes, Delivered

LEMMA CommittedKeepsInv == ASSUME LoopInv, NEW t \in Turns, Committed(t) PROVE LoopInv'
<1>1. /\ turn[t] \in Turn /\ PlaceOK(t, turn[t]) /\ turn[t].at = "committing" /\ Quietly
      /\ t \in Reserving /\ turn[t].calls > 0 => RowOK(t, turn[t])
  BY KnownOfTurn DEF Committed
<1>2. turn[t].calls > 0 /\ t \in Reserving
  BY <1>1 DEF PlaceOK
<1>3. CASE turn[t].job = "ok" /\ Goto(t, "recording")
  <2>1. RowOf(t, turn[t]).status = "COMMITTED"
    BY <1>1, <1>2, <1>3 DEF RowOK
  <2>2. turn' = [turn EXCEPT ![t].at = "recording", ![t].job = "none"]
    BY <1>3 DEF Goto
  <2>3. QED
    BY <1>1, <1>2, <2>1, <2>2, MoveKeepsInv
<1>4. CASE turn[t].job = "failed" /\ Finish(t, "provider_error")
  <2>1. <<t, turn[t].calls>> \in cut
    BY <1>1, <1>2, <1>4 DEF RowOK
  <2>2. QED
    BY <1>1, <1>4, <2>1, FinishKeepsInv DEF Outcomes, Delivered
<1>5. QED
  BY <1>3, <1>4 DEF Committed

LEMMA OverLimitKeepsInv == ASSUME LoopInv, NEW t \in Turns, OverLimit(t) PROVE LoopInv'
<1>1. /\ turn[t].at = "recording" /\ Quietly /\ t \notin Reserving
      /\ Finish(t, "limit_reached") \/ Finish(t, "provider_error")
  BY DEF OverLimit
<1>2. QED
  BY <1>1, FinishKeepsInv DEF Outcomes

LEMMA BatchDoneKeepsInv == ASSUME LoopInv, NEW t \in Turns, BatchDone(t) PROVE LoopInv'
<1>1. /\ turn[t] \in Turn /\ PlaceOK(t, turn[t]) /\ turn[t].at = "batch" /\ Quietly
      /\ t \in Reserving /\ turn[t].calls > 0 => RowOK(t, turn[t])
      /\ Goto(t, "round")
  BY KnownOfTurn DEF BatchDone
<1>2. turn[t].calls > 0
  BY <1>1 DEF PlaceOK
<1>3. t \in Reserving => RowOf(t, turn[t]).status = "COMMITTED"
  BY <1>1, <1>2 DEF RowOK
<1>4. turn' = [turn EXCEPT ![t].at = "round", ![t].job = "none"]
  BY <1>1 DEF Goto
<1>5. QED
  BY <1>1, <1>2, <1>3, <1>4, MoveKeepsInv

LEMMA ToolLimitKeepsInv == ASSUME LoopInv, NEW t \in Turns, ToolLimit(t) PROVE LoopInv'
<1>1. /\ turn[t].at = "batch" /\ Quietly /\ Finish(t, "limit_reached")
      /\ t \in Reserving /\ turn[t].calls > 0 => RowOK(t, turn[t])
  BY KnownOfTurn DEF ToolLimit
<1>2. QED
  BY <1>1, FinishKeepsInv DEF RowOK, Outcomes, Delivered

LEMMA DisconnectKeepsInv == ASSUME LoopInv, NEW t \in Turns, Disconnect(t) PROVE LoopInv'
<1> DEFINE s == [turn[t] EXCEPT !.gone = TRUE]
<1>1. /\ turn[t] \in Turn /\ PlaceOK(t, turn[t]) /\ turn[t].at # "done" /\ Quietly
      /\ t \in Reserving /\ turn[t].calls > 0 => RowOK(t, turn[t])
      /\ turn' = [turn EXCEPT ![t] = s]
  BY KnownOfTurn DEF Disconnect, Running, LoopInv, TypeOK
<1>2. s \in Turn /\ s.calls = turn[t].calls
  BY <1>1 DEF Turn
<1>3. PlaceOK(t, s)
  BY <1>1 DEF PlaceOK, Turn
<1>4. t \in Reserving /\ s.calls > 0 => RowOK(t, s)
  BY <1>1 DEF RowOK, Held, RowOf, Turn
<1> HIDE DEF s
<1>5. QED
  BY <1>1, <1>2, <1>3, <1>4, QuietMove


LEMMA RoundKeepsInv == ASSUME LoopInv, NEW t \in Turns, Round(t) PROVE LoopInv'
<1>1. /\ turn[t] \in Turn /\ PlaceOK(t, turn[t]) /\ turn[t].at = "round" /\ Quietly
      /\ t \in Reserving /\ turn[t].calls > 0 => RowOK(t, turn[t])
      /\ RowsOK(t, turn[t])
  BY KnownOfTurn DEF Round, LoopInv, TurnOK, StateOK
<1> DEFINE n == turn[t].calls + 1
<1>2. n \in 0..MaxModelCalls /\ n > 0 /\ turn[t].calls \in Nat
  <2>1. turn[t].calls \in 0..MaxModelCalls
    BY <1>1 DEF Turn
  <2>2. ~ (turn[t].calls >= MaxModelCalls)
    <3>1. ~Reached(turn[t].calls, MaxModelCalls)
      BY DEF Round
    <3>2. MaxModelCalls > 0
      BY LimitsAssumption
    <3>3. QED
      BY <3>1, <3>2 DEF Reached
  <2>3. QED
    BY <2>1, <2>2, LimitsAssumption
<1>3. turn[t].job = "none"
  BY <1>1 DEF PlaceOK
<1>4. ASSUME NEW s \in Turn, s.calls = n,
             turn' = [turn EXCEPT ![t] = s],
             \/ s.at = "done" /\ s.job = "none" /\ s.outcome \in {"cancelled", "provider_error"}
             \/ s.at = "calling" /\ s.job = "none" /\ t \notin Reserving /\ s.outcome = "none"
             \/ /\ s.at = "reserving" /\ s.job = "queued" /\ t \in Reserving
                /\ s.estimate \in Estimates /\ s.outcome = "none",
             s.empties = turn[t].empties
      PROVE  LoopInv'
  <2>1. PlaceOK(t, s)
    BY <1>1, <1>2, <1>4 DEF PlaceOK
  <2>2. t \in Reserving => RowOf(t, s).status = "NONE"
    <3>1. n \in 1..MaxModelCalls /\ n > turn[t].calls
      BY <1>2
    <3>2. reservations[<<t, n>>].status = "NONE"
      BY <1>1, <3>1 DEF RowsOK
    <3>3. QED
      BY <1>4, <3>2 DEF RowOf
  <2>3. ASSUME NEW k \in 1..MaxModelCalls
        PROVE  /\ t \notin Reserving \/ k > s.calls => reservations[<<t, k>>].status = "NONE"
               /\ t \in Reserving /\ k < s.calls => reservations[<<t, k>>].status = "COMMITTED"
    <3>1. k > n => k > turn[t].calls
      BY <1>2, LimitsAssumption
    <3>2. k < n => k < turn[t].calls \/ (k = turn[t].calls /\ turn[t].calls > 0)
      BY <1>2, LimitsAssumption
    <3>3. t \in Reserving /\ turn[t].calls > 0 => reservations[<<t, turn[t].calls>>].status = "COMMITTED"
      BY <1>1 DEF RowOK, RowOf
    <3>4. QED
      BY <1>1, <1>4, <3>1, <3>2, <3>3 DEF RowsOK
  <2>4. t \in Reserving => RowOK(t, s)
    BY <1>4, <2>2 DEF RowOK, Delivered
  <2>5. RowsOK(t, s)
    BY <2>3, <2>4 DEF RowsOK
  <2>6. QED
    BY <1>1, <1>4, <2>1, <2>5, QuietStep
<1>5. CASE turn[t].gone
  <2> DEFINE s == [turn[t] EXCEPT !.calls = n, !.at = "done", !.outcome = "cancelled"]
  <2>1. turn' = [turn EXCEPT ![t] = s]
    BY <1>5 DEF Round, LoopInv, TypeOK
  <2>2. /\ s \in Turn /\ s.calls = n /\ s.at = "done" /\ s.job = "none"
        /\ s.outcome = "cancelled" /\ s.empties = turn[t].empties
    BY <1>1, <1>2, <1>3 DEF Turn, Places, Outcomes
  <2> HIDE DEF s, n
  <2>3. QED
    BY <1>4, <2>1, <2>2
<1>6. CASE ~turn[t].gone /\ t \notin Reserving
  <2> DEFINE s == [turn[t] EXCEPT !.calls = n, !.at = "calling"]
  <2>1. turn' = [turn EXCEPT ![t] = s]
    BY <1>6 DEF Round, LoopInv, TypeOK
  <2>2. /\ s \in Turn /\ s.calls = n /\ s.at = "calling" /\ s.job = "none"
        /\ s.outcome = turn[t].outcome /\ s.empties = turn[t].empties
    BY <1>1, <1>2, <1>3 DEF Turn, Places
  <2>3. turn[t].outcome = "none"
    BY <1>1 DEF PlaceOK
  <2> HIDE DEF s, n
  <2>4. QED
    BY <1>4, <1>6, <2>1, <2>2, <2>3
<1>7. CASE ~turn[t].gone /\ t \in Reserving
  <2>1. CASE turn' = [[turn EXCEPT ![t].calls = @ + 1]
                        EXCEPT ![t].at = "done", ![t].outcome = "provider_error"]
    <3> DEFINE s == [turn[t] EXCEPT !.calls = n, !.at = "done", !.outcome = "provider_error"]
    <3>1. turn' = [turn EXCEPT ![t] = s]
      BY <2>1 DEF LoopInv, TypeOK
    <3>2. /\ s \in Turn /\ s.calls = n /\ s.at = "done" /\ s.job = "none"
          /\ s.outcome = "provider_error" /\ s.empties = turn[t].empties
      BY <1>1, <1>2, <1>3 DEF Turn, Places, Outcomes
    <3> HIDE DEF s, n
    <3>3. QED
      BY <1>4, <3>1, <3>2
  <2>2. ASSUME NEW e \in Estimates,
               turn' = [[turn EXCEPT ![t].calls = @ + 1]
                          EXCEPT ![t].estimate = e, ![t].at = "reserving", ![t].job = "queued"]
        PROVE  LoopInv'
    <3> DEFINE s == [turn[t] EXCEPT !.calls = n, !.estimate = e, !.at = "reserving",
                                    !.job = "queued"]
    <3>1. turn' = [turn EXCEPT ![t] = s]
      BY <2>2 DEF LoopInv, TypeOK
    <3>2. /\ s \in Turn /\ s.calls = n /\ s.at = "reserving" /\ s.job = "queued"
          /\ s.outcome = turn[t].outcome /\ s.empties = turn[t].empties /\ s.estimate = e
      BY <1>1, <1>2 DEF Turn, Places
    <3>3. turn[t].outcome = "none"
      BY <1>1 DEF PlaceOK
    <3> HIDE DEF s, n
    <3>4. QED
      BY <1>4, <1>7, <3>1, <3>2, <3>3
  <2>3. QED
    BY <1>7, <2>1, <2>2 DEF Round
<1>8. QED
  BY <1>5, <1>6, <1>7

LEMMA RespondKeepsInv == ASSUME LoopInv, NEW t \in Turns, Respond(t) PROVE LoopInv'
<1>1. /\ turn[t] \in Turn /\ PlaceOK(t, turn[t]) /\ turn[t].at = "recording" /\ Quietly
      /\ t \in Reserving /\ turn[t].calls > 0 => RowOK(t, turn[t])
  BY KnownOfTurn DEF Respond
<1>2. /\ turn[t].calls > 0 /\ turn[t].job = "none" /\ turn[t].outcome = "none"
      /\ MaxEmpty > 0 => turn[t].empties < MaxEmpty
  BY <1>1 DEF PlaceOK
<1>3. t \in Reserving => RowOf(t, turn[t]).status = "COMMITTED"
  BY <1>1, <1>2 DEF RowOK
<1>4. ASSUME NEW s \in Turn, s.calls = turn[t].calls, s.job = "none",
             turn' = [turn EXCEPT ![t] = s],
             \/ s.at = "done"
             \/ /\ s.at \in {"batch", "round"} /\ s.outcome = "none"
                /\ MaxEmpty > 0 => s.empties < MaxEmpty
      PROVE  LoopInv'
  <2>1. PlaceOK(t, s)
    BY <1>2, <1>4 DEF PlaceOK
  <2>2. t \in Reserving => RowOK(t, s)
    BY <1>3, <1>4 DEF RowOK, RowOf
  <2>3. QED
    BY <1>1, <1>4, <2>1, <2>2, QuietMove
<1> DEFINE n == turn[t].empties + 1
<1>5. n \in UpTo(MaxEmpty)
  BY <1>1, <1>2, LimitsAssumption DEF Turn, UpTo
<1>6. ASSUME NEW k \in Batches, turn' = [turn EXCEPT ![t].open = k, ![t].at = "batch"]
      PROVE  LoopInv'
  <2> DEFINE s == [turn[t] EXCEPT !.open = k, !.at = "batch"]
  <2>1. turn' = [turn EXCEPT ![t] = s]
    BY <1>6 DEF LoopInv, TypeOK
  <2>2. /\ s \in Turn /\ s.calls = turn[t].calls /\ s.at = "batch" /\ s.job = "none"
        /\ s.outcome = "none" /\ s.empties = turn[t].empties
    BY <1>1, <1>2, OpenIsBounded DEF Turn, Places
  <2> HIDE DEF s
  <2>3. QED
    BY <1>2, <1>4, <2>1, <2>2
<1>7. CASE Finish(t, "answer")
  BY <1>1, <1>3, <1>7, FinishKeepsInv DEF Outcomes
<1>8. ASSUME NEW kind \in {"answer", "needs_clarification"},
             turn' = [turn EXCEPT ![t].empties = n, ![t].at = "done", ![t].outcome = kind]
      PROVE  LoopInv'
  <2> DEFINE s == [turn[t] EXCEPT !.empties = n, !.at = "done", !.outcome = kind]
  <2>1. turn' = [turn EXCEPT ![t] = s]
    BY <1>8 DEF LoopInv, TypeOK
  <2>2. s \in Turn /\ s.calls = turn[t].calls /\ s.at = "done" /\ s.job = "none"
    BY <1>1, <1>2, <1>5 DEF Turn, Places, Outcomes
  <2> HIDE DEF s
  <2>3. QED
    BY <1>4, <2>1, <2>2
<1>9. CASE ~Reached(n, MaxEmpty) /\ turn' = [turn EXCEPT ![t].empties = n, ![t].at = "round"]
  <2> DEFINE s == [turn[t] EXCEPT !.empties = n, !.at = "round"]
  <2>1. turn' = [turn EXCEPT ![t] = s]
    BY <1>9 DEF LoopInv, TypeOK
  <2>2. /\ s \in Turn /\ s.calls = turn[t].calls /\ s.at = "round" /\ s.job = "none"
        /\ s.outcome = "none" /\ s.empties = n
    BY <1>1, <1>2, <1>5 DEF Turn, Places
  <2>3. MaxEmpty > 0 => n < MaxEmpty
    BY <1>1, <1>9, LimitsAssumption DEF Reached, Turn, UpTo
  <2> HIDE DEF s, n
  <2>4. QED
    BY <1>4, <2>1, <2>2, <2>3
<1>10. QED
  BY <1>6, <1>7, <1>8, <1>9 DEF Respond

LEMMA NextCallKeepsInv == ASSUME LoopInv, NEW t \in Turns, NextCall(t) PROVE LoopInv'
<1>1. /\ turn[t] \in Turn /\ PlaceOK(t, turn[t]) /\ turn[t].at = "batch" /\ Quietly
      /\ t \in Reserving /\ turn[t].calls > 0 => RowOK(t, turn[t])
      /\ turn[t].open > 0 /\ ~Reached(turn[t].tools, MaxToolCalls)
  BY KnownOfTurn DEF NextCall
<1>2. /\ turn[t].calls > 0 /\ turn[t].job = "none" /\ turn[t].outcome = "none"
      /\ MaxEmpty > 0 => turn[t].empties < MaxEmpty
  BY <1>1 DEF PlaceOK
<1>3. t \in Reserving => RowOf(t, turn[t]).status = "COMMITTED"
  BY <1>1, <1>2 DEF RowOK
<1> DEFINE n == turn[t].tools + 1
           m == turn[t].open - 1
<1>4. n \in UpTo(MaxToolCalls)
  BY <1>1, LimitsAssumption DEF Turn, UpTo, Reached
<1>5. m \in 0..Max(Batches \cup {0})
  <2>1. turn[t].open \in 0..Max(Batches \cup {0})
    BY <1>1 DEF Turn
  <2>2. QED
    BY <1>1, <2>1, OpenIsBounded
<1>6. ASSUME NEW s \in Turn, s.calls = turn[t].calls, s.job = "none",
             turn' = [turn EXCEPT ![t] = s],
             \/ s.at = "done" /\ s.outcome = "abandoned"
             \/ /\ s.at \in {"batch", "tooling"} /\ s.outcome = "none"
                /\ s.empties = turn[t].empties
                /\ s.at = "tooling" => s.open > 0
      PROVE  LoopInv'
  <2>1. PlaceOK(t, s)
    BY <1>2, <1>6 DEF PlaceOK
  <2>2. t \in Reserving => RowOK(t, s)
    BY <1>3, <1>6 DEF RowOK, RowOf, Delivered
  <2>3. QED
    BY <1>1, <1>6, <2>1, <2>2, QuietMove
<1>7. CASE turn[t].gone
  <2> DEFINE s == [turn[t] EXCEPT !.tools = n, !.at = "done", !.outcome = "abandoned"]
  <2>1. turn' = [turn EXCEPT ![t] = s]
    BY <1>7 DEF NextCall, LoopInv, TypeOK
  <2>2. /\ s \in Turn /\ s.calls = turn[t].calls /\ s.at = "done" /\ s.job = "none"
        /\ s.outcome = "abandoned"
    BY <1>1, <1>2, <1>4 DEF Turn, Places, Outcomes
  <2> HIDE DEF s
  <2>3. QED
    BY <1>6, <2>1, <2>2
<1>8. CASE turn' = [[turn EXCEPT ![t].tools = @ + 1] EXCEPT ![t].at = "tooling"]
  <2> DEFINE s == [turn[t] EXCEPT !.tools = n, !.at = "tooling"]
  <2>1. turn' = [turn EXCEPT ![t] = s]
    BY <1>8 DEF LoopInv, TypeOK
  <2>2. /\ s \in Turn /\ s.calls = turn[t].calls /\ s.at = "tooling" /\ s.job = "none"
        /\ s.outcome = "none" /\ s.empties = turn[t].empties /\ s.open = turn[t].open
    BY <1>1, <1>2, <1>4 DEF Turn, Places
  <2> HIDE DEF s
  <2>3. QED
    BY <1>1, <1>6, <2>1, <2>2
<1>9. CASE turn' = [[turn EXCEPT ![t].tools = @ + 1] EXCEPT ![t].open = @ - 1]
  <2> DEFINE s == [turn[t] EXCEPT !.tools = n, !.open = m]
  <2>1. turn' = [turn EXCEPT ![t] = s]
    BY <1>9 DEF LoopInv, TypeOK, Turn
  <2>2. /\ s \in Turn /\ s.calls = turn[t].calls /\ s.at = "batch" /\ s.job = "none"
        /\ s.outcome = "none" /\ s.empties = turn[t].empties
    BY <1>1, <1>2, <1>4, <1>5 DEF Turn, Places
  <2> HIDE DEF s
  <2>3. QED
    BY <1>6, <2>1, <2>2
<1>10. QED
  BY <1>7, <1>8, <1>9 DEF NextCall

LEMMA ToolReturnsKeepsInv == ASSUME LoopInv, NEW t \in Turns, ToolReturns(t) PROVE LoopInv'
<1>1. /\ turn[t] \in Turn /\ PlaceOK(t, turn[t]) /\ turn[t].at = "tooling" /\ Quietly
      /\ t \in Reserving /\ turn[t].calls > 0 => RowOK(t, turn[t])
  BY KnownOfTurn DEF ToolReturns
<1>2. /\ turn[t].calls > 0 /\ turn[t].job = "none" /\ turn[t].outcome = "none"
      /\ MaxEmpty > 0 => turn[t].empties < MaxEmpty
      /\ turn[t].open > 0
  BY <1>1 DEF PlaceOK
<1>3. t \in Reserving => RowOf(t, turn[t]).status = "COMMITTED"
  BY <1>1, <1>2 DEF RowOK
<1> DEFINE m == turn[t].open - 1
<1>4. m \in 0..Max(Batches \cup {0})
  <2>1. turn[t].open \in 0..Max(Batches \cup {0})
    BY <1>1 DEF Turn
  <2>2. QED
    BY <1>2, <2>1, OpenIsBounded
<1>5. ASSUME NEW s \in Turn, s.calls = turn[t].calls, s.job = "none",
             turn' = [turn EXCEPT ![t] = s],
             \/ s.at = "done"
             \/ s.at = "batch" /\ s.outcome = "none" /\ s.empties = turn[t].empties
      PROVE  LoopInv'
  <2>1. PlaceOK(t, s)
    BY <1>2, <1>5 DEF PlaceOK
  <2>2. t \in Reserving => RowOK(t, s)
    BY <1>3, <1>5 DEF RowOK, RowOf
  <2>3. QED
    BY <1>1, <1>5, <2>1, <2>2, QuietMove
<1>6. ASSUME NEW kind \in {"abandoned", "tool_error", "dependency_unavailable"},
             turn' = [[turn EXCEPT ![t].open = @ - 1] EXCEPT ![t].at = "done", ![t].outcome = kind]
      PROVE  LoopInv'
  <2> DEFINE s == [turn[t] EXCEPT !.open = m, !.at = "done", !.outcome = kind]
  <2>1. turn' = [turn EXCEPT ![t] = s]
    BY <1>6 DEF LoopInv, TypeOK
  <2>2. s \in Turn /\ s.calls = turn[t].calls /\ s.at = "done" /\ s.job = "none"
    BY <1>1, <1>2, <1>4 DEF Turn, Places, Outcomes
  <2> HIDE DEF s
  <2>3. QED
    BY <1>5, <2>1, <2>2
<1>7. CASE turn' = [[turn EXCEPT ![t].open = @ - 1] EXCEPT ![t].at = "batch"]
  <2> DEFINE s == [turn[t] EXCEPT !.open = m, !.at = "batch"]
  <2>1. turn' = [turn EXCEPT ![t] = s]
    BY <1>7 DEF LoopInv, TypeOK
  <2>2. /\ s \in Turn /\ s.calls = turn[t].calls /\ s.at = "batch" /\ s.job = "none"
        /\ s.outcome = "none" /\ s.empties = turn[t].empties
    BY <1>1, <1>2, <1>4 DEF Turn, Places
  <2> HIDE DEF s
  <2>3. QED
    BY <1>5, <2>1, <2>2
<1>8. QED
  BY <1>6, <1>7 DEF ToolReturns


-----------------------------------------------------------------------------
(* The steps of the workers *)

\* A step of one turn, which may let holds of others expire.
LEMMA AnyStep ==
    ASSUME LoopInv, NEW t \in Turns, NEW s \in Turn, turn' = [turn EXCEPT ![t] = s],
           \A u \in Turns \ {t} : RowsExpire(u),
           Books!LedgerInv', BudgetsFollow',
           loose' \in SUBSET (Operations \X Requests),
           \A u \in Turns \ {t}, op \in Operations, k \in 1..MaxModelCalls :
              <<op, <<u, k>>>> \in loose' => <<op, <<u, k>>>> \in loose,
           late' \in SUBSET Requests, cut' \in SUBSET Requests, cut \subseteq cut',
           PlaceOK(t, s), RowsOK(t, s)', LooseOK(t, s)'
    PROVE  LoopInv'
<1>1. TypeOK'
  <2>1. Ledger!TypeOK'
    BY SameLedger DEF Books!LedgerInv, Ledger!TypeOK, Books!TypeOK, Ledger!Balance, Books!Balance,
           Ledger!Budgets, Books!Budgets, Ledger!Statuses, Books!Statuses
  <2>2. QED
    BY <2>1 DEF LoopInv, TypeOK, Operations
<1>2. ASSUME NEW u \in Turns
      PROVE  TurnOK(u)'
  <2>1. CASE u # t
    <3>1. turn'[u] = turn[u] /\ turn[u] \in Turn /\ StateOK(u, turn[u])
      BY <2>1 DEF LoopInv, TypeOK, TurnOK
    <3>2. PICK z \in Turn : z = turn[u] /\ z = turn'[u] /\ StateOK(u, z)
      BY <3>1
    <3>3. StateOK(u, z)'
      BY <2>1, <3>2, ExpiryIsBorne
    <3>4. QED
      BY SMTT(60), <3>2, <3>3 DEF TurnOK, StateOK, PlaceOK, RowsOK, RowOK, LooseOK, Held, RowOf
  <2>2. CASE u = t
    <3>1. turn'[t] = s
      BY DEF LoopInv, TypeOK
    <3>2. PlaceOK(t, s)'
      BY DEF PlaceOK
    <3>3. QED
      BY <2>2, <3>1, <3>2 DEF TurnOK, StateOK, PlaceOK, RowsOK, RowOK, LooseOK, Held, RowOf
  <2>3. QED
    BY <2>1, <2>2
<1>3. QED
  BY <1>1, <1>2 DEF LoopInv

\* A step that settles the current request of turn t.
LEMMA LedgerStep ==
    ASSUME LoopInv, NEW t \in Turns, NEW s \in Turn, turn' = [turn EXCEPT ![t] = s],
           s.calls = turn[t].calls, OthersMove(<<t, s.calls>>),
           Books!LedgerInv', BudgetsFollow',
           loose' \subseteq loose, late' \in SUBSET Requests, cut' \in SUBSET Requests,
           cut \subseteq cut', PlaceOK(t, s),
           t \in Reserving, s.calls > 0, RowOK(t, s)', LooseOK(t, s)'
    PROVE  LoopInv'
<1>1. RowsOK(t, s)'
  <2>1. RowsOK(t, turn[t])
    BY DEF LoopInv, TurnOK, StateOK
  <2>2. ASSUME NEW k \in 1..MaxModelCalls
        PROVE  /\ k > s.calls => reservations'[<<t, k>>].status = "NONE"
               /\ k < s.calls => reservations'[<<t, k>>].status = "COMMITTED"
    <3>1. CASE k # s.calls
      <4>1. <<t, k>> \in Requests \ {<<t, s.calls>>}
        BY <3>1 DEF Requests
      <4>2. \/ reservations'[<<t, k>>].status = reservations[<<t, k>>].status
            \/ /\ reservations[<<t, k>>].status = "ACTIVE"
               /\ reservations'[<<t, k>>].status = "EXPIRED"
        BY <4>1 DEF OthersMove
      <4>3. /\ k > s.calls => reservations[<<t, k>>].status = "NONE"
            /\ k < s.calls => reservations[<<t, k>>].status = "COMMITTED"
        BY <2>1 DEF RowsOK
      <4>4. QED
        BY <4>2, <4>3
    <3>2. CASE k = s.calls
      <4>1. k \in Nat
        BY LimitsAssumption
      <4>2. QED
        BY <3>2, <4>1
    <3>3. QED
      BY <3>1, <3>2
  <2>3. QED
    BY <2>2 DEF RowsOK
<1>2. \A u \in Turns \ {t} : RowsExpire(u)
  <2>1. \A u \in Turns \ {t}, k \in 1..MaxModelCalls : <<u, k>> \in Requests \ {<<t, s.calls>>}
    BY DEF Requests
  <2>2. QED
    BY <2>1 DEF RowsExpire, OthersMove
<1>3. loose' \in SUBSET (Operations \X Requests)
  BY DEF LoopInv, TypeOK, Operations
<1>4. QED
  BY <1>1, <1>2, <1>3, AnyStep

\* The answers of a transaction that the loop is told of.
LEMMA RunJobKeepsInv == ASSUME LoopInv, NEW t \in Turns, RunJob(t) PROVE LoopInv'
<1>1. PICK a \in {"ok", "refused", "failed"} :
        /\ Transaction(Operation[turn[t].at], t, a)
        /\ turn' = [turn EXCEPT ![t].job = a]
        /\ cut' = IF a = "failed" THEN cut \cup {Current(t)} ELSE cut
        /\ UNCHANGED loose
  BY DEF RunJob
<1>2. /\ turn[t] \in Turn /\ PlaceOK(t, turn[t]) /\ turn[t].job = "queued"
      /\ t \in Reserving /\ turn[t].calls > 0 => RowOK(t, turn[t])
      /\ LooseOK(t, turn[t])
  BY KnownOfTurn DEF RunJob, LoopInv, TurnOK, StateOK
<1>3. /\ turn[t].at \in {"reserving", "releasing", "committing"} /\ t \in Reserving
      /\ turn[t].calls > 0 /\ RowOK(t, turn[t]) /\ turn[t].at # "done"
  BY <1>2 DEF PlaceOK
<1>4. PICK s \in Turn : s = [turn[t] EXCEPT !.job = a]
  BY <1>2 DEF Turn
<1> DEFINE r == <<t, s.calls>>
<1>5. /\ s \in Turn /\ s.calls = turn[t].calls /\ s.at = turn[t].at /\ s.job = a
      /\ s.estimate = turn[t].estimate /\ s.cost = turn[t].cost
      /\ s.outcome = turn[t].outcome /\ s.empties = turn[t].empties
      /\ turn' = [turn EXCEPT ![t] = s]
  BY <1>1, <1>2, <1>4 DEF Turn, LoopInv, TypeOK
<1>6. r \in Requests /\ Current(t) = r /\ r = <<t, turn[t].calls>>
  BY <1>2, <1>3, <1>5, CurrentIsRequest DEF Current
<1>7. LooseOK(t, s)'
  BY <1>1, <1>2, <1>3 DEF LooseOK
<1>8. cut' \in SUBSET Requests /\ cut \subseteq cut' /\ (a = "failed" => r \in cut')
  BY <1>1, <1>6 DEF LoopInv, TypeOK
<1>9. late \in SUBSET Requests
  BY DEF LoopInv, TypeOK
<1>10. a = "refused" => turn[t].at = "reserving"
  BY <1>1, <1>3 DEF Transaction, Operation
<1>11. PlaceOK(t, s)
  BY <1>2, <1>3, <1>5, <1>10 DEF PlaceOK
<1>12. CASE UNCHANGED ledgerVars /\ late' = late /\ a # "ok"
  <2>1. UNCHANGED <<balances, reservations, default, overdue>>
    BY <1>12 DEF ledgerVars
  <2>2. OthersMove(r) /\ BudgetsFollow'
    BY <2>1 DEF OthersMove, BudgetsFollow, LoopInv
  <2>3. Books!LedgerInv'
    BY ZenonT(60), <2>1
       DEF LoopInv, Books!LedgerInv, Books!TypeOK, Books!CountersExact, Books!RowsAreWhole,
           Books!OverdueIsActive, Books!OverridesAreKnown, Books!Estimated, Books!Active, Books!Of
  <2>4. RowOK(t, s)'
    BY <1>2, <1>3, <1>5, <1>8, <1>10, <1>12, <2>1 DEF RowOK, Held, RowOf
  <2> HIDE DEF r
  <2>5. QED
    BY <1>1, <1>3, <1>5, <1>6, <1>7, <1>8, <1>9, <1>11, <1>12, <2>2, <2>3, <2>4, LedgerStep
<1>13. CASE turn[t].at = "reserving" /\ a = "ok"
  <2>1. Ledger!Admit(Payer[t], r, turn[t].estimate) /\ late' = late
    BY <1>1, <1>6, <1>13 DEF Transaction, Operation
  <2>2. turn[t].estimate \in Estimates
    BY <1>2, <1>13 DEF PlaceOK
  <2>3. /\ Books!LedgerInv' /\ BudgetsFollow'
        /\ reservations'[r].status = "ACTIVE"
        /\ reservations'[r].principal = Payer[t]
        /\ reservations'[r].estimate = turn[t].estimate
        /\ OthersMove(r)
    BY <1>6, <2>1, <2>2, PaidBySomeone, AdmitMoves
  <2>4. RowOK(t, s)'
    BY <1>5, <1>6, <1>13, <2>3 DEF RowOK, Held, RowOf
  <2> HIDE DEF r
  <2>5. QED
    BY <1>1, <1>3, <1>5, <1>6, <1>7, <1>8, <1>9, <1>11, <2>1, <2>3, <2>4, LedgerStep
<1>14. CASE turn[t].at = "committing" /\ a = "ok"
  <2>1. /\ Ledger!Commit(r, turn[t].cost)
        /\ late' = IF reservations[r].status = "EXPIRED" THEN late \cup {r} ELSE late
    BY <1>1, <1>6, <1>14 DEF Transaction, Operation
  <2>2. turn[t].cost \in Costs
    BY <1>2, <1>14 DEF PlaceOK
  <2>3. /\ Books!LedgerInv' /\ BudgetsFollow' /\ reservations'[r].status = "COMMITTED"
        /\ OthersMove(r)
    BY <1>6, <2>1, <2>2, CommitMoves
  <2>4. RowOK(t, s)'
    BY <1>5, <1>6, <1>14, <2>3 DEF RowOK, RowOf
  <2>5. late' \in SUBSET Requests
    BY <1>6, <1>9, <2>1
  <2> HIDE DEF r
  <2>6. QED
    BY <1>1, <1>3, <1>5, <1>6, <1>7, <1>8, <1>11, <2>3, <2>4, <2>5, LedgerStep
<1>15. CASE turn[t].at = "releasing" /\ a = "ok"
  <2>1. /\ IF reservations[r].status = "ACTIVE" THEN Ledger!Release(r) ELSE UNCHANGED ledgerVars
        /\ late' = late
    BY <1>1, <1>6, <1>15 DEF Transaction, Operation
  <2>2. reservations[r].status \in {"ACTIVE", "EXPIRED"}
    BY <1>2, <1>3, <1>6, <1>15 DEF RowOK, Held, RowOf
  <2>3. CASE reservations[r].status = "ACTIVE"
    <3>1. /\ Books!LedgerInv' /\ BudgetsFollow' /\ reservations'[r].status = "RELEASED"
          /\ OthersMove(r)
      BY <1>6, <2>1, <2>3, ReleaseMoves
    <3>2. RowOK(t, s)'
      BY <1>5, <1>6, <1>15, <3>1 DEF RowOK, RowOf
    <3> HIDE DEF r
    <3>3. QED
      BY <1>1, <1>3, <1>5, <1>6, <1>7, <1>8, <1>9, <1>11, <2>1, <3>1, <3>2, LedgerStep
  <2>4. CASE reservations[r].status # "ACTIVE"
    <3>1. UNCHANGED <<balances, reservations, default, overdue>>
      BY <2>1, <2>4 DEF ledgerVars
    <3>2. OthersMove(r) /\ BudgetsFollow'
      BY <3>1 DEF OthersMove, BudgetsFollow, LoopInv
    <3>3. Books!LedgerInv'
      BY ZenonT(60), <3>1
         DEF LoopInv, Books!LedgerInv, Books!TypeOK, Books!CountersExact, Books!RowsAreWhole,
             Books!OverdueIsActive, Books!OverridesAreKnown, Books!Estimated, Books!Active, Books!Of
    <3>4. RowOK(t, s)'
      BY <1>5, <1>15, <2>2, <2>4, <3>1 DEF RowOK, RowOf
    <3> HIDE DEF r
    <3>5. QED
      BY <1>1, <1>3, <1>5, <1>6, <1>7, <1>8, <1>9, <1>11, <2>1, <3>2, <3>3, <3>4, LedgerStep
  <2>5. QED
    BY <2>3, <2>4
<1>16. QED
  BY <1>1, <1>3, <1>12, <1>13, <1>14, <1>15 DEF Transaction, Operation


\* A transaction carried out after its turn has ended.
LEMMA RunLooseKeepsInv == ASSUME LoopInv, NEW t \in Turns, RunLoose(t) PROVE LoopInv'
<1>1. PICK op \in Operations, a \in {"ok", "refused", "failed"} :
        /\ <<op, Current(t)>> \in loose
        /\ Transaction(op, t, a)
        /\ loose' = loose \ {<<op, Current(t)>>}
        /\ UNCHANGED <<turn, cut>>
  BY DEF RunLoose, Operations
<1>2. PICK s \in Turn : s = turn[t]
  BY KnownOfTurn
<1> DEFINE r == <<t, s.calls>>
<1>3. /\ PlaceOK(t, s) /\ LooseOK(t, s) /\ Current(t) = r
      /\ r \in Requests /\ s.calls \in 1..MaxModelCalls
      /\ late \in SUBSET Requests /\ cut \in SUBSET Requests
  BY <1>1, <1>2 DEF LoopInv, TypeOK, TurnOK, StateOK, Current, Requests
<1>4. /\ s.at = "done" /\ t \in Reserving /\ s.outcome \notin Delivered /\ r \in cut
      /\ op = "reserve" => s.estimate \in Estimates
      /\ op \in {"release", "commit"} => reservations[r].status \in {"ACTIVE", "EXPIRED"}
      /\ op = "commit" => s.cost \in Costs
      /\ \A o \in Operations, k \in 1..MaxModelCalls :
           <<o, <<t, k>>>> \in loose => o = op /\ <<t, k>> = r
  BY <1>1, <1>3 DEF LooseOK, RowOf
<1>5. turn' = [turn EXCEPT ![t] = s] /\ s.calls = turn[t].calls /\ s.calls > 0
  BY <1>1, <1>2, <1>3, LimitsAssumption DEF LoopInv, TypeOK
<1>6. RowOK(t, s)'
  BY <1>1, <1>4 DEF RowOK
<1>7. LooseOK(t, s)'
  BY <1>1, <1>3, <1>4 DEF LooseOK
<1>8. OthersMove(r) /\ Books!LedgerInv' /\ BudgetsFollow' /\ late' \in SUBSET Requests
  <2>1. CASE UNCHANGED ledgerVars /\ late' = late
    <3>1. UNCHANGED <<balances, reservations, default, overdue>>
      BY <2>1 DEF ledgerVars
    <3>2. OthersMove(r) /\ BudgetsFollow'
      BY <3>1 DEF OthersMove, BudgetsFollow, LoopInv
    <3>3. Books!LedgerInv'
      BY <3>1 DEF LoopInv, Books!LedgerInv, Books!TypeOK, Books!CountersExact, Books!RowsAreWhole,
             Books!OverdueIsActive, Books!OverridesAreKnown, Books!Estimated, Books!Active, Books!Of
    <3>4. QED
      BY <1>3, <2>1, <3>2, <3>3
  <2>2. CASE op = "reserve" /\ Ledger!Admit(Payer[t], r, s.estimate) /\ late' = late
    BY <1>3, <1>4, <2>2, PaidBySomeone, AdmitMoves
  <2>3. CASE /\ op = "commit" /\ Ledger!Commit(r, s.cost)
             /\ late' = IF reservations[r].status = "EXPIRED" THEN late \cup {r} ELSE late
    BY <1>3, <1>4, <2>3, CommitMoves
  <2>4. CASE Ledger!Release(r) /\ late' = late
    BY <1>3, <2>4, ReleaseMoves
  <2>5. QED
    BY <1>1, <1>2, <1>3, <2>1, <2>2, <2>3, <2>4 DEF Transaction
<1>9. loose' \subseteq loose /\ cut' \in SUBSET Requests /\ cut \subseteq cut'
  BY <1>1, <1>3
<1>10. QED
  BY <1>3, <1>4, <1>5, <1>6, <1>7, <1>8, <1>9, LedgerStep

-----------------------------------------------------------------------------
(* The reader leaves, the process dies, time passes *)

\* A ledger that is left alone.
LEMMA LedgerIdle ==
    ASSUME LoopInv, UNCHANGED ledgerVars
    PROVE  /\ Books!LedgerInv' /\ BudgetsFollow'
           /\ UNCHANGED <<balances, reservations, default, overdue>>
           /\ \A u : RowsExpire(u)
<1>1. UNCHANGED <<balances, reservations, default, overdue>>
  BY DEF ledgerVars
<1>2. BudgetsFollow' /\ \A u : RowsExpire(u)
  BY <1>1 DEF BudgetsFollow, LoopInv, RowsExpire
<1>3. Books!LedgerInv'
  BY <1>1 DEF LoopInv, Books!LedgerInv, Books!TypeOK, Books!CountersExact, Books!RowsAreWhole,
         Books!OverdueIsActive, Books!OverridesAreKnown, Books!Estimated, Books!Active, Books!Of
<1>4. QED
  BY <1>1, <1>2, <1>3

\* A turn ends where it waits; a transaction a worker has taken up outlives it.
LEMMA EndCancelledKeepsInv ==
    ASSUME LoopInv, NEW t \in Turns, NEW kind \in {"interrupted", "cancelled"},
           EndCancelled(t, kind), UNCHANGED <<ledgerVars, late>>,
           turn[t].at # "done",
           turn[t].at = "calling" => t \notin Reserving
    PROVE  LoopInv'
<1>1. PICK z \in Turn : z = turn[t]
  BY KnownOfTurn
<1>2. /\ PlaceOK(t, z) /\ RowsOK(t, z) /\ LooseOK(t, z)
      /\ loose \in SUBSET (Operations \X Requests)
      /\ late \in SUBSET Requests /\ cut \in SUBSET Requests
  BY <1>1 DEF LoopInv, TypeOK, TurnOK, StateOK, Operations
<1>3. PICK s \in Turn : s = [z EXCEPT !.at = "done", !.job = "none", !.cancelled = TRUE,
                                      !.outcome = kind]
  BY DEF Turn, Places, Outcomes
<1>4. /\ s.at = "done" /\ s.job = "none" /\ s.outcome = kind
      /\ s.calls = z.calls /\ s.estimate = z.estimate /\ s.cost = z.cost
  BY <1>3 DEF Turn
<1>5. turn' = [turn EXCEPT ![t] = s]
  BY <1>1, <1>3 DEF EndCancelled, LoopInv, TypeOK
<1>6. /\ Books!LedgerInv' /\ BudgetsFollow' /\ \A u : RowsExpire(u)
      /\ UNCHANGED <<balances, reservations, default, overdue, late>>
  BY LedgerIdle
<1> DEFINE r == <<t, z.calls>>
<1>7. /\ \/ UNCHANGED loose
         \/ z.job = "queued" /\ loose' = loose \cup {<<Operation[z.at], r>>}
      /\ cut' = IF z.job = "none" THEN cut ELSE cut \cup {r}
  BY <1>1 DEF EndCancelled, Current
<1>8. z.job # "none" => /\ t \in Reserving /\ z.calls \in 1..MaxModelCalls /\ r \in Requests
                        /\ z.calls > 0 /\ z.at \in {"reserving", "releasing", "committing"}
  <2>1. z.job # "none" => z.calls > 0 /\ t \in Reserving
                          /\ z.at \in {"reserving", "releasing", "committing"}
    BY <1>2 DEF PlaceOK
  <2>2. QED
    BY <2>1, CurrentIsRequest
<1>9. cut' \in SUBSET Requests /\ cut \subseteq cut'
  BY <1>2, <1>7, <1>8
<1>10. loose' \in SUBSET (Operations \X Requests)
  BY <1>2, <1>7, <1>8 DEF Operations, Operation
<1>11. \A u \in Turns \ {t}, op \in Operations, k \in 1..MaxModelCalls :
          <<op, <<u, k>>>> \in loose' => <<op, <<u, k>>>> \in loose
  BY <1>7
<1>12. PlaceOK(t, s)
  BY <1>4 DEF PlaceOK
<1>13. RowsOK(t, s)'
  <2>1. ASSUME t \in Reserving, z.calls > 0
        PROVE  RowOK(t, s)'
    <3>1. RowOK(t, z)
      BY <1>2, <2>1 DEF RowsOK
    <3>2. z.job = "none" => z.at \in {"new", "listing", "round", "recording", "batch", "tooling"}
      BY <1>1, <1>2, <2>1 DEF PlaceOK, Turn, Places
    <3>3. z.at \notin {"new", "listing"}
      <4>1. ~ (0 > 0)
        OBVIOUS
      <4>2. QED
        BY <1>2, <2>1, <4>1 DEF PlaceOK
    <3>4. reservations[r].status = "ACTIVE" => z.job # "none"
      BY <3>1, <3>2, <3>3 DEF RowOK, RowOf
    <3>5. reservations[r].status = "ACTIVE" => r \in cut'
      BY <1>7, <3>4
    <3>6. QED
      BY <1>4, <1>6, <3>5 DEF RowOK, RowOf, Delivered
  <2>2. QED
    BY <1>2, <1>4, <1>6, <2>1 DEF RowsOK
<1>14. LooseOK(t, s)'
  <2>1. \A op \in Operations, k \in 1..MaxModelCalls : <<op, <<t, k>>>> \notin loose
    BY <1>1, <1>2 DEF LooseOK
  <2>2. CASE UNCHANGED loose
    BY <2>1, <2>2 DEF LooseOK
  <2>3. CASE z.job = "queued" /\ loose' = loose \cup {<<Operation[z.at], r>>}
    <3>1. \A op \in Operations, k \in 1..MaxModelCalls :
            <<op, <<t, k>>>> \in loose' => op = Operation[z.at] /\ k = z.calls
      BY <2>1, <2>3
    <3>2. r \in cut' /\ RowOK(t, z) /\ t \in Reserving
      BY <1>2, <1>7, <1>8, <2>3 DEF RowsOK
    <3>3. /\ Operation[z.at] = "reserve" => z.at = "reserving"
          /\ Operation[z.at] = "release" => z.at = "releasing"
          /\ Operation[z.at] = "commit" => z.at = "committing"
      BY <1>8, <2>3 DEF Operation
    <3>4. /\ Operation[z.at] = "reserve" =>
                reservations[r].status = "NONE" /\ z.estimate \in Estimates
          /\ Operation[z.at] \in {"release", "commit"} =>
                reservations[r].status \in {"ACTIVE", "EXPIRED"}
          /\ Operation[z.at] = "commit" => z.cost \in Costs
      BY <1>2, <2>3, <3>2, <3>3 DEF RowOK, Held, RowOf, PlaceOK
    <3>5. QED
      BY <1>4, <1>6, <3>1, <3>2, <3>4 DEF LooseOK, RowOf, Delivered
  <2>4. QED
    BY <1>7, <2>2, <2>3
<1>15. QED
  BY <1>5, <1>6, <1>9, <1>10, <1>11, <1>12, <1>13, <1>14, <1>2, AnyStep

LEMMA CancelKeepsInv == ASSUME LoopInv, NEW t \in Turns, Cancel(t) PROVE LoopInv'
<1>1. /\ turn[t] \in Turn /\ PlaceOK(t, turn[t]) /\ UNCHANGED <<ledgerVars, late>>
      /\ t \in Reserving /\ turn[t].calls > 0 => RowOK(t, turn[t])
  BY KnownOfTurn DEF Cancel
<1>2. CASE EndCancelled(t, "interrupted") /\ turn[t].at = "listing"
  BY <1>1, <1>2, EndCancelledKeepsInv
<1>3. CASE /\ EndCancelled(t, "cancelled")
           /\ turn[t].at \in {"reserving", "releasing", "committing", "recording", "tooling"}
  BY <1>1, <1>3, EndCancelledKeepsInv
<1>4. CASE turn[t].at = "calling" /\ t \notin Reserving /\ EndCancelled(t, "cancelled")
  BY <1>1, <1>4, EndCancelledKeepsInv
<1>5. CASE /\ turn[t].at = "calling" /\ t \in Reserving
           /\ turn' = [turn EXCEPT ![t].at = "releasing", ![t].job = "queued", ![t].cancelled = TRUE]
           /\ UNCHANGED <<loose, cut>>
  <2> DEFINE s == [turn[t] EXCEPT !.at = "releasing", !.job = "queued", !.cancelled = TRUE]
  <2>1. turn' = [turn EXCEPT ![t] = s]
    BY <1>5 DEF LoopInv, TypeOK
  <2>2. turn[t].calls > 0
    BY <1>1, <1>5 DEF PlaceOK
  <2>3. /\ s \in Turn /\ s.calls = turn[t].calls /\ s.at = "releasing" /\ s.job = "queued"
        /\ s.estimate = turn[t].estimate /\ s.outcome = turn[t].outcome
        /\ s.empties = turn[t].empties
    BY <1>1 DEF Turn, Places
  <2> HIDE DEF s
  <2>4. PlaceOK(t, s)
    BY <1>1, <1>5, <2>2, <2>3 DEF PlaceOK
  <2>5. RowOK(t, s)
    BY <1>1, <1>5, <2>2, <2>3 DEF RowOK, Held, RowOf
  <2>6. QED
    BY <1>1, <1>5, <2>1, <2>3, <2>4, <2>5, QuietMove DEF Quietly
<1>6. CASE /\ turn[t].at = "tooling"
           /\ turn' = [turn EXCEPT ![t].open = @ - 1, ![t].at = "done", ![t].cancelled = TRUE,
                                   ![t].outcome = "tool_error"]
           /\ UNCHANGED <<loose, cut>>
  <2> DEFINE m == turn[t].open - 1
             s == [turn[t] EXCEPT !.open = m, !.at = "done", !.cancelled = TRUE,
                                  !.outcome = "tool_error"]
  <2>1. turn' = [turn EXCEPT ![t] = s]
    BY <1>6 DEF LoopInv, TypeOK
  <2>2. turn[t].calls > 0 /\ turn[t].open > 0 /\ turn[t].job = "none"
    BY <1>1, <1>6 DEF PlaceOK
  <2>3. m \in 0..Max(Batches \cup {0})
    <3>1. turn[t].open \in 0..Max(Batches \cup {0})
      BY <1>1 DEF Turn
    <3>2. QED
      BY <2>2, <3>1, OpenIsBounded
  <2>4. /\ s \in Turn /\ s.calls = turn[t].calls /\ s.at = "done" /\ s.job = "none"
        /\ s.outcome = "tool_error"
    BY <1>1, <2>2, <2>3 DEF Turn, Places, Outcomes
  <2> HIDE DEF s
  <2>5. PlaceOK(t, s)
    BY <2>4 DEF PlaceOK
  <2>6. t \in Reserving => RowOK(t, s)
    BY <1>1, <1>6, <2>2, <2>4 DEF RowOK, RowOf
  <2>7. QED
    BY <1>1, <1>6, <2>1, <2>4, <2>5, <2>6, QuietMove DEF Quietly
<1>7. QED
  BY <1>2, <1>3, <1>4, <1>5, <1>6 DEF Cancel

LEMMA CrashKeepsInv == ASSUME LoopInv, Crash PROVE LoopInv'
<1>1. /\ turn' = [t \in Turns |->
            IF Running(t)
            THEN [turn[t] EXCEPT !.at = "done", !.job = "none", !.outcome = "killed"]
            ELSE turn[t]]
      /\ loose' = {} /\ UNCHANGED <<late, cut>>
      /\ Books!LedgerInv' /\ BudgetsFollow'
      /\ UNCHANGED <<balances, reservations, default, overdue>>
  BY LedgerIdle DEF Crash
<1>2. ASSUME NEW t \in Turns
      PROVE  turn'[t] \in Turn /\ TurnOK(t)'
  <2>1. PICK z \in Turn : z = turn[t]
    BY KnownOfTurn
  <2>2. PlaceOK(t, z) /\ RowsOK(t, z)
    BY <2>1 DEF LoopInv, TurnOK, StateOK
  <2>3. PICK s \in Turn : s = turn'[t]
    BY ZenonT(60), <1>1, <2>1 DEF Turn, Places, Outcomes
  <2>4. CASE Running(t)
    <3>1. /\ s.at = "done" /\ s.job = "none" /\ s.outcome = "killed" /\ s.calls = z.calls
      BY <1>1, <2>1, <2>3, <2>4 DEF Turn
    <3>2. PlaceOK(t, s)
      BY <3>1 DEF PlaceOK
    <3>3. RowsOK(t, s)'
      BY <1>1, <2>2, <3>1 DEF RowsOK, RowOK, Delivered
    <3>4. QED
      BY ZenonT(60), <1>1, <2>3, <3>2, <3>3
         DEF TurnOK, StateOK, PlaceOK, RowsOK, RowOK, LooseOK, Held, RowOf
  <2>5. CASE ~Running(t)
    <3>1. s = z
      BY <1>1, <2>1, <2>3, <2>5
    <3>2. RowsOK(t, s)'
      BY <1>1, <2>2, <3>1 DEF RowsOK, RowOK, Held, RowOf
    <3>3. PlaceOK(t, s)' /\ LooseOK(t, s)'
      BY <1>1, <2>2, <3>1 DEF PlaceOK, LooseOK
    <3>4. StateOK(t, s)'
      BY <3>2, <3>3 DEF StateOK
    <3>5. QED
      BY <2>3, <3>4 DEF TurnOK
  <2>6. QED
    BY <2>4, <2>5
<1>3. TypeOK'
  <2>1. Ledger!TypeOK'
    BY <1>1 DEF LoopInv, TypeOK, Ledger!TypeOK
  <2>2. turn' \in [Turns -> Turn]
    BY <1>1, <1>2
  <2>3. QED
    BY <1>1, <2>1, <2>2 DEF LoopInv, TypeOK
<1>4. QED
  BY <1>1, <1>2, <1>3 DEF LoopInv

LEMMA LapseKeepsInv == ASSUME LoopInv, Lapse PROVE LoopInv'
<1>1. PICK r \in Requests : Books!Lapse(r)
  BY SameLedger DEF Lapse
<1>2. Books!LedgerInv'
  BY <1>1, LedgerAssumptions, Books!LapseKeepsInv DEF LoopInv
<1>3. UNCHANGED <<balances, reservations, default, turn, loose, late, cut>>
  BY <1>1 DEF Lapse, Books!Lapse
<1>4. TypeOK'
  <2>1. Ledger!TypeOK'
    BY <1>2, SameLedger DEF Books!LedgerInv, Ledger!TypeOK, Books!TypeOK, Ledger!Balance,
           Books!Balance, Ledger!Budgets, Books!Budgets, Ledger!Statuses, Books!Statuses
  <2>2. QED
    BY <1>3, <2>1 DEF LoopInv, TypeOK
<1>5. BudgetsFollow' /\ \A t \in Turns : TurnOK(t)'
  BY <1>3 DEF LoopInv, BudgetsFollow, TurnOK, StateOK, PlaceOK, RowsOK, RowOK, LooseOK, Held, RowOf
<1>6. QED
  BY <1>2, <1>4, <1>5 DEF LoopInv


-----------------------------------------------------------------------------
(* The invariant *)

LEMMA InitHasInv == Init => LoopInv
<1> SUFFICES ASSUME Init PROVE LoopInv
  OBVIOUS
<1>1. Books!Init /\ Ledger!Init
  BY SameLedger DEF Init
<1>2. Books!LedgerInv
  BY <1>1, LedgerAssumptions, Books!InitHasInv
<1>3. BudgetsFollow
  BY <1>1 DEF Books!Init, BudgetsFollow
<1>4. TypeOK
  <2>1. Ledger!TypeOK
    BY <1>2, SameLedger DEF Books!LedgerInv
  <2>2. 0 \in 0..Max(Batches \cup {0})
    BY OpenIsBounded
  <2>3. turn \in [Turns -> Turn]
    BY <2>2, LimitsAssumption DEF Init, Turn, Places, Outcomes, UpTo
  <2>4. QED
    BY <2>1, <2>3 DEF Init, TypeOK
<1>5. ASSUME NEW t \in Turns PROVE TurnOK(t)
  <2>1. /\ turn[t].at = "new" /\ turn[t].job = "none" /\ turn[t].calls = 0
        /\ turn[t].outcome = "none" /\ turn[t].empties = 0
    BY DEF Init
  <2>2. PlaceOK(t, turn[t])
    BY <2>1, LimitsAssumption DEF PlaceOK
  <2>3. \A r \in Requests : reservations[r].status = "NONE"
    BY <1>1 DEF Books!Init, Books!NoRow, Books!Row
  <2>4. RowsOK(t, turn[t])
    BY <2>1, <2>3 DEF RowsOK, Requests
  <2>5. LooseOK(t, turn[t])
    BY DEF Init, LooseOK
  <2>6. QED
    BY <2>2, <2>4, <2>5 DEF TurnOK, StateOK
<1>6. QED
  BY <1>2, <1>3, <1>4, <1>5 DEF LoopInv

LEMMA ResumeKeepsInv == ASSUME LoopInv, NEW t \in Turns, Resume(t) PROVE LoopInv'
<1>1. CASE Listed(t) BY <1>1, ListedKeepsInv
<1>2. CASE Stop(t) BY <1>2, StopKeepsInv
<1>3. CASE Round(t) BY <1>3, RoundKeepsInv
<1>4. CASE Reserved(t) BY <1>4, ReservedKeepsInv
<1>5. CASE Answered(t) BY <1>5, AnsweredKeepsInv
<1>6. CASE CallFails(t) BY <1>6, CallFailsKeepsInv
<1>7. CASE Released(t) BY <1>7, ReleasedKeepsInv
<1>8. CASE Committed(t) BY <1>8, CommittedKeepsInv
<1>9. CASE OverLimit(t) BY <1>9, OverLimitKeepsInv
<1>10. CASE Respond(t) BY <1>10, RespondKeepsInv
<1>11. CASE BatchDone(t) BY <1>11, BatchDoneKeepsInv
<1>12. CASE ToolLimit(t) BY <1>12, ToolLimitKeepsInv
<1>13. CASE NextCall(t) BY <1>13, NextCallKeepsInv
<1>14. CASE ToolReturns(t) BY <1>14, ToolReturnsKeepsInv
<1>15. QED
  BY <1>1, <1>2, <1>3, <1>4, <1>5, <1>6, <1>7, <1>8, <1>9, <1>10, <1>11, <1>12, <1>13, <1>14
     DEF Resume

LEMMA StutterKeepsInv == ASSUME LoopInv, UNCHANGED vars PROVE LoopInv'
<1>1. UNCHANGED <<balances, reservations, default, overdue, turn, loose, late, cut>>
  BY DEF vars, ledgerVars
<1>2. TypeOK' /\ BudgetsFollow' /\ Books!LedgerInv'
  BY <1>1, LedgerIdle DEF LoopInv, TypeOK, ledgerVars, Ledger!TypeOK
<1>3. \A t \in Turns : TurnOK(t)'
  BY <1>1 DEF LoopInv, TurnOK, StateOK, PlaceOK, RowsOK, RowOK, LooseOK, Held, RowOf
<1>4. QED
  BY <1>2, <1>3 DEF LoopInv

LEMMA StepKeepsInv == ASSUME LoopInv, [Next]_vars PROVE LoopInv'
<1>1. ASSUME NEW t \in Turns,
             \/ Start(t) \/ Resume(t) \/ Disconnect(t) \/ Cancel(t)
             \/ RunJob(t) \/ RunLoose(t)
      PROVE  LoopInv'
  BY <1>1, StartKeepsInv, ResumeKeepsInv, DisconnectKeepsInv, CancelKeepsInv, RunJobKeepsInv,
     RunLooseKeepsInv
<1>2. CASE Crash BY <1>2, CrashKeepsInv
<1>3. CASE Lapse BY <1>3, LapseKeepsInv
<1>4. CASE UNCHANGED vars BY <1>4, StutterKeepsInv
<1>5. QED
  BY <1>1, <1>2, <1>3, <1>4 DEF Next

\* Where every turn of the loop stands agrees, after every step, with the rows of its
\* requests in the ledger, whose books stay exact.
THEOREM TurnsMatchTheLedger == Spec => []LoopInv
<1>1. Init => LoopInv
  BY InitHasInv
<1>2. LoopInv /\ [Next]_vars => LoopInv'
  BY StepKeepsInv
<1>3. QED
  BY <1>1, <1>2, PTL DEF Spec

\* The counters of a turn, its place and the transactions keep their types: no limit
\* on model calls, tool calls or empty rounds is overstepped.
THEOREM LoopTypeOK == Spec => []TypeOK
<1>1. LoopInv => TypeOK
  BY DEF LoopInv
<1>2. QED
  BY <1>1, TurnsMatchTheLedger, PTL

\* A turn that awaits the provider (step of loop.py between reserve and commit)
\* has a hold of its own for the amount it estimated, whoever else came and went.
THEOREM CallsAreHeld == Spec => []HeldWhileCalling
<1>1. ASSUME LoopInv PROVE HeldWhileCalling
  <2>1. ASSUME NEW t \in Reserving, turn[t].at = "calling"
        PROVE  Held(t, turn[t])
    <3>1. t \in Turns /\ PlaceOK(t, turn[t]) /\ RowsOK(t, turn[t])
      BY <1>1, PayerAssumption DEF LoopInv, TurnOK, StateOK
    <3>2. turn[t].calls > 0
      BY <2>1, <3>1 DEF PlaceOK
    <3>3. RowOK(t, turn[t])
      BY <3>1, <3>2 DEF RowsOK
    <3>4. QED
      BY <2>1, <3>3 DEF RowOK
  <2>2. QED
    BY <2>1 DEF HeldWhileCalling, Held, RowOf, Current
<1>2. QED
  BY <1>1, TurnsMatchTheLedger, PTL

\* No transaction a turn asks for, awaited or abandoned to its worker, meets a row
\* in a status that makes the ledger raise a conflict.
THEOREM LoopHasNoConflict == Spec => []NoConflict
<1>1. ASSUME LoopInv PROVE NoConflict
  <2>1. ASSUME NEW t \in Turns, NEW op \in {"reserve", "commit"},
               <<op, Current(t)>> \in loose
        PROVE  reservations[Current(t)].status \in
                   IF op = "reserve" THEN {"NONE"} ELSE {"ACTIVE", "EXPIRED"}
    <3>1. Current(t) \in Requests /\ LooseOK(t, turn[t])
      BY <1>1, <2>1 DEF LoopInv, TypeOK, TurnOK, StateOK
    <3>2. turn[t].calls \in 1..MaxModelCalls
      BY <3>1 DEF Current, Requests
    <3>3. QED
      BY <2>1, <3>1, <3>2 DEF LooseOK, Operations, RowOf, Current
  <2>2. ASSUME NEW t \in Turns, NEW op \in {"reserve", "commit"},
               turn[t].job = "queued", Operation[turn[t].at] = op
        PROVE  reservations[Current(t)].status \in
                   IF op = "reserve" THEN {"NONE"} ELSE {"ACTIVE", "EXPIRED"}
    <3>1. PlaceOK(t, turn[t]) /\ RowsOK(t, turn[t]) /\ turn[t] \in Turn
      BY <1>1 DEF LoopInv, TypeOK, TurnOK, StateOK
    <3>2. /\ turn[t].at \in {"reserving", "releasing", "committing"}
          /\ t \in Reserving /\ turn[t].calls > 0
      BY <2>2, <3>1 DEF PlaceOK
    <3>3. RowOK(t, turn[t])
      BY <3>1, <3>2 DEF RowsOK
    <3>4. CASE turn[t].at = "reserving"
      BY <2>2, <3>3, <3>4 DEF RowOK, RowOf, Current, Operation
    <3>5. CASE turn[t].at = "committing"
      BY <2>2, <3>3, <3>5 DEF RowOK, Held, RowOf, Current, Operation
    <3>6. CASE turn[t].at = "releasing"
      BY <2>2, <3>6 DEF Operation
    <3>7. QED
      BY <3>2, <3>4, <3>5, <3>6
  <2>3. QED
    BY <2>1, <2>2 DEF NoConflict
<1>2. QED
  BY <1>1, TurnsMatchTheLedger, PTL

\* Every response whose tool calls were run or whose text was sent has been charged
\* to the principal of its turn.
THEOREM ResponsesArePaid == Spec => []DeliveredIsCharged
<1>1. ASSUME LoopInv PROVE DeliveredIsCharged
  <2>1. ASSUME NEW t \in Reserving, NEW k \in Used(t)
        PROVE  reservations[<<t, k>>].status = "COMMITTED"
    <3>1. t \in Turns /\ PlaceOK(t, turn[t]) /\ RowsOK(t, turn[t]) /\ turn[t] \in Turn
      BY <1>1, PayerAssumption DEF LoopInv, TypeOK, TurnOK, StateOK
    <3>2. turn[t].calls \in 0..MaxModelCalls /\ k \in 1..turn[t].calls /\ MaxModelCalls \in Nat
      BY <2>1, <3>1, LimitsAssumption DEF Used, Turn
    <3>3. k \in 1..MaxModelCalls
      BY <3>2
    <3>4. CASE k < turn[t].calls
      BY <2>1, <3>1, <3>3, <3>4 DEF RowsOK
    <3>5. CASE ~(k < turn[t].calls)
      <4>1. k = turn[t].calls /\ turn[t].calls > 0
        BY <3>2, <3>5
      <4>2. RowOK(t, turn[t])
        BY <2>1, <3>1, <4>1 DEF RowsOK
      <4>3. \/ turn[t].at \in {"recording", "batch", "tooling", "round"}
            \/ turn[t].outcome \in Delivered
        BY <2>1, <3>5 DEF Used, Delivered
      <4>4. turn[t].outcome \in Delivered => turn[t].at = "done"
        BY <3>1 DEF PlaceOK, Delivered
      <4>5. QED
        BY <4>1, <4>2, <4>3, <4>4 DEF RowOK, RowOf
    <3>6. QED
      BY <3>4, <3>5
  <2>2. QED
    BY <2>1 DEF DeliveredIsCharged
<1>2. QED
  BY <1>1, TurnsMatchTheLedger, PTL

\* A turn that is over has given back what it held, unless a transaction of its last
\* call failed, lost its turn or died with the process.
THEOREM TurnsReturnHolds == Spec => []HoldsAreReturned
<1>1. ASSUME LoopInv PROVE HoldsAreReturned
  <2>1. ASSUME NEW t \in Turns, NEW k \in 1..MaxModelCalls,
               reservations[<<t, k>>].status = "ACTIVE"
        PROVE  \/ turn[t].at \in {"reserving", "calling", "releasing", "committing"}
               \/ turn[t].outcome = "killed"
               \/ <<t, k>> \in cut
    <3>1. PlaceOK(t, turn[t]) /\ RowsOK(t, turn[t]) /\ turn[t] \in Turn
      BY <1>1 DEF LoopInv, TypeOK, TurnOK, StateOK
    <3>2. turn[t].calls \in 0..MaxModelCalls
      BY <3>1 DEF Turn
    <3>3. t \in Reserving /\ ~(k > turn[t].calls) /\ ~(k < turn[t].calls)
      BY <2>1, <3>1 DEF RowsOK
    <3>4. k = turn[t].calls /\ turn[t].calls > 0
      BY <3>2, <3>3
    <3>5. RowOK(t, turn[t])
      BY <3>1, <3>3, <3>4 DEF RowsOK
    <3>6. turn[t].at \in Places /\ turn[t].at \notin {"new", "listing"}
      <4>1. turn[t].at \in {"new", "listing"} => turn[t].calls = 0
        BY <3>1 DEF PlaceOK
      <4>2. turn[t].calls # 0
        BY <3>2, <3>4
      <4>3. QED
        BY <3>1, <4>1, <4>2 DEF Turn
    <3>7. turn[t].at \notin {"round", "recording", "batch", "tooling"}
      BY <2>1, <3>4, <3>5 DEF RowOK, RowOf
    <3>8. turn[t].at = "done" => turn[t].outcome = "killed" \/ <<t, k>> \in cut
      BY <2>1, <3>4, <3>5 DEF RowOK, RowOf
    <3>9. QED
      BY <3>6, <3>7, <3>8 DEF Places
  <2>2. ASSUME NEW r \in Requests, reservations[r].status = "ACTIVE"
        PROVE  \/ turn[r[1]].at \in {"reserving", "calling", "releasing", "committing"}
               \/ turn[r[1]].outcome = "killed"
               \/ r \in cut
    <3>1. PICK t \in Turns, k \in 1..MaxModelCalls : r = <<t, k>>
      BY DEF Requests
    <3>2. r[1] = t
      BY <3>1
    <3>3. QED
      BY <2>1, <2>2, <3>1, <3>2
  <2>3. QED
    BY <2>2 DEF HoldsAreReturned
<1>2. QED
  BY <1>1, TurnsMatchTheLedger, PTL

-----------------------------------------------------------------------------
(* The budget *)

\* What admission covers of each request, and of all those of a principal.
Cov == [r \in Requests |-> Covered(r)]

Spent(p) == SumOver(Cov, Books!Of(p))

LEMMA SameSums == ASSUME NEW f, NEW S PROVE Books!SumOver(f, S) = SumOver(f, S)
BY DEF SumOver, Books!SumOver, FoldFunctionOnSet, Books!FoldFunctionOnSet, MapThenFoldSet,
       Books!MapThenFoldSet

LEMMA MinOfTwo ==
    ASSUME NEW a \in Nat, NEW b \in Nat
    PROVE  Min({a, b}) \in {a, b} /\ Min({a, b}) <= a /\ Min({a, b}) <= b
<1>1. \E m \in {a, b} : \A n \in {a, b} : m <= n
  BY SMT
<1>2. Min({a, b}) \in {a, b} /\ \A n \in {a, b} : Min({a, b}) <= n
  BY <1>1 DEF Min
<1>3. QED
  BY <1>2

\* The two cases of Covered, in bounds.
CoverKnown(r) ==
    /\ Covered(r) \in Nat
    /\ reservations[r].estimate \in Nat /\ reservations[r].cost \in Nat
    /\ reservations[r].status = "ACTIVE" => Covered(r) = reservations[r].estimate
    /\ reservations[r].status = "COMMITTED" =>
         /\ Covered(r) <= reservations[r].estimate
         /\ Covered(r) <= reservations[r].cost
         /\ r \in late => Covered(r) = 0
    /\ reservations[r].status \notin {"ACTIVE", "COMMITTED"} => Covered(r) = 0

LEMMA CoverOfRow == ASSUME LoopInv, NEW r \in Requests PROVE CoverKnown(r)
<1>1. reservations[r].estimate \in Estimates \cup {0} /\ reservations[r].cost \in Costs \cup {0}
  BY DEF LoopInv, Books!LedgerInv, Books!TypeOK
<1>2. reservations[r].estimate \in Nat /\ reservations[r].cost \in Nat
  <2>1. \A n \in Estimates \cup Costs \cup {0} : n \in Nat
    BY LedgerAssumption
  <2>2. QED
    BY <1>1, <2>1
<1> DEFINE m == Min({reservations[r].cost, reservations[r].estimate})
<1>3. m \in Nat /\ m <= reservations[r].estimate /\ m <= reservations[r].cost
  BY <1>2, MinOfTwo
<1> HIDE DEF m
<1>4. Covered(r) = IF reservations[r].status = "ACTIVE" THEN reservations[r].estimate
                   ELSE IF reservations[r].status = "COMMITTED" /\ r \notin late THEN m
                   ELSE 0
  BY DEF Covered, m
<1>5. QED
  BY <1>2, <1>3, <1>4 DEF CoverKnown

\* What is covered is counted: as held while the hold is active, as spent after.
Counted ==
    \A p \in Principals :
        /\ Spent(p) \in Nat
        /\ balances[p].reserved \in Nat /\ balances[p].committed \in Nat
        /\ Spent(p) <= balances[p].reserved + balances[p].committed

LEMMA CoveredIsCounted == LoopInv => Counted
<1> SUFFICES ASSUME LoopInv, NEW p \in Principals
             PROVE  /\ Spent(p) \in Nat
                    /\ balances[p].reserved \in Nat /\ balances[p].committed \in Nat
                    /\ Spent(p) <= balances[p].reserved + balances[p].committed
  BY DEF Counted
<1> DEFINE A == Books!Active(p)
           C == Books!Committed(p)
           O == Books!Of(p)
           R == (O \ A) \ C
<1>1. /\ IsFiniteSet(Requests) /\ O \subseteq Requests /\ A \subseteq O /\ C \subseteq O \ A
      /\ R \subseteq Requests
  BY LedgerAssumptions DEF Books!Of, Books!Active, Books!Committed
<1>2. /\ \A r \in A : reservations[r].status = "ACTIVE"
      /\ \A r \in C : reservations[r].status = "COMMITTED"
      /\ \A r \in R : reservations[r].status \notin {"ACTIVE", "COMMITTED"}
  BY DEF Books!Active, Books!Committed, Books!Of
<1>3. \A r \in Requests : Cov[r] = Covered(r)
  BY DEF Cov
<1>4. /\ balances[p].reserved = SumOver(Books!Estimate, A)
      /\ balances[p].committed = SumOver(Books!Cost, C)
      /\ balances[p].reserved \in Nat /\ balances[p].committed \in Nat
  <2>1. /\ balances[p].reserved = Books!SumOver(Books!Estimate, A)
        /\ balances[p].committed = Books!SumOver(Books!Cost, C)
        /\ balances[p] \in Books!Balance
    BY DEF LoopInv, Books!LedgerInv, Books!TypeOK, Books!CountersExact, Books!Estimated,
           Books!Estimate, Books!Cost, Books!Committed
  <2>2. QED
    BY <2>1, SameSums DEF Books!Balance
<1>5. \A r \in Requests : /\ Books!Estimate[r] = reservations[r].estimate
                          /\ Books!Cost[r] = reservations[r].cost
  BY DEF Books!Estimate, Books!Cost
<1> HIDE DEF A, C, O, R
<1>6. \A r \in Requests : Cov[r] \in Nat /\ Books!Estimate[r] \in Nat /\ Books!Cost[r] \in Nat
  BY <1>3, <1>5, CoverOfRow DEF CoverKnown
<1>7. \A r \in A : Cov[r] = Books!Estimate[r]
  BY <1>1, <1>2, <1>3, <1>5, CoverOfRow DEF CoverKnown
<1>8. \A r \in C : Cov[r] <= Books!Cost[r]
  BY <1>1, <1>2, <1>3, <1>5, CoverOfRow DEF CoverKnown
<1>9. \A r \in R : Cov[r] = 0
  BY <1>1, <1>2, <1>3, CoverOfRow DEF CoverKnown
<1>10. IsFiniteSet(O) /\ IsFiniteSet(A) /\ IsFiniteSet(O \ A) /\ IsFiniteSet(C) /\ IsFiniteSet(R)
  BY <1>1, FS_Subset
<1>11. /\ \A r \in O : Cov[r] \in Int /\ Cov[r] \in Nat
       /\ \A r \in O \ A : Cov[r] \in Int
       /\ \A r \in C : Cov[r] \in Int /\ Books!Cost[r] \in Int /\ Cov[r] \in Nat
                        /\ Books!Cost[r] \in Nat
       /\ \A r \in A : Cov[r] \in Nat
  BY <1>1, <1>6
<1>12. SumOver(Cov, O) = SumOver(Cov, A) + SumOver(Cov, O \ A)
  BY <1>1, <1>10, <1>11, SumSplits
<1>13. SumOver(Cov, O \ A) = SumOver(Cov, C) + SumOver(Cov, R)
  BY <1>1, <1>10, <1>11, SumSplits DEF R
<1>14. SumOver(Cov, A) = SumOver(Books!Estimate, A)
  BY <1>7, <1>10, SumAgrees
<1>15. SumOver(Cov, C) <= SumOver(Books!Cost, C)
  BY <1>8, <1>10, <1>11, SumGrows
<1>16. SumOver(Cov, R) = 0
  BY <1>9, <1>10, SumOfZeros
<1>17. SumOver(Cov, O) \in Nat /\ SumOver(Cov, C) \in Nat /\ SumOver(Cov, A) \in Nat
  BY <1>10, <1>11, SumIsNat
<1>18. SumOver(Cov, O) = SumOver(Cov, A) + SumOver(Cov, C)
  BY <1>12, <1>13, <1>16, <1>17
<1>19. QED
  BY <1>4, <1>14, <1>15, <1>17, <1>18 DEF Spent, O

\* A request that is admitted leaves its principal within the default budget.
LEMMA AdmittedIsWithin ==
    ASSUME LoopInv, NEW p \in Principals, NEW r \in Requests, NEW e \in Estimates,
           Ledger!Admit(p, r, e), default # Unlimited
    PROVE  default \in Nat /\ balances'[p].reserved + balances'[p].committed <= default
<1>1. Books!Admit(p, r, e) /\ Books!LedgerInv
  BY SameLedger DEF LoopInv
<1>2. PICK S \in SUBSET Books!Overdue(p) :
        /\ Books!Admissible(p, e, S)
        /\ balances' = [balances EXCEPT ![p] =
                          [Books!Followed(Books!Account(p, S)) EXCEPT !.reserved = @ + e]]
  BY <1>1 DEF Books!Admit
<1> DEFINE a == Books!Account(p, S)
<1>3. a \in Books!Balance /\ a.override = balances[p].override
  BY <1>1, LedgerAssumptions, Books!AccountIsExact
<1>4. default \in Nat
  BY LedgerAssumption DEF LoopInv, Books!LedgerInv, Books!TypeOK, Books!Budgets
<1> DEFINE b == Books!Followed(a)
<1>5. /\ b \in Books!Balance /\ b.budget = default
  <2>1. ~a.override
    BY <1>3 DEF LoopInv, BudgetsFollow
  <2>2. default \in Books!Budgets
    BY DEF LoopInv, Books!LedgerInv, Books!TypeOK
  <2>3. QED
    BY <1>3, <2>1, <2>2 DEF Books!Followed, Books!Balance
<1>6. e <= b.budget - b.committed - b.reserved
  BY <1>2, <1>5 DEF Books!Admissible, Books!Available
<1>7. b.committed \in Nat /\ b.reserved \in Nat /\ e \in Nat
  BY <1>5, LedgerAssumption DEF Books!Balance
<1> HIDE DEF b
<1>8. balances'[p].reserved = b.reserved + e /\ balances'[p].committed = b.committed
  BY <1>2, <1>5 DEF LoopInv, Books!LedgerInv, Books!TypeOK, Books!Balance, b
<1>9. QED
  BY <1>4, <1>5, <1>6, <1>7, <1>8

\* What a step may do to the row x: nothing that covers more of its cost.
RowSettles(x) ==
    /\ reservations'[x].principal = reservations[x].principal
    /\ reservations'[x].estimate = reservations[x].estimate
    /\ x \in late => x \in late'
    /\ \/ /\ reservations'[x].status = reservations[x].status
          /\ reservations'[x].cost = reservations[x].cost
       \/ reservations'[x].status \in {"EXPIRED", "RELEASED"}
       \/ reservations[x].status = "ACTIVE" /\ reservations'[x].status = "COMMITTED"
       \/ reservations'[x].status = "COMMITTED" /\ x \in late'

CoversKnown == \A r \in Requests : CoverKnown(r)

\* Both hold of the state a step leads to as well.
LEMMA NextCovers == LoopInv' => Counted' /\ CoversKnown'
<1>1. LoopInv => Counted /\ CoversKnown
  BY CoveredIsCounted, CoverOfRow DEF CoversKnown
<1>2. QED
  BY <1>1, PTL

LEMMA SettledCoversLess ==
    ASSUME LoopInv, LoopInv', NEW x \in Requests, RowSettles(x)
    PROVE  Covered(x)' <= Covered(x)
<1>1. CoverKnown(x) /\ CoverKnown(x)'
  BY CoverOfRow, NextCovers DEF CoversKnown
<1>2. /\ reservations'[x].estimate = reservations[x].estimate
      /\ x \in late => x \in late'
  BY DEF RowSettles
<1>3. CASE /\ reservations'[x].status = reservations[x].status
           /\ reservations'[x].cost = reservations[x].cost
  <2>1. CASE reservations[x].status = "COMMITTED" /\ x \notin late'
    <3>1. Covered(x)' = Covered(x)
      BY <1>2, <1>3, <2>1 DEF Covered
    <3>2. QED
      BY <1>1, <3>1 DEF CoverKnown
  <2>2. CASE ~(reservations[x].status = "COMMITTED" /\ x \notin late')
    BY <1>1, <1>2, <1>3, <2>2 DEF CoverKnown
  <2>3. QED
    BY <2>1, <2>2
<1>4. CASE reservations'[x].status \in {"EXPIRED", "RELEASED"}
  BY <1>1, <1>4 DEF CoverKnown
<1>5. CASE reservations[x].status = "ACTIVE" /\ reservations'[x].status = "COMMITTED"
  BY <1>1, <1>2, <1>5 DEF CoverKnown
<1>6. CASE reservations'[x].status = "COMMITTED" /\ x \in late'
  BY <1>1, <1>6 DEF CoverKnown
<1>7. QED
  BY <1>3, <1>4, <1>5, <1>6 DEF RowSettles

\* A principal none of whose rows covers more is not brought over its budget.
LEMMA SettledSpendsLess ==
    ASSUME LoopInv, LoopInv', NEW p \in Principals, Books!Of(p)' = Books!Of(p),
           \A x \in Books!Of(p) : RowSettles(x)
    PROVE  Spent(p)' <= Spent(p)
<1>1. Books!Of(p) \subseteq Requests /\ IsFiniteSet(Books!Of(p))
  BY LedgerAssumptions, FS_Subset DEF Books!Of
<1>2. \A x \in Books!Of(p) :
        Cov'[x] \in Int /\ Cov[x] \in Int /\ Cov'[x] <= Cov[x]
  <2>1. ASSUME NEW x \in Books!Of(p)
        PROVE  Cov'[x] \in Int /\ Cov[x] \in Int /\ Cov'[x] <= Cov[x]
    <3>1. x \in Requests /\ RowSettles(x)
      BY <1>1
    <3>2. CoverKnown(x) /\ CoverKnown(x)' /\ Covered(x)' <= Covered(x)
      BY <3>1, CoverOfRow, NextCovers, SettledCoversLess DEF CoversKnown
    <3>3. Cov[x] = Covered(x) /\ Cov'[x] = Covered(x)'
      BY <3>1 DEF Cov
    <3>4. QED
      BY <3>2, <3>3 DEF CoverKnown
  <2>2. QED
    BY <2>1
<1>3. SumOver(Cov', Books!Of(p)) <= SumOver(Cov, Books!Of(p))
  BY <1>1, <1>2, SumGrows
<1>4. QED
  BY <1>3 DEF Spent

\* A request of p that moves to the row r leaves p within its budget.
Within(p) == default # Unlimited => Spent(p) <= default

\* What a transaction leads to, when the rows it writes settle.
LEMMA SettledStaysWithin ==
    ASSUME LoopInv, LoopInv', UNCHANGED default, NEW p \in Principals, Within(p),
           Books!Of(p)' = Books!Of(p), \A x \in Books!Of(p) : RowSettles(x)
    PROVE  Within(p)'
<1>1. Spent(p)' <= Spent(p)
  BY SettledSpendsLess
<1>2. Spent(p) \in Nat /\ Spent(p)' \in Nat
  BY CoveredIsCounted, NextCovers DEF Counted
<1>3. default # Unlimited => default \in Nat
  BY LedgerAssumption DEF LoopInv, Books!LedgerInv, Books!TypeOK, Books!Budgets
<1>4. SUFFICES ASSUME default # Unlimited PROVE Spent(p)' <= default
  BY DEF Within
<1>5. Spent(p) <= default /\ default \in Nat
  BY <1>3, <1>4 DEF Within
<1>6. QED
  BY <1>1, <1>2, <1>5

LEMMA OthersSettle ==
    ASSUME NEW r, OthersMove(r), late \subseteq late'
    PROVE  \A x \in Requests \ {r} : RowSettles(x)
BY DEF OthersMove, RowSettles

LEMMA AdmitStaysWithin ==
    ASSUME LoopInv, LoopInv', NEW p \in Principals, NEW r \in Requests, NEW e \in Estimates,
           Ledger!Admit(p, r, e), UNCHANGED late, NEW q \in Principals, Within(q)
    PROVE  Within(q)'
<1>1. /\ UNCHANGED default
      /\ reservations[r].status = "NONE" /\ reservations'[r].principal = p
      /\ OthersMove(r)
  BY AdmitMoves
<1>2. CASE q = p
  <2>1. SUFFICES ASSUME default # Unlimited PROVE Spent(p)' <= default
    BY <1>1, <1>2 DEF Within
  <2>2. default \in Nat /\ balances'[p].reserved + balances'[p].committed <= default
    BY <2>1, AdmittedIsWithin
  <2>3. /\ Spent(p)' \in Nat
        /\ balances'[p].reserved \in Nat /\ balances'[p].committed \in Nat
        /\ Spent(p)' <= balances'[p].reserved + balances'[p].committed
    BY NextCovers DEF Counted
  <2>4. QED
    BY <2>2, <2>3
<1>3. CASE q # p
  <2>1. reservations[r].principal = Nobody
    <3>1. reservations[r] = Books!NoRow
      BY <1>1 DEF LoopInv, Books!LedgerInv, Books!RowsAreWhole
    <3>2. QED
      BY <3>1 DEF Books!NoRow, Books!Row
  <2>2. r \notin Books!Of(q) /\ Books!Of(q)' = Books!Of(q)
    <3>1. q # Nobody
      BY LedgerAssumption
    <3>2. QED
      BY <1>1, <1>3, <2>1, <3>1 DEF Books!Of, OthersMove
  <2>3. \A x \in Books!Of(q) : RowSettles(x)
    BY <1>1, <2>2, OthersSettle DEF Books!Of
  <2>4. QED
    BY <1>1, <2>2, <2>3, SettledStaysWithin
<1>4. QED
  BY <1>2, <1>3

\* A commit or a release of r.
LEMMA SettleStaysWithin ==
    ASSUME LoopInv, LoopInv', UNCHANGED default, NEW r \in Requests, OthersMove(r), RowSettles(r),
           late \subseteq late', NEW q \in Principals, Within(q)
    PROVE  Within(q)'
<1>1. \A x \in Requests : RowSettles(x)
  BY OthersSettle
<1>2. Books!Of(q)' = Books!Of(q) /\ \A x \in Books!Of(q) : RowSettles(x)
  BY <1>1 DEF RowSettles, Books!Of
<1>3. QED
  BY <1>2, SettledStaysWithin

\* A step that writes no row.
LEMMA IdleStaysWithin ==
    ASSUME UNCHANGED <<reservations, default, late>>, NEW q \in Principals, Within(q)
    PROVE  Within(q)'
<1>1. Cov' = Cov /\ Books!Of(q)' = Books!Of(q)
  BY DEF Cov, Covered, Books!Of
<1>2. QED
  BY <1>1 DEF Within, Spent

LEMMA TransactionStaysWithin ==
    ASSUME LoopInv, LoopInv', NEW t \in Turns, NEW op \in Operations, NEW a,
           Transaction(op, t, a), Current(t) \in Requests,
           op = "reserve" => turn[t].estimate \in Estimates,
           op = "commit" => turn[t].cost \in Costs,
           NEW q \in Principals, Within(q)
    PROVE  Within(q)'
<1> DEFINE r == Current(t)
<1>1. CASE UNCHANGED <<ledgerVars, late>>
  BY <1>1, IdleStaysWithin DEF ledgerVars
<1>2. CASE op = "reserve" /\ Ledger!Admit(Payer[t], r, turn[t].estimate) /\ UNCHANGED late
  BY <1>2, PaidBySomeone, AdmitStaysWithin
<1>3. CASE /\ op = "commit" /\ Ledger!Commit(r, turn[t].cost)
           /\ late' = IF reservations[r].status = "EXPIRED" THEN late \cup {r} ELSE late
  <2>1. /\ UNCHANGED default /\ OthersMove(r)
        /\ reservations[r].status \in {"ACTIVE", "EXPIRED"}
        /\ reservations'[r].status = "COMMITTED"
        /\ reservations'[r].principal = reservations[r].principal
        /\ reservations'[r].estimate = reservations[r].estimate
    BY <1>3, CommitMoves
  <2>2. late \subseteq late' /\ (reservations[r].status = "EXPIRED" => r \in late')
    BY <1>3
  <2>3. RowSettles(r)
    BY <2>1, <2>2 DEF RowSettles
  <2>4. QED
    BY <2>1, <2>2, <2>3, SettleStaysWithin
<1>4. CASE op = "release" /\ Ledger!Release(r) /\ UNCHANGED late
  <2>1. /\ UNCHANGED default /\ OthersMove(r)
        /\ reservations'[r].status = "RELEASED"
        /\ reservations'[r].principal = reservations[r].principal
        /\ reservations'[r].estimate = reservations[r].estimate
    BY <1>4, ReleaseMoves
  <2>2. RowSettles(r)
    BY <1>4, <2>1 DEF RowSettles
  <2>3. QED
    BY <1>4, <2>1, <2>2, SettleStaysWithin
<1>5. QED
  BY <1>1, <1>2, <1>3, <1>4 DEF Transaction, ledgerVars

\* What a turn asks a worker for, the ledger can be asked.
AsksOf(t, op) ==
    /\ op \in Operations
    /\ Current(t) \in Requests
    /\ op = "reserve" => turn[t].estimate \in Estimates
    /\ op = "commit" => turn[t].cost \in Costs

LEMMA JobAsks ==
    ASSUME LoopInv, NEW t \in Turns, turn[t].job = "queued"
    PROVE  AsksOf(t, Operation[turn[t].at])
<1>1. /\ turn[t] \in Turn /\ PlaceOK(t, turn[t])
      /\ turn[t].at \in {"reserving", "releasing", "committing"} /\ t \in Reserving
  BY KnownOfTurn DEF PlaceOK
<1>2. Operation[turn[t].at] \in Operations
  BY <1>1 DEF Operation, Operations
<1>3. /\ Operation[turn[t].at] = "reserve" => turn[t].estimate \in Estimates
      /\ Operation[turn[t].at] = "commit" => turn[t].cost \in Costs
  BY <1>1 DEF Operation, PlaceOK
<1>4. Current(t) \in Requests
  <2>1. turn[t].calls > 0
    BY <1>1 DEF PlaceOK
  <2>2. QED
    BY <1>1, <2>1, CurrentIsRequest DEF Current
<1>5. QED
  BY <1>2, <1>3, <1>4 DEF AsksOf

LEMMA LooseAsks ==
    ASSUME LoopInv, NEW t \in Turns, NEW op \in Operations, <<op, Current(t)>> \in loose
    PROVE  AsksOf(t, op)
<1>1. Current(t) \in Requests /\ turn[t].calls \in 1..MaxModelCalls
  BY DEF LoopInv, TypeOK, Current, Requests
<1>2. LooseOK(t, turn[t])
  BY DEF LoopInv, TurnOK, StateOK
<1>3. QED
  BY <1>1, <1>2 DEF LooseOK, Current, AsksOf

LEMMA StepStaysWithin ==
    ASSUME LoopInv, LoopInv', [Next]_vars, NEW q \in Principals, Within(q)
    PROVE  Within(q)'
<1>1. CASE UNCHANGED <<reservations, default, late>>
  BY <1>1, IdleStaysWithin
<1>2. ASSUME NEW t \in Turns, RunJob(t) PROVE Within(q)'
  <2>1. PICK a : Transaction(Operation[turn[t].at], t, a)
    BY <1>2 DEF RunJob
  <2>2. AsksOf(t, Operation[turn[t].at])
    BY <1>2, JobAsks DEF RunJob
  <2>3. QED
    BY <2>1, <2>2, TransactionStaysWithin DEF AsksOf
<1>3. ASSUME NEW t \in Turns, RunLoose(t) PROVE Within(q)'
  <2>1. PICK op \in Operations, a \in {"ok", "refused", "failed"} :
          Transaction(op, t, a) /\ <<op, Current(t)>> \in loose
    BY <1>3 DEF RunLoose, Operations
  <2>2. AsksOf(t, op)
    BY <2>1, LooseAsks
  <2>3. QED
    BY <2>1, <2>2, TransactionStaysWithin DEF AsksOf
<1>4. ASSUME NEW t \in Turns, Start(t) \/ Resume(t) \/ Disconnect(t) \/ Cancel(t)
      PROVE  UNCHANGED <<reservations, default, late>>
  BY <1>4 DEF Start, Resume, Listed, Stop, Round, Reserved, Answered, CallFails, Released, Committed,
     OverLimit, Respond, BatchDone, ToolLimit, NextCall, ToolReturns, Disconnect, Cancel, Quietly,
     ledgerVars
<1>5. Crash \/ Lapse \/ UNCHANGED vars => UNCHANGED <<reservations, default, late>>
  <2>1. Lapse => UNCHANGED <<reservations, default, late>>
    BY DEF Lapse, Ledger!Lapse
  <2>2. QED
    BY <2>1 DEF Crash, vars, ledgerVars
<1>6. QED
  BY <1>1, <1>2, <1>3, <1>4, <1>5 DEF Next

LEMMA BudgetFollows == OnlyOverrunsOverspend <=> \A p \in Principals : Within(p)
BY DEF OnlyOverrunsOverspend, Within, Spent, Cov, Ledger!Of, Books!Of

LEMMA InitIsWithin == ASSUME Init, NEW p \in Principals PROVE Within(p)
<1>1. LoopInv
  BY InitHasInv
<1>2. /\ \A r \in Requests : reservations[r].status = "NONE"
      /\ default \in Books!Budgets
  BY SameLedger DEF Init, Books!Init, Books!NoRow, Books!Row
<1>3. /\ IsFiniteSet(Books!Of(p)) /\ Books!Of(p) \subseteq Requests
  BY LedgerAssumptions, FS_Subset DEF Books!Of
<1>4. \A r \in Books!Of(p) : Cov[r] = 0
  BY <1>1, <1>2, <1>3, CoverOfRow DEF Cov, CoverKnown
<1>5. Spent(p) = 0
  BY <1>3, <1>4, SumOfZeros DEF Spent
<1>6. default # Unlimited => default \in Nat
  BY <1>2, LedgerAssumption DEF Books!Budgets
<1>7. QED
  BY <1>5, <1>6 DEF Within

\* Whatever number of turns reserve, expire, commit and release side by side, what
\* the ledger admitted for a principal stays within the default budget: it is
\* exceeded only by costs above their estimate and by calls that outlived their hold.
THEOREM BudgetIsKept == Spec => []OnlyOverrunsOverspend
<1>1. Init => OnlyOverrunsOverspend
  BY InitIsWithin, BudgetFollows
<1>2. LoopInv /\ LoopInv' /\ OnlyOverrunsOverspend /\ [Next]_vars => OnlyOverrunsOverspend'
  <2>1. SUFFICES ASSUME LoopInv, LoopInv', \A p \in Principals : Within(p), [Next]_vars
                 PROVE  OnlyOverrunsOverspend'
    BY BudgetFollows
  <2>2. \A p \in Principals : Within(p)'
    BY <2>1, StepStaysWithin
  <2>3. QED
    BY <2>2 DEF OnlyOverrunsOverspend, Within, Spent, Cov, Ledger!Of, Books!Of
<1>3. QED
  BY <1>1, <1>2, TurnsMatchTheLedger, PTL DEF Spec

-----------------------------------------------------------------------------
(* The promise of the ledger *)

LEMMA TransactionOfLedger ==
    ASSUME NEW t \in Turns, NEW op \in Operations, NEW a,
           Transaction(op, t, a), Current(t) \in Requests,
           op = "reserve" => turn[t].estimate \in Estimates,
           op = "commit" => turn[t].cost \in Costs
    PROVE  [Books!Next]_ledgerVars
<1> DEFINE r == Current(t)
<1>1. CASE op = "reserve" /\ Books!Admit(Payer[t], r, turn[t].estimate)
  BY <1>1, PaidBySomeone DEF Books!Next
<1>2. CASE op = "commit" /\ Books!Commit(r, turn[t].cost)
  BY <1>2 DEF Books!Next
<1>3. CASE op = "release" /\ Books!Release(r)
  BY <1>3 DEF Books!Next
<1>4. CASE UNCHANGED ledgerVars
  BY <1>4
<1>5. QED
  BY <1>1, <1>2, <1>3, <1>4, SameLedger DEF Transaction

LEMMA StepOfLedger == ASSUME LoopInv, [Next]_vars PROVE [Books!Next]_ledgerVars
<1>1. ASSUME NEW t \in Turns, RunJob(t) PROVE [Books!Next]_ledgerVars
  <2>1. PICK a : Transaction(Operation[turn[t].at], t, a)
    BY <1>1 DEF RunJob
  <2>2. AsksOf(t, Operation[turn[t].at])
    BY <1>1, JobAsks DEF RunJob
  <2>3. QED
    BY <2>1, <2>2, TransactionOfLedger DEF AsksOf
<1>2. ASSUME NEW t \in Turns, RunLoose(t) PROVE [Books!Next]_ledgerVars
  <2>1. PICK op \in Operations, a \in {"ok", "refused", "failed"} :
          Transaction(op, t, a) /\ <<op, Current(t)>> \in loose
    BY <1>2 DEF RunLoose, Operations
  <2>2. AsksOf(t, op)
    BY <2>1, LooseAsks
  <2>3. QED
    BY <2>1, <2>2, TransactionOfLedger DEF AsksOf
<1>3. ASSUME NEW t \in Turns, Start(t) \/ Resume(t) \/ Disconnect(t) \/ Cancel(t)
      PROVE  UNCHANGED ledgerVars
  BY <1>3 DEF Start, Resume, Listed, Stop, Round, Reserved, Answered, CallFails, Released, Committed,
     OverLimit, Respond, BatchDone, ToolLimit, NextCall, ToolReturns, Disconnect, Cancel, Quietly
<1>4. CASE Lapse
  BY <1>4, SameLedger DEF Lapse, Books!Next
<1>5. CASE Crash \/ UNCHANGED vars
  BY <1>5 DEF Crash, vars
<1>6. QED
  BY <1>1, <1>2, <1>3, <1>4, <1>5 DEF Next

\* The loop does nothing to the ledger that the ledger does not offer, so that turns
\* admitted, cancelled, abandoned and killed keep what it promises each principal.
THEOREM LoopKeepsPromise == Spec => Books!AdmissionKept
<1>1. Init => Books!Init
  BY SameLedger DEF Init
<1>2. LoopInv /\ [Next]_vars => [Books!Next]_ledgerVars
  BY StepOfLedger
<1>3. Spec => Books!Spec
  <2>1. LoopInv /\ [Next]_vars => [Books!Next]_(Books!ledgerVars)
    BY <1>2 DEF ledgerVars, Books!ledgerVars
  <2>2. QED
    BY <1>1, <2>1, TurnsMatchTheLedger, PTL DEF Spec, Books!Spec
<1>4. Books!Spec => Books!AdmissionKept
  BY LedgerAssumptions, Books!LedgerKeepsPromise
<1>5. QED
  BY <1>3, <1>4, PTL

-----------------------------------------------------------------------------
(* The provider pool *)

\* The names in a store are its keys.
NamesAreKeys(s) == \A i, j \in DOMAIN s : i # j => s[i].name # s[j].name

\* No provider in R is enabled in s.
NoneEnabled(s, R) == \A i \in DOMAIN s : s[i].enabled => s[i].name \notin R

\* What was retired is not enabled in the store or its file, and what was retired before
\* the start is not in the pool.
RetiredStayOut ==
    ~lost => /\ NoneEnabled(store, retired) /\ NoneEnabled(disk, retired)
             /\ \A i \in DOMAIN pool : pool[i].name \notin atStart

\* A round checks the workers in their order, and they all wait for the next round when
\* it is over.
RoundIsInOrder ==
    /\ Len(round) <= Len(pool)
    /\ \A j \in DOMAIN round : round[j] = Len(pool) - Len(round) + j

\* How long ago a worker was last checked: since then those behind it had their turn, a
\* sleep may have come, and those in front of it in the next round.
ChecksAreRecent ==
    /\ timer <= IF round = << >> THEN HealthInterval ELSE HealthTimeout
    /\ \A i \in DOMAIN pool :
          pool[i].checked /\ pool[i].failures = 0 =>
            pool[i].age + i * HealthTimeout + timer <=
                IF round = << >> THEN Len(pool) * HealthTimeout + HealthInterval
                ELSE IF i < Head(round) THEN Head(round) * HealthTimeout
                ELSE Len(pool) * HealthTimeout + HealthInterval + Head(round) * HealthTimeout

PoolInv ==
    /\ PoolTypeOK
    /\ NamesAreKeys(store) /\ NamesAreKeys(disk)
    /\ atStart \subseteq retired
    /\ RetiredStayOut
    /\ RoundIsInOrder
    /\ ChecksAreRecent

-----------------------------------------------------------------------------
\* What is assumed of the constants, in one place.
LEMMA PoolConstants ==
    /\ HealthInterval \in Nat /\ HealthInterval > 0
    /\ HealthTimeout \in Nat /\ HealthTimeout > 0
    /\ MaxChanges \in Nat
    /\ TooOld = 3 * HealthInterval /\ TooOld \in Nat
BY ProviderPoolAssumption DEF TooOld

\* The time that some checks may take, one after the other.
LEMMA ChecksTake ==
    /\ \A i \in Nat : i * HealthTimeout \in Nat
    /\ \A i \in Nat : (i + 1) * HealthTimeout = i * HealthTimeout + HealthTimeout
    /\ \A i, j \in Nat : i <= j => i * HealthTimeout <= j * HealthTimeout
<1>1. \A i \in Nat, h \in Nat : i * h \in Nat
  OBVIOUS
<1>2. \A i \in Nat, h \in Nat : (i + 1) * h = i * h + h
  OBVIOUS
<1>3. \A i, j \in Nat, h \in Nat : i <= j => i * h <= j * h
  <2>1. SUFFICES ASSUME NEW i \in Nat, NEW j \in Nat, NEW h \in Nat, i <= j
                 PROVE  i * h <= j * h
    OBVIOUS
  <2>2. PICK d \in Nat : j = i + d
    <3>1. j - i \in Nat /\ j = i + (j - i)
      BY <2>1
    <3>2. QED
      BY <3>1
  <2>3. j * h = i * h + d * h /\ d * h \in Nat /\ i * h \in Nat
    BY <2>2
  <2>4. QED
    BY <2>3
<1>4. QED
  BY <1>1, <1>2, <1>3, PoolConstants

\* The providers of the environment are a store.
LEMMA EnvIsAStore == FromEnv \in Seq(Config) /\ NamesAreKeys(FromEnv)
<1>1. /\ EnvProviders \in Seq(Providers) /\ IsInjective(EnvProviders)
      /\ EnvUpstream \in [ToSet(EnvProviders) -> Upstreams]
  BY ProviderPoolAssumption
<1>2. DOMAIN EnvProviders = 1 .. Len(EnvProviders) /\ Len(EnvProviders) \in Nat
  BY <1>1, LenProperties
<1>3. \A i \in DOMAIN EnvProviders : EnvProviders[i] \in Providers
                                     /\ EnvProviders[i] \in ToSet(EnvProviders)
  BY <1>1, <1>2, ElementOfSeq DEF ToSet
<1>4. \A i \in DOMAIN EnvProviders :
        [name |-> EnvProviders[i], upstream |-> EnvUpstream[EnvProviders[i]], enabled |-> TRUE]
            \in Config
  BY <1>1, <1>3 DEF Config
<1>5. FromEnv \in Seq(Config)
  BY <1>2, <1>4, IsASeq DEF FromEnv
<1>6. \A i \in DOMAIN FromEnv : FromEnv[i].name = EnvProviders[i] /\ i \in DOMAIN EnvProviders
  BY DEF FromEnv
<1>7. QED
  BY <1>1, <1>5, <1>6 DEF NamesAreKeys, IsInjective

\* The workers of a pool that was just filled are those enabled in the store, unchecked.
LEMMA WorkersOfStore ==
    ASSUME NEW s \in Seq(Config)
    PROVE  /\ Workers(s) \in Seq(Worker)
           /\ \A k \in DOMAIN Workers(s) :
                /\ ~Workers(s)[k].checked
                /\ \E i \in DOMAIN s : s[i].enabled /\ Workers(s)[k].name = s[i].name
<1>1. /\ Enabled(s) \in Seq(Config)
      /\ \A k \in DOMAIN Enabled(s) : \E i \in DOMAIN s : s[i].enabled /\ Enabled(s)[k] = s[i]
  <2> DEFINE I == {i \in DOMAIN s : s[i].enabled}
  <2>1. Enabled(s) = SelectAt(s, I)
    BY DEF Enabled
  <2>2. /\ SelectAt(s, I) \in Seq(Config)
        /\ \A k \in DOMAIN SelectAt(s, I) :
              \E i \in I \cap DOMAIN s : SelectAt(s, I)[k] = s[i]
    <3> HIDE DEF I
    <3>1. QED
      BY SelectedMembers
  <2>3. QED
    BY <2>1, <2>2
<1> DEFINE e == Enabled(s)
           W(c) == [name |-> c.name, upstream |-> c.upstream,
                    age |-> 0, checked |-> FALSE, failures |-> 0]
<1>2. DOMAIN e = 1 .. Len(e) /\ Len(e) \in Nat
  BY <1>1, LenProperties
<1> HIDE DEF e
<1>3. \A c \in Config : W(c) \in Worker
  BY PoolConstants DEF Config, Worker
<1>4. \A k \in DOMAIN e : e[k] \in Config
  BY <1>1, <1>2, ElementOfSeq DEF e
<1>5. Workers(s) = [k \in 1 .. Len(e) |-> W(e[k])]
  BY <1>2 DEF Workers, e
<1>6. Workers(s) \in Seq(Worker)
  BY <1>2, <1>3, <1>4, <1>5, IsASeq
<1>7. \A k \in DOMAIN Workers(s) : k \in DOMAIN e /\ Workers(s)[k] = W(e[k])
  BY <1>2, <1>5
<1>8. QED
  BY <1>1, <1>6, <1>7 DEF e

\* A start leaves everything in order, given that of the file.
LEMMA RestartInv ==
    ASSUME PoolInv, NEW file \in Seq(Config), NamesAreKeys(file),
           ~lost => NoneEnabled(file, retired),
           Restart(file), changes' \in 0 .. MaxChanges
    PROVE  PoolInv'
<1>1. /\ store' = Loaded(file) /\ disk' = store' /\ pool' = Workers(store')
      /\ round' = << >> /\ timer' = HealthInterval
      /\ lost' = (lost \/ file = << >>)
      /\ atStart' = retired /\ retired' = retired
  BY DEF Restart
<1>2. store' \in Seq(Config) /\ NamesAreKeys(store')
  BY <1>1, EnvIsAStore DEF Loaded
<1>3. /\ pool' \in Seq(Worker)
      /\ \A k \in DOMAIN pool' :
           /\ ~pool'[k].checked
           /\ \E i \in DOMAIN store' : store'[i].enabled /\ pool'[k].name = store'[i].name
  BY <1>1, <1>2, WorkersOfStore
<1>4. ~lost' => store' = file /\ NoneEnabled(file, retired)
  BY <1>1 DEF Loaded, PoolInv, PoolTypeOK
<1>5. PoolTypeOK'
  BY <1>1, <1>2, <1>3, PoolConstants DEF PoolInv, PoolTypeOK
<1>6. RetiredStayOut'
  <2>1. ~lost' => /\ NoneEnabled(store', retired') /\ NoneEnabled(disk', retired')
    BY <1>1, <1>4
  <2>2. ~lost' => \A i \in DOMAIN pool' : pool'[i].name \notin atStart'
    BY <1>1, <1>3, <1>4 DEF NoneEnabled
  <2>3. QED
    BY <2>1, <2>2 DEF RetiredStayOut, NoneEnabled
<1>7. RoundIsInOrder'
  <2>1. Len(round') = 0 /\ DOMAIN round' = {} /\ Len(pool') \in Nat
    BY <1>1, <1>3, LenProperties
  <2>2. QED
    BY <2>1 DEF RoundIsInOrder
<1>8. ChecksAreRecent'
  <2>1. timer' <= HealthInterval /\ \A i \in DOMAIN pool' : ~pool'[i].checked
    BY <1>1, <1>3, PoolConstants
  <2>2. QED
    BY <1>1, <2>1 DEF ChecksAreRecent
<1>9. QED
  BY <1>1, <1>2, <1>5, <1>6, <1>7, <1>8 DEF PoolInv, NamesAreKeys

\* A save leaves everything in order when the operator is told of no enabled provider
\* that it is retired.
LEMMA SaveInv ==
    ASSUME PoolInv, NEW s \in Seq(Config), NamesAreKeys(s), NEW told \in SUBSET Providers,
           ~lost => NoneEnabled(s, told), Save(s, told)
    PROVE  PoolInv'
<1>1. changes' = changes + 1 /\ changes < MaxChanges /\ changes' \in 0 .. MaxChanges
  BY PoolConstants DEF Save, PoolInv, PoolTypeOK
<1>2. CASE Restart(Torn)
  <2>1. Torn \in Seq(Config) /\ NamesAreKeys(Torn) /\ NoneEnabled(Torn, retired)
    BY DEF Torn, NamesAreKeys, NoneEnabled
  <2>2. QED
    BY <1>1, <1>2, <2>1, RestartInv
<1>3. CASE /\ store' = s
           /\ disk' \in {s, disk, Torn}
           /\ retired' = IF disk' = s THEN told ELSE retired \cap told
           /\ atStart' = atStart \cap retired'
           /\ UNCHANGED <<poolHealth, lost>>
  <2>1. UNCHANGED <<pool, round, timer, lost>>
    BY <1>3 DEF poolHealth
  <2>2. disk' \in Seq(Config) /\ NamesAreKeys(disk')
    <3>1. << >> \in Seq(Config) /\ NamesAreKeys(<< >>)
      BY DEF NamesAreKeys
    <3>2. disk' = s \/ disk' = disk \/ disk' = << >>
      BY <1>3 DEF Torn
    <3>3. disk \in Seq(Config) /\ NamesAreKeys(disk)
      BY DEF PoolInv, PoolTypeOK
    <3>4. QED
      BY <3>1, <3>2, <3>3 DEF NamesAreKeys
  <2>3. /\ retired' \subseteq told
        /\ \/ disk' = s
           \/ disk' = Torn
           \/ disk' = disk /\ retired' \subseteq retired
    BY <1>3
  <2>4. PoolTypeOK'
    BY <1>1, <1>3, <2>1, <2>2, <2>3 DEF PoolInv, PoolTypeOK
  <2>5. RetiredStayOut'
    <3>1. SUFFICES ASSUME ~lost
                   PROVE  /\ NoneEnabled(store', retired') /\ NoneEnabled(disk', retired')
                          /\ \A i \in DOMAIN pool : pool[i].name \notin atStart'
      BY <2>1 DEF RetiredStayOut, NoneEnabled
    <3>2. NoneEnabled(store', retired')
      BY <1>3, <2>3, <3>1 DEF NoneEnabled
    <3>3. NoneEnabled(disk', retired')
      BY <2>3, <3>1 DEF NoneEnabled, PoolInv, RetiredStayOut, Torn
    <3>4. \A i \in DOMAIN pool : pool[i].name \notin atStart'
      BY <1>3, <3>1 DEF PoolInv, RetiredStayOut
    <3>5. QED
      BY <3>2, <3>3, <3>4
  <2>6. RoundIsInOrder' /\ ChecksAreRecent'
    BY <2>1 DEF PoolInv, RoundIsInOrder, ChecksAreRecent
  <2>7. atStart' \subseteq retired'
    BY <1>3
  <2>8. QED
    BY <1>3, <2>2, <2>4, <2>5, <2>6, <2>7 DEF PoolInv, NamesAreKeys
<1>4. QED
  BY <1>2, <1>3 DEF Save

LEMMA AddProviderInv ==
    ASSUME PoolInv, NEW c \in Config, AddProvider(c) PROVE PoolInv'
<1> DEFINE s == Append(store, c)
           told == IF c.enabled THEN retired \ {c.name} ELSE retired
<1>1. /\ \A i \in DOMAIN store : store[i].name # c.name
      /\ Save(s, told)
      /\ store \in Seq(Config) /\ NamesAreKeys(store) /\ retired \in SUBSET Providers
      /\ c.name \in Providers
  BY DEF AddProvider, PoolInv, PoolTypeOK, Config
<1>2. /\ s \in Seq(Config) /\ DOMAIN s = 1 .. Len(store) + 1
      /\ DOMAIN store = 1 .. Len(store) /\ Len(store) \in Nat
      /\ \A i \in DOMAIN store : s[i] = store[i]
      /\ s[Len(store) + 1] = c
  BY <1>1, AppendProperties, LenProperties
<1> HIDE DEF s
<1>3. NamesAreKeys(s)
  BY <1>1, <1>2 DEF NamesAreKeys
<1>4. ~lost => NoneEnabled(s, told)
  <2>1. ~lost => NoneEnabled(store, retired)
    BY DEF PoolInv, RetiredStayOut
  <2>2. QED
    BY <1>2, <2>1 DEF NoneEnabled
<1>5. told \in SUBSET Providers
  BY <1>1
<1> HIDE DEF told
<1>6. QED
  BY <1>1, <1>2, <1>3, <1>4, <1>5, SaveInv

LEMMA UpdateProviderInv ==
    ASSUME PoolInv, NEW i \in DOMAIN store, NEW c \in Config, UpdateProvider(i, c)
    PROVE  PoolInv'
<1> DEFINE s == [store EXCEPT ![i] = c]
           told == IF c.enabled THEN retired \ {c.name} ELSE retired \cup {c.name}
<1>1. /\ c.name = store[i].name
      /\ Save(s, told)
      /\ store \in Seq(Config) /\ NamesAreKeys(store) /\ retired \in SUBSET Providers
      /\ c.name \in Providers
  BY DEF UpdateProvider, PoolInv, PoolTypeOK, Config
<1>2. /\ s \in Seq(Config) /\ DOMAIN s = DOMAIN store
      /\ \A j \in DOMAIN store : s[j] = IF j = i THEN c ELSE store[j]
  BY <1>1, ExceptSeq
<1> HIDE DEF s
<1>3. NamesAreKeys(s)
  BY <1>1, <1>2 DEF NamesAreKeys
<1>4. ~lost => NoneEnabled(s, told)
  <2>1. ~lost => NoneEnabled(store, retired)
    BY DEF PoolInv, RetiredStayOut
  <2>2. \A j \in DOMAIN store : j # i => store[j].name # c.name
    BY <1>1 DEF NamesAreKeys
  <2>3. QED
    BY <1>2, <2>1, <2>2 DEF NoneEnabled
<1>5. told \in SUBSET Providers
  BY <1>1
<1> HIDE DEF told
<1>6. QED
  BY <1>1, <1>2, <1>3, <1>4, <1>5, SaveInv

\* A row less: the others keep their order.
LEMMA RemovedRow ==
    ASSUME NEW s \in Seq(Config), NEW i \in DOMAIN s
    PROVE  /\ RemoveAt(s, i) \in Seq(Config)
           /\ DOMAIN RemoveAt(s, i) = 1 .. Len(s) - 1
           /\ \A j \in 1 .. Len(s) - 1 :
                /\ j < i => j \in DOMAIN s /\ RemoveAt(s, i)[j] = s[j]
                /\ j >= i => j + 1 \in DOMAIN s /\ RemoveAt(s, i)[j] = s[j + 1]
<1>1. DOMAIN s = 1 .. Len(s) /\ Len(s) \in Nat /\ i \in 1 .. Len(s)
  BY LenProperties
<1> DEFINE a == SubSeq(s, 1, i - 1)
           b == SubSeq(s, i + 1, Len(s))
<1>2. /\ a \in Seq(Config) /\ Len(a) = i - 1
      /\ \A j \in 1 .. i - 1 : a[j] = s[j]
  <2>1. CASE i = 1
    <3>1. a = << >>
      BY <1>1, <2>1, SubSeqEmpty
    <3>2. << >> \in Seq(Config) /\ Len(<< >>) = 0
      OBVIOUS
    <3> HIDE DEF a
    <3>3. QED
      BY <2>1, <3>1, <3>2
  <2>2. CASE i > 1
    <3>1. 1 \in 1 .. Len(s) + 1 /\ i - 1 \in 1 - 1 .. Len(s)
      BY <1>1, <2>2
    <3>2. QED
      BY <1>1, <2>2, <3>1, SubSeqProperties
  <2>3. QED
    BY <1>1, <2>1, <2>2
<1>3. /\ b \in Seq(Config) /\ Len(b) = Len(s) - i
      /\ \A j \in 1 .. Len(s) - i : b[j] = s[i + j]
  <2>1. i + 1 \in 1 .. Len(s) + 1 /\ Len(s) \in (i + 1) - 1 .. Len(s)
    BY <1>1
  <2>2. /\ b \in Seq(Config)
        /\ Len(b) = IF i + 1 <= Len(s) THEN Len(s) - (i + 1) + 1 ELSE 0
        /\ \A j \in 1 .. Len(s) - (i + 1) + 1 : b[j] = s[(i + 1) + j - 1]
    BY <1>1, <2>1, SubSeqProperties
  <2> HIDE DEF b
  <2>3. Len(s) - (i + 1) + 1 = Len(s) - i /\ (i + 1 <= Len(s) \/ Len(s) - i = 0)
    BY <1>1
  <2>4. Len(b) = Len(s) - i
    BY <1>1, <2>2, <2>3
  <2>5. \A j \in 1 .. Len(s) - i : (i + 1) + j - 1 = i + j
    BY <1>1
  <2>6. \A j \in 1 .. Len(s) - i : b[j] = s[i + j]
    BY <2>2, <2>3, <2>5
  <2>7. QED
    BY <2>2, <2>4, <2>6
<1> HIDE DEF a, b
<1>4. RemoveAt(s, i) = a \o b
  BY DEF RemoveAt, a, b
<1>5. /\ a \o b \in Seq(Config) /\ Len(a \o b) = Len(s) - 1
      /\ \A j \in 1 .. Len(s) - 1 :
            (a \o b)[j] = IF j <= Len(a) THEN a[j] ELSE b[j - Len(a)]
  <2>1. /\ a \o b \in Seq(Config) /\ Len(a \o b) = Len(a) + Len(b)
        /\ \A j \in 1 .. Len(a) + Len(b) :
              (a \o b)[j] = IF j <= Len(a) THEN a[j] ELSE b[j - Len(a)]
    BY <1>2, <1>3, ConcatProperties
  <2>2. Len(a) + Len(b) = Len(s) - 1
    BY <1>1, <1>2, <1>3
  <2>3. QED
    BY <2>1, <2>2
<1>6. DOMAIN (a \o b) = 1 .. Len(s) - 1
  BY <1>5, LenProperties
<1>7. \A j \in 1 .. Len(s) - 1 :
        /\ j < i => j \in DOMAIN s /\ (a \o b)[j] = s[j]
        /\ j >= i => j + 1 \in DOMAIN s /\ (a \o b)[j] = s[j + 1]
  <2>1. TAKE j \in 1 .. Len(s) - 1
  <2>2. CASE j < i
    BY <1>1, <1>2, <1>5, <2>2
  <2>3. CASE j >= i
    <3>1. j - Len(a) \in 1 .. Len(s) - i /\ ~ (j <= Len(a)) /\ i + (j - Len(a)) = j + 1
      BY <1>1, <1>2, <2>3
    <3>2. (a \o b)[j] = s[j + 1]
      BY <1>3, <1>5, <3>1
    <3>3. QED
      BY <1>1, <2>3, <3>2
  <2>4. QED
    BY <1>1, <2>2, <2>3
<1>8. QED
  BY <1>4, <1>5, <1>6, <1>7

LEMMA DeleteProviderInv ==
    ASSUME PoolInv, NEW i \in DOMAIN store, DeleteProvider(i) PROVE PoolInv'
<1> DEFINE s == RemoveAt(store, i)
           told == retired \cup {store[i].name}
<1>1. /\ Save(s, told)
      /\ store \in Seq(Config) /\ NamesAreKeys(store) /\ retired \in SUBSET Providers
  BY DEF DeleteProvider, PoolInv, PoolTypeOK
<1>2. DOMAIN store = 1 .. Len(store) /\ Len(store) \in Nat /\ store[i] \in Config
  BY <1>1, LenProperties, ElementOfSeq
<1>3. /\ s \in Seq(Config) /\ DOMAIN s = 1 .. Len(store) - 1
      /\ \A j \in DOMAIN s :
            /\ j < i => j \in DOMAIN store /\ s[j] = store[j]
            /\ j >= i => j + 1 \in DOMAIN store /\ s[j] = store[j + 1]
  BY <1>1, RemovedRow
<1> HIDE DEF s
<1>4. \A j \in DOMAIN s : \E k \in DOMAIN store : k # i /\ s[j] = store[k]
  BY <1>2, <1>3
<1>5. NamesAreKeys(s)
  <2>1. SUFFICES ASSUME NEW j \in DOMAIN s, NEW k \in DOMAIN s, j # k
                 PROVE  s[j].name # s[k].name
    BY DEF NamesAreKeys
  <2>2. PICK p \in DOMAIN store, q \in DOMAIN store : p # q /\ s[j] = store[p] /\ s[k] = store[q]
    <3>1. CASE j < i /\ k < i
      BY <1>3, <2>1, <3>1
    <3>2. CASE j < i /\ k >= i
      <4>1. j # k + 1
        BY <1>2, <1>3, <3>2
      <4>2. QED
        BY <1>3, <3>2, <4>1
    <3>3. CASE j >= i /\ k < i
      <4>1. j + 1 # k
        BY <1>2, <1>3, <3>3
      <4>2. QED
        BY <1>3, <3>3, <4>1
    <3>4. CASE j >= i /\ k >= i
      <4>1. j + 1 # k + 1
        BY <1>3, <2>1
      <4>2. QED
        BY <1>3, <3>4, <4>1
    <3>5. QED
      BY <1>2, <1>3, <3>1, <3>2, <3>3, <3>4
  <2>3. QED
    BY <1>1, <2>2 DEF NamesAreKeys
<1>6. ~lost => NoneEnabled(s, told)
  <2>1. ~lost => NoneEnabled(store, retired)
    BY DEF PoolInv, RetiredStayOut
  <2>2. \A k \in DOMAIN store : k # i => store[k].name # store[i].name
    BY <1>1 DEF NamesAreKeys
  <2>3. QED
    BY <1>4, <2>1, <2>2 DEF NoneEnabled
<1>7. told \in SUBSET Providers
  BY <1>1, <1>2 DEF Config
<1> HIDE DEF told
<1>8. QED
  BY <1>1, <1>3, <1>5, <1>6, <1>7, SaveInv

LEMMA PoolCrashInv == ASSUME PoolInv, PoolCrash PROVE PoolInv'
<1>1. Restart(disk) /\ changes' \in 0 .. MaxChanges
  BY PoolConstants DEF PoolCrash, PoolInv, PoolTypeOK
<1>2. disk \in Seq(Config) /\ NamesAreKeys(disk) /\ (~lost => NoneEnabled(disk, retired))
  BY DEF PoolInv, PoolTypeOK, RetiredStayOut
<1>3. QED
  BY <1>1, <1>2, RestartInv

-----------------------------------------------------------------------------
\* The pool and the round as the health loop finds them.
LEMMA PoolAtHand ==
    ASSUME PoolInv
    PROVE  /\ pool \in Seq(Worker) /\ DOMAIN pool = 1 .. Len(pool) /\ Len(pool) \in Nat
           /\ round \in Seq(1 .. Len(pool)) /\ DOMAIN round = 1 .. Len(round)
           /\ Len(round) \in Nat /\ Len(round) <= Len(pool)
           /\ timer \in Nat
           /\ \A i \in DOMAIN pool :
                /\ pool[i] \in Worker
                /\ pool[i].age \in 0 .. TooOld /\ pool[i].failures \in 0 .. 3
                /\ pool[i].checked \in BOOLEAN
           /\ round # << >> =>
                /\ Head(round) = Len(pool) - Len(round) + 1
                /\ Head(round) \in DOMAIN pool /\ Len(round) >= 1
<1>1. pool \in Seq(Worker) /\ round \in Seq(1 .. Len(pool)) /\ timer \in Nat
  BY DEF PoolInv, PoolTypeOK
<1>2. /\ DOMAIN pool = 1 .. Len(pool) /\ Len(pool) \in Nat
      /\ DOMAIN round = 1 .. Len(round) /\ Len(round) \in Nat
  BY <1>1, LenProperties
<1>3. \A i \in DOMAIN pool : pool[i] \in Worker
  BY <1>1, <1>2, ElementOfSeq
<1>4. \A w \in Worker : w.age \in 0 .. TooOld /\ w.failures \in 0 .. 3 /\ w.checked \in BOOLEAN
  BY DEF Worker
<1>5. Len(round) <= Len(pool) /\ \A j \in DOMAIN round : round[j] = Len(pool) - Len(round) + j
  BY DEF PoolInv, RoundIsInOrder
<1>6. ASSUME round # << >>
      PROVE  /\ Head(round) = Len(pool) - Len(round) + 1
             /\ Head(round) \in DOMAIN pool /\ Len(round) >= 1
  <2>1. Len(round) >= 1 /\ Head(round) = round[1]
    BY <1>1, <1>2, <1>6, EmptySeq, HeadTailProperties
  <2>2. 1 \in DOMAIN round
    BY <1>2, <2>1
  <2>3. QED
    BY <1>2, <1>5, <2>1, <2>2
<1>7. QED
  BY <1>1, <1>2, <1>3, <1>4, <1>5, <1>6

\* The health loop leaves the store and what was retired alone, and renames no worker.
LEMMA HealthKeepsStore ==
    ASSUME PoolInv, UNCHANGED <<store, disk, changes, poolHistory>>,
           pool' \in Seq(Worker), DOMAIN pool' = DOMAIN pool,
           \A i \in DOMAIN pool : pool'[i].name = pool[i].name,
           round' \in Seq(1 .. Len(pool)), timer' \in Nat,
           RoundIsInOrder', ChecksAreRecent'
    PROVE  PoolInv'
<1>1. Len(pool') = Len(pool)
  BY PoolAtHand, LenProperties
<1>2. UNCHANGED <<retired, atStart, lost>>
  BY DEF poolHistory
<1>3. PoolTypeOK'
  BY <1>1, <1>2 DEF PoolInv, PoolTypeOK
<1>4. RetiredStayOut'
  BY <1>2 DEF PoolInv, RetiredStayOut, NoneEnabled
<1>5. QED
  BY <1>2, <1>3, <1>4 DEF PoolInv, NamesAreKeys

LEMMA WaitInv == ASSUME PoolInv, Wait PROVE PoolInv'
<1> DEFINE W(i) == [pool[i] EXCEPT !.age = IF pool[i].checked /\ @ < TooOld THEN @ + 1 ELSE @]
<1>1. /\ timer > 0 /\ timer' = timer - 1
      /\ pool' = [i \in DOMAIN pool |-> W(i)]
      /\ UNCHANGED <<store, disk, round, changes, poolHistory>>
  BY DEF Wait
<1>2. /\ DOMAIN pool = 1 .. Len(pool) /\ Len(pool) \in Nat /\ timer \in Nat
      /\ \A i \in DOMAIN pool : pool[i] \in Worker
  BY PoolAtHand
<1>3. \A i \in DOMAIN pool : /\ W(i) \in Worker
                             /\ W(i).name = pool[i].name
                             /\ W(i).checked = pool[i].checked
                             /\ W(i).failures = pool[i].failures
                             /\ W(i).age <= pool[i].age + 1
                             /\ W(i).age \in Nat /\ pool[i].age \in Nat
  BY <1>2, PoolConstants DEF Worker
<1>4. DOMAIN pool' = DOMAIN pool /\ \A i \in DOMAIN pool : pool'[i] = W(i)
  BY <1>1
<1>5. pool' \in Seq(Worker)
  BY <1>1, <1>2, <1>3, IsASeq
<1>6. Len(pool') = Len(pool)
  BY <1>2, <1>4, <1>5, LenProperties
<1>7. RoundIsInOrder'
  BY <1>1, <1>6 DEF PoolInv, RoundIsInOrder
<1> HIDE DEF W
<1>8. ChecksAreRecent'
  <2>1. timer' <= IF round' = << >> THEN HealthInterval ELSE HealthTimeout
    BY <1>1, <1>2, PoolConstants DEF PoolInv, ChecksAreRecent
  <2>2. SUFFICES ASSUME NEW i \in DOMAIN pool, pool'[i].checked, pool'[i].failures = 0
                 PROVE  pool'[i].age + i * HealthTimeout + timer' <=
                IF round = << >> THEN Len(pool) * HealthTimeout + HealthInterval
                ELSE IF i < Head(round) THEN Head(round) * HealthTimeout
                ELSE Len(pool) * HealthTimeout + HealthInterval + Head(round) * HealthTimeout
    BY <1>1, <1>4, <1>6, <2>1 DEF ChecksAreRecent
  <2>3. pool[i].age + i * HealthTimeout + timer <=
                IF round = << >> THEN Len(pool) * HealthTimeout + HealthInterval
                ELSE IF i < Head(round) THEN Head(round) * HealthTimeout
                ELSE Len(pool) * HealthTimeout + HealthInterval + Head(round) * HealthTimeout
    BY <1>3, <1>4, <2>2 DEF PoolInv, ChecksAreRecent
  <2>4. pool'[i].age + i * HealthTimeout + timer' <= pool[i].age + i * HealthTimeout + timer
    <3>1. pool'[i].age <= pool[i].age + 1 /\ pool'[i].age \in Nat /\ pool[i].age \in Nat
      BY <1>3, <1>4
    <3>2. i * HealthTimeout \in Nat
      BY <1>2, ChecksTake
    <3>3. QED
      BY <1>1, <1>2, <3>1, <3>2
  <2> DEFINE bound == IF round = << >> THEN Len(pool) * HealthTimeout + HealthInterval
                      ELSE IF i < Head(round) THEN Head(round) * HealthTimeout
                      ELSE Len(pool) * HealthTimeout + HealthInterval + Head(round) * HealthTimeout
             taken == i * HealthTimeout
  <2>5. bound \in Nat /\ taken \in Nat
    <3>1. i \in Nat /\ Len(pool) \in Nat /\ (round # << >> => Head(round) \in Nat)
      BY <1>2, PoolAtHand
    <3>3. /\ round # << >> => Head(round) * HealthTimeout \in Nat
          /\ Len(pool) * HealthTimeout \in Nat /\ i * HealthTimeout \in Nat
      <4>1. \A n \in Nat : n * HealthTimeout \in Nat
        BY ChecksTake
      <4>2. QED
        BY <3>1, <4>1
    <3>2. QED
      BY <3>3, PoolConstants
  <2>6. pool'[i].age \in Nat /\ pool[i].age \in Nat /\ timer' \in Int /\ timer \in Nat
    BY <1>1, <1>2, <1>3, <1>4
  <2>7. pool[i].age + taken + timer <= bound
    BY <2>3
  <2>8. pool'[i].age + taken + timer' <= pool[i].age + taken + timer
    BY <2>4
  <2> HIDE DEF bound, taken
  <2>9. pool'[i].age + taken + timer' <= bound
    BY <2>5, <2>6, <2>7, <2>8
  <2>10. QED
    BY <2>9 DEF bound, taken
<1>9. timer' \in Nat /\ round' \in Seq(1 .. Len(pool))
  BY <1>1, <1>2, PoolAtHand
<1>10. \A i \in DOMAIN pool : pool'[i].name = pool[i].name
  BY <1>3, <1>4
<1>11. QED
  BY <1>1, <1>4, <1>5, <1>7, <1>8, <1>9, <1>10, HealthKeepsStore

LEMMA BeginRoundInv == ASSUME PoolInv, BeginRound PROVE PoolInv'
<1>1. /\ round = << >> /\ timer = 0
      /\ round' = [i \in DOMAIN pool |-> i]
      /\ timer' = IF pool = << >> THEN HealthInterval ELSE HealthTimeout
      /\ UNCHANGED <<store, disk, pool, changes, poolHistory>>
  BY DEF BeginRound
<1>2. /\ DOMAIN pool = 1 .. Len(pool) /\ Len(pool) \in Nat /\ pool \in Seq(Worker)
      /\ \A i \in DOMAIN pool : pool[i].age \in Nat
  BY PoolAtHand, PoolConstants
<1>3. round' \in Seq(1 .. Len(pool))
  BY <1>1, <1>2, IsASeq
<1>4. Len(round') = Len(pool) /\ DOMAIN round' = 1 .. Len(pool)
  BY <1>1, <1>2, <1>3, LenProperties
<1>5. RoundIsInOrder'
  BY <1>1, <1>2, <1>4 DEF RoundIsInOrder
<1>6. ChecksAreRecent'
  <2>1. CASE pool = << >>
    <3>1. Len(pool) = 0 /\ DOMAIN pool = {}
      BY <1>2, <2>1
    <3>2. round' = << >>
      BY <1>3, <1>4, <3>1, EmptySeq
    <3>3. QED
      BY <1>1, <2>1, <3>1, <3>2, PoolConstants DEF ChecksAreRecent
  <2>2. CASE pool # << >>
    <3>1. Len(pool) > 0
      BY <1>2, <2>2, EmptySeq
    <3>2. round' # << >> /\ Head(round') = 1
      <4>1. round' # << >> /\ Head(round') = round'[1]
        BY <1>3, <1>4, <3>1, EmptySeq, HeadTailProperties
      <4>2. QED
        BY <1>1, <1>2, <3>1, <4>1
    <3>3. timer' = HealthTimeout
      BY <1>1, <2>2
    <3>4. SUFFICES \A i \in DOMAIN pool : pool[i].checked /\ pool[i].failures = 0 =>
                     pool[i].age + i * HealthTimeout + HealthTimeout <=
                       Len(pool) * HealthTimeout + HealthInterval + 1 * HealthTimeout
      <4>1. \A i \in DOMAIN pool : ~ (i < 1)
        BY <1>2
      <4>2. QED
        BY <1>1, <1>2, <3>2, <3>3, <4>1, PoolConstants DEF ChecksAreRecent
    <3> TAKE i \in DOMAIN pool
    <3> HAVE pool[i].checked /\ pool[i].failures = 0
    <3>5. pool[i].age + i * HealthTimeout + 0 <= Len(pool) * HealthTimeout + HealthInterval
      BY <1>1 DEF PoolInv, ChecksAreRecent
    <3>6. i * HealthTimeout \in Nat /\ Len(pool) * HealthTimeout \in Nat
      BY <1>2, ChecksTake
    <3>8. 1 * HealthTimeout = HealthTimeout
      BY PoolConstants
    <3>7. QED
      BY <1>2, <3>5, <3>6, <3>8, PoolConstants
  <2>3. QED
    BY <2>1, <2>2
<1>7. timer' \in Nat
  BY <1>1, PoolConstants
<1>8. QED
  BY <1>1, <1>2, <1>3, <1>5, <1>6, <1>7, HealthKeepsStore

\* A check starts the count of its worker again or ends its claim to answer; the others
\* have waited a check longer.
LEMMA CheckWorkerInv == ASSUME PoolInv, CheckWorker PROVE PoolInv'
<1>15. PICK k : k = Head(round)
  OBVIOUS
<1>1. /\ round # << >>
      /\ pool' = [pool EXCEPT ![k] = CheckAnswered(pool[k])] \/ pool' = [pool EXCEPT ![k] = CheckFailed(pool[k])]
      /\ round' = Tail(round)
      /\ timer' = IF round' = << >> THEN HealthInterval ELSE HealthTimeout
      /\ UNCHANGED <<store, disk, changes, poolHistory>>
  <2>1. PICK ok \in BOOLEAN :
          pool' = [pool EXCEPT ![k] = IF ok THEN CheckAnswered(pool[k]) ELSE CheckFailed(pool[k])]
    BY <1>15 DEF CheckWorker
  <2>2. pool' = [pool EXCEPT ![k] = CheckAnswered(pool[k])] \/ pool' = [pool EXCEPT ![k] = CheckFailed(pool[k])]
    BY <2>1
  <2>3. QED
    BY <2>2 DEF CheckWorker
<1>2. /\ pool \in Seq(Worker) /\ DOMAIN pool = 1 .. Len(pool) /\ Len(pool) \in Nat
      /\ round \in Seq(1 .. Len(pool)) /\ Len(round) \in Nat /\ Len(round) >= 1
      /\ k = Len(pool) - Len(round) + 1 /\ k \in DOMAIN pool /\ timer \in Nat
      /\ \A i \in DOMAIN pool : pool[i] \in Worker /\ pool[i].age \in Nat
  BY <1>1, <1>15, PoolAtHand, PoolConstants
<1>16. pool[k] \in Worker
  BY <1>2
<1>3. \A v \in Worker : CheckAnswered(v) \in Worker /\ CheckAnswered(v).name = v.name /\ CheckAnswered(v).age = 0
  <2>1. TAKE v \in Worker
  <2> DEFINE a == [v EXCEPT !.age = 0]
             b == [a EXCEPT !.checked = TRUE]
             c == [b EXCEPT !.failures = 0]
  <2>2. CheckAnswered(v) = c
    BY DEF CheckAnswered, Worker
  <2>3. a \in Worker /\ a.name = v.name /\ a.age = 0
    BY PoolConstants DEF Worker
  <2> HIDE DEF a
  <2>4. b \in Worker /\ b.name = v.name /\ b.age = 0
    BY <2>3 DEF Worker
  <2> HIDE DEF b
  <2>5. c \in Worker /\ c.name = v.name /\ c.age = 0
    BY <2>4 DEF Worker
  <2>6. QED
    BY <2>2, <2>5
<1>4. \A v \in Worker : CheckFailed(v) \in Worker /\ CheckFailed(v).name = v.name /\ CheckFailed(v).failures # 0
  BY DEF CheckFailed, Worker
<1>5. PICK w \in Worker : /\ pool' = [pool EXCEPT ![k] = w] /\ w.name = pool[k].name
                          /\ w.age = 0 \/ w.failures # 0
  BY <1>1, <1>3, <1>4, <1>16
<1>6. /\ pool' \in Seq(Worker) /\ DOMAIN pool' = DOMAIN pool /\ Len(pool') = Len(pool)
      /\ pool'[k] = w /\ \A i \in DOMAIN pool : i # k => pool'[i] = pool[i]
  BY <1>2, <1>5, ExceptSeq
<1>7. /\ round' \in Seq(1 .. Len(pool)) /\ Len(round') = Len(round) - 1
      /\ \A j \in 1 .. Len(round) - 1 : round'[j] = round[j + 1]
  BY <1>1, <1>2, EmptySeq, HeadTailProperties
<1>8. RoundIsInOrder'
  <2>1. /\ DOMAIN round' = 1 .. Len(round) - 1 /\ DOMAIN round = 1 .. Len(round)
        /\ Len(round) <= Len(pool)
    BY <1>2, <1>7, LenProperties DEF PoolInv, RoundIsInOrder
  <2>2. \A j \in DOMAIN round' : j + 1 \in DOMAIN round /\ round'[j] = round[j + 1]
    BY <1>2, <1>7, <2>1
  <2>3. \A j \in DOMAIN round : round[j] = Len(pool) - Len(round) + j
    BY DEF PoolInv, RoundIsInOrder
  <2>4. ASSUME NEW j \in DOMAIN round'
        PROVE  round'[j] = Len(pool') - Len(round') + j
    <3>1. round'[j] = Len(pool) - Len(round) + (j + 1) /\ j \in Nat
      BY <2>1, <2>2, <2>3
    <3>2. QED
      BY <1>2, <1>6, <1>7, <3>1
  <2>5. Len(round') <= Len(pool')
    BY <1>2, <1>6, <1>7, <2>1
  <2>6. QED
    BY <2>4, <2>5 DEF RoundIsInOrder
<1>9. round' = << >> => k = Len(pool)
  <2>1. SUFFICES ASSUME round' = << >> PROVE k = Len(pool)
    OBVIOUS
  <2>2. Len(round') = 0
    BY <2>1
  <2>3. Len(round) = 1
    BY <1>2, <1>7, <2>2
  <2>4. k = Len(pool) - Len(round) + 1 /\ Len(pool) \in Nat
    BY <1>2
  <2>5. QED
    BY <2>3, <2>4
<1>10. round' # << >> => Head(round') = k + 1
  <2>1. SUFFICES ASSUME round' # << >> PROVE Head(round') = k + 1
    OBVIOUS
  <2>2. Head(round') = round'[1] /\ 1 \in 1 .. Len(round')
    BY <1>2, <1>7, <2>1, EmptySeq, HeadTailProperties
  <2>3. round'[1] = Len(pool) - Len(round') + 1
    <3>1. DOMAIN round' = 1 .. Len(round')
      BY <1>7, LenProperties
    <3>2. QED
      BY <1>6, <1>8, <2>2, <3>1 DEF RoundIsInOrder
  <2>4. QED
    BY <1>2, <1>7, <2>2, <2>3
<1>11. ChecksAreRecent'
  <2>1. timer' <= IF round' = << >> THEN HealthInterval ELSE HealthTimeout
    BY <1>1, PoolConstants
  <2>2. SUFFICES \A i \in DOMAIN pool : pool'[i].checked /\ pool'[i].failures = 0 =>
                   pool'[i].age + i * HealthTimeout + timer' <=
                      IF round' = << >> THEN Len(pool) * HealthTimeout + HealthInterval
                      ELSE IF i < k + 1 THEN (k + 1) * HealthTimeout
                      ELSE Len(pool) * HealthTimeout + HealthInterval + (k + 1) * HealthTimeout
    BY <1>6, <1>10, <2>1 DEF ChecksAreRecent
  <2> TAKE i \in DOMAIN pool
  <2> HAVE pool'[i].checked /\ pool'[i].failures = 0
  <2> DEFINE all == Len(pool) * HealthTimeout
             before == i * HealthTimeout
             now == k * HealthTimeout
             after == (k + 1) * HealthTimeout
  <2>3. all \in Nat /\ before \in Nat /\ now \in Nat /\ after = now + HealthTimeout
    <3>1. i \in Nat /\ k \in Nat
      BY <1>2
    <3>2. QED
      BY <1>2, <3>1, ChecksTake
  <2>4. k = Len(pool) => all = now
    OBVIOUS
  <2>5. CASE i = k
    <3>1. pool'[i].age = 0 /\ before = now
      BY <1>5, <1>6, <2>5
    <3>2. round' = << >> => all = now
      BY <1>9, <2>4
    <3> HIDE DEF all, before, now, after
    <3>3. pool'[i].age + before + timer' <=
                      IF round' = << >> THEN all + HealthInterval
                      ELSE IF i < k + 1 THEN after
                      ELSE all + HealthInterval + after
      <4>1. CASE round' = << >>
        BY <1>1, <2>3, <3>1, <3>2, <4>1, PoolConstants
      <4>2. CASE round' # << >>
        <5>1. k < k + 1
          BY <1>2
        <5>2. QED
          BY <1>1, <2>3, <2>5, <3>1, <4>2, <5>1, PoolConstants
      <4>3. QED
        BY <4>1, <4>2
    <3>4. QED
      BY <3>3 DEF all, before, now, after
  <2>6. CASE i # k
    <3>1. pool[i].age + before + timer <= IF i < k THEN now ELSE all + HealthInterval + now
      BY <1>1, <1>6, <1>15, <2>6 DEF PoolInv, ChecksAreRecent
    <3>2. round' = << >> => all = now /\ i < k
      BY <1>2, <1>9, <2>4, <2>6
    <3>3. pool'[i].age = pool[i].age /\ pool[i].age \in Nat
      BY <1>2, <1>6, <2>6
    <3>4. (i < k + 1) <=> (i < k)
      BY <1>2, <2>6
    <3> HIDE DEF all, before, now, after
    <3>5. pool'[i].age + before + timer' <=
                      IF round' = << >> THEN all + HealthInterval
                      ELSE IF i < k + 1 THEN after
                      ELSE all + HealthInterval + after
      <4>1. pool[i].age + before <= IF i < k THEN now ELSE all + HealthInterval + now
        <5>1. timer \in Nat
          BY <1>2
        <5>2. QED
          BY <2>3, <3>1, <3>3, <5>1, PoolConstants
      <4>2. CASE round' = << >>
        BY <1>1, <2>3, <3>2, <3>3, <4>1, <4>2, PoolConstants
      <4>3. CASE round' # << >> /\ i < k
        BY <1>1, <2>3, <3>3, <3>4, <4>1, <4>3, PoolConstants
      <4>4. CASE round' # << >> /\ ~ (i < k)
        BY <1>1, <2>3, <3>3, <3>4, <4>1, <4>4, PoolConstants
      <4>5. QED
        BY <4>2, <4>3, <4>4
    <3>6. QED
      BY <3>5 DEF all, before, now, after
  <2>7. QED
    BY <2>5, <2>6
<1>12. timer' \in Nat
  BY <1>1, PoolConstants
<1>13. \A i \in DOMAIN pool : pool'[i].name = pool[i].name
  BY <1>5, <1>6
<1>14. QED
  BY <1>1, <1>6, <1>7, <1>8, <1>11, <1>12, <1>13, HealthKeepsStore

LEMMA PoolStep == ASSUME PoolInv, [PoolNext]_poolVars PROVE PoolInv'
<1>1. ASSUME NEW c \in Config, AddProvider(c) PROVE PoolInv'
  BY <1>1, AddProviderInv
<1>2. ASSUME NEW i \in DOMAIN store, DeleteProvider(i) PROVE PoolInv'
  BY <1>2, DeleteProviderInv
<1>3. ASSUME NEW i \in DOMAIN store, NEW c \in Config, UpdateProvider(i, c) PROVE PoolInv'
  BY <1>3, UpdateProviderInv
<1>4. CASE PoolCrash
  BY <1>4, PoolCrashInv
<1>5. CASE Wait
  BY <1>5, WaitInv
<1>6. CASE BeginRound
  BY <1>6, BeginRoundInv
<1>7. CASE CheckWorker
  BY <1>7, CheckWorkerInv
<1>8. CASE UNCHANGED poolVars
  BY <1>8 DEF poolVars, PoolInv, PoolTypeOK, NamesAreKeys, RetiredStayOut, NoneEnabled,
              RoundIsInOrder, ChecksAreRecent
<1>9. QED
  BY <1>1, <1>2, <1>3, <1>4, <1>5, <1>6, <1>7, <1>8 DEF PoolNext

LEMMA PoolInitInv == PoolInit => PoolInv
<1> SUFFICES ASSUME PoolInit PROVE PoolInv
  OBVIOUS
<1>1. /\ store = FromEnv /\ disk = FromEnv /\ pool = Workers(FromEnv) /\ round = << >>
      /\ timer = HealthInterval /\ changes = 0 /\ retired = {} /\ atStart = {} /\ lost = FALSE
  BY DEF PoolInit
<1>2. FromEnv \in Seq(Config) /\ NamesAreKeys(FromEnv)
  BY EnvIsAStore
<1>3. pool \in Seq(Worker) /\ \A k \in DOMAIN pool : ~pool[k].checked
  BY <1>1, <1>2, WorkersOfStore
<1>4. PoolTypeOK
  <2>1. round \in Seq(1 .. Len(pool)) /\ timer \in Nat /\ changes \in 0 .. MaxChanges
    BY <1>1, PoolConstants
  <2>2. store \in Seq(Config) /\ disk \in Seq(Config)
    BY <1>1, <1>2
  <2>3. QED
    BY <1>1, <1>3, <2>1, <2>2 DEF PoolTypeOK
<1>5. RetiredStayOut
  BY <1>1 DEF RetiredStayOut, NoneEnabled
<1>6. RoundIsInOrder /\ ChecksAreRecent
  <2>1. Len(round) = 0 /\ DOMAIN round = {} /\ Len(pool) \in Nat
    BY <1>1, <1>3, LenProperties
  <2>2. QED
    BY <1>1, <1>3, <2>1, PoolConstants DEF RoundIsInOrder, ChecksAreRecent
<1>7. QED
  BY <1>1, <1>2, <1>4, <1>5, <1>6 DEF PoolInv

\* Names are keys, the retired stay out until the environment is imported again, a round
\* goes through the pool in order, and how old a good check can be by then is bounded.
THEOREM PoolIsInOrder == PoolSpec => []PoolInv
BY PoolInitInv, PoolStep, PTL DEF PoolSpec

-----------------------------------------------------------------------------
\* What a turn may be given: nothing through the store or the pool that was retired
\* before the start.
Given == {c \in [name: Providers, upstream: Upstreams, rung: {"own", "store", "pool", "env"}] :
            c.rung \in {"store", "pool"} => c.name \notin atStart}

\* The place SelectInSeq finds is one where its test holds.
LEMMA FoundPlace ==
    ASSUME NEW n \in Nat, NEW I, I \subseteq 1 .. n, I # {}
    PROVE  Min(I) \in I
<1>1. I \subseteq Nat
  OBVIOUS
<1>2. PICK m \in I : \A k \in I : m <= k
  BY <1>1, LeastNatural
<1>3. QED
  BY <1>2 DEF Min

LEMMA InOrderKeeps ==
    ASSUME NEW S, NEW list \in Seq(S), NEW more \in Seq(S)
    PROVE  InOrder(list, more) \in Seq(S)
<1> DEFINE I == {i \in DOMAIN more :
        /\ \A j \in DOMAIN list : list[j].upstream # more[i].upstream
        /\ \A j \in 1 .. i - 1 : more[j].upstream # more[i].upstream}
<1>1. InOrder(list, more) = list \o SelectAt(more, I)
  BY DEF InOrder
<1> HIDE DEF I
<1>2. SelectAt(more, I) \in Seq(S)
  BY SelectedMembers
<1>3. QED
  BY <1>1, <1>2, ConcatProperties

LEMMA PoolRungIsGiven ==
    ASSUME PoolInv, ~lost
    PROVE  PoolRung \in Seq(Given)
<1> DEFINE I == {i \in 1 .. Len(pool) : IsAlive(pool[i])}
           first == SelectInSeq(pool, IsAlive)
<1>1. first = IF I # {} THEN Min(I) ELSE 0
  BY DEF SelectInSeq
<1>2. DOMAIN pool = 1 .. Len(pool) /\ Len(pool) \in Nat /\ \A i \in DOMAIN pool : pool[i] \in Worker
  BY PoolAtHand
<1>3. first = 0 \/ first \in DOMAIN pool
  <2>1. CASE I = {}
    BY <1>1, <2>1
  <2>2. CASE I # {}
    <3>1. I \subseteq 1 .. Len(pool)
      OBVIOUS
    <3> HIDE DEF I
    <3>2. Min(I) \in I
      BY <1>2, <2>2, <3>1, FoundPlace
    <3>3. QED
      BY <1>1, <1>2, <2>2, <3>1, <3>2
  <2>3. QED
    BY <2>1, <2>2
<1>4. PoolRung = IF first = 0 THEN << >>
                 ELSE <<[name |-> pool[first].name, upstream |-> pool[first].upstream, rung |-> "pool"]>>
  BY DEF PoolRung
<1> HIDE DEF first
<1>5. CASE first = 0
  BY <1>4, <1>5
<1>6. CASE first \in DOMAIN pool
  <2>1. pool[first].name \notin atStart
    BY <1>6 DEF PoolInv, RetiredStayOut
  <2>2. pool[first].name \in Providers /\ pool[first].upstream \in Upstreams
    BY <1>2, <1>6 DEF Worker
  <2>3. [name |-> pool[first].name, upstream |-> pool[first].upstream, rung |-> "pool"] \in Given
    BY <2>1, <2>2 DEF Given
  <2>4. first # 0
    BY <1>2, <1>6
  <2>5. QED
    BY <1>4, <2>3, <2>4
<1>7. QED
  BY <1>3, <1>5, <1>6

LEMMA EnvRungIsGiven == EnvRung \in Seq(Given)
<1>1. CASE EnvProviders = << >>
  BY <1>1 DEF EnvRung
<1>2. CASE EnvProviders # << >>
  <2>1. EnvProviders \in Seq(Providers) /\ EnvUpstream \in [ToSet(EnvProviders) -> Upstreams]
    BY ProviderPoolAssumption
  <2>2. 1 \in DOMAIN EnvProviders
    BY <1>2, <2>1, EmptySeq, LenProperties
  <2>3. EnvProviders[1] \in Providers /\ EnvProviders[1] \in ToSet(EnvProviders)
    BY <2>1, <2>2, LenProperties, ElementOfSeq DEF ToSet
  <2>4. [name |-> EnvProviders[1], upstream |-> EnvUpstream[EnvProviders[1]], rung |-> "env"] \in Given
    BY <2>1, <2>3 DEF Given
  <2>5. QED
    BY <1>2, <2>4 DEF EnvRung
<1>3. QED
  BY <1>1, <1>2

LEMMA NamedAreGiven ==
    ASSUME PoolInv, ~lost, NEW priority \in Seq(Providers)
    PROVE  Named(priority) \in Seq(Given)
<1> DEFINE e == Enabled(store)
           I(name) == {i \in 1 .. Len(e) : e[i].name = name}
           place(name) == SelectInSeq(Enabled(store), LAMBDA c : c.name = name)
           J == {i \in DOMAIN priority : place(priority[i]) # 0}
           known == SelectAt(priority, J)
<1>1. /\ e \in Seq(Config) /\ DOMAIN e = 1 .. Len(e) /\ Len(e) \in Nat
      /\ \A k \in DOMAIN e : e[k].name \notin atStart /\ e[k] \in Config
  <2> DEFINE K == {i \in DOMAIN store : store[i].enabled}
  <2>1. e = SelectAt(store, K) /\ store \in Seq(Config)
    BY DEF Enabled, PoolInv, PoolTypeOK
  <2>2. /\ SelectAt(store, K) \in Seq(Config)
        /\ \A k \in DOMAIN SelectAt(store, K) :
              \E i \in K \cap DOMAIN store : SelectAt(store, K)[k] = store[i]
    <3>1. store \in Seq(Config)
      BY <2>1
    <3> HIDE DEF K
    <3>2. QED
      BY <3>1, SelectedMembers
  <2> HIDE DEF e
  <2>3. \A k \in DOMAIN e : e[k].name \notin atStart
    <3>1. \A i \in K : store[i].name \notin atStart
      BY DEF PoolInv, RetiredStayOut, NoneEnabled
    <3>2. QED
      BY <2>1, <2>2, <3>1
  <2>4. e \in Seq(Config) /\ DOMAIN e = 1 .. Len(e) /\ Len(e) \in Nat
    BY <2>1, <2>2, LenProperties
  <2>5. QED
    BY <2>3, <2>4, ElementOfSeq
<1>2. \A name : place(name) = IF I(name) # {} THEN Min(I(name)) ELSE 0
  BY DEF SelectInSeq
<1> HIDE DEF e, place
<1>3. ASSUME NEW name, place(name) # 0
      PROVE  place(name) \in DOMAIN e /\ e[place(name)].name = name
  <2>1. I(name) # {} /\ place(name) = Min(I(name))
    BY <1>2, <1>3
  <2>2. I(name) \subseteq 1 .. Len(e)
    OBVIOUS
  <2>3. Min(I(name)) \in I(name)
    <3> HIDE DEF I
    <3>1. QED
      BY <1>1, <2>1, <2>2, FoundPlace
  <2>4. QED
    BY <1>1, <2>1, <2>3
<1>4. /\ known \in Seq(Providers)
      /\ \A k \in DOMAIN known : place(known[k]) # 0
  <2>1. \A i \in J : place(priority[i]) # 0
    OBVIOUS
  <2> HIDE DEF J
  <2>2. /\ known \in Seq(Providers)
        /\ \A k \in DOMAIN known : \E i \in J \cap DOMAIN priority : known[k] = priority[i]
    BY SelectedMembers
  <2>3. QED
    BY <2>1, <2>2
<1> DEFINE C(name) == [name |-> name, upstream |-> e[place(name)].upstream, rung |-> "store"]
<1>5. Named(priority) = [k \in DOMAIN known |-> C(known[k])]
  BY DEF Named, e, place
<1> HIDE DEF known
<1>6. DOMAIN known = 1 .. Len(known) /\ Len(known) \in Nat /\ \A k \in DOMAIN known : known[k] \in Providers
  BY <1>4, LenProperties, ElementOfSeq
<1>7. \A k \in DOMAIN known : C(known[k]) \in Given
  <2>1. TAKE k \in DOMAIN known
  <2>2. place(known[k]) \in DOMAIN e /\ e[place(known[k])].name = known[k]
    BY <1>3, <1>4
  <2>3. known[k] \in Providers /\ known[k] \notin atStart /\ e[place(known[k])].upstream \in Upstreams
    BY <1>1, <1>6, <2>2 DEF Config
  <2>4. QED
    BY <2>3 DEF Given
<1> HIDE DEF C
<1>8. QED
  BY <1>5, <1>6, <1>7, IsASeq

LEMMA ResolvedAreGiven ==
    ASSUME PoolInv, ~lost, NEW own \in Own, NEW priority \in Priorities
    PROVE  ResolveLlm(own, priority) \in Seq(Given)
<1>1. own \in Seq(Given)
  <2>1. CASE own = << >>
    BY <2>1
  <2>2. ASSUME NEW p \in Providers, NEW u \in Upstreams,
               own = <<[name |-> p, upstream |-> u, rung |-> "own"]>>
        PROVE  own \in Seq(Given)
    <3>1. [name |-> p, upstream |-> u, rung |-> "own"] \in Given
      BY DEF Given
    <3>2. QED
      BY <2>2, <3>1
  <2>3. QED
    BY <2>1, <2>2 DEF Own
<1>2. priority \in Seq(Providers)
  <2>1. CASE priority = << >>
    BY <2>1
  <2>2. CASE priority \in [1 .. 2 -> Providers]
    <3>1. \A i \in 1 .. 2 : priority[i] \in Providers
      BY <2>2
    <3>2. priority = [i \in 1 .. 2 |-> priority[i]]
      BY <2>2
    <3>3. QED
      BY <3>1, <3>2, IsASeq
  <2>3. QED
    BY <2>1, <2>2 DEF Priorities
<1> DEFINE preferred == InOrder(own, Named(priority))
<1>3. preferred \in Seq(Given)
  BY <1>1, <1>2, NamedAreGiven, InOrderKeeps
<1>4. PoolRung \in Seq(Given) /\ EnvRung \in Seq(Given)
  BY PoolRungIsGiven, EnvRungIsGiven
<1>5. ResolveLlm(own, priority) \in {PoolRung, EnvRung, InOrder(preferred, PoolRung), <<Head(preferred)>>}
      /\ (ResolveLlm(own, priority) = <<Head(preferred)>> =>
            preferred # << >> \/ ResolveLlm(own, priority) \in {PoolRung, EnvRung})
  BY DEF ResolveLlm
<1> HIDE DEF preferred
<1>6. InOrder(preferred, PoolRung) \in Seq(Given)
  BY <1>3, <1>4, InOrderKeeps
<1>7. preferred # << >> => <<Head(preferred)>> \in Seq(Given)
  <2>1. SUFFICES ASSUME preferred # << >> PROVE <<Head(preferred)>> \in Seq(Given)
    OBVIOUS
  <2>2. Head(preferred) \in Given
    BY <1>3, <2>1, EmptySeq, HeadTailProperties
  <2>3. QED
    BY <2>2
<1>8. QED
  BY <1>4, <1>5, <1>6, <1>7

LEMMA RetiredAreUnused == PoolInv => RetiredIsUnused
<1> SUFFICES ASSUME PoolInv, ~lost, NEW own \in Own, NEW priority \in Priorities,
                    NEW c \in ToSet(ResolveLlm(own, priority)), c.rung \in {"store", "pool"}
             PROVE  c.name \notin atStart
  BY DEF RetiredIsUnused
<1>1. PICK i \in DOMAIN ResolveLlm(own, priority) : c = ResolveLlm(own, priority)[i]
  BY DEF ToSet
<1>2. c \in Given
  BY <1>1, ResolvedAreGiven, LenProperties, ElementOfSeq
<1>3. QED
  BY <1>2 DEF Given

LEMMA AnsweringAreAlive == PoolInv => AnsweringIsAlive
<1> SUFFICES ASSUME PoolInv, Len(pool) * HealthTimeout < 2 * HealthInterval,
                    NEW i \in DOMAIN pool, pool[i].checked, pool[i].failures = 0
             PROVE  IsAlive(pool[i])
  BY DEF AnsweringIsAlive
<1> DEFINE all == Len(pool) * HealthTimeout
           before == i * HealthTimeout
           now == Head(round) * HealthTimeout
<1>1. /\ DOMAIN pool = 1 .. Len(pool) /\ Len(pool) \in Nat /\ timer \in Nat
      /\ pool[i].age \in Nat
      /\ round # << >> => Head(round) \in DOMAIN pool
  BY PoolAtHand, PoolConstants
<1>2. all \in Nat /\ before \in Nat
  BY <1>1, ChecksTake
<1>3. round # << >> => /\ now \in Nat /\ now <= all
                       /\ ~ (i < Head(round)) => now <= before
  <2>1. SUFFICES ASSUME round # << >>
                 PROVE  /\ now \in Nat /\ now <= all
                        /\ ~ (i < Head(round)) => now <= before
    OBVIOUS
  <2>2. Head(round) \in Nat /\ Head(round) <= Len(pool) /\ i \in Nat
    BY <1>1, <2>1
  <2>3. /\ now \in Nat /\ now <= all
    BY <1>1, <2>2, ChecksTake
  <2>4. ASSUME ~ (i < Head(round)) PROVE now <= before
    <3>1. Head(round) <= i
      BY <2>2, <2>4
    <3>2. QED
      BY <2>2, <3>1, ChecksTake
  <2>5. QED
    BY <2>3, <2>4
<1>4. pool[i].age + before + timer <=
                IF round = << >> THEN all + HealthInterval
                ELSE IF i < Head(round) THEN now
                ELSE all + HealthInterval + now
  BY DEF PoolInv, ChecksAreRecent
<1>5. all < 2 * HealthInterval
  OBVIOUS
<1> HIDE DEF all, before, now
<1>6. pool[i].age <= all + HealthInterval
  <2>1. pool[i].age + before <= IF round = << >> THEN all + HealthInterval
                ELSE IF i < Head(round) THEN now
                ELSE all + HealthInterval + now
    <3>1. CASE round = << >>
      BY <1>1, <1>2, <1>4, <3>1, PoolConstants
    <3>2. CASE round # << >> /\ i < Head(round)
      BY <1>1, <1>2, <1>3, <1>4, <3>2, PoolConstants
    <3>3. CASE round # << >> /\ ~ (i < Head(round))
      BY <1>1, <1>2, <1>3, <1>4, <3>3, PoolConstants
    <3>4. QED
      BY <3>1, <3>2, <3>3
  <2>2. CASE round = << >>
    BY <1>1, <1>2, <2>1, <2>2, PoolConstants
  <2>3. CASE round # << >> /\ i < Head(round)
    BY <1>1, <1>2, <1>3, <2>1, <2>3, PoolConstants
  <2>4. CASE round # << >> /\ ~ (i < Head(round))
    BY <1>1, <1>2, <1>3, <2>1, <2>4, PoolConstants
  <2>5. QED
    BY <2>2, <2>3, <2>4
<1>7. pool[i].age < TooOld
  BY <1>1, <1>2, <1>5, <1>6, PoolConstants
<1>8. QED
  BY <1>7 DEF IsAlive

\* Whatever the operator edits, however the saves end, and whatever the health checks find:
\* a retired provider is not used after a start, and one that answers is not taken for dead.
THEOREM PoolIsTrueAlways == PoolSpec => []PoolIsTrue
<1>1. PoolInv => PoolIsTrue
  BY RetiredAreUnused, AnsweringAreAlive DEF PoolIsTrue
<1>2. QED
  BY <1>1, PoolIsInOrder, PTL

-----------------------------------------------------------------------------
(* The completions *)

\* Who was asked so far: the candidates from the preferred one on, in their order.
AskedInOrder ==
    \A i \in DOMAIN asked : asked[i] = Index(i - 1)

\* Where a completion stands tells how far the history has come, and leaves an attempt
\* to whoever sleeps.
RetryStands ==
    /\ completion = "idle" => asked = << >>
    /\ completion \in {"calling", "sleeping"} =>
          offset < Candidates /\ Len(asked) = offset + 1 /\ AskedInOrder /\ attempt > 0
    /\ completion = "failed" => Len(asked) = Candidates /\ AskedInOrder
    /\ completion = "sleeping" => attempt < MaxAttempts

RetryInv == RetryTypeOK /\ RetryStands /\ RetriesAreBounded

-----------------------------------------------------------------------------
\* The bounds are numbers, and there is someone to ask and an attempt to make.
LEMMA AmountsOfRetries ==
    /\ Candidates \in Nat /\ Candidates > 0 /\ MaxAttempts \in Nat /\ MaxAttempts > 0
    /\ MaxElapsed \in Nat /\ AttemptTimeout \in Nat /\ MaxBackoff \in Nat
    /\ MaxCompletions \in Nat
BY CompletionRetryAssumption

\* A number below twice a modulus is taken back by one modulus at most.
LEMMA ModuloOnce ==
    ASSUME NEW n \in Nat, n > 0, NEW x \in Nat, x < n + n
    PROVE  x % n = IF x < n THEN x ELSE x - n
<1>1. CASE x < n
  BY <1>1
<1>2. CASE x >= n
  BY <1>2
<1>3. QED
  BY <1>1, <1>2

\* The candidates are asked in a circle, each at its own place of it.
LEMMA IndexMeans ==
    ASSUME NEW a \in 0..Candidates - 1, active = a, NEW k \in 0..Candidates - 1
    PROVE  /\ Index(k) \in 0..Candidates - 1 /\ Index(0) = a
           /\ Index(k) = IF a + k < Candidates THEN a + k ELSE a + k - Candidates
<1>1. (a + k) % Candidates = IF a + k < Candidates THEN a + k ELSE a + k - Candidates
  BY ModuloOnce, AmountsOfRetries
<1>2. (a + 0) % Candidates = a
  BY ModuloOnce, AmountsOfRetries
<1>3. QED
  BY <1>1, <1>2, AmountsOfRetries DEF Index

\* The least of two numbers.
LEMMA LeastOfTwo ==
    ASSUME NEW a \in Nat, NEW b \in Nat
    PROVE  Min({a, b}) \in Nat /\ Min({a, b}) <= a /\ Min({a, b}) <= b
<1>1. \E x \in {a, b} : \A y \in {a, b} : x <= y
  <2>1. CASE a <= b
    BY <2>1
  <2>2. CASE b <= a
    BY <2>2
  <2>3. QED
    BY <2>1, <2>2
<1>2. Min({a, b}) \in {a, b} /\ \A y \in {a, b} : Min({a, b}) <= y
  BY <1>1 DEF Min
<1>3. QED
  BY <1>2

\* What is left of the time of a candidate.
LEMMA RemainingIs ==
    ASSUME spent \in Nat, spent <= MaxElapsed
    PROVE  Remaining \in Nat /\ spent + Remaining = MaxElapsed
BY AmountsOfRetries DEF Remaining

\* A wait that fits into the time left is over within it.
LEMMA WaitsFit ==
    ASSUME NEW s \in Nat, NEW d \in Nat, NEW r \in Nat, d <= r, s + r = MaxElapsed
    PROVE  s + d <= MaxElapsed
OBVIOUS

\* No wait is longer than that.
LEMMA DelaysAreShort ==
    ASSUME RetryTypeOK, spent <= MaxElapsed, attempt > 0,
           NEW category \in DOMAIN Base,
           NEW headers \in {{}} \cup {{h} : h \in RetryAfters},
           NEW d \in Delays(category, headers)
    PROVE  d \in Nat /\ d <= Remaining
<1>1. Remaining \in Nat
  BY RemainingIs DEF RetryTypeOK
<1>2. CASE headers # {}
  <2>1. PICK h \in headers : d = Min({h, Remaining})
    BY <1>2 DEF Delays
  <2>2. h \in Nat
    BY <2>1, CompletionRetryAssumption
  <2>3. QED
    BY <1>1, <2>1, <2>2, LeastOfTwo
<1>3. CASE headers = {}
  BY <1>1, <1>3 DEF Delays
<1>4. QED
  BY <1>2, <1>3

-----------------------------------------------------------------------------
\* Asking the next candidate keeps the order; the history was as long as its place.
LEMMA AskKeeps ==
    ASSUME RetryTypeOK, NEW k \in 0..Candidates - 1, NEW before \in Seq(0..Candidates - 1),
           Len(before) = k, \A i \in DOMAIN before : before[i] = Index(i - 1),
           Ask(k, before), active' = active, completions' \in 0..MaxCompletions
    PROVE  RetryInv'
<1>1. /\ completion' = "calling" /\ offset' = k /\ attempt' = 1 /\ spent' = 0
      /\ due' = Min({AttemptTimeout, MaxElapsed}) /\ asked' = Append(before, Index(k))
  BY DEF Ask
<1>2. due' \in Nat /\ due' <= MaxElapsed
  BY <1>1, LeastOfTwo, AmountsOfRetries
<1>3. Index(k) \in 0..Candidates - 1 /\ Index(0) = active
  BY IndexMeans DEF RetryTypeOK
<1>4. /\ asked' \in Seq(0..Candidates - 1) /\ Len(asked') = k + 1
      /\ DOMAIN asked' = 1..k + 1
      /\ \A i \in 1..k + 1 : asked'[i] = IF i <= k THEN before[i] ELSE Index(k)
  BY <1>1, <1>3
<1>5. RetryTypeOK'
  BY <1>1, <1>2, <1>4, AmountsOfRetries DEF RetryTypeOK
<1>6. \A i \in 1..k + 1 : asked'[i] = Index(i - 1)
  <2> SUFFICES ASSUME NEW i \in 1..k + 1 PROVE asked'[i] = Index(i - 1)
    OBVIOUS
  <2>1. CASE i <= k
    BY <1>4, <2>1
  <2>2. CASE i = k + 1
    BY <1>4, <2>2
  <2>3. QED
    BY <2>1, <2>2
<1>7. AskedInOrder'
  BY <1>4, <1>6 DEF AskedInOrder, Index
<1>8. RetryStands'
  BY <1>1, <1>4, <1>7, AmountsOfRetries DEF RetryStands
<1>9. WithinDeadline'
  BY <1>1, <1>2, AmountsOfRetries DEF WithinDeadline
<1>10. Len(asked') <= Candidates /\ active' \in 0..Candidates - 1
  BY <1>4, AmountsOfRetries DEF RetryTypeOK
<1>11. \A i, j \in DOMAIN asked' : i # j => asked'[i] # asked'[j]
  <2> SUFFICES ASSUME NEW i \in 1..k + 1, NEW j \in 1..k + 1, i # j
               PROVE  asked'[i] # asked'[j]
    BY <1>4
  <2>1. i - 1 \in 0..Candidates - 1 /\ j - 1 \in 0..Candidates - 1
    BY AmountsOfRetries
  <2>2. /\ Index(i - 1) = IF active + (i - 1) < Candidates THEN active + (i - 1)
                          ELSE active + (i - 1) - Candidates
        /\ Index(j - 1) = IF active + (j - 1) < Candidates THEN active + (j - 1)
                          ELSE active + (j - 1) - Candidates
    BY <2>1, IndexMeans DEF RetryTypeOK
  <2>3. QED
    BY <1>6, <2>1, <2>2, AmountsOfRetries DEF RetryTypeOK
<1>12. Head(asked') = active'
  BY <1>3, <1>4, <1>6
<1>13. QED
  BY <1>1, <1>5, <1>8, <1>9, <1>11, <1>12 DEF RetryInv, RetriesAreBounded, EveryCandidateOnce

\* A candidate that has failed is followed by the next, or by the end.
LEMMA NextCandidateKeeps ==
    ASSUME RetryInv, completion \in {"calling", "sleeping"}, NextCandidate,
           UNCHANGED <<active, completions>>
    PROVE  RetryInv'
<1>1. /\ RetryTypeOK /\ RetryStands /\ WithinDeadline /\ EveryCandidateOnce
  BY DEF RetryInv, RetriesAreBounded
<1>2. /\ offset < Candidates /\ Len(asked) = offset + 1 /\ AskedInOrder
  BY <1>1 DEF RetryStands
<1>3. CASE offset + 1 < Candidates
  <2>1. Ask(offset + 1, asked)
    BY <1>3 DEF NextCandidate
  <2>2. offset + 1 \in 0..Candidates - 1
    BY <1>1, <1>3, AmountsOfRetries DEF RetryTypeOK
  <2>3. asked \in Seq(0..Candidates - 1) /\ completions' \in 0..MaxCompletions
    BY <1>1 DEF RetryTypeOK
  <2>4. QED
    BY <1>1, <1>2, <2>1, <2>2, <2>3, AskKeeps DEF AskedInOrder
<1>4. CASE ~(offset + 1 < Candidates)
  <2>1. completion' = "failed" /\ offset' = offset + 1 /\ UNCHANGED <<attempt, spent, due, asked>>
    BY <1>4 DEF NextCandidate
  <2>2. offset + 1 = Candidates /\ offset \in Nat
    BY <1>1, <1>2, <1>4, AmountsOfRetries DEF RetryTypeOK
  <2>3. RetryTypeOK'
    BY <1>1, <2>1, <2>2, AmountsOfRetries DEF RetryTypeOK
  <2>4. RetryStands'
    BY <1>2, <2>1, <2>2 DEF RetryStands, AskedInOrder, Index
  <2>5. WithinDeadline' /\ EveryCandidateOnce'
    BY <1>1, <1>2, <2>1, <2>2 DEF WithinDeadline, EveryCandidateOnce
  <2>6. QED
    BY <2>3, <2>4, <2>5 DEF RetryInv, RetriesAreBounded
<1>5. QED
  BY <1>3, <1>4

\* Nobody was asked of the first completion.
LEMMA RetryStarts == RetryInit => RetryInv
<1> SUFFICES ASSUME RetryInit PROVE RetryInv
  OBVIOUS
<1>1. RetryTypeOK
  BY AmountsOfRetries DEF RetryInit, RetryTypeOK
<1>2. RetryStands
  BY DEF RetryInit, RetryStands
<1>3. RetriesAreBounded
  BY AmountsOfRetries DEF RetryInit, RetriesAreBounded, WithinDeadline, EveryCandidateOnce
<1>4. QED
  BY <1>1, <1>2, <1>3 DEF RetryInv

\* Every step keeps the order and the deadline.
LEMMA RetrySteps == RetryInv /\ [RetryNext]_retryVars => RetryInv'
<1> SUFFICES ASSUME RetryInv, [RetryNext]_retryVars PROVE RetryInv'
  OBVIOUS
<1>0. RetryTypeOK /\ RetryStands /\ WithinDeadline /\ EveryCandidateOnce
  BY DEF RetryInv, RetriesAreBounded
<1>1. CASE Complete
  <2>1. /\ Ask(0, << >>) /\ UNCHANGED active /\ completions' \in 0..MaxCompletions
    BY <1>0, <1>1, AmountsOfRetries DEF Complete, RetryTypeOK
  <2>2. 0 \in 0..Candidates - 1
    BY AmountsOfRetries
  <2>3. /\ << >> \in Seq(0..Candidates - 1) /\ Len(<< >>) = 0
        /\ \A i \in DOMAIN << >> : << >>[i] = Index(i - 1)
    OBVIOUS
  <2>4. QED
    BY <1>0, <2>1, <2>2, <2>3, AskKeeps
<1>2. CASE Passing
  <2>1. RetryTypeOK'
    BY <1>0, <1>2 DEF Passing, RetryTypeOK
  <2>2. RetryStands'
    BY <1>0, <1>2 DEF Passing, RetryStands, AskedInOrder, Index
  <2>3. WithinDeadline'
    BY <1>0, <1>2, AmountsOfRetries DEF Passing, WithinDeadline, RetryTypeOK
  <2>4. EveryCandidateOnce'
    BY <1>0, <1>2 DEF Passing, EveryCandidateOnce
  <2>5. QED
    BY <2>1, <2>2, <2>3, <2>4 DEF RetryInv, RetriesAreBounded
<1>3. CASE Answer
  <2>1. /\ completion' = "answered" /\ active' = Index(offset)
        /\ UNCHANGED <<offset, attempt, spent, due, completions, asked>>
    BY <1>3 DEF Answer
  <2>2. Index(offset) \in 0..Candidates - 1
    <3>1. offset \in 0..Candidates - 1
      BY <1>0, <1>3, AmountsOfRetries DEF Answer, RetryStands, RetryTypeOK
    <3>2. QED
      BY <1>0, <3>1, IndexMeans DEF RetryTypeOK
  <2>3. RetryTypeOK'
    BY <1>0, <2>1, <2>2 DEF RetryTypeOK
  <2>4. RetryStands'
    BY <2>1 DEF RetryStands
  <2>5. WithinDeadline' /\ EveryCandidateOnce'
    BY <1>0, <2>1 DEF WithinDeadline, EveryCandidateOnce
  <2>6. QED
    BY <2>3, <2>4, <2>5 DEF RetryInv, RetriesAreBounded
<1>4. CASE Unretryable
  BY <1>4, NextCandidateKeeps DEF Unretryable
<1>5. CASE RetryableFailure
  <2>1. CASE Exhausted
    BY <1>5, <2>1, NextCandidateKeeps DEF RetryableFailure
  <2>2. CASE ~Exhausted
    <3>2. /\ completion = "calling" /\ completion' = "sleeping"
          /\ UNCHANGED <<active, offset, attempt, spent, asked, completions>>
      BY <1>5, <2>2 DEF RetryableFailure
    <3>3. attempt > 0 /\ spent \in Nat /\ due \in Nat /\ spent <= MaxElapsed
      BY <1>0, <3>2, AmountsOfRetries DEF RetryStands, RetryTypeOK, WithinDeadline
    <3>4. due' \in Nat /\ due' <= Remaining
      <4>1. PICK category \in DOMAIN Base, headers \in {{}} \cup {{h} : h \in RetryAfters} :
               due' \in Delays(category, headers)
        BY <1>5, <2>2 DEF RetryableFailure
      <4>2. QED
        BY <1>0, <3>3, <4>1, DelaysAreShort
    <3>5. attempt < MaxAttempts
      BY <1>0, <2>2, AmountsOfRetries DEF Exhausted, RetryTypeOK
    <3>6. RetryTypeOK'
      BY <1>0, <3>2, <3>4 DEF RetryTypeOK
    <3>7. RetryStands'
      BY <1>0, <3>2, <3>5 DEF RetryStands, AskedInOrder, Index
    <3>8. WithinDeadline'
      <4>1. Remaining \in Nat /\ spent + Remaining = MaxElapsed
        BY <3>3, RemainingIs
      <4>2. spent' = spent /\ spent \in Nat /\ due' \in Nat /\ due' <= Remaining
        BY <3>2, <3>3, <3>4
      <4>3. QED
        BY <4>1, <4>2, WaitsFit DEF WithinDeadline
    <3>9. EveryCandidateOnce'
      BY <1>0, <3>2 DEF EveryCandidateOnce
    <3>10. QED
      BY <3>6, <3>7, <3>8, <3>9 DEF RetryInv, RetriesAreBounded
  <2>3. QED
    BY <2>1, <2>2
<1>6. CASE Wake
  <2>1. CASE Remaining = 0
    BY <1>6, <2>1, NextCandidateKeeps DEF Wake
  <2>2. CASE Remaining # 0
    <3>1. /\ completion = "sleeping" /\ completion' = "calling" /\ attempt' = attempt + 1
          /\ due' = Min({AttemptTimeout, Remaining})
          /\ UNCHANGED <<active, offset, spent, asked, completions>>
      BY <1>6, <2>2 DEF Wake
    <3>2. attempt \in Nat /\ attempt < MaxAttempts
      BY <1>0, <3>1, AmountsOfRetries DEF RetryStands, RetryTypeOK
    <3>3. spent \in Nat /\ due \in Nat /\ spent <= MaxElapsed
      BY <1>0, AmountsOfRetries DEF RetryTypeOK, WithinDeadline
    <3>4. Remaining \in Nat /\ spent + Remaining = MaxElapsed
      BY <3>3, RemainingIs
    <3>5. due' \in Nat /\ due' <= Remaining
      BY <3>1, <3>4, LeastOfTwo, AmountsOfRetries
    <3>6. RetryTypeOK'
      BY <1>0, <3>1, <3>2, <3>5, AmountsOfRetries DEF RetryTypeOK
    <3>7. RetryStands'
      BY <1>0, <3>1, <3>2 DEF RetryStands, AskedInOrder, Index
    <3>8. WithinDeadline'
      BY <3>1, <3>3, <3>4, <3>5, AmountsOfRetries DEF WithinDeadline
    <3>9. EveryCandidateOnce'
      BY <1>0, <3>1 DEF EveryCandidateOnce
    <3>10. QED
      BY <3>6, <3>7, <3>8, <3>9 DEF RetryInv, RetriesAreBounded
  <2>3. QED
    BY <2>1, <2>2
<1>7. CASE CancelCompletion
  <2>1. RetryTypeOK' /\ RetryStands'
    BY <1>0, <1>7 DEF CancelCompletion, RetryTypeOK, RetryStands
  <2>2. WithinDeadline' /\ EveryCandidateOnce'
    BY <1>0, <1>7 DEF CancelCompletion, WithinDeadline, EveryCandidateOnce
  <2>3. QED
    BY <2>1, <2>2 DEF RetryInv, RetriesAreBounded
<1>8. CASE UNCHANGED retryVars
  BY <1>0, <1>8 DEF retryVars, RetryInv, RetryTypeOK, RetryStands, AskedInOrder, Index,
     RetriesAreBounded, WithinDeadline, EveryCandidateOnce
<1>9. QED
  BY <1>1, <1>2, <1>3, <1>4, <1>5, <1>6, <1>7, <1>8 DEF RetryNext

\* The completions of a turn ask its candidates in a circle from the preferred one on, and
\* each of them for no longer than its deadline.
THEOREM RetriesAreInOrder == RetrySpec => []RetryInv
BY RetryStarts, RetrySteps, PTL DEF RetrySpec

\* A completion costs what it may, and asks everybody before it fails, for any number of
\* candidates, attempts, times and Retry-After headers.
THEOREM RetriesAreAlwaysBounded == RetrySpec => []RetriesAreBounded
<1>1. RetryInv => RetriesAreBounded
  BY DEF RetryInv
<1>2. QED
  BY RetriesAreInOrder, <1>1, PTL

-----------------------------------------------------------------------------
(* The wire *)

WireRoles == {"user", "assistant", "tool", "system"}
MessageOf(kind) == [role : WireRoles, args : Seq({kind})]
MessagesOf(kind) == Seq(MessageOf(kind))

WireRequests == [messages : MessagesOf("text"), tools : BOOLEAN, final : BOOLEAN]
WireCall == [from : {"native", "text"}, args : {"object"}]
WireAnswers ==
    [calls : Seq(WireCall),
     text : {"none", "words", "envelope", "foreign"}]

WireTyped ==
    /\ route \in Routes
    /\ wireTranscript \in MessagesOf("object")
    /\ userTurns \in 0 .. MaxUserTurns /\ turnCalls \in 0 .. MaxTurnCalls
    /\ completing \in {"idle", "sent", "handed", "refused"}
    /\ request \in WireRequests
    /\ attempts \in Seq({"throttled", "transient", "rejected"})
    /\ reply \in Replies /\ handed \in WireAnswers

\* The loop's last word has no tools, and a request without them is otherwise one LiteLLM
\* cannot send them with.
RequestIsMeant ==
    /\ request.tools => ~request.final
    /\ SchemasAreSent

\* What was handed to the loop is what was answered, and nothing came after a rejection.
AnswerIsWhole ==
    /\ completing = "handed" =>
          /\ handed = CompletionOf(reply)
          /\ \A i \in DOMAIN reply.calls : IsCall(reply.calls[i])
    /\ completing = "sent" => \A i \in DOMAIN attempts : attempts[i] # "rejected"
    /\ \A i \in DOMAIN attempts : attempts[i] = "rejected" => i = Len(attempts)

WireInv == WireTyped /\ RequestIsMeant /\ AnswerIsWhole

-----------------------------------------------------------------------------
\* A message on the wire has its arguments as strings, and the role it had.
LEMMA SerializedIs ==
    ASSUME NEW messages \in MessagesOf("object")
    PROVE  /\ SerializeTranscript(messages) \in MessagesOf("text")
           /\ Len(SerializeTranscript(messages)) = Len(messages)
           /\ \A i \in DOMAIN messages :
                 SerializeTranscript(messages)[i].role = messages[i].role
<1>1. ASSUME NEW i \in DOMAIN messages
      PROVE  /\ Serialized(messages[i]) \in MessageOf("text")
             /\ Serialized(messages[i]).role = messages[i].role
  <2> DEFINE m == messages[i]
             args == [k \in DOMAIN m.args |-> "text"]
  <2>1. m \in MessageOf("object")
    BY <1>1 DEF MessagesOf
  <2>2. args \in Seq({"text"})
    <3>1. DOMAIN m.args = 1 .. Len(m.args) /\ Len(m.args) \in Nat
      BY <2>1 DEF MessageOf
    <3>2. args \in [1 .. Len(m.args) -> {"text"}]
      BY <3>1
    <3>3. QED
      BY <3>1, <3>2, SeqDef
  <2>3. Serialized(m) = [m EXCEPT !.args = args]
    BY DEF Serialized
  <2> HIDE DEF m, args
  <2>4. [m EXCEPT !.args = args] \in MessageOf("text")
    BY <2>1, <2>2 DEF MessageOf
  <2>5. [m EXCEPT !.args = args].role = m.role
    BY <2>1 DEF MessageOf
  <2>6. QED
    BY <2>3, <2>4, <2>5 DEF m
<1>2. DOMAIN messages = 1 .. Len(messages) /\ Len(messages) \in Nat
  BY DEF MessagesOf
<1>3. SerializeTranscript(messages)
         \in [1 .. Len(messages) -> MessageOf("text")]
  BY <1>1, <1>2 DEF SerializeTranscript
<1>4. SerializeTranscript(messages) \in MessagesOf("text")
  BY <1>2, <1>3, SeqDef DEF MessagesOf
<1>5. Len(SerializeTranscript(messages)) = Len(messages)
  BY <1>2, <1>3, <1>4 DEF MessagesOf
<1>6. QED
  BY <1>1, <1>4, <1>5 DEF SerializeTranscript

\* The end of the transcript on the wire is the end of the transcript.
LEMMA LastIsSerialized ==
    ASSUME NEW messages \in MessagesOf("object"), messages # << >>
    PROVE  /\ Last(SerializeTranscript(messages)).role = Last(messages).role
           /\ Last(messages) \in MessageOf("object")
<1>1. Len(messages) \in DOMAIN messages
  BY DEF MessagesOf
<1>2. Last(SerializeTranscript(messages)) = SerializeTranscript(messages)[Len(messages)]
  BY SerializedIs DEF Last
<1>3. Last(messages) = messages[Len(messages)]
  BY DEF Last
<1>4. messages[Len(messages)] \in MessageOf("object")
  BY <1>1 DEF MessagesOf
<1>5. QED
  BY <1>1, <1>2, <1>3, <1>4, SerializedIs

\* The calls of an answer are handed over one for one, unless a text was the call.
LEMMA CompletionIs ==
    ASSUME NEW r \in Replies, request.tools \in BOOLEAN
    PROVE  /\ CompletionOf(r) \in WireAnswers
           /\ Len(CompletionOf(r).calls) >= Len(r.calls)
           /\ IsTextCall(r) \/ /\ CompletionOf(r).text = r.text
                               /\ \A i \in DOMAIN CompletionOf(r).calls :
                                     CompletionOf(r).calls[i].from = "native"
           /\ IsTextCall(r) => CompletionOf(r).calls # << >>
<1> DEFINE calls == [i \in DOMAIN r.calls |-> ToolCall(r.calls[i])]
<1>1. r.calls \in Seq(WireCalls) /\ r.text \in {"none", "words", "envelope", "foreign"}
  <2>1. r.calls \in {<< >>} \cup {<<c>> : c \in WireCalls} \cup {<<c, d>> : c, d \in WireCalls}
    BY DEF Replies
  <2>2. r.calls \in Seq(WireCalls)
    <3>1. CASE r.calls = << >>
      BY <3>1
    <3>2. CASE \E c \in WireCalls : r.calls = <<c>>
      BY <3>2
    <3>3. CASE \E c, d \in WireCalls : r.calls = <<c, d>>
      BY <3>3
    <3>4. QED
      BY <2>1, <3>1, <3>2, <3>3
  <2>3. QED
    BY <2>2 DEF Replies
<1>2. DOMAIN r.calls = 1 .. Len(r.calls) /\ Len(r.calls) \in Nat
  BY <1>1
<1>3. /\ \A i \in 1 .. Len(r.calls) : ToolCall(r.calls[i]) \in WireCall
      /\ \A i \in 1 .. Len(r.calls) : ToolCall(r.calls[i]).from = "native"
  BY DEF ToolCall, WireCall
<1>4. /\ calls \in [1 .. Len(r.calls) -> WireCall]
      /\ \A i \in DOMAIN calls : calls[i].from = "native"
  BY <1>2, <1>3
<1>5. calls \in Seq(WireCall) /\ Len(calls) = Len(r.calls)
  BY <1>2, <1>4, SeqDef
<1> HIDE DEF calls
<1>6. CASE IsTextCall(r)
  <2>1. CompletionOf(r) = [calls |-> <<[from |-> "text", args |-> "object"]>>, text |-> "none"]
    BY <1>6 DEF CompletionOf
  <2>2. r.calls = << >>
    BY <1>6 DEF IsTextCall
  <2>3. <<[from |-> "text", args |-> "object"]>> \in Seq(WireCall)
    BY DEF WireCall
  <2>4. CompletionOf(r) \in WireAnswers
    BY <2>1, <2>3 DEF WireAnswers
  <2>5. Len(CompletionOf(r).calls) = 1 /\ CompletionOf(r).calls # << >>
    BY <2>1
  <2>6. QED
    BY <1>6, <2>2, <2>4, <2>5
<1>7. CASE ~IsTextCall(r)
  <2>1. CompletionOf(r) = [calls |-> calls, text |-> r.text]
    BY <1>7 DEF CompletionOf, calls
  <2>2. calls \in Seq(WireCall)
    BY <1>5
  <2>3. \A i \in DOMAIN calls : calls[i].from = "native"
    BY <1>4
  <2>4. QED
    BY <1>1, <1>2, <1>5, <1>7, <2>1, <2>2, <2>3 DEF WireAnswers
<1>8. QED
  BY <1>6, <1>7

-----------------------------------------------------------------------------
\* The user speaks after the last turn is over.
LEMMA UserTurnKeeps ==
    ASSUME WireInv, UserTurn
    PROVE  WireInv'
<1>1. Message("user", << >>) \in MessageOf("object")
  BY DEF Message, MessageOf, WireRoles
<1>2. wireTranscript' \in MessagesOf("object")
  BY <1>1 DEF WireInv, WireTyped, UserTurn, MessagesOf
<1>3. userTurns' \in 0 .. MaxUserTurns
  BY CompletionWireAssumption DEF WireInv, WireTyped, UserTurn
<1>4. WireTyped'
  BY <1>2, <1>3 DEF WireInv, WireTyped, UserTurn
<1>5. RequestIsMeant'
  BY DEF WireInv, UserTurn, RequestIsMeant, SchemasAreSent
<1>6. AnswerIsWhole'
  BY DEF WireInv, UserTurn, AnswerIsWhole
<1>7. QED
  BY <1>4, <1>5, <1>6 DEF WireInv

\* What is asked is the transcript, in the wire's form.
LEMMA AskModelKeeps ==
    ASSUME WireInv, AskModel
    PROVE  WireInv'
<1> DEFINE final == turnCalls' = MaxTurnCalls
           tools == SendsTools(~final, wireTranscript)
           messages == SerializeTranscript(wireTranscript)
<1>1. /\ wireTranscript \in MessagesOf("object") /\ wireTranscript # << >>
      /\ request' = [messages |-> messages, tools |-> tools, final |-> final]
  BY DEF WireInv, WireTyped, AskModel
<1>2. messages \in MessagesOf("text") /\ Last(messages).role = Last(wireTranscript).role
  BY <1>1, SerializedIs, LastIsSerialized
<1>3. tools \in BOOLEAN /\ final \in BOOLEAN /\ (tools => ~final)
  BY DEF SendsTools
<1>4. ~final /\ ~tools =>
         /\ Last(wireTranscript).role # "user"
         /\ route.transport = "litellm" /\ route.registry = "no" /\ ~route.keep
  <2>1. route.transport \in {"litellm", "direct"} /\ route.registry \in {"yes", "no", "raises"}
    BY CompletionWireAssumption DEF WireInv, WireTyped
  <2>2. QED
    BY <2>1 DEF SendsTools, IsContinuation
<1> HIDE DEF messages, tools, final
<1>5. request' \in WireRequests
  BY <1>1, <1>2, <1>3 DEF WireRequests
<1>6. /\ request'.messages = messages /\ request'.tools = tools /\ request'.final = final
  BY <1>1
<1>7. turnCalls' \in 0 .. MaxTurnCalls
  BY CompletionWireAssumption DEF WireInv, WireTyped, AskModel
<1>8. WireTyped'
  BY <1>5, <1>7 DEF WireInv, WireTyped, AskModel
<1>9. route' = route
  BY DEF AskModel
<1>10. RequestIsMeant'
  BY <1>2, <1>3, <1>4, <1>6, <1>9 DEF RequestIsMeant, SchemasAreSent
<1>11. AnswerIsWhole'
  BY DEF AskModel, AnswerIsWhole
<1>12. QED
  BY <1>8, <1>10, <1>11 DEF WireInv

\* An attempt that is rejected is the last one.
LEMMA HttpAttemptKeeps ==
    ASSUME WireInv, NEW outcome \in {"throttled", "transient", "rejected"},
           HttpAttempt(outcome)
    PROVE  WireInv'
<1>1. /\ attempts' = Append(attempts, outcome)
      /\ completing = "sent" /\ completing' \in {"sent", "refused"}
      /\ completing' = "sent" => outcome # "rejected"
      /\ UNCHANGED <<route, wireTranscript, userTurns, turnCalls, request, reply, handed>>
  BY DEF HttpAttempt
<1>2. attempts \in Seq({"throttled", "transient", "rejected"})
  BY DEF WireInv, WireTyped
<1>3. /\ attempts' \in Seq({"throttled", "transient", "rejected"})
      /\ Len(attempts') = Len(attempts) + 1
      /\ \A i \in DOMAIN attempts' :
            attempts'[i] = IF i = Len(attempts) + 1 THEN outcome ELSE attempts[i]
      /\ \A i \in DOMAIN attempts' : i = Len(attempts) + 1 \/ i \in DOMAIN attempts
  BY <1>1, <1>2
<1>4. \A i \in DOMAIN attempts : attempts[i] # "rejected"
  BY <1>1 DEF WireInv, AnswerIsWhole
<1>5. WireTyped'
  BY <1>1, <1>3 DEF WireInv, WireTyped
<1>6. RequestIsMeant'
  BY <1>1 DEF WireInv, RequestIsMeant, SchemasAreSent
<1>7. AnswerIsWhole'
  <2>1. \A i \in DOMAIN attempts' : attempts'[i] = "rejected" => i = Len(attempts')
    BY <1>3, <1>4
  <2>2. completing' = "sent" => \A i \in DOMAIN attempts' : attempts'[i] # "rejected"
    BY <1>1, <1>3, <1>4
  <2>3. QED
    BY <1>1, <2>1, <2>2 DEF AnswerIsWhole
<1>8. QED
  BY <1>5, <1>6, <1>7 DEF WireInv

\* An answer is taken whole or refused.
LEMMA ReplyKeeps ==
    ASSUME WireInv, NEW r \in Replies, Reply(r)
    PROVE  WireInv'
<1>1. UNCHANGED <<route, wireTranscript, userTurns, turnCalls, request, attempts>>
  BY DEF Reply
<1>2. RequestIsMeant'
  BY <1>1 DEF WireInv, RequestIsMeant, SchemasAreSent
<1>3. CASE \A i \in DOMAIN r.calls : IsCall(r.calls[i])
  <2>1. reply' = r /\ handed' = CompletionOf(r) /\ completing' = "handed"
    BY <1>3 DEF Reply
  <2>2. request.tools \in BOOLEAN
    BY DEF WireInv, WireTyped, WireRequests
  <2>3. handed' \in WireAnswers
    BY <2>1, <2>2, CompletionIs
  <2>4. WireTyped'
    BY <1>1, <2>1, <2>3 DEF WireInv, WireTyped
  <2>5. CompletionOf(r)' = CompletionOf(r)
    BY <1>1 DEF CompletionOf, IsTextCall
  <2>6. AnswerIsWhole'
    BY <1>1, <1>3, <2>1, <2>5 DEF WireInv, AnswerIsWhole, CompletionOf, IsTextCall
  <2>7. QED
    BY <1>2, <2>4, <2>6 DEF WireInv
<1>4. CASE ~\A i \in DOMAIN r.calls : IsCall(r.calls[i])
  <2>1. completing' = "refused" /\ UNCHANGED <<reply, handed>>
    BY <1>4 DEF Reply
  <2>2. WireTyped'
    BY <1>1, <2>1 DEF WireInv, WireTyped
  <2>3. AnswerIsWhole'
    BY <1>1, <2>1 DEF WireInv, AnswerIsWhole
  <2>4. QED
    BY <1>2, <2>2, <2>3 DEF WireInv
<1>5. QED
  BY <1>3, <1>4

\* What the loop does next leaves nothing of the answer behind.
LEMMA ReturnsKeeps ==
    ASSUME WireInv, Returns, turnCalls' \in {0, turnCalls},
           UNCHANGED <<route, userTurns, request>>,
           wireTranscript' \in MessagesOf("object")
    PROVE  WireInv'
<1>1. turnCalls' \in 0 .. MaxTurnCalls
  BY CompletionWireAssumption DEF WireInv, WireTyped
<1>2. NoReply \in Replies /\ NoReply \in WireAnswers
  BY DEF NoReply, Replies, WireAnswers
<1>3. WireTyped'
  BY <1>1, <1>2 DEF WireInv, WireTyped, Returns
<1>4. RequestIsMeant'
  BY DEF WireInv, RequestIsMeant, SchemasAreSent
<1>5. AnswerIsWhole'
  BY DEF Returns, AnswerIsWhole
<1>6. QED
  BY <1>3, <1>4, <1>5 DEF WireInv

\* The calls and their results are appended as the loop writes them.
LEMMA RunCallsKeeps ==
    ASSUME WireInv, RunCalls
    PROVE  WireInv'
<1> DEFINE Piece == MessageOf("object")
           args == [i \in DOMAIN handed.calls |-> handed.calls[i].args]
           results == [i \in DOMAIN handed.calls |-> Message("tool", << >>)]
<1>1. PICK notice \in {<< >>, <<Message("system", << >>)>>}, ends \in BOOLEAN :
         /\ wireTranscript' = Append(wireTranscript, Message("assistant", args))
                                 \o results \o notice
         /\ Returns /\ turnCalls' \in {0, turnCalls}
  BY DEF RunCalls, EndsTurn, GoesOn
<1>2. /\ handed.calls \in Seq(WireCall)
      /\ DOMAIN handed.calls = 1 .. Len(handed.calls) /\ Len(handed.calls) \in Nat
      /\ \A i \in 1 .. Len(handed.calls) : handed.calls[i] \in WireCall
  BY DEF WireInv, WireTyped, WireAnswers
<1>3. args \in Seq({"object"})
  <2>1. \A i \in 1 .. Len(handed.calls) : handed.calls[i].args = "object"
    BY <1>2 DEF WireCall
  <2>2. args \in [1 .. Len(handed.calls) -> {"object"}]
    BY <1>2, <2>1
  <2>3. QED
    BY <1>2, <2>2, SeqDef
<1>4. results \in Seq(Piece)
  <2>1. results \in [1 .. Len(handed.calls) -> Piece]
    BY <1>2 DEF Message, MessageOf, WireRoles
  <2>2. QED
    BY <1>2, <2>1, SeqDef
<1> HIDE DEF args, results
<1>5. Message("assistant", args) \in Piece /\ Message("system", << >>) \in Piece
  BY <1>3 DEF Message, MessageOf, WireRoles
<1> HIDE DEF Piece
<1>6. wireTranscript \in Seq(Piece)
  BY DEF WireInv, WireTyped, MessagesOf, Piece
<1>7. wireTranscript' \in Seq(Piece)
  <2>1. notice \in Seq(Piece)
    <3>1. CASE notice = << >>
      BY <3>1
    <3>2. CASE notice = <<Message("system", << >>)>>
      BY <1>5, <3>2
    <3>3. QED
      BY <3>1, <3>2
  <2>2. QED
    BY <1>1, <1>4, <1>5, <1>6, <2>1
<1>8. wireTranscript' \in MessagesOf("object")
  BY <1>7 DEF Piece, MessagesOf
<1>9. UNCHANGED <<route, userTurns, request>>
  BY DEF RunCalls
<1>10. QED
  BY <1>1, <1>8, <1>9, ReturnsKeeps

\* The text is appended as the loop writes it.
LEMMA AnswerUserKeeps ==
    ASSUME WireInv, AnswerUser
    PROVE  WireInv'
<1>1. Message("assistant", << >>) \in MessageOf("object")
  BY DEF Message, MessageOf, WireRoles
<1>2. wireTranscript' \in MessagesOf("object")
  BY <1>1 DEF WireInv, WireTyped, AnswerUser, MessagesOf
<1>3. QED
  BY <1>2, ReturnsKeeps DEF AnswerUser, EndsTurn

-----------------------------------------------------------------------------
\* Nothing was asked yet.
LEMMA WireStarts ==
    ASSUME CompletionWireInit
    PROVE  WireInv
<1>1. request \in WireRequests /\ reply \in Replies /\ handed \in WireAnswers
  BY DEF CompletionWireInit, NotAsked, WireRequests, MessagesOf, NoReply, Replies, WireAnswers
<1>2. WireTyped
  BY <1>1, CompletionWireAssumption DEF CompletionWireInit, WireTyped, MessagesOf
<1>3. RequestIsMeant
  BY DEF CompletionWireInit, RequestIsMeant, SchemasAreSent, NotAsked
<1>4. AnswerIsWhole
  BY DEF CompletionWireInit, AnswerIsWhole
<1>5. QED
  BY <1>2, <1>3, <1>4 DEF WireInv

\* A request's form, what goes with it and what comes of it are as they are meant.
LEMMA WireFollows ==
    ASSUME WireInv
    PROVE  WireIsFaithful
<1>1. FormsAreSeparate
  <2>1. ASSUME NEW kind, NEW messages \in MessagesOf(kind), NEW i \in DOMAIN messages
        PROVE  Range(messages[i].args) \subseteq {kind}
    <3>1. messages[i] \in MessageOf(kind)
      BY <2>1 DEF MessagesOf
    <3>2. messages[i].args \in Seq({kind})
      BY <3>1 DEF MessageOf
    <3>3. QED
      BY <3>2 DEF Range
  <2>2. wireTranscript \in MessagesOf("object") /\ request.messages \in MessagesOf("text")
    BY DEF WireInv, WireTyped, WireRequests
  <2>3. QED
    BY <2>1, <2>2 DEF FormsAreSeparate
<1>2. SchemasAreSent
  BY DEF WireInv, RequestIsMeant
<1>3. CompletionsAreWhole
  <2>1. reply \in Replies /\ request.tools \in BOOLEAN
    BY DEF WireInv, WireTyped, WireRequests
  <2>2. CASE completing = "handed"
    <3>1. handed = CompletionOf(reply) /\ \A i \in DOMAIN reply.calls : IsCall(reply.calls[i])
      BY <2>2 DEF WireInv, AnswerIsWhole
    <3>2. Len(handed.calls) >= Len(reply.calls)
      BY <2>1, <3>1, CompletionIs
    <3>3. IsTextCall(reply) => route.parse /\ request.tools /\ ~request.final
      BY DEF WireInv, RequestIsMeant, IsTextCall
    <3>4. \A i \in DOMAIN handed.calls :
             handed.calls[i].from = "text" => route.parse /\ request.tools /\ ~request.final
      BY <2>1, <3>1, <3>3, CompletionIs
    <3>5. handed.text = "none" => handed.calls # << >> \/ reply.text = "none"
      BY <2>1, <3>1, CompletionIs
    <3>6. QED
      BY <3>1, <3>2, <3>4, <3>5 DEF WireInv, AnswerIsWhole, CompletionsAreWhole
  <2>3. CASE completing # "handed"
    BY <2>3 DEF WireInv, AnswerIsWhole, CompletionsAreWhole
  <2>4. QED
    BY <2>2, <2>3
<1>4. QED
  BY <1>1, <1>2, <1>3 DEF WireIsFaithful

\* The loop's transcript keeps arguments as objects and every request has them as strings,
\* a request without tools is one that is meant to be, and what the loop is handed is the
\* whole of an answer that no attempt was made after.
THEOREM WireIsInOrder == CompletionWireSpec => []WireInv
<1>1. CompletionWireInit => WireInv
  BY WireStarts
<1>2. WireInv /\ [CompletionWireNext]_wireVars => WireInv'
  <2>1. ASSUME WireInv, CompletionWireNext
        PROVE  WireInv'
    <3>1. ASSUME ReplyIsNone \/ GiveUpTurn \/ NothingToSay
          PROVE  WireInv'
      <4>1. CASE ReplyIsNone
        <5>1. /\ completing' = "refused"
              /\ UNCHANGED <<route, wireTranscript, userTurns, turnCalls, request, attempts,
                             reply, handed>>
          BY <4>1 DEF ReplyIsNone
        <5>2. WireTyped' /\ RequestIsMeant' /\ AnswerIsWhole'
          BY <2>1, <5>1 DEF WireInv, WireTyped, RequestIsMeant, SchemasAreSent, AnswerIsWhole
        <5>3. QED
          BY <5>2 DEF WireInv
      <4>2. CASE GiveUpTurn \/ NothingToSay
        <5>1. /\ Returns /\ turnCalls' \in {0, turnCalls}
              /\ UNCHANGED <<route, wireTranscript, userTurns, request>>
          BY <4>2 DEF GiveUpTurn, NothingToSay, EndsTurn, GoesOn
        <5>2. wireTranscript' \in MessagesOf("object")
          BY <2>1, <5>1 DEF WireInv, WireTyped
        <5>3. QED
          BY <2>1, <5>1, <5>2, ReturnsKeeps
      <4>3. QED
        BY <3>1, <4>1, <4>2
    <3>2. QED
      BY <2>1, <3>1, UserTurnKeeps, AskModelKeeps, HttpAttemptKeeps, ReplyKeeps,
         RunCallsKeeps, AnswerUserKeeps DEF CompletionWireNext
  <2>2. ASSUME WireInv, UNCHANGED wireVars
        PROVE  WireInv'
    BY <2>2 DEF wireVars, WireInv, WireTyped, RequestIsMeant, SchemasAreSent, AnswerIsWhole,
                CompletionOf, IsTextCall
  <2>3. QED
    BY <2>1, <2>2
<1>3. QED
  BY <1>1, <1>2, PTL DEF CompletionWireSpec

\* What goes over the wire is what the loop and the model said, and no more.
THEOREM WireIsAlwaysFaithful == CompletionWireSpec => []WireIsFaithful
<1>1. WireInv => WireIsFaithful
  BY WireFollows
<1>2. QED
  BY <1>1, WireIsInOrder, PTL

-----------------------------------------------------------------------------
(* The spending report *)

PayingStates ==
    [at : {"ready", "record", "thread", "check", "judge", "limited", "over"},
     calls : Nat, nth : Nat, budget : Nat, cancelled : BOOLEAN]

SaverStates ==
    {NotSaving} \cup [at : {"changed"}, newest : BOOLEAN]
        \cup [at : {"write"}, newest : BOOLEAN, snapshot : Report]

SaverNames == ReportTurns \cup ReportWorkers
SaverWorker(s) == IF s \in ReportTurns THEN workerOf[s] ELSE s

ReportTyped ==
    /\ workerOf \in [ReportTurns -> ReportWorkers] /\ reserving \in BOOLEAN
    /\ checker \in [ReportWorkers -> Report \cup {Unloaded}]
    /\ spendingFile \in Report
    /\ paying \in [ReportTurns -> PayingStates]
    /\ saver \in [SaverNames -> SaverStates]
    /\ reportUpsets \in 0 .. MaxReportUpsets
    /\ found \in [ReportWorkers -> [ReportTenants -> Nat]]
    /\ inForce \in [ReportTenants -> SUBSET Nat]
    /\ crashed \subseteq ReportWorkers /\ settled \in BOOLEAN

\* Of a turn at p whose thread is at s, with a checker or without: where it is.
PaysWell(payer, p, s) ==
    /\ p.nth \in 1 .. Len(TenantIds[payer])
    /\ p.at \notin {"record", "thread", "over"} => p.nth = 1
    /\ p.at \in {"record", "thread"} => p.calls > 0
    /\ s # NotSaving => p.at = "thread"

NeedsChecker == {"thread", "check", "judge"}

TurnsPayWell ==
    /\ \A payer \in ReportTurns :
          /\ PaysWell(payer, paying[payer], saver[payer])
          /\ paying[payer].at \in NeedsChecker => checker[workerOf[payer]] # Unloaded
          /\ paying[payer].at = "judge" => paying[payer].budget \in inForce[TenantIds[payer][1]]
    /\ \A w \in ReportWorkers : saver[w] # NotSaving => checker[w] # Unloaded

\* The calls of a turn that are recorded for t.
OwesFor(payer, p, s, t) ==
    /\ p.at \in {"record", "thread"}
    /\ \E n \in p.nth .. Len(TenantIds[payer]) :
          /\ TenantIds[payer][n] = t
          /\ n = p.nth => s = NotSaving
NotedOf(payer, p, s, t) ==
    IF ~Contains(TenantIds[payer], t) THEN 0
    ELSE IF OwesFor(payer, p, s, t) THEN p.calls - 1 ELSE p.calls
NotedFor(t) == [payer \in ReportTurns |-> NotedOf(payer, paying[payer], saver[payer], t)]
NotedBy(turns, t) == SumOver(NotedFor(t), turns)

\* A report knows of no more than was recorded, and of no budget that was never set.
KnownAs(report, noted, budgets) ==
    \A t \in ReportTenants :
        /\ report.spent[t] <= noted[t]
        /\ report.overrides[t] \in budgets[t] \cup {NoBudget}

AllNoted == [t \in ReportTenants |-> NotedBy(ReportTurns, t)]

ReportsAreKnown ==
    /\ \A t \in ReportTenants : IsFiniteSet(inForce[t]) /\ DefaultBudget \in inForce[t]
    /\ KnownAs(spendingFile, AllNoted, inForce)
    /\ \A w \in ReportWorkers :
          checker[w] # Unloaded => KnownAs(checker[w], AllNoted, inForce)
    /\ \A s \in SaverNames :
          saver[s].at = "write" => KnownAs(saver[s].snapshot, AllNoted, inForce)

\* What a worker that did not crash remembers is what it found and what its turns recorded.
BooksAgree ==
    \A w \in ReportWorkers \ crashed, t \in ReportTenants :
        /\ checker[w] = Unloaded => NotedBy(TurnsOfWorker(w), t) = 0
        /\ checker[w] # Unloaded =>
              checker[w].spent[t] = found[w][t] + NotedBy(TurnsOfWorker(w), t)

\* The calls of a turn, and the one it may make next.
GrantedOf(p) == IF p.at = "ready" THEN p.calls + 1 ELSE p.calls
Granted == [payer \in ReportTurns |-> GrantedOf(paying[payer])]
OwnTurns(w, t) == {payer \in TurnsOfWorker(w) : TenantIds[payer] = <<t>>}
GrantsEnd(w, t) ==
    \E b \in inForce[t] :
        SumOver(Granted, OwnTurns(w, t)) + 1 <= b + Cardinality(OwnTurns(w, t))

TurnsStop ==
    \A w \in ReportWorkers \ crashed, t \in ReportTenants :
        ~reserving /\ 0 \notin inForce[t] => GrantsEnd(w, t)

\* The write of the last change is of what is remembered, and after it so is the file.
LastIsWritten ==
    /\ \A s \in SaverNames :
          saver[s].at = "write" /\ saver[s].newest => saver[s].snapshot = checker[SaverWorker(s)]
    /\ LastWriteConverges

ReportInv ==
    /\ ReportTyped /\ TurnsPayWell /\ ReportsAreKnown
    /\ BooksAgree /\ TurnsStop /\ LastIsWritten

-----------------------------------------------------------------------------
\* What a turn is charged to.
LEMMA TenantsOfTurn ==
    ASSUME NEW payer \in ReportTurns
    PROVE  /\ TenantIds[payer] \in Seq(ReportTenants) /\ TenantIds[payer] # << >>
           /\ Len(TenantIds[payer]) \in Nat /\ Len(TenantIds[payer]) >= 1
           /\ DOMAIN TenantIds[payer] = 1 .. Len(TenantIds[payer])
           /\ \A n \in 1 .. Len(TenantIds[payer]) : TenantIds[payer][n] \in ReportTenants
           /\ \A m, n \in 1 .. Len(TenantIds[payer]) :
                 TenantIds[payer][m] = TenantIds[payer][n] => m = n
<1>1. TenantIds[payer] \in Seq(ReportTenants) /\ TenantIds[payer] # << >>
  BY SpendingReportAssumption
<1>2. /\ Len(TenantIds[payer]) \in Nat /\ DOMAIN TenantIds[payer] = 1 .. Len(TenantIds[payer])
      /\ Len(TenantIds[payer]) # 0
  BY <1>1
<1>3. \A n \in 1 .. Len(TenantIds[payer]) : TenantIds[payer][n] \in ReportTenants
  BY <1>1
<1>4. \A m, n \in DOMAIN TenantIds[payer] : TenantIds[payer][m] = TenantIds[payer][n] => m = n
  BY SpendingReportAssumption DEF IsInjective
<1>5. QED
  BY <1>1, <1>2, <1>3, <1>4

\* A sum over some of the turns.
LEMMA SomeTurns ==
    ASSUME NEW w, NEW t
    PROVE  /\ TurnsOfWorker(w) \subseteq ReportTurns /\ IsFiniteSet(TurnsOfWorker(w))
           /\ OwnTurns(w, t) \subseteq TurnsOfWorker(w) /\ IsFiniteSet(OwnTurns(w, t))
           /\ IsFiniteSet(ReportTurns)
<1>1. TurnsOfWorker(w) \subseteq ReportTurns /\ OwnTurns(w, t) \subseteq TurnsOfWorker(w)
  BY DEF TurnsOfWorker, OwnTurns
<1>2. QED
  BY <1>1, SpendingReportAssumption, FS_Subset

\* The recorded calls of a turn are some of its calls.
LEMMA NotedIs ==
    ASSUME NEW payer \in ReportTurns, NEW p \in PayingStates, NEW s, PaysWell(payer, p, s), NEW t
    PROVE  /\ NotedOf(payer, p, s, t) \in Nat /\ NotedOf(payer, p, s, t) <= p.calls
           /\ OwesFor(payer, p, s, t) =>
                 Contains(TenantIds[payer], t) /\ NotedOf(payer, p, s, t) = p.calls - 1
           /\ NotedOf(payer, p, s, t) + 1 >= GrantedOf(p) \/ ~Contains(TenantIds[payer], t)
<1>1. p.calls \in Nat /\ p.nth \in 1 .. Len(TenantIds[payer])
  BY DEF PayingStates, PaysWell
<1>2. Len(TenantIds[payer]) \in Nat
  BY TenantsOfTurn
<1>3. CASE OwesFor(payer, p, s, t)
  <2>1. p.calls > 0 /\ p.at # "ready"
    BY <1>3 DEF OwesFor, PaysWell
  <2>2. PICK n \in p.nth .. Len(TenantIds[payer]) : TenantIds[payer][n] = t
    BY <1>3 DEF OwesFor
  <2>3. Contains(TenantIds[payer], t)
    <3>1. n \in 1 .. Len(TenantIds[payer])
      BY <1>1, <1>2, <2>2
    <3>2. QED
      BY <2>2, <3>1 DEF Contains
  <2>4. NotedOf(payer, p, s, t) = p.calls - 1
    BY <1>3, <2>3 DEF NotedOf
  <2>5. GrantedOf(p) = p.calls
    BY <2>1 DEF GrantedOf
  <2>6. QED
    BY <1>1, <2>1, <2>3, <2>4, <2>5
<1>4. CASE ~OwesFor(payer, p, s, t)
  <2>1. NotedOf(payer, p, s, t) = 0 \/ NotedOf(payer, p, s, t) = p.calls
    BY <1>4 DEF NotedOf
  <2>2. Contains(TenantIds[payer], t) => NotedOf(payer, p, s, t) = p.calls
    BY <1>4 DEF NotedOf
  <2>3. GrantedOf(p) = p.calls \/ GrantedOf(p) = p.calls + 1
    BY DEF GrantedOf
  <2>4. QED
    BY <1>1, <1>4, <2>1, <2>2, <2>3
<1>5. QED
  BY <1>3, <1>4

\* What is known of each turn and its calls.
LEMMA TurnIsPaying ==
    ASSUME ReportTyped, TurnsPayWell, NEW payer \in ReportTurns
    PROVE  /\ paying[payer] \in PayingStates /\ workerOf[payer] \in ReportWorkers
           /\ saver[payer] \in SaverStates
           /\ PaysWell(payer, paying[payer], saver[payer])
           /\ \A t : NotedFor(t)[payer] = NotedOf(payer, paying[payer], saver[payer], t)
           /\ \A t : NotedFor(t)[payer] \in Nat /\ NotedFor(t)[payer] <= paying[payer].calls
           /\ Granted[payer] = GrantedOf(paying[payer]) /\ Granted[payer] \in Nat
<1>1. /\ paying[payer] \in PayingStates /\ workerOf[payer] \in ReportWorkers
      /\ saver[payer] \in SaverStates
      /\ PaysWell(payer, paying[payer], saver[payer])
  BY DEF ReportTyped, TurnsPayWell, SaverNames
<1>2. \A t : NotedFor(t)[payer] = NotedOf(payer, paying[payer], saver[payer], t)
  BY DEF NotedFor
<1>3. \A t : /\ NotedOf(payer, paying[payer], saver[payer], t) \in Nat
             /\ NotedOf(payer, paying[payer], saver[payer], t) <= paying[payer].calls
  BY <1>1, NotedIs
<1>4. Granted[payer] = GrantedOf(paying[payer])
  BY DEF Granted
<1>5. GrantedOf(paying[payer]) \in Nat
  BY <1>1 DEF GrantedOf, PayingStates
<1>6. QED
  BY <1>1, <1>2, <1>3, <1>4, <1>5

\* The recorded calls of some turns.
LEMMA NotedByIs ==
    ASSUME ReportTyped, TurnsPayWell, NEW turns, turns \subseteq ReportTurns, NEW t
    PROVE  /\ IsFiniteSet(turns) /\ NotedBy(turns, t) \in Nat
           /\ \A x \in turns : NotedFor(t)[x] \in Nat
           /\ NotedBy(turns, t) <= NotedBy(ReportTurns, t) /\ NotedBy(ReportTurns, t) \in Nat
<1>1. IsFiniteSet(turns) /\ IsFiniteSet(ReportTurns) /\ IsFiniteSet(ReportTurns \ turns)
  BY SpendingReportAssumption, FS_Subset
<1>2. \A x \in ReportTurns : NotedFor(t)[x] \in Nat
  BY TurnIsPaying
<1>3. /\ NotedBy(turns, t) \in Nat /\ NotedBy(ReportTurns, t) \in Nat
      /\ NotedBy(ReportTurns \ turns, t) \in Nat
  BY <1>1, <1>2, SumIsNat DEF NotedBy
<1>4. NotedBy(ReportTurns, t) = NotedBy(turns, t) + NotedBy(ReportTurns \ turns, t)
  BY <1>1, <1>2, SumSplits DEF NotedBy
<1>5. QED
  BY <1>1, <1>2, <1>3, <1>4

\* Where no turn's recorded calls change, no sum of them does.
LEMMA NotedStays ==
    ASSUME NEW t,
           \A payer \in ReportTurns :
               NotedOf(payer, paying'[payer], saver'[payer], t)
               = NotedOf(payer, paying[payer], saver[payer], t)
    PROVE  NotedFor(t)' = NotedFor(t)
BY DEF NotedFor

\* A report that was known still is.
LEMMA StillKnown ==
    ASSUME NEW report \in Report, NEW noted, NEW more, NEW budgets, NEW others,
           KnownAs(report, noted, budgets),
           \A t \in ReportTenants : noted[t] \in Nat /\ more[t] \in Nat /\ noted[t] <= more[t],
           \A t \in ReportTenants : budgets[t] \subseteq others[t]
    PROVE  KnownAs(report, more, others)
<1>1. \A t \in ReportTenants : report.spent[t] \in Nat
  BY DEF Report
<1>2. QED
  BY <1>1 DEF KnownAs

\* Of the savers: one that writes has a snapshot.
LEMMA SaverIs ==
    ASSUME NEW s \in SaverStates
    PROVE  /\ s.at \in {"none", "changed", "write"} /\ (s.at = "none" <=> s = NotSaving)
           /\ s # NotSaving => s.newest \in BOOLEAN
           /\ s.at = "write" => s.snapshot \in Report
BY DEF SaverStates, NotSaving

\* Where nobody is granted a call that was not granted before, all still stop.
LEMMA GrantsStay ==
    ASSUME ReportInv, ReportTyped', TurnsPayWell',
           UNCHANGED <<workerOf, reserving>>, crashed \subseteq crashed',
           \A t \in ReportTenants : inForce[t] \subseteq inForce'[t],
           \A payer \in ReportTurns :
               ~reserving /\ Len(TenantIds[payer]) = 1
               => GrantedOf(paying'[payer]) <= GrantedOf(paying[payer])
    PROVE  TurnsStop'
<1> SUFFICES ASSUME NEW w \in ReportWorkers \ crashed', NEW t \in ReportTenants,
                    ~reserving', 0 \notin inForce'[t]
             PROVE  GrantsEnd(w, t)'
  BY DEF TurnsStop
<1>1. OwnTurns(w, t)' = OwnTurns(w, t)
  BY DEF OwnTurns, TurnsOfWorker
<1>2. PICK b \in inForce[t] :
         SumOver(Granted, OwnTurns(w, t)) + 1 <= b + Cardinality(OwnTurns(w, t))
  BY DEF ReportInv, TurnsStop, GrantsEnd
<1>3. OwnTurns(w, t) \subseteq ReportTurns /\ IsFiniteSet(OwnTurns(w, t))
  BY SomeTurns
<1>4. \A x \in OwnTurns(w, t) :
         Granted[x] \in Nat /\ Granted'[x] \in Nat /\ Granted'[x] <= Granted[x]
  <2>1. ASSUME NEW x \in ReportTurns
        PROVE  Granted[x] = GrantedOf(paying[x]) /\ Granted[x] \in Nat
    BY TurnIsPaying DEF ReportInv
  <2>2. \A x \in ReportTurns : Granted'[x] = GrantedOf(paying'[x])
    BY DEF Granted
  <2>3. ASSUME NEW x \in ReportTurns
        PROVE  GrantedOf(paying'[x]) \in Nat
    BY DEF ReportTyped, GrantedOf, PayingStates
  <2>4. \A x \in OwnTurns(w, t) : Len(TenantIds[x]) = 1
    BY DEF OwnTurns
  <2>5. QED
    BY <1>3, <2>1, <2>2, <2>3, <2>4
<1>5. SumOver(Granted', OwnTurns(w, t)) <= SumOver(Granted, OwnTurns(w, t))
  BY <1>3, <1>4, SumGrows
<1>6. /\ SumOver(Granted', OwnTurns(w, t)) \in Nat /\ SumOver(Granted, OwnTurns(w, t)) \in Nat
      /\ Cardinality(OwnTurns(w, t)) \in Nat
  BY <1>3, <1>4, SumIsNat, FS_CardinalityType
<1>7. b \in Nat
  BY <1>2 DEF ReportInv, ReportTyped
<1>8. SumOver(Granted', OwnTurns(w, t)) + 1 <= b + Cardinality(OwnTurns(w, t))
  BY <1>2, <1>5, <1>6, <1>7
<1>9. b \in inForce'[t]
  BY <1>2
<1>10. QED
  BY <1>1, <1>8, <1>9 DEF GrantsEnd

-----------------------------------------------------------------------------
\* Turn goes to p, and nothing is written or remembered.
Moves(payer, p) ==
    /\ p \in PayingStates
    /\ paying' = [paying EXCEPT ![payer] = p]
    /\ PaysWell(payer, p, saver[payer])
    /\ p.at = "judge" => p.budget \in inForce[TenantIds[payer][1]]
    /\ \A t \in ReportTenants :
          NotedOf(payer, p, saver[payer], t) = NotedOf(payer, paying[payer], saver[payer], t)
    /\ UNCHANGED <<workerOf, reserving, spendingFile, saver, reportUpsets, inForce, crashed,
                   settled>>

\* What such a turn leaves.
LEMMA MovesTo ==
    ASSUME ReportTyped, NEW payer \in ReportTurns, NEW p, Moves(payer, p)
    PROVE  /\ paying' \in [ReportTurns -> PayingStates] /\ paying'[payer] = p
           /\ \A q \in ReportTurns : q # payer => paying'[q] = paying[q]
           /\ \A t \in ReportTenants : NotedFor(t)' = NotedFor(t)
<1>1. /\ paying' \in [ReportTurns -> PayingStates] /\ paying'[payer] = p
      /\ \A q \in ReportTurns : q # payer => paying'[q] = paying[q]
  BY DEF ReportTyped, Moves
<1>2. ASSUME NEW t \in ReportTenants
      PROVE  NotedFor(t)' = NotedFor(t)
  <2>1. \A q \in ReportTurns :
           NotedOf(q, paying'[q], saver'[q], t) = NotedOf(q, paying[q], saver[q], t)
    BY <1>1 DEF Moves
  <2>2. QED
    BY <2>1, NotedStays
<1>3. QED
  BY <1>1, <1>2

\* The turn's calls are as they were, and it has the checker it needs.
LEMMA MovesKeeps ==
    ASSUME ReportInv, NEW payer \in ReportTurns, NEW p, Moves(payer, p),
           p.at \in NeedsChecker => checker[workerOf[payer]] # Unloaded,
           UNCHANGED <<checker, found>>, TurnsStop'
    PROVE  ReportInv'
<1>1. ReportTyped
  BY DEF ReportInv
<1>2. ReportTyped'
  BY <1>1, MovesTo DEF ReportTyped, Moves
<1>3. TurnsPayWell'
  <2>1. ASSUME NEW q \in ReportTurns
        PROVE  /\ PaysWell(q, paying'[q], saver'[q])
               /\ paying'[q].at \in NeedsChecker => checker'[workerOf'[q]] # Unloaded
               /\ paying'[q].at = "judge" => paying'[q].budget \in inForce'[TenantIds[q][1]]
    <3>1. CASE q = payer
      BY <1>1, <3>1, MovesTo DEF Moves
    <3>2. CASE q # payer
      BY <1>1, <3>2, MovesTo DEF ReportInv, TurnsPayWell, Moves
    <3>3. QED
      BY <3>1, <3>2
  <2>2. \A w \in ReportWorkers : saver'[w] # NotSaving => checker'[w] # Unloaded
    BY DEF ReportInv, TurnsPayWell, Moves
  <2>3. QED
    BY <2>1, <2>2 DEF TurnsPayWell
<1>4. \A t \in ReportTenants : NotedFor(t)' = NotedFor(t)
  BY <1>1, MovesTo
<1>5. AllNoted' = AllNoted
  BY <1>4 DEF AllNoted, NotedBy
<1>6. ReportsAreKnown'
  BY <1>5 DEF ReportInv, ReportsAreKnown, Moves
<1>7. BooksAgree'
  <2>1. \A w : TurnsOfWorker(w)' = TurnsOfWorker(w)
    BY DEF TurnsOfWorker, Moves
  <2>2. QED
    BY <1>4, <2>1 DEF ReportInv, BooksAgree, NotedBy, Moves
<1>8. LastIsWritten'
  <2>1. LastWriteConverges'
    BY DEF ReportInv, LastIsWritten, LastWriteConverges, TurnsOfWorker, Moves
  <2>2. QED
    BY <2>1 DEF ReportInv, LastIsWritten, SaverWorker, Moves
<1>9. QED
  BY <1>2, <1>3, <1>6, <1>7, <1>8 DEF ReportInv

\* Of a call that is not granted anew.
LEMMA MovesQuietly ==
    ASSUME ReportInv, NEW payer \in ReportTurns, NEW p, Moves(payer, p),
           p.at \in NeedsChecker => paying[payer].at \in NeedsChecker,
           UNCHANGED <<checker, found>>, GrantedOf(p) <= GrantedOf(paying[payer])
    PROVE  ReportInv'
<1>1. ReportTyped
  BY DEF ReportInv
<1>2. p.at \in NeedsChecker => checker[workerOf[payer]] # Unloaded
  BY DEF ReportInv, TurnsPayWell
<1>3. ReportTyped'
  BY <1>1, MovesTo DEF ReportTyped, Moves
<1>4. TurnsPayWell'
  <2>1. ASSUME NEW q \in ReportTurns
        PROVE  /\ PaysWell(q, paying'[q], saver'[q])
               /\ paying'[q].at \in NeedsChecker => checker'[workerOf'[q]] # Unloaded
               /\ paying'[q].at = "judge" => paying'[q].budget \in inForce'[TenantIds[q][1]]
    <3>1. CASE q = payer
      BY <1>1, <1>2, <3>1, MovesTo DEF Moves
    <3>2. CASE q # payer
      BY <1>1, <3>2, MovesTo DEF ReportInv, TurnsPayWell, Moves
    <3>3. QED
      BY <3>1, <3>2
  <2>2. \A w \in ReportWorkers : saver'[w] # NotSaving => checker'[w] # Unloaded
    BY DEF ReportInv, TurnsPayWell, Moves
  <2>3. QED
    BY <2>1, <2>2 DEF TurnsPayWell
<1>5. \A q \in ReportTurns : GrantedOf(paying'[q]) <= GrantedOf(paying[q])
  <2>1. ASSUME NEW q \in ReportTurns
        PROVE  GrantedOf(paying[q]) \in Nat
    BY <1>1 DEF ReportTyped, PayingStates, GrantedOf
  <2>2. \A q \in ReportTurns : q # payer => GrantedOf(paying'[q]) = GrantedOf(paying[q])
    BY <1>1, MovesTo
  <2>3. paying'[payer] = p
    BY <1>1, MovesTo
  <2>4. QED
    BY <2>1, <2>2, <2>3
<1>6. TurnsStop'
  BY <1>3, <1>4, <1>5, GrantsStay DEF Moves
<1>7. QED
  BY <1>2, <1>6, MovesKeeps

\* A call that begins is not recorded.
LEMMA CallModelKeeps ==
    ASSUME ReportInv, NEW payer \in ReportTurns, CallModel(payer)
    PROVE  ReportInv'
<1> DEFINE old == paying[payer]
           p == [old EXCEPT !.at = "record", !.calls = @ + 1]
<1>1. /\ old \in PayingStates /\ PaysWell(payer, old, saver[payer])
      /\ old.at = "ready" /\ old.calls \in Nat
  BY TurnIsPaying DEF ReportInv, CallModel, PayingStates
<1>2. paying' = [paying EXCEPT ![payer] = p]
  BY DEF CallModel
<1>3. old.nth = 1 /\ saver[payer] = NotSaving
  BY <1>1 DEF PaysWell
<1>4. /\ p \in PayingStates /\ p.at = "record" /\ p.calls = old.calls + 1 /\ p.nth = old.nth
      /\ p.calls > 0
  <2>1. old.calls + 1 \in Nat /\ old.calls + 1 > 0
    BY <1>1
  <2>2. p \in PayingStates /\ p.at = "record" /\ p.calls = old.calls + 1 /\ p.nth = old.nth
    BY <1>1, <2>1 DEF PayingStates
  <2>3. QED
    BY <2>1, <2>2
<1> HIDE DEF p, old
<1>5. PaysWell(payer, p, saver[payer])
  BY <1>1, <1>3, <1>4 DEF PaysWell
<1>6. ASSUME NEW t \in ReportTenants
      PROVE  NotedOf(payer, p, saver[payer], t) = NotedOf(payer, old, saver[payer], t)
  <2>1. CASE Contains(TenantIds[payer], t)
    <3>1. OwesFor(payer, p, saver[payer], t)
      BY <1>3, <1>4, <2>1 DEF OwesFor, Contains
    <3>2. ~OwesFor(payer, old, saver[payer], t)
      BY <1>1 DEF OwesFor
    <3>3. p.calls - 1 = old.calls
      BY <1>1, <1>4
    <3>4. QED
      BY <2>1, <3>1, <3>2, <3>3 DEF NotedOf
  <2>2. CASE ~Contains(TenantIds[payer], t)
    BY <2>2 DEF NotedOf
  <2>3. QED
    BY <2>1, <2>2
<1>7. Moves(payer, p)
  BY <1>2, <1>4, <1>5, <1>6 DEF Moves, CallModel, old
<1>8. GrantedOf(p) <= GrantedOf(old)
  <2>1. GrantedOf(p) = old.calls + 1 /\ GrantedOf(old) = old.calls + 1
    BY <1>1, <1>4 DEF GrantedOf
  <2>2. QED
    BY <1>1, <2>1
<1>9. UNCHANGED <<checker, found>>
  BY DEF CallModel
<1>10. p.at \notin NeedsChecker
  BY <1>4 DEF NeedsChecker
<1>11. QED
  BY <1>7, <1>8, <1>9, <1>10, MovesQuietly DEF old

\* A budget that is read is one that was in force; none is no limit.
LEMMA ReadBudgetKeeps ==
    ASSUME ReportInv, NEW payer \in ReportTurns, ReadBudget(payer)
    PROVE  ReportInv'
<1> DEFINE old == paying[payer]
           first == TenantIds[payer][1]
           budget == BudgetOf(first, checker[workerOf[payer]])
           to == IF budget = 0 THEN "ready" ELSE "judge"
           p == [old EXCEPT !.budget = budget, !.at = to]
<1>1. /\ old \in PayingStates /\ PaysWell(payer, old, saver[payer])
      /\ old.at = "check" /\ old.calls \in Nat
  BY TurnIsPaying DEF ReportInv, ReadBudget, PayingStates
<1>2. paying' = [paying EXCEPT ![payer] = p]
  BY DEF ReadBudget
<1>3. old.nth = 1 /\ saver[payer] = NotSaving
  BY <1>1 DEF PaysWell
<1>4. first \in ReportTenants
  BY TenantsOfTurn
<1>5. budget \in inForce[first]
  <2>1. checker[workerOf[payer]] # Unloaded /\ workerOf[payer] \in ReportWorkers
    BY <1>1, TurnIsPaying DEF ReportInv, TurnsPayWell, NeedsChecker
  <2>2. checker[workerOf[payer]].overrides[first] \in inForce[first] \cup {NoBudget}
    BY <1>4, <2>1 DEF ReportInv, ReportsAreKnown, KnownAs
  <2>3. DefaultBudget \in inForce[first]
    BY <1>4 DEF ReportInv, ReportsAreKnown
  <2>4. QED
    BY <2>2, <2>3 DEF BudgetOf
<1>6. budget \in Nat
  BY <1>4, <1>5 DEF ReportInv, ReportTyped
<1>7. to \in {"ready", "judge"} /\ (to = "ready" => budget = 0)
  OBVIOUS
<1> HIDE DEF old, budget, to
<1>8. p \in PayingStates /\ p.at = to /\ p.calls = old.calls /\ p.nth = old.nth /\ p.budget = budget
  BY <1>1, <1>6, <1>7 DEF PayingStates
<1> HIDE DEF p
<1>9. PaysWell(payer, p, saver[payer])
  BY <1>1, <1>3, <1>7, <1>8 DEF PaysWell
<1>10. ASSUME NEW t \in ReportTenants
       PROVE  NotedOf(payer, p, saver[payer], t) = NotedOf(payer, old, saver[payer], t)
  <2>1. ~OwesFor(payer, p, saver[payer], t) /\ ~OwesFor(payer, old, saver[payer], t)
    BY <1>1, <1>7, <1>8 DEF OwesFor
  <2>2. QED
    BY <1>8, <2>1 DEF NotedOf
<1>11. Moves(payer, p)
  BY <1>2, <1>5, <1>8, <1>9, <1>10 DEF Moves, ReadBudget, old
<1>12. checker[workerOf[payer]] # Unloaded
  BY <1>1 DEF ReportInv, TurnsPayWell, NeedsChecker, old
<1>13. UNCHANGED <<checker, found>>
  BY DEF ReadBudget
<1>14. CASE to = "judge"
  <2>1. GrantedOf(p) <= GrantedOf(old)
    BY <1>1, <1>8, <1>14 DEF GrantedOf
  <2>2. p.at \in NeedsChecker /\ old.at \in NeedsChecker
    BY <1>1, <1>8, <1>14 DEF NeedsChecker
  <2>3. QED
    BY <1>11, <1>13, <2>1, <2>2, MovesQuietly DEF old
<1>15. CASE to = "ready"
  <2>1. 0 \in inForce[first]
    BY <1>5, <1>7, <1>15
  <2>2. TurnsStop'
    <3> SUFFICES ASSUME NEW w \in ReportWorkers \ crashed', NEW t \in ReportTenants,
                        ~reserving', 0 \notin inForce'[t]
                 PROVE  GrantsEnd(w, t)'
      BY DEF TurnsStop
    <3>1. UNCHANGED <<workerOf, reserving, inForce, crashed>>
      BY DEF ReadBudget
    <3>2. OwnTurns(w, t)' = OwnTurns(w, t)
      BY <3>1 DEF OwnTurns, TurnsOfWorker
    <3>3. payer \notin OwnTurns(w, t)
      <4>1. SUFFICES ASSUME TenantIds[payer] = <<t>> PROVE FALSE
        BY DEF OwnTurns
      <4>2. first = t
        BY <4>1
      <4>3. QED
        BY <2>1, <3>1, <4>2
    <3>4. OwnTurns(w, t) \subseteq ReportTurns /\ IsFiniteSet(OwnTurns(w, t))
      BY SomeTurns
    <3>5. ASSUME NEW q \in OwnTurns(w, t)
          PROVE  Granted'[q] = Granted[q]
      <4>1. q \in ReportTurns /\ q # payer
        BY <3>3, <3>4
      <4>2. paying'[q] = paying[q]
        BY <1>11, <4>1, MovesTo DEF ReportInv
      <4>3. QED
        BY <4>1, <4>2 DEF Granted
    <3>6. SumOver(Granted', OwnTurns(w, t)) = SumOver(Granted, OwnTurns(w, t))
      BY <3>4, <3>5, SumAgrees
    <3>7. GrantsEnd(w, t)
      BY <3>1 DEF ReportInv, TurnsStop
    <3>8. QED
      BY <3>1, <3>2, <3>6, <3>7 DEF GrantsEnd
  <2>3. QED
    BY <1>11, <1>12, <1>13, <2>2, MovesKeeps
<1>16. QED
  BY <1>7, <1>14, <1>15

\* A turn that is cancelled stays where it is.
LEMMA CancelTurnKeeps ==
    ASSUME ReportInv, NEW payer \in ReportTurns, CancelTurn(payer)
    PROVE  ReportInv'
<1> DEFINE old == paying[payer]
           p == [old EXCEPT !.cancelled = TRUE]
<1>1. old \in PayingStates /\ PaysWell(payer, old, saver[payer])
  BY TurnIsPaying DEF ReportInv
<1>2. paying' = [paying EXCEPT ![payer] = p]
  BY DEF CancelTurn
<1>3. /\ p \in PayingStates /\ p.at = old.at /\ p.calls = old.calls /\ p.nth = old.nth
      /\ p.budget = old.budget
  BY <1>1 DEF PayingStates
<1>4. old.at = "judge" => old.budget \in inForce[TenantIds[payer][1]]
  BY DEF ReportInv, TurnsPayWell
<1> HIDE DEF p, old
<1>5. PaysWell(payer, p, saver[payer])
  BY <1>1, <1>3 DEF PaysWell
<1>6. \A t \in ReportTenants :
         NotedOf(payer, p, saver[payer], t) = NotedOf(payer, old, saver[payer], t)
  BY <1>3 DEF NotedOf, OwesFor
<1>7. Moves(payer, p)
  BY <1>2, <1>3, <1>4, <1>5, <1>6 DEF Moves, CancelTurn, old
<1>8. GrantedOf(p) = GrantedOf(old) /\ GrantedOf(old) \in Nat
  BY <1>1, <1>3 DEF GrantedOf, PayingStates
<1>9. GrantedOf(p) <= GrantedOf(old)
  BY <1>8
<1>10. UNCHANGED <<checker, found>>
  BY DEF CancelTurn
<1>11. QED
  BY <1>3, <1>7, <1>9, <1>10, MovesQuietly DEF old

\* The books of a worker bound what its turns recorded.
LEMMA NotedIsSpent ==
    ASSUME ReportInv, NEW w \in ReportWorkers \ crashed, NEW t \in ReportTenants,
           checker[w] # Unloaded, NEW turns, turns \subseteq TurnsOfWorker(w)
    PROVE  NotedBy(turns, t) <= checker[w].spent[t] /\ checker[w].spent[t] \in Nat
<1> DEFINE all == TurnsOfWorker(w)
<1>1. ReportTyped /\ TurnsPayWell
  BY DEF ReportInv
<1>2. all \subseteq ReportTurns /\ IsFiniteSet(all) /\ turns \subseteq ReportTurns
      /\ (all \ turns) \subseteq ReportTurns
  BY SomeTurns
<1>3. \A x \in all : NotedFor(t)[x] \in Nat
  BY <1>1, <1>2, NotedByIs
<1>4. NotedBy(all, t) = NotedBy(turns, t) + NotedBy(all \ turns, t)
  BY <1>2, <1>3, SumSplits DEF NotedBy
<1>5. NotedBy(turns, t) \in Nat /\ NotedBy(all \ turns, t) \in Nat
  BY <1>1, <1>2, NotedByIs
<1>6. checker[w].spent[t] = found[w][t] + NotedBy(all, t)
  BY DEF ReportInv, BooksAgree
<1>7. found[w][t] \in Nat
  BY <1>1 DEF ReportTyped
<1> HIDE DEF all
<1>8. QED
  BY <1>4, <1>5, <1>6, <1>7

\* A turn goes on only where less is recorded than the budget allows.
LEMMA JudgeSpendingKeeps ==
    ASSUME ReportInv, NEW payer \in ReportTurns, JudgeSpending(payer)
    PROVE  ReportInv'
<1> DEFINE old == paying[payer]
           first == TenantIds[payer][1]
           u == workerOf[payer]
           to == IF checker[u].spent[first] >= old.budget THEN "limited" ELSE "ready"
           p == [old EXCEPT !.at = to]
<1>1. /\ old \in PayingStates /\ PaysWell(payer, old, saver[payer])
      /\ old.at = "judge" /\ old.calls \in Nat /\ old.budget \in Nat /\ u \in ReportWorkers
  BY TurnIsPaying DEF ReportInv, JudgeSpending, PayingStates
<1>2. paying' = [paying EXCEPT ![payer] = p]
  BY DEF JudgeSpending
<1>3. old.nth = 1 /\ saver[payer] = NotSaving
  BY <1>1 DEF PaysWell
<1>4. first \in ReportTenants
  BY TenantsOfTurn
<1>5. old.budget \in inForce[first] /\ checker[u] # Unloaded
  BY <1>1 DEF ReportInv, TurnsPayWell, NeedsChecker
<1>6. to \in {"ready", "limited"} /\ (to = "ready" => ~(checker[u].spent[first] >= old.budget))
  OBVIOUS
<1> HIDE DEF old, to
<1>7. p \in PayingStates /\ p.at = to /\ p.calls = old.calls /\ p.nth = old.nth
  BY <1>1, <1>6 DEF PayingStates
<1> HIDE DEF p
<1>8. PaysWell(payer, p, saver[payer])
  BY <1>1, <1>3, <1>6, <1>7 DEF PaysWell
<1>9. ASSUME NEW t \in ReportTenants
      PROVE  NotedOf(payer, p, saver[payer], t) = NotedOf(payer, old, saver[payer], t)
  <2>1. ~OwesFor(payer, p, saver[payer], t) /\ ~OwesFor(payer, old, saver[payer], t)
    BY <1>1, <1>6, <1>7 DEF OwesFor
  <2>2. QED
    BY <1>7, <2>1 DEF NotedOf
<1>10. Moves(payer, p)
  BY <1>2, <1>6, <1>7, <1>8, <1>9 DEF Moves, JudgeSpending, old
<1>11. UNCHANGED <<checker, found>>
  BY DEF JudgeSpending
<1>12. p.at \notin NeedsChecker
  BY <1>6, <1>7 DEF NeedsChecker
<1>13. CASE to = "limited"
  <2>1. GrantedOf(p) <= GrantedOf(old)
    BY <1>1, <1>7, <1>13 DEF GrantedOf
  <2>2. QED
    BY <1>10, <1>11, <1>12, <2>1, MovesQuietly DEF old
<1>14. CASE to = "ready"
  <2>1. TurnsStop'
    <3> SUFFICES ASSUME NEW w \in ReportWorkers \ crashed', NEW t \in ReportTenants,
                        ~reserving', 0 \notin inForce'[t]
                 PROVE  GrantsEnd(w, t)'
      BY DEF TurnsStop
    <3> DEFINE own == OwnTurns(w, t)
    <3>1. UNCHANGED <<workerOf, reserving, inForce, crashed>>
      BY DEF JudgeSpending
    <3>2. OwnTurns(w, t)' = own
      BY <3>1 DEF OwnTurns, TurnsOfWorker
    <3>3. own \subseteq ReportTurns /\ IsFiniteSet(own) /\ own \subseteq TurnsOfWorker(w)
      BY SomeTurns
    <3>4. GrantsEnd(w, t)
      BY <3>1 DEF ReportInv, TurnsStop
    <3>5. CASE payer \notin own
      <4>1. ASSUME NEW q \in own
            PROVE  Granted'[q] = Granted[q]
        <5>1. q \in ReportTurns /\ q # payer
          BY <3>3, <3>5
        <5>2. paying'[q] = paying[q]
          BY <1>10, <5>1, MovesTo DEF ReportInv
        <5>3. QED
          BY <5>1, <5>2 DEF Granted
      <4>2. SumOver(Granted', own) = SumOver(Granted, own)
        BY <3>3, <4>1, SumAgrees
      <4>3. QED
        BY <3>1, <3>2, <3>4, <4>2 DEF GrantsEnd
    <3>6. CASE payer \in own
      <4>1. w = u /\ t = first
        BY <3>6 DEF OwnTurns, TurnsOfWorker
      <4>2. NotedBy(own, t) <= checker[u].spent[first] /\ checker[u].spent[first] \in Nat
        BY <1>4, <1>5, <3>1, <3>3, <4>1, NotedIsSpent
      <4>3. NotedBy(own, t) + 1 <= old.budget /\ NotedBy(own, t) \in Nat
        <5>1. NotedBy(own, t) \in Nat
          BY <3>3, NotedByIs DEF ReportInv
        <5>2. QED
          BY <1>1, <1>6, <1>14, <4>2, <5>1
      <4> DEFINE more == [q \in ReportTurns |-> NotedFor(t)[q] + 1]
      <4>4. ASSUME NEW q \in own
            PROVE  NotedFor(t)[q] \in Nat /\ Granted'[q] \in Nat /\ Granted'[q] <= more[q]
        <5>1. q \in ReportTurns /\ Contains(TenantIds[q], t)
          <6>1. TenantIds[q] = <<t>>
            BY DEF OwnTurns
          <6>2. QED
            BY <3>3, <6>1 DEF Contains
        <5>2. /\ paying[q] \in PayingStates /\ PaysWell(q, paying[q], saver[q])
              /\ NotedFor(t)[q] = NotedOf(q, paying[q], saver[q], t) /\ NotedFor(t)[q] \in Nat
          BY <5>1, TurnIsPaying DEF ReportInv
        <5>3. Granted'[q] = GrantedOf(paying'[q])
          BY <5>1 DEF Granted
        <5>4. CASE q = payer
          <6>1. Granted'[q] = GrantedOf(p)
            BY <1>10, <5>3, <5>4, MovesTo DEF ReportInv
          <6>2. NotedOf(payer, p, saver[payer], t) + 1 >= GrantedOf(p)
            BY <1>7, <1>8, <5>1, <5>4, NotedIs
          <6>3. NotedOf(payer, p, saver[payer], t) = NotedFor(t)[q]
            BY <1>4, <1>9, <4>1, <5>2, <5>4 DEF old
          <6>4. GrantedOf(p) \in Nat
            BY <1>7 DEF GrantedOf, PayingStates
          <6>5. QED
            BY <5>1, <5>2, <6>1, <6>2, <6>3, <6>4
        <5>5. CASE q # payer
          <6>1. Granted'[q] = GrantedOf(paying[q])
            BY <1>10, <5>1, <5>3, <5>5, MovesTo DEF ReportInv
          <6>2. NotedOf(q, paying[q], saver[q], t) + 1 >= GrantedOf(paying[q])
            BY <5>1, <5>2, NotedIs
          <6>3. GrantedOf(paying[q]) \in Nat
            BY <5>2 DEF GrantedOf, PayingStates
          <6>4. QED
            BY <5>1, <5>2, <6>1, <6>2, <6>3
        <5>6. QED
          BY <5>4, <5>5
      <4>5. \A q \in own : more[q] = NotedFor(t)[q] + 1 /\ more[q] \in Int
        BY <3>3, <4>4
      <4> HIDE DEF more, own
      <4>6. SumOver(Granted', own) <= SumOver(more, own)
        BY <3>3, <4>4, <4>5, SumGrows
      <4>7. SumOver(more, own) = SumOver(NotedFor(t), own) + Cardinality(own)
        BY <3>3, <4>4, <4>5, SumMarked
      <4>8. SumOver(Granted', own) \in Nat /\ Cardinality(own) \in Nat
        BY <3>3, <4>4, SumIsNat, FS_CardinalityType
      <4>9. SumOver(Granted', own) + 1 <= old.budget + Cardinality(own)
        BY <1>1, <4>3, <4>6, <4>7, <4>8 DEF NotedBy
      <4>10. old.budget \in inForce'[t]
        BY <1>5, <3>1, <4>1
      <4>11. QED
        BY <3>2, <4>9, <4>10 DEF GrantsEnd
    <3>7. QED
      BY <3>5, <3>6
  <2>2. QED
    BY <1>10, <1>11, <1>12, <2>1, MovesKeeps
<1>15. QED
  BY <1>6, <1>13, <1>14

-----------------------------------------------------------------------------
\* What a worker has when it needs its checker: what it remembers, or what it finds.
LEMMA CheckerIs ==
    ASSUME ReportInv, NEW w \in ReportWorkers, Loads(w)
    PROVE  /\ CheckerOf(w) \in Report /\ KnownAs(CheckerOf(w), AllNoted, inForce)
           /\ found' \in [ReportWorkers -> [ReportTenants -> Nat]]
           /\ \A o \in ReportWorkers : o # w => found'[o] = found[o]
           /\ w \notin crashed =>
                 \A t \in ReportTenants :
                     CheckerOf(w).spent[t] = found'[w][t] + NotedBy(TurnsOfWorker(w), t)
           /\ checker[w] # Unloaded => CheckerOf(w) = checker[w]
           /\ checker[w] = Unloaded => CheckerOf(w) = spendingFile
<1>1. /\ checker[w] \in Report \cup {Unloaded} /\ spendingFile \in Report
      /\ found \in [ReportWorkers -> [ReportTenants -> Nat]]
  BY DEF ReportInv, ReportTyped
<1>2. spendingFile.spent \in [ReportTenants -> Nat]
  BY <1>1 DEF Report
<1>3. /\ found' \in [ReportWorkers -> [ReportTenants -> Nat]]
      /\ \A o \in ReportWorkers : o # w => found'[o] = found[o]
      /\ checker[w] # Unloaded => found'[w] = found[w]
      /\ checker[w] = Unloaded => found'[w] = spendingFile.spent
  BY <1>1, <1>2 DEF Loads
<1>4. CheckerOf(w) \in Report /\ KnownAs(CheckerOf(w), AllNoted, inForce)
  BY <1>1 DEF CheckerOf, ReportInv, ReportsAreKnown
<1>5. ASSUME w \notin crashed, NEW t \in ReportTenants
      PROVE  CheckerOf(w).spent[t] = found'[w][t] + NotedBy(TurnsOfWorker(w), t)
  <2>1. CASE checker[w] # Unloaded
    BY <1>3, <1>5, <2>1 DEF CheckerOf, ReportInv, BooksAgree
  <2>2. CASE checker[w] = Unloaded
    <3>1. NotedBy(TurnsOfWorker(w), t) = 0
      BY <1>5, <2>2 DEF ReportInv, BooksAgree
    <3>2. CheckerOf(w).spent[t] = spendingFile.spent[t] /\ spendingFile.spent[t] \in Nat
      BY <1>2, <2>2 DEF CheckerOf
    <3>3. QED
      BY <1>3, <2>2, <3>1, <3>2
  <2>3. QED
    BY <2>1, <2>2
<1>6. QED
  BY <1>3, <1>4, <1>5 DEF CheckerOf

\* The worker has its checker before the thread begins.
LEMMA StartThreadKeeps ==
    ASSUME ReportInv, NEW payer \in ReportTurns, StartThread(payer)
    PROVE  ReportInv'
<1> DEFINE old == paying[payer]
           p == [old EXCEPT !.at = "thread"]
           w == workerOf[payer]
<1>1. /\ old \in PayingStates /\ PaysWell(payer, old, saver[payer])
      /\ old.at = "record" /\ old.calls \in Nat /\ w \in ReportWorkers
  BY TurnIsPaying DEF ReportInv, StartThread, PayingStates
<1>2. /\ paying' = [paying EXCEPT ![payer] = p]
      /\ checker' = [checker EXCEPT ![w] = CheckerOf(w)] /\ Loads(w)
  BY DEF StartThread
<1>3. p \in PayingStates /\ p.at = "thread" /\ p.calls = old.calls /\ p.nth = old.nth
  BY <1>1 DEF PayingStates
<1> HIDE DEF p, old
<1>4. PaysWell(payer, p, saver[payer])
  BY <1>1, <1>3 DEF PaysWell
<1>5. \A t \in ReportTenants :
         NotedOf(payer, p, saver[payer], t) = NotedOf(payer, old, saver[payer], t)
  BY <1>1, <1>3 DEF NotedOf, OwesFor
<1>6. Moves(payer, p)
  BY <1>2, <1>3, <1>4, <1>5 DEF Moves, StartThread, old
<1>7. ReportTyped /\ checker \in [ReportWorkers -> Report \cup {Unloaded}]
  BY DEF ReportInv, ReportTyped
<1>8. /\ CheckerOf(w) \in Report /\ KnownAs(CheckerOf(w), AllNoted, inForce)
      /\ checker[w] # Unloaded => CheckerOf(w) = checker[w]
      /\ checker[w] = Unloaded => CheckerOf(w) = spendingFile
  BY <1>1, <1>2, CheckerIs
<1> HIDE DEF w
<1>9. /\ checker' \in [ReportWorkers -> Report \cup {Unloaded}]
      /\ checker'[w] = CheckerOf(w) /\ checker'[w] # Unloaded
      /\ \A o \in ReportWorkers : o # w => checker'[o] = checker[o]
      /\ \A o \in ReportWorkers : checker[o] # Unloaded => checker'[o] = checker[o]
  BY <1>1, <1>2, <1>7, <1>8, SpendingReportAssumption
<1>10. ReportTyped'
  <2>1. found' \in [ReportWorkers -> [ReportTenants -> Nat]]
    BY <1>1, <1>2, CheckerIs
  <2>2. QED
    BY <1>6, <1>7, <1>9, <2>1, MovesTo DEF ReportTyped, Moves
<1>11. TurnsPayWell'
  <2>1. ASSUME NEW q \in ReportTurns
        PROVE  /\ PaysWell(q, paying'[q], saver'[q])
               /\ paying'[q].at \in NeedsChecker => checker'[workerOf'[q]] # Unloaded
               /\ paying'[q].at = "judge" => paying'[q].budget \in inForce'[TenantIds[q][1]]
    <3>1. workerOf[q] \in ReportWorkers /\ workerOf' = workerOf
      BY <1>6, <1>7 DEF ReportTyped, Moves
    <3>2. CASE q = payer
      <4>1. paying'[q] = p /\ saver' = saver /\ workerOf'[q] = w
        BY <1>6, <1>7, <3>1, <3>2, MovesTo DEF Moves, w
      <4>2. QED
        BY <1>3, <1>4, <1>9, <3>2, <4>1
    <3>3. CASE q # payer
      <4>1. paying'[q] = paying[q] /\ saver' = saver /\ inForce' = inForce
        BY <1>6, <1>7, <3>3, MovesTo DEF Moves
      <4>2. QED
        BY <1>9, <3>1, <4>1 DEF ReportInv, TurnsPayWell
    <3>4. QED
      BY <3>2, <3>3
  <2>2. \A o \in ReportWorkers : saver'[o] # NotSaving => checker'[o] # Unloaded
    BY <1>6, <1>9 DEF ReportInv, TurnsPayWell, Moves
  <2>3. QED
    BY <2>1, <2>2 DEF TurnsPayWell
<1>12. \A t \in ReportTenants : NotedFor(t)' = NotedFor(t)
  BY <1>6, <1>7, MovesTo
<1>13. AllNoted' = AllNoted
  BY <1>12 DEF AllNoted, NotedBy
<1>14. ReportsAreKnown'
  BY <1>6, <1>8, <1>9, <1>13 DEF ReportInv, ReportsAreKnown, Moves
<1>15. BooksAgree'
  <2> SUFFICES ASSUME NEW o \in ReportWorkers \ crashed', NEW t \in ReportTenants
               PROVE  /\ checker'[o] = Unloaded => NotedBy(TurnsOfWorker(o), t)' = 0
                      /\ checker'[o] # Unloaded =>
                            checker'[o].spent[t]
                            = found'[o][t] + NotedBy(TurnsOfWorker(o), t)'
    BY DEF BooksAgree
  <2>1. NotedBy(TurnsOfWorker(o), t)' = NotedBy(TurnsOfWorker(o), t) /\ o \notin crashed
    BY <1>6, <1>12 DEF TurnsOfWorker, NotedBy, Moves
  <2>2. CASE o = w
    BY <1>1, <1>2, <1>9, <2>1, <2>2, CheckerIs
  <2>3. CASE o # w
    <3>1. checker'[o] = checker[o] /\ found'[o] = found[o]
      BY <1>1, <1>2, <1>9, <2>3, CheckerIs
    <3>2. QED
      BY <2>1, <3>1 DEF ReportInv, BooksAgree
  <2>4. QED
    BY <2>2, <2>3
<1>16. TurnsStop'
  <2>1. ASSUME NEW q \in ReportTurns
        PROVE  GrantedOf(paying'[q]) <= GrantedOf(paying[q])
    <3>1. GrantedOf(paying[q]) \in Nat
      BY <1>7 DEF ReportTyped, PayingStates, GrantedOf
    <3>2. CASE q = payer
      <4>1. GrantedOf(paying'[q]) = old.calls /\ GrantedOf(paying[q]) = old.calls
        BY <1>1, <1>3, <1>6, <1>7, <3>2, MovesTo DEF GrantedOf, old
      <4>2. QED
        BY <3>1, <4>1
    <3>3. CASE q # payer
      BY <1>6, <1>7, <3>1, <3>3, MovesTo
    <3>4. QED
      BY <3>2, <3>3
  <2>2. QED
    BY <1>6, <1>10, <1>11, <2>1, GrantsStay DEF Moves
<1>17. LastIsWritten'
  <2>1. ASSUME NEW s \in SaverNames, saver[s] # NotSaving
        PROVE  SaverWorker(s) \in ReportWorkers /\ checker[SaverWorker(s)] # Unloaded
    <3>1. CASE s \in ReportTurns
      <4>1. workerOf[s] \in ReportWorkers /\ paying[s].at = "thread"
        BY <1>7, <2>1, <3>1 DEF ReportInv, TurnsPayWell, PaysWell, ReportTyped
      <4>2. QED
        BY <3>1, <4>1 DEF ReportInv, TurnsPayWell, NeedsChecker, SaverWorker
    <3>2. CASE s \notin ReportTurns
      BY <2>1, <3>2 DEF ReportInv, TurnsPayWell, SaverNames, SaverWorker
    <3>3. QED
      BY <3>1, <3>2
  <2>2. ASSUME NEW s \in SaverNames, saver'[s].at = "write" /\ saver'[s].newest
        PROVE  saver'[s].snapshot = checker'[SaverWorker(s)']
    <3>1. saver' = saver /\ SaverWorker(s)' = SaverWorker(s)
      BY <1>6 DEF Moves, SaverWorker
    <3>2. saver[s] # NotSaving
      BY <2>2, <3>1 DEF NotSaving
    <3>3. QED
      BY <1>9, <2>1, <2>2, <3>1, <3>2 DEF ReportInv, LastIsWritten
  <2>3. LastWriteConverges'
    <3> SUFFICES ASSUME NEW o \in ReportWorkers, settled', checker'[o] # Unloaded,
                        TurnsOfWorker(o)' = ReportTurns,
                        \A x \in ReportWorkers \ {o} : checker'[x] = Unloaded
                 PROVE  spendingFile' = checker'[o]
      BY DEF LastWriteConverges
    <3>1. o = w /\ spendingFile' = spendingFile /\ settled
      BY <1>1, <1>6, <1>9 DEF Moves
    <3>2. CASE checker[w] = Unloaded
      BY <1>8, <1>9, <3>1, <3>2
    <3>3. CASE checker[w] # Unloaded
      <4>1. \A x \in ReportWorkers \ {o} : checker[x] = Unloaded
        BY <1>9, <3>1
      <4>2. TurnsOfWorker(o) = ReportTurns
        BY <1>6 DEF TurnsOfWorker, Moves
      <4>3. spendingFile = checker[o]
        BY <3>1, <3>3, <4>1, <4>2 DEF ReportInv, LastIsWritten, LastWriteConverges
      <4>4. QED
        BY <1>9, <3>1, <3>3, <4>3
    <3>4. QED
      BY <3>2, <3>3
  <2>4. QED
    BY <2>2, <2>3 DEF LastIsWritten, SaverNames
<1>18. QED
  BY <1>10, <1>11, <1>14, <1>15, <1>16, <1>17 DEF ReportInv

\* One that saves works for a worker that has its checker.
LEMMA SaverHasChecker ==
    ASSUME ReportInv, NEW s \in SaverNames, saver[s] # NotSaving
    PROVE  /\ SaverWorker(s) \in ReportWorkers /\ checker[SaverWorker(s)] \in Report
           /\ checker[SaverWorker(s)] # Unloaded
<1>1. CASE s \in ReportTurns
  <2>1. workerOf[s] \in ReportWorkers /\ paying[s].at = "thread"
    BY <1>1 DEF ReportInv, TurnsPayWell, PaysWell, ReportTyped
  <2>2. checker[workerOf[s]] # Unloaded
    BY <1>1, <2>1 DEF ReportInv, TurnsPayWell, NeedsChecker
  <2>3. QED
    BY <1>1, <2>1, <2>2 DEF ReportInv, ReportTyped, SaverWorker
<1>2. CASE s \notin ReportTurns
  BY <1>2 DEF ReportInv, TurnsPayWell, ReportTyped, SaverNames, SaverWorker
<1>3. QED
  BY <1>1, <1>2

\* A saver that is no longer the newest.
LEMMA OlderIs ==
    ASSUME NEW s \in SaverStates, s # NotSaving
    PROVE  LET older == [s EXCEPT !.newest = FALSE] IN
           /\ older \in SaverStates /\ older # NotSaving /\ older.at = s.at /\ ~older.newest
           /\ s.at = "write" => older.snapshot = s.snapshot
<1>1. CASE s \in [at : {"changed"}, newest : BOOLEAN]
  BY <1>1 DEF SaverStates, NotSaving
<1>2. CASE s \in [at : {"write"}, newest : BOOLEAN, snapshot : Report]
  BY <1>2 DEF SaverStates, NotSaving
<1>3. QED
  BY <1>1, <1>2 DEF SaverStates

\* The savers after a change: its own, and others that are not the newest any more.
LEMMA ChangeIs ==
    ASSUME ReportTyped, NEW s \in SaverNames, NEW w \in ReportWorkers, NEW report \in Report,
           Change(s, w, report)
    PROVE  /\ saver' \in [SaverNames -> SaverStates] /\ saver'[s].at = "changed"
           /\ saver'[s] # NotSaving
           /\ \A o \in SaverNames : saver'[o].at = "write" =>
                 /\ ~saver'[o].newest /\ saver[o].at = "write"
                 /\ saver'[o].snapshot = saver[o].snapshot
           /\ \A o \in SaverNames : o # s => (saver'[o] = NotSaving <=> saver[o] = NotSaving)
           /\ checker' \in [ReportWorkers -> Report \cup {Unloaded}]
           /\ checker'[w] = report /\ checker'[w] # Unloaded
           /\ \A o \in ReportWorkers : o # w => checker'[o] = checker[o]
           /\ ~settled'
<1>1. /\ DOMAIN saver = SaverNames /\ \A o \in SaverNames : saver[o] \in SaverStates
      /\ checker \in [ReportWorkers -> Report \cup {Unloaded}]
  BY DEF ReportTyped
<1>2. /\ saver' = [o \in SaverNames |->
            IF o = s THEN Changed
            ELSE IF saver[o] = NotSaving THEN NotSaving ELSE [saver[o] EXCEPT !.newest = FALSE]]
      /\ checker' = [checker EXCEPT ![w] = report] /\ ~settled'
  BY <1>1 DEF Change
<1>3. Changed \in SaverStates /\ Changed.at = "changed" /\ Changed # NotSaving
  <2>1. Changed \in [at : {"changed"}, newest : BOOLEAN] /\ Changed.at = "changed"
    BY DEF Changed
  <2>2. QED
    BY <2>1 DEF SaverStates, NotSaving
<1>4. NotSaving \in SaverStates /\ NotSaving.at = "none"
  BY DEF SaverStates, NotSaving
<1>5. ASSUME NEW o \in SaverNames
      PROVE  /\ saver'[o] \in SaverStates
             /\ o = s => saver'[o].at = "changed" /\ saver'[o] # NotSaving
             /\ saver'[o].at = "write" =>
                   /\ ~saver'[o].newest /\ saver[o].at = "write"
                   /\ saver'[o].snapshot = saver[o].snapshot
             /\ o # s => (saver'[o] = NotSaving <=> saver[o] = NotSaving)
  <2>1. CASE o = s
    BY <1>2, <1>3, <2>1
  <2>2. CASE o # s /\ saver[o] = NotSaving
    BY <1>2, <1>4, <2>2
  <2>3. CASE o # s /\ saver[o] # NotSaving
    <3>1. saver'[o] = [saver[o] EXCEPT !.newest = FALSE]
      BY <1>2, <2>3
    <3>2. QED
      BY <1>1, <2>3, <3>1, OlderIs
  <2>4. QED
    BY <2>1, <2>2, <2>3
<1>6. saver' \in [SaverNames -> SaverStates]
  <2>1. DOMAIN saver' = SaverNames
    BY <1>2
  <2>2. saver' = [o \in SaverNames |-> saver'[o]]
    BY <1>2
  <2>3. QED
    BY <1>5, <2>2
<1>7. report # Unloaded
  BY SpendingReportAssumption
<1>8. QED
  BY <1>1, <1>2, <1>5, <1>6, <1>7

\* What such a change asks of the rest.
Changing(s, w, report) ==
    /\ Change(s, w, report) /\ w = SaverWorker(s)
    /\ s \in ReportTurns => paying[s].at = "thread"
    /\ UNCHANGED <<workerOf, reserving, spendingFile, paying, crashed>>
    /\ found' \in [ReportWorkers -> [ReportTenants -> Nat]]
    /\ inForce' \in [ReportTenants -> SUBSET Nat]
    /\ \A t \in ReportTenants : inForce[t] \subseteq inForce'[t] /\ IsFiniteSet(inForce'[t])
    /\ reportUpsets' \in 0 .. MaxReportUpsets
    /\ \A t \in ReportTenants :
          AllNoted[t] \in Nat /\ AllNoted'[t] \in Nat /\ AllNoted[t] <= AllNoted'[t]
    /\ KnownAs(report, AllNoted', inForce')

\* A change of what a worker remembers makes every other write an older one.
LEMMA ChangeKeeps ==
    ASSUME ReportInv, NEW s \in SaverNames, NEW w \in ReportWorkers, NEW report \in Report,
           Changing(s, w, report), BooksAgree'
    PROVE  ReportInv'
<1>1. ReportTyped /\ Change(s, w, report)
  BY DEF ReportInv, Changing
<1>2. ReportTyped'
  <2>1. /\ saver' \in [SaverNames -> SaverStates]
        /\ checker' \in [ReportWorkers -> Report \cup {Unloaded}]
    BY <1>1, ChangeIs
  <2>2. settled' \in BOOLEAN
    BY <1>1 DEF Change
  <2>3. QED
    BY <1>1, <2>1, <2>2 DEF ReportTyped, Changing
<1>3. TurnsPayWell'
  <2>1. ASSUME NEW q \in ReportTurns
        PROVE  /\ PaysWell(q, paying'[q], saver'[q])
               /\ paying'[q].at \in NeedsChecker => checker'[workerOf'[q]] # Unloaded
               /\ paying'[q].at = "judge" => paying'[q].budget \in inForce'[TenantIds[q][1]]
    <3>1. paying' = paying /\ workerOf' = workerOf /\ workerOf[q] \in ReportWorkers
      BY <1>1 DEF Changing, ReportTyped
    <3>2. checker[workerOf[q]] # Unloaded => checker'[workerOf[q]] # Unloaded
      BY <1>1, <3>1, ChangeIs
    <3>3. q \in SaverNames /\ TenantIds[q][1] \in ReportTenants
      BY TenantsOfTurn DEF SaverNames
    <3>4. saver'[q] # NotSaving => saver[q] # NotSaving \/ q = s
      BY <1>1, <3>3, ChangeIs
    <3>5. PaysWell(q, paying[q], saver'[q])
      <4>1. PaysWell(q, paying[q], saver[q])
        BY DEF ReportInv, TurnsPayWell
      <4>2. saver'[q] # NotSaving => paying[q].at = "thread"
        BY <3>4, <4>1 DEF Changing, PaysWell
      <4>3. QED
        BY <4>1, <4>2 DEF PaysWell
    <3>6. QED
      BY <3>1, <3>2, <3>3, <3>5 DEF ReportInv, TurnsPayWell, Changing
  <2>2. ASSUME NEW o \in ReportWorkers, saver'[o] # NotSaving
        PROVE  checker'[o] # Unloaded
    <3>1. o \in SaverNames /\ o \notin ReportTurns
      BY SpendingReportAssumption DEF SaverNames
    <3>2. CASE o = s
      BY <1>1, <3>1, <3>2, ChangeIs DEF Changing, SaverWorker
    <3>3. CASE o # s
      <4>1. checker[o] # Unloaded
        BY <1>1, <2>2, <3>1, <3>3, ChangeIs DEF ReportInv, TurnsPayWell
      <4>2. QED
        BY <1>1, <4>1, ChangeIs
    <3>4. QED
      BY <3>2, <3>3
  <2>3. QED
    BY <2>1, <2>2 DEF TurnsPayWell
<1>4. ReportsAreKnown'
  <2>1. ASSUME NEW known \in Report, KnownAs(known, AllNoted, inForce)
        PROVE  KnownAs(known, AllNoted', inForce')
    BY <2>1, StillKnown DEF Changing
  <2>2. KnownAs(spendingFile, AllNoted', inForce') /\ spendingFile' = spendingFile
    BY <1>1, <2>1 DEF ReportInv, ReportsAreKnown, ReportTyped, Changing
  <2>3. ASSUME NEW o \in ReportWorkers, checker'[o] # Unloaded
        PROVE  KnownAs(checker'[o], AllNoted', inForce')
    <3>1. CASE o = w
      BY <1>1, <3>1, ChangeIs DEF Changing
    <3>2. CASE o # w
      <4>1. checker'[o] = checker[o] /\ checker[o] \in Report
        BY <1>1, <2>3, <3>2, ChangeIs DEF ReportTyped
      <4>2. QED
        BY <2>1, <2>3, <4>1 DEF ReportInv, ReportsAreKnown
    <3>3. QED
      BY <3>1, <3>2
  <2>4. ASSUME NEW o \in SaverNames, saver'[o].at = "write"
        PROVE  KnownAs(saver'[o].snapshot, AllNoted', inForce')
    <3>1. saver[o].at = "write" /\ saver'[o].snapshot = saver[o].snapshot
      BY <1>1, <2>4, ChangeIs
    <3>2. saver[o].snapshot \in Report
      BY <1>1, <3>1, SaverIs DEF ReportTyped
    <3>3. KnownAs(saver[o].snapshot, AllNoted, inForce)
      BY <3>1 DEF ReportInv, ReportsAreKnown
    <3>4. QED
      BY <2>1, <3>1, <3>2, <3>3
  <2>5. \A t \in ReportTenants : IsFiniteSet(inForce'[t]) /\ DefaultBudget \in inForce'[t]
    BY DEF ReportInv, ReportsAreKnown, Changing
  <2>6. QED
    BY <2>2, <2>3, <2>4, <2>5 DEF ReportsAreKnown
<1>5. TurnsStop'
  <2>1. ASSUME NEW q \in ReportTurns
        PROVE  GrantedOf(paying'[q]) <= GrantedOf(paying[q])
    <3>1. GrantedOf(paying[q]) \in Nat /\ paying' = paying
      BY <1>1 DEF ReportTyped, PayingStates, GrantedOf, Changing
    <3>2. QED
      BY <3>1
  <2>2. QED
    BY <1>2, <1>3, <2>1, GrantsStay DEF Changing
<1>6. LastIsWritten'
  <2>1. LastWriteConverges'
    BY <1>1, ChangeIs DEF LastWriteConverges
  <2>2. \A o \in SaverNames : ~(saver'[o].at = "write" /\ saver'[o].newest)
    BY <1>1, ChangeIs
  <2>3. QED
    BY <2>1, <2>2 DEF LastIsWritten, SaverNames
<1>7. QED
  BY <1>2, <1>3, <1>4, <1>5, <1>6 DEF ReportInv

\* A budget that is set is in force, and nothing that was spent changes.
LEMMA SetBudgetKeeps ==
    ASSUME ReportInv, NEW w \in ReportWorkers, NEW t \in ReportTenants,
           NEW budget \in SettableBudgets, SetBudget(w, t, budget)
    PROVE  ReportInv'
<1> DEFINE was == CheckerOf(w)
           report == [was EXCEPT !.overrides[t] = budget]
<1>1. /\ Loads(w) /\ Change(w, w, report)
      /\ reportUpsets < MaxReportUpsets /\ reportUpsets' = reportUpsets + 1
      /\ inForce' = [inForce EXCEPT ![t] = @ \cup {budget}]
      /\ UNCHANGED <<workerOf, reserving, spendingFile, paying, crashed>>
  BY DEF SetBudget
<1>2. /\ was \in Report /\ KnownAs(was, AllNoted, inForce)
      /\ found' \in [ReportWorkers -> [ReportTenants -> Nat]]
      /\ \A o \in ReportWorkers : o # w => found'[o] = found[o]
      /\ w \notin crashed =>
            \A r \in ReportTenants :
                was.spent[r] = found'[w][r] + NotedBy(TurnsOfWorker(w), r)
  BY <1>1, CheckerIs
<1> HIDE DEF was
<1>3. /\ report \in Report /\ report.spent = was.spent
      /\ \A r \in ReportTenants :
            report.overrides[r] = IF r = t THEN budget ELSE was.overrides[r]
  BY <1>2 DEF Report
<1> HIDE DEF report
<1>4. ReportTyped /\ w \in SaverNames /\ w \notin ReportTurns
  BY SpendingReportAssumption DEF ReportInv, SaverNames
<1>5. /\ inForce' \in [ReportTenants -> SUBSET Nat]
      /\ \A r \in ReportTenants : inForce[r] \subseteq inForce'[r] /\ IsFiniteSet(inForce'[r])
      /\ budget \in inForce'[t]
  <2>1. budget \in Nat
    BY SpendingReportAssumption
  <2>2. /\ inForce' \in [ReportTenants -> SUBSET Nat]
        /\ inForce'[t] = inForce[t] \cup {budget}
        /\ \A r \in ReportTenants : r # t => inForce'[r] = inForce[r]
    BY <1>1, <1>4, <2>1 DEF ReportTyped
  <2>3. \A r \in ReportTenants : IsFiniteSet(inForce[r])
    BY DEF ReportInv, ReportsAreKnown
  <2>4. IsFiniteSet(inForce[t] \cup {budget})
    BY <2>3, FS_AddElement
  <2>5. QED
    BY <2>2, <2>3, <2>4
<1>6. \A r \in ReportTenants : NotedFor(r)' = NotedFor(r)
  <2>1. ASSUME NEW r \in ReportTenants, NEW q \in ReportTurns
        PROVE  NotedOf(q, paying'[q], saver'[q], r) = NotedOf(q, paying[q], saver[q], r)
    <3>1. q \in SaverNames /\ q # w
      BY <1>4 DEF SaverNames
    <3>2. saver'[q] = NotSaving <=> saver[q] = NotSaving
      BY <1>1, <1>3, <1>4, <3>1, ChangeIs
    <3>3. QED
      BY <1>1, <3>2 DEF NotedOf, OwesFor
  <2>2. QED
    BY <2>1, NotedStays
<1>7. AllNoted' = AllNoted
  BY <1>6 DEF AllNoted, NotedBy
<1>8. \A r \in ReportTenants : AllNoted[r] \in Nat
  <2>1. \A r \in ReportTenants : NotedBy(ReportTurns, r) \in Nat
    BY NotedByIs DEF ReportInv
  <2>2. QED
    BY <2>1 DEF AllNoted
<1>9. KnownAs(report, AllNoted, inForce')
  <2>1. ASSUME NEW r \in ReportTenants
        PROVE  /\ report.spent[r] <= AllNoted[r]
               /\ report.overrides[r] \in inForce'[r] \cup {NoBudget}
    <3>1. report.spent[r] <= AllNoted[r]
      BY <1>2, <1>3 DEF KnownAs
    <3>2. was.overrides[r] \in inForce'[r] \cup {NoBudget}
      BY <1>2, <1>5 DEF KnownAs
    <3>3. QED
      BY <1>3, <1>5, <3>1, <3>2
  <2>2. QED
    BY <2>1 DEF KnownAs
<1>10. reportUpsets' \in 0 .. MaxReportUpsets
  <2>1. MaxReportUpsets \in Nat /\ reportUpsets \in 0 .. MaxReportUpsets
    BY <1>4, SpendingReportAssumption DEF ReportTyped
  <2>2. QED
    BY <1>1, <2>1
<1>11. Changing(w, w, report)
  <2>1. \A r \in ReportTenants :
           AllNoted[r] \in Nat /\ AllNoted'[r] \in Nat /\ AllNoted[r] <= AllNoted'[r]
    BY <1>7, <1>8
  <2>2. KnownAs(report, AllNoted', inForce')
    BY <1>7, <1>9
  <2>3. QED
    BY <1>1, <1>2, <1>4, <1>5, <1>10, <2>1, <2>2 DEF Changing, SaverWorker
<1>12. BooksAgree'
  <2> SUFFICES ASSUME NEW o \in ReportWorkers \ crashed', NEW r \in ReportTenants
               PROVE  /\ checker'[o] = Unloaded => NotedBy(TurnsOfWorker(o), r)' = 0
                      /\ checker'[o] # Unloaded =>
                            checker'[o].spent[r]
                            = found'[o][r] + NotedBy(TurnsOfWorker(o), r)'
    BY DEF BooksAgree
  <2>1. NotedBy(TurnsOfWorker(o), r)' = NotedBy(TurnsOfWorker(o), r) /\ o \notin crashed
    BY <1>1, <1>6 DEF TurnsOfWorker, NotedBy
  <2>2. CASE o = w
    <3>1. checker'[o] = report /\ checker'[o] # Unloaded
      BY <1>1, <1>3, <1>4, <2>2, ChangeIs
    <3>2. QED
      BY <1>2, <1>3, <2>1, <2>2, <3>1
  <2>3. CASE o # w
    <3>1. checker'[o] = checker[o] /\ found'[o] = found[o]
      BY <1>1, <1>2, <1>3, <1>4, <2>3, ChangeIs
    <3>2. QED
      BY <2>1, <3>1 DEF ReportInv, BooksAgree
  <2>4. QED
    BY <2>2, <2>3
<1>13. QED
  BY <1>3, <1>4, <1>11, <1>12, ChangeKeeps

\* One more call is recorded: of this turn, for its tenant.
LEMMA OneMoreNoted ==
    ASSUME ReportInv, NEW payer \in ReportTurns, paying' = paying,
           paying[payer].at = "thread", saver[payer] = NotSaving, saver'[payer] # NotSaving,
           \A q \in ReportTurns : q # payer => (saver'[q] = NotSaving <=> saver[q] = NotSaving),
           NEW to, to = TenantIds[payer][paying[payer].nth]
    PROVE  /\ to \in ReportTenants
           /\ \A t \in ReportTenants : t # to => NotedFor(t)' = NotedFor(t)
           /\ \A q \in ReportTurns :
                 /\ NotedFor(to)[q] \in Nat
                 /\ NotedFor(to)'[q] = IF q \in {payer} THEN NotedFor(to)[q] + 1
                                       ELSE NotedFor(to)[q]
<1> DEFINE p == paying[payer]
           n == p.nth
<1>1. /\ p \in PayingStates /\ PaysWell(payer, p, saver[payer]) /\ p.at = "thread"
      /\ p.calls \in Nat
  BY TurnIsPaying DEF ReportInv, PayingStates
<1>2. n \in 1 .. Len(TenantIds[payer]) /\ Len(TenantIds[payer]) \in Nat
  BY <1>1, TenantsOfTurn DEF PaysWell
<1>3. to \in ReportTenants /\ Contains(TenantIds[payer], to)
  BY <1>2, TenantsOfTurn DEF Contains
<1>4. TenantIds[payer][n] = to
  OBVIOUS
<1> HIDE DEF p
<1>5. ASSUME NEW t \in ReportTenants
      PROVE  NotedOf(payer, p, saver'[payer], t)
             = IF t = to THEN NotedOf(payer, p, saver[payer], t) + 1
               ELSE NotedOf(payer, p, saver[payer], t)
  <2>1. CASE t = to
    <3>1. OwesFor(payer, p, saver[payer], t)
      BY <1>1, <1>2, <1>4, <2>1 DEF OwesFor
    <3>2. ~OwesFor(payer, p, saver'[payer], t)
      <4>1. SUFFICES ASSUME NEW m \in n .. Len(TenantIds[payer]), TenantIds[payer][m] = t,
                            m = n => saver'[payer] = NotSaving
                     PROVE  FALSE
        BY DEF OwesFor
      <4>2. m \in 1 .. Len(TenantIds[payer])
        BY <1>2, <4>1
      <4>3. m = n
        BY <1>2, <1>4, <2>1, <4>1, <4>2, TenantsOfTurn
      <4>4. QED
        BY <4>1, <4>3
    <3>3. NotedOf(payer, p, saver[payer], t) = p.calls - 1
      BY <1>3, <2>1, <3>1 DEF NotedOf
    <3>4. NotedOf(payer, p, saver'[payer], t) = p.calls
      BY <1>3, <2>1, <3>2 DEF NotedOf
    <3>5. QED
      BY <1>1, <2>1, <3>3, <3>4
  <2>2. CASE t # to
    <3>1. OwesFor(payer, p, saver[payer], t) <=> OwesFor(payer, p, saver'[payer], t)
      BY <1>4, <2>2 DEF OwesFor
    <3>2. QED
      BY <2>2, <3>1 DEF NotedOf
  <2>3. QED
    BY <2>1, <2>2
<1>6. ASSUME NEW t \in ReportTenants, NEW q \in ReportTurns, q # payer
      PROVE  NotedOf(q, paying'[q], saver'[q], t) = NotedOf(q, paying[q], saver[q], t)
  <2>1. saver'[q] = NotSaving <=> saver[q] = NotSaving
    BY <1>6
  <2>2. QED
    BY <2>1 DEF NotedOf, OwesFor
<1>7. ASSUME NEW t \in ReportTenants, t # to
      PROVE  NotedFor(t)' = NotedFor(t)
  <2>1. \A q \in ReportTurns :
           NotedOf(q, paying'[q], saver'[q], t) = NotedOf(q, paying[q], saver[q], t)
    BY <1>5, <1>6, <1>7 DEF p
  <2>2. QED
    BY <2>1, NotedStays
<1>8. ASSUME NEW q \in ReportTurns
      PROVE  /\ NotedFor(to)[q] \in Nat
             /\ NotedFor(to)'[q] = IF q \in {payer} THEN NotedFor(to)[q] + 1
                                   ELSE NotedFor(to)[q]
  <2>1. NotedFor(to)[q] \in Nat /\ NotedFor(to)[q] = NotedOf(q, paying[q], saver[q], to)
    BY TurnIsPaying DEF ReportInv
  <2>2. NotedFor(to)'[q] = NotedOf(q, paying'[q], saver'[q], to)
    BY DEF NotedFor
  <2>3. QED
    BY <1>3, <1>5, <1>6, <2>1, <2>2 DEF p
<1>9. QED
  BY <1>3, <1>7, <1>8

\* A call is recorded once for each tenant.
LEMMA RecordSpendingKeeps ==
    ASSUME ReportInv, NEW payer \in ReportTurns, RecordSpending(payer)
    PROVE  ReportInv'
<1>1. PICK to : to = TenantIds[payer][paying[payer].nth]
  OBVIOUS
<1> DEFINE w == workerOf[payer]
           was == checker[w]
           report == [was EXCEPT !.spent[to] = @ + 1]
<1>2. /\ Change(payer, w, report) /\ paying[payer].at = "thread" /\ saver[payer] = NotSaving
      /\ UNCHANGED <<workerOf, reserving, spendingFile, paying, reportUpsets, found, inForce,
                     crashed>>
  BY <1>1 DEF RecordSpending
<1>3. ReportTyped /\ TurnsPayWell /\ w \in ReportWorkers /\ payer \in SaverNames
  BY TurnIsPaying DEF ReportInv, SaverNames
<1>4. was \in Report /\ was # Unloaded
  BY <1>2, <1>3 DEF ReportTyped, TurnsPayWell, NeedsChecker
<1>5. to \in ReportTenants
  <2>1. paying[payer].nth \in 1 .. Len(TenantIds[payer])
    BY <1>3 DEF TurnsPayWell, PaysWell
  <2>2. QED
    BY <1>1, <2>1, TenantsOfTurn
<1> HIDE DEF was, w
<1>6. /\ report \in Report /\ report.overrides = was.overrides
      /\ \A t \in ReportTenants : /\ was.spent[t] \in Nat
                                  /\ t # to => report.spent[t] = was.spent[t]
      /\ report.spent[to] = was.spent[to] + 1
  <2>1. was.spent \in [ReportTenants -> Nat] /\ was.spent[to] + 1 \in Nat
    BY <1>4, <1>5 DEF Report
  <2>2. report.spent = [was.spent EXCEPT ![to] = was.spent[to] + 1]
    BY <1>4 DEF Report
  <2>3. report.spent \in [ReportTenants -> Nat]
    BY <2>1, <2>2
  <2>4. report = [spent |-> report.spent, overrides |-> was.overrides]
    BY <1>4 DEF Report
  <2>5. report.overrides = was.overrides
    BY <1>4 DEF Report
  <2>6. was.overrides \in [ReportTenants -> SettableBudgets \cup {NoBudget}]
    BY <1>4 DEF Report
  <2> HIDE DEF report
  <2>7. report \in Report
    BY <2>3, <2>4, <2>6 DEF Report
  <2>8. /\ \A t \in ReportTenants : t # to => report.spent[t] = was.spent[t]
        /\ report.spent[to] = was.spent[to] + 1
    BY <1>5, <2>1, <2>2
  <2>9. QED
    BY <2>1, <2>5, <2>7, <2>8
<1> HIDE DEF report
<1>7. /\ saver'[payer] # NotSaving
      /\ \A q \in ReportTurns : q # payer => (saver'[q] = NotSaving <=> saver[q] = NotSaving)
  BY <1>2, <1>3, <1>6, ChangeIs DEF SaverNames
<1>8. /\ \A t \in ReportTenants : t # to => NotedFor(t)' = NotedFor(t)
      /\ \A q \in ReportTurns :
            /\ NotedFor(to)[q] \in Nat
            /\ NotedFor(to)'[q] = IF q \in {payer} THEN NotedFor(to)[q] + 1
                                  ELSE NotedFor(to)[q]
  BY <1>1, <1>2, <1>7, OneMoreNoted
<1>9. ASSUME NEW turns, turns \subseteq ReportTurns
      PROVE  /\ payer \in turns => SumOver(NotedFor(to)', turns) = NotedBy(turns, to) + 1
             /\ payer \notin turns => SumOver(NotedFor(to)', turns) = NotedBy(turns, to)
             /\ NotedBy(turns, to) \in Nat
  <2>1. IsFiniteSet(turns) /\ NotedBy(turns, to) \in Nat
    BY <1>3, <1>9, NotedByIs
  <2>2. CASE payer \in turns
    <3>1. {payer} \subseteq turns /\ Cardinality({payer}) = 1
      BY <2>2, FS_Singleton
    <3>2. /\ \A x \in turns : NotedFor(to)[x] \in Int
          /\ \A x \in turns : NotedFor(to)'[x] = IF x \in {payer} THEN NotedFor(to)[x] + 1
                                                 ELSE NotedFor(to)[x]
      BY <1>8, <1>9
    <3>3. SumOver(NotedFor(to)', turns) = SumOver(NotedFor(to), turns) + Cardinality({payer})
      BY <2>1, <3>1, <3>2, SumMarked
    <3>4. QED
      BY <2>1, <2>2, <3>1, <3>3 DEF NotedBy
  <2>3. CASE payer \notin turns
    <3>1. \A x \in turns : NotedFor(to)'[x] = NotedFor(to)[x]
      BY <1>8, <1>9, <2>3
    <3>2. SumOver(NotedFor(to)', turns) = SumOver(NotedFor(to), turns)
      BY <2>1, <3>1, SumAgrees
    <3>3. QED
      BY <2>1, <2>3, <3>2 DEF NotedBy
  <2>4. QED
    BY <2>2, <2>3
<1>10. /\ \A t \in ReportTenants :
            AllNoted[t] \in Nat /\ AllNoted'[t] \in Nat /\ AllNoted[t] <= AllNoted'[t]
      /\ AllNoted'[to] = AllNoted[to] + 1
  <2>1. ASSUME NEW t \in ReportTenants
        PROVE  /\ AllNoted[t] = NotedBy(ReportTurns, t) /\ AllNoted[t] \in Nat
               /\ AllNoted'[t] = SumOver(NotedFor(t)', ReportTurns)
    BY <1>3, NotedByIs DEF AllNoted, NotedBy
  <2>2. AllNoted'[to] = AllNoted[to] + 1
    BY <1>5, <1>9, <2>1
  <2>3. ASSUME NEW t \in ReportTenants, t # to
        PROVE  AllNoted'[t] = AllNoted[t]
    BY <1>8, <2>1, <2>3 DEF NotedBy
  <2>4. ASSUME NEW t \in ReportTenants
        PROVE  AllNoted[t] \in Nat /\ AllNoted'[t] \in Nat /\ AllNoted[t] <= AllNoted'[t]
    <3>1. CASE t = to
      BY <2>1, <2>2, <3>1
    <3>2. CASE t # to
      BY <2>1, <2>3, <3>2
    <3>3. QED
      BY <3>1, <3>2
  <2>5. QED
    BY <2>2, <2>4
<1>11. KnownAs(report, AllNoted', inForce')
  <2>1. KnownAs(was, AllNoted, inForce)
    BY <1>3, <1>4 DEF ReportInv, ReportsAreKnown, was
  <2>2. ASSUME NEW t \in ReportTenants
        PROVE  report.spent[t] <= AllNoted'[t]
    <3>1. was.spent[t] <= AllNoted[t] /\ was.spent[t] \in Nat
      BY <1>6, <2>1 DEF KnownAs
    <3>2. CASE t = to
      BY <1>6, <1>10, <3>1, <3>2
    <3>3. CASE t # to
      BY <1>6, <1>10, <3>1, <3>3
    <3>4. QED
      BY <3>2, <3>3
  <2>3. inForce' = inForce
    BY <1>2
  <2>4. QED
    BY <1>6, <2>1, <2>2, <2>3 DEF KnownAs
<1>12. Changing(payer, w, report)
  <2>1. w = SaverWorker(payer)
    BY DEF SaverWorker, w
  <2>2. /\ found' \in [ReportWorkers -> [ReportTenants -> Nat]]
        /\ inForce' \in [ReportTenants -> SUBSET Nat]
        /\ reportUpsets' \in 0 .. MaxReportUpsets
        /\ \A t \in ReportTenants : inForce[t] \subseteq inForce'[t] /\ IsFiniteSet(inForce'[t])
    BY <1>2, <1>3 DEF ReportTyped, ReportInv, ReportsAreKnown
  <2>3. QED
    BY <1>2, <1>10, <1>11, <2>1, <2>2 DEF Changing
<1>13. BooksAgree'
  <2> SUFFICES ASSUME NEW o \in ReportWorkers \ crashed', NEW t \in ReportTenants
               PROVE  /\ checker'[o] = Unloaded => NotedBy(TurnsOfWorker(o), t)' = 0
                      /\ checker'[o] # Unloaded =>
                            checker'[o].spent[t]
                            = found'[o][t] + NotedBy(TurnsOfWorker(o), t)'
    BY DEF BooksAgree
  <2>1. /\ NotedBy(TurnsOfWorker(o), t)' = SumOver(NotedFor(t)', TurnsOfWorker(o))
        /\ TurnsOfWorker(o) \subseteq ReportTurns /\ o \notin crashed
    BY <1>2, SomeTurns DEF TurnsOfWorker, NotedBy
  <2>2. found'[o] = found[o] /\ found[o][t] \in Nat
    BY <1>2, <1>3 DEF ReportTyped
  <2>3. CASE t # to \/ payer \notin TurnsOfWorker(o)
    <3>1. NotedBy(TurnsOfWorker(o), t)' = NotedBy(TurnsOfWorker(o), t)
      <4>1. CASE t # to
        BY <1>8, <2>1, <4>1 DEF NotedBy
      <4>2. CASE t = to
        BY <1>9, <2>1, <2>3, <4>2
      <4>3. QED
        BY <4>1, <4>2
    <3>2. o # w => checker'[o] = checker[o]
      BY <1>2, <1>3, <1>6, ChangeIs
    <3>3. o = w => t # to
      BY <2>3 DEF TurnsOfWorker, w
    <3>4. o = w => /\ checker'[o].spent[t] = checker[o].spent[t]
                   /\ checker'[o] # Unloaded /\ checker[o] # Unloaded
      BY <1>2, <1>3, <1>4, <1>6, <3>3, ChangeIs DEF was
    <3>5. QED
      BY <2>1, <2>2, <3>1, <3>2, <3>4 DEF ReportInv, BooksAgree
  <2>4. CASE t = to /\ payer \in TurnsOfWorker(o)
    <3>1. o = w
      BY <2>4 DEF TurnsOfWorker, w
    <3>2. checker'[o] = report /\ checker[o] = was
      BY <1>2, <1>3, <1>6, <3>1, ChangeIs DEF was
    <3>3. /\ NotedBy(TurnsOfWorker(o), t)' = NotedBy(TurnsOfWorker(o), t) + 1
          /\ NotedBy(TurnsOfWorker(o), t) \in Nat
      BY <1>9, <2>1, <2>4
    <3>4. was.spent[t] = found[o][t] + NotedBy(TurnsOfWorker(o), t)
      BY <1>4, <2>1, <3>2 DEF ReportInv, BooksAgree
    <3>5. report.spent[t] = was.spent[t] + 1
      BY <1>6, <2>4
    <3>6. checker'[o].spent[t] = found'[o][t] + NotedBy(TurnsOfWorker(o), t)'
      BY <2>2, <3>2, <3>3, <3>4, <3>5
    <3>7. checker'[o] # Unloaded
      BY <1>2, <1>3, <1>6, <3>1, ChangeIs
    <3>8. QED
      BY <3>6, <3>7
  <2>5. QED
    BY <2>3, <2>4
<1>14. QED
  BY <1>3, <1>6, <1>12, <1>13, ChangeKeeps

\* The snapshot is of what is remembered.
LEMMA TakeSnapshotKeeps ==
    ASSUME ReportInv, NEW s \in SaverNames, TakeSnapshot(s)
    PROVE  ReportInv'
<1> DEFINE next == Writing(s)
<1>1. /\ saver[s].at = "changed" /\ saver' = [saver EXCEPT ![s] = next]
      /\ UNCHANGED <<workerOf, reserving, checker, spendingFile, paying, reportUpsets, found,
                     inForce, crashed, settled>>
  BY DEF TakeSnapshot
<1>2. ReportTyped /\ saver[s] \in SaverStates /\ saver[s] # NotSaving /\ saver[s].newest \in BOOLEAN
  BY <1>1, SaverIs DEF ReportInv, ReportTyped, NotSaving
<1>3. /\ SaverWorker(s) \in ReportWorkers /\ checker[SaverWorker(s)] \in Report
      /\ checker[SaverWorker(s)] # Unloaded
  BY <1>2, SaverHasChecker
<1>4. next = [at |-> "write", newest |-> saver[s].newest, snapshot |-> checker[SaverWorker(s)]]
  BY DEF Writing, SaverWorker
<1>5. /\ next \in SaverStates /\ next # NotSaving /\ next.at = "write"
      /\ next.snapshot = checker[SaverWorker(s)]
  BY <1>2, <1>3, <1>4 DEF SaverStates, NotSaving
<1> HIDE DEF next
<1>6. /\ saver' \in [SaverNames -> SaverStates] /\ saver'[s] = next
      /\ \A o \in SaverNames : o # s => saver'[o] = saver[o]
      /\ \A o \in SaverNames : saver'[o] = NotSaving <=> saver[o] = NotSaving
  BY <1>1, <1>2, <1>5 DEF ReportTyped
<1>7. ReportTyped'
  BY <1>1, <1>2, <1>6 DEF ReportTyped
<1>8. TurnsPayWell'
  <2>1. \A q \in ReportTurns : PaysWell(q, paying'[q], saver'[q])
    BY <1>1, <1>6 DEF ReportInv, TurnsPayWell, PaysWell, SaverNames
  <2>2. QED
    BY <1>1, <1>6, <2>1 DEF ReportInv, TurnsPayWell, SaverNames
<1>9. \A t \in ReportTenants : NotedFor(t)' = NotedFor(t)
  <2>1. ASSUME NEW t \in ReportTenants, NEW q \in ReportTurns
        PROVE  NotedOf(q, paying'[q], saver'[q], t) = NotedOf(q, paying[q], saver[q], t)
    <3>1. saver'[q] = NotSaving <=> saver[q] = NotSaving
      BY <1>6 DEF SaverNames
    <3>2. QED
      BY <1>1, <3>1 DEF NotedOf, OwesFor
  <2>2. QED
    BY <2>1, NotedStays
<1>10. AllNoted' = AllNoted
  BY <1>9 DEF AllNoted, NotedBy
<1>11. ReportsAreKnown'
  <2>1. KnownAs(next.snapshot, AllNoted, inForce)
    BY <1>3, <1>5 DEF ReportInv, ReportsAreKnown
  <2>2. \A o \in SaverNames :
           saver'[o].at = "write" => KnownAs(saver'[o].snapshot, AllNoted, inForce)
    BY <1>6, <2>1 DEF ReportInv, ReportsAreKnown
  <2>3. QED
    BY <1>1, <1>10, <2>2 DEF ReportInv, ReportsAreKnown, SaverNames
<1>12. BooksAgree'
  BY <1>1, <1>9 DEF ReportInv, BooksAgree, NotedBy, TurnsOfWorker
<1>13. TurnsStop'
  BY <1>1 DEF ReportInv, TurnsStop, GrantsEnd, Granted, OwnTurns, TurnsOfWorker
<1>14. LastIsWritten'
  <2>1. LastWriteConverges'
    BY <1>1 DEF ReportInv, LastIsWritten, LastWriteConverges, TurnsOfWorker
  <2>2. ASSUME NEW o \in SaverNames, saver'[o].at = "write", saver'[o].newest
        PROVE  saver'[o].snapshot = checker'[SaverWorker(o)']
    <3>1. SaverWorker(o)' = SaverWorker(o)
      BY <1>1 DEF SaverWorker
    <3>2. CASE o = s
      BY <1>1, <1>5, <1>6, <3>1, <3>2
    <3>3. CASE o # s
      BY <1>1, <1>6, <2>2, <3>1, <3>3 DEF ReportInv, LastIsWritten
    <3>4. QED
      BY <3>2, <3>3
  <2>3. QED
    BY <2>1, <2>2 DEF LastIsWritten, SaverNames
<1>15. QED
  BY <1>7, <1>8, <1>11, <1>12, <1>13, <1>14 DEF ReportInv

\* A turn whose record is written: on to its next tenant, or done with this call.
LEMMA RecordedIs ==
    ASSUME ReportInv, NEW payer \in ReportTurns, saver[payer] # NotSaving
    PROVE  LET old == paying[payer]
               p == Recorded(payer) IN
           /\ p \in PayingStates /\ p.at # "judge" /\ PaysWell(payer, p, NotSaving)
           /\ p.at \in NeedsChecker => old.at \in NeedsChecker
           /\ \A t \in ReportTenants :
                 NotedOf(payer, p, NotSaving, t) = NotedOf(payer, old, saver[payer], t)
           /\ ~reserving /\ Len(TenantIds[payer]) = 1 => GrantedOf(p) <= GrantedOf(old)
<1> DEFINE old == paying[payer]
           p == Recorded(payer)
           all == Len(TenantIds[payer])
<1>1. /\ old \in PayingStates /\ PaysWell(payer, old, saver[payer])
      /\ old.at = "thread" /\ old.calls \in Nat /\ old.calls > 0 /\ old.nth \in 1 .. all
      /\ all \in Nat /\ all >= 1 /\ old.nth \in Nat
  BY TurnIsPaying, TenantsOfTurn DEF ReportInv, PaysWell, PayingStates
<1>2. old.at \in NeedsChecker
  BY <1>1 DEF NeedsChecker
<1>3. GrantedOf(old) = old.calls
  BY <1>1 DEF GrantedOf
<1>4. CASE old.nth < all
  <2>1. p = [[old EXCEPT !.nth = old.nth + 1] EXCEPT !.at = "record"]
    BY <1>4 DEF Recorded
  <2>2. old.nth + 1 \in 1 .. all /\ old.nth + 1 \in Nat
    BY <1>1, <1>4
  <2> HIDE DEF old, p, all
  <2>3. /\ p \in PayingStates /\ p.at = "record" /\ p.calls = old.calls /\ p.nth = old.nth + 1
    <3> DEFINE half == [old EXCEPT !.nth = old.nth + 1]
    <3>1. half \in PayingStates /\ half.calls = old.calls /\ half.nth = old.nth + 1
      BY <1>1, <2>2 DEF PayingStates
    <3> HIDE DEF half
    <3>2. p = [half EXCEPT !.at = "record"]
      BY <2>1 DEF half
    <3>3. QED
      BY <3>1, <3>2 DEF PayingStates
  <2>4. PaysWell(payer, p, NotSaving)
    BY <1>1, <2>2, <2>3 DEF PaysWell, all
  <2>5. ASSUME NEW t \in ReportTenants
        PROVE  OwesFor(payer, p, NotSaving, t) <=> OwesFor(payer, old, saver[payer], t)
    <3>1. ASSUME NEW n \in old.nth .. all, n = old.nth => saver[payer] = NotSaving
          PROVE  n \in p.nth .. all
      BY <1>1, <2>3, <3>1
    <3>2. ASSUME NEW n \in p.nth .. all
          PROVE  n \in old.nth .. all /\ n # old.nth
      BY <1>1, <2>3
    <3>3. QED
      BY <1>1, <2>3, <3>1, <3>2 DEF OwesFor, all
  <2>6. \A t \in ReportTenants :
           NotedOf(payer, p, NotSaving, t) = NotedOf(payer, old, saver[payer], t)
    BY <2>3, <2>5 DEF NotedOf
  <2>7. GrantedOf(p) = old.calls
    BY <2>3 DEF GrantedOf
  <2>8. p.at # "judge" /\ p.at \notin NeedsChecker
    BY <2>3 DEF NeedsChecker
  <2>9. QED
    BY <1>1, <1>2, <1>3, <2>3, <2>4, <2>6, <2>7, <2>8 DEF p, old
<1>5. CASE ~(old.nth < all)
  <2> DEFINE to == IF ~reserving /\ all = 1 THEN "check" ELSE "ready"
  <2>1. p = [[old EXCEPT !.nth = 1] EXCEPT !.at = to]
    BY <1>5 DEF Recorded
  <2>2. to \in {"check", "ready"} /\ (~reserving /\ all = 1 => to = "check")
    OBVIOUS
  <2>3. old.nth = all
    BY <1>1, <1>5
  <2> HIDE DEF old, p, all, to
  <2>4. /\ p \in PayingStates /\ p.at = to /\ p.calls = old.calls /\ p.nth = 1
    <3> DEFINE half == [old EXCEPT !.nth = 1]
    <3>1. half \in PayingStates /\ half.calls = old.calls /\ half.nth = 1
      BY <1>1 DEF PayingStates
    <3> HIDE DEF half
    <3>2. p = [half EXCEPT !.at = to]
      BY <2>1 DEF half
    <3>3. QED
      BY <2>2, <3>1, <3>2 DEF PayingStates
  <2>5. PaysWell(payer, p, NotSaving)
    BY <1>1, <2>2, <2>4 DEF PaysWell, all
  <2>6. ASSUME NEW t \in ReportTenants
        PROVE  ~OwesFor(payer, p, NotSaving, t) /\ ~OwesFor(payer, old, saver[payer], t)
    <3>1. ASSUME NEW n \in old.nth .. all
          PROVE  n = old.nth
      BY <1>1, <2>3
    <3>2. ~OwesFor(payer, old, saver[payer], t)
      BY <3>1 DEF OwesFor, all
    <3>3. QED
      BY <2>2, <2>4, <3>2 DEF OwesFor
  <2>7. \A t \in ReportTenants :
           NotedOf(payer, p, NotSaving, t) = NotedOf(payer, old, saver[payer], t)
    BY <2>4, <2>6 DEF NotedOf
  <2>8. ~reserving /\ all = 1 => GrantedOf(p) = old.calls
    BY <2>2, <2>4 DEF GrantedOf
  <2>9. p.at # "judge"
    BY <2>2, <2>4
  <2>10. ~reserving /\ all = 1 => GrantedOf(p) <= GrantedOf(old)
    BY <1>1, <1>3, <2>8
  <2>11. QED
    BY <1>2, <2>4, <2>5, <2>7, <2>9, <2>10 DEF p, old, all
<1>6. QED
  BY <1>4, <1>5

\* The file is the last change's if its write was the last.
LEMMA ReplaceFileKeeps ==
    ASSUME ReportInv, NEW s \in SaverNames, ReplaceFile(s)
    PROVE  ReportInv'
<1> DEFINE p == Recorded(s)
<1>1. /\ saver[s].at = "write" /\ saver' = [saver EXCEPT ![s] = NotSaving]
      /\ UNCHANGED <<workerOf, reserving, checker, reportUpsets, found, inForce, crashed>>
      /\ paying' = IF s \in ReportTurns THEN [paying EXCEPT ![s] = p] ELSE paying
  BY DEF ReplaceFile
<1>2. \/ spendingFile' = saver[s].snapshot /\ settled' = saver[s].newest
      \/ spendingFile' = spendingFile /\ settled' = FALSE
  BY DEF ReplaceFile
<1>3. ReportTyped /\ saver[s] \in SaverStates /\ saver[s] # NotSaving
  BY <1>1 DEF ReportInv, ReportTyped, NotSaving
<1>4. saver[s].snapshot \in Report /\ saver[s].newest \in BOOLEAN
  BY <1>1, <1>3, SaverIs
<1>5. s \in ReportTurns =>
         /\ p \in PayingStates /\ p.at # "judge" /\ PaysWell(s, p, NotSaving)
         /\ p.at \in NeedsChecker => paying[s].at \in NeedsChecker
         /\ \A t \in ReportTenants :
               NotedOf(s, p, NotSaving, t) = NotedOf(s, paying[s], saver[s], t)
         /\ ~reserving /\ Len(TenantIds[s]) = 1 => GrantedOf(p) <= GrantedOf(paying[s])
  BY <1>3, RecordedIs
<1> HIDE DEF p
<1>6. /\ saver' \in [SaverNames -> SaverStates] /\ saver'[s] = NotSaving
      /\ \A o \in SaverNames : o # s => saver'[o] = saver[o]
  BY <1>1, <1>3 DEF ReportTyped, SaverStates
<1>7. /\ paying' \in [ReportTurns -> PayingStates]
      /\ s \in ReportTurns => paying'[s] = p
      /\ \A q \in ReportTurns : q # s => paying'[q] = paying[q]
  BY <1>1, <1>3, <1>5 DEF ReportTyped
<1>8. ReportTyped'
  <2>1. spendingFile' \in Report /\ settled' \in BOOLEAN
    BY <1>2, <1>3, <1>4 DEF ReportTyped
  <2>2. QED
    BY <1>1, <1>3, <1>6, <1>7, <2>1 DEF ReportTyped
<1>9. TurnsPayWell'
  <2>1. ASSUME NEW q \in ReportTurns
        PROVE  /\ PaysWell(q, paying'[q], saver'[q])
               /\ paying'[q].at \in NeedsChecker => checker'[workerOf'[q]] # Unloaded
               /\ paying'[q].at = "judge" => paying'[q].budget \in inForce'[TenantIds[q][1]]
    <3>1. CASE q = s
      <4>1. paying'[q] = p /\ saver'[q] = NotSaving
        BY <1>6, <1>7, <2>1, <3>1
      <4>2. paying[q].at \in NeedsChecker => checker[workerOf[q]] # Unloaded
        BY <2>1 DEF ReportInv, TurnsPayWell
      <4>3. QED
        BY <1>1, <1>5, <2>1, <3>1, <4>1, <4>2
    <3>2. CASE q # s
      <4>1. paying'[q] = paying[q] /\ saver'[q] = saver[q]
        BY <1>6, <1>7, <2>1, <3>2 DEF SaverNames
      <4>2. QED
        BY <1>1, <2>1, <4>1 DEF ReportInv, TurnsPayWell
    <3>3. QED
      BY <3>1, <3>2
  <2>2. \A o \in ReportWorkers : saver'[o] # NotSaving => checker'[o] # Unloaded
    BY <1>1, <1>6 DEF ReportInv, TurnsPayWell, SaverNames
  <2>3. QED
    BY <2>1, <2>2 DEF TurnsPayWell
<1>10. \A t \in ReportTenants : NotedFor(t)' = NotedFor(t)
  <2>1. ASSUME NEW t \in ReportTenants, NEW q \in ReportTurns
        PROVE  NotedOf(q, paying'[q], saver'[q], t) = NotedOf(q, paying[q], saver[q], t)
    <3>1. CASE q = s
      BY <1>5, <1>6, <1>7, <3>1
    <3>2. CASE q # s
      BY <1>6, <1>7, <3>2 DEF SaverNames
    <3>3. QED
      BY <3>1, <3>2
  <2>2. QED
    BY <2>1, NotedStays
<1>11. AllNoted' = AllNoted
  BY <1>10 DEF AllNoted, NotedBy
<1>12. ReportsAreKnown'
  <2>1. KnownAs(spendingFile', AllNoted, inForce)
    BY <1>1, <1>2 DEF ReportInv, ReportsAreKnown
  <2>2. ASSUME NEW o \in SaverNames, saver'[o].at = "write"
        PROVE  KnownAs(saver'[o].snapshot, AllNoted, inForce)
    <3>1. o # s
      BY <1>6, <2>2 DEF NotSaving
    <3>2. QED
      BY <1>6, <2>2, <3>1 DEF ReportInv, ReportsAreKnown
  <2>3. QED
    BY <1>1, <1>11, <2>1, <2>2 DEF ReportInv, ReportsAreKnown, SaverNames
<1>13. BooksAgree'
  BY <1>1, <1>10 DEF ReportInv, BooksAgree, NotedBy, TurnsOfWorker
<1>14. TurnsStop'
  <2>1. ASSUME NEW q \in ReportTurns, ~reserving /\ Len(TenantIds[q]) = 1
        PROVE  GrantedOf(paying'[q]) <= GrantedOf(paying[q])
    <3>1. GrantedOf(paying[q]) \in Nat
      BY <1>3 DEF ReportTyped, PayingStates, GrantedOf
    <3>2. CASE q = s
      BY <1>5, <1>7, <2>1, <3>2
    <3>3. CASE q # s
      BY <1>7, <3>1, <3>3
    <3>4. QED
      BY <3>2, <3>3
  <2>2. QED
    BY <1>1, <1>8, <1>9, <2>1, GrantsStay
<1>15. LastIsWritten'
  <2>1. ASSUME NEW o \in SaverNames, saver'[o].at = "write", saver'[o].newest
        PROVE  saver'[o].snapshot = checker'[SaverWorker(o)']
    <3>1. SaverWorker(o)' = SaverWorker(o)
      BY <1>1 DEF SaverWorker
    <3>2. o # s
      BY <1>6, <2>1 DEF NotSaving
    <3>3. QED
      BY <1>1, <1>6, <2>1, <3>1, <3>2 DEF ReportInv, LastIsWritten
  <2>2. LastWriteConverges'
    <3> SUFFICES ASSUME NEW w \in ReportWorkers, settled', checker'[w] # Unloaded,
                        TurnsOfWorker(w)' = ReportTurns,
                        \A x \in ReportWorkers \ {w} : checker'[x] = Unloaded
                 PROVE  spendingFile' = checker'[w]
      BY DEF LastWriteConverges
    <3>1. spendingFile' = saver[s].snapshot /\ saver[s].newest
      BY <1>2
    <3>2. saver[s].snapshot = checker[SaverWorker(s)]
      BY <1>1, <3>1 DEF ReportInv, LastIsWritten
    <3>3. SaverWorker(s) \in ReportWorkers /\ checker[SaverWorker(s)] # Unloaded
      BY <1>3, SaverHasChecker
    <3>4. SaverWorker(s) = w
      BY <1>1, <3>3
    <3>5. QED
      BY <1>1, <3>1, <3>2, <3>4
  <2>3. QED
    BY <2>1, <2>2 DEF LastIsWritten, SaverNames
<1>16. QED
  BY <1>8, <1>9, <1>12, <1>13, <1>14, <1>15 DEF ReportInv

\* What a crashed worker did not write is lost, and counted nowhere.
LEMMA CrashReportKeeps ==
    ASSUME ReportInv, NEW w \in ReportWorkers, CrashReport(w)
    PROVE  ReportInv'
<1> DEFINE died == {payer \in ReportTurns : workerOf[payer] = w}
<1>1. /\ reportUpsets < MaxReportUpsets /\ reportUpsets' = reportUpsets + 1
      /\ checker' = [checker EXCEPT ![w] = Unloaded]
      /\ saver' = [s \in DOMAIN saver |-> IF s \in died \cup {w} THEN NotSaving ELSE saver[s]]
      /\ paying' = [payer \in ReportTurns |->
            IF payer \in died THEN [paying[payer] EXCEPT !.at = "over"] ELSE paying[payer]]
      /\ crashed' = crashed \cup {w} /\ settled' = FALSE
      /\ UNCHANGED <<workerOf, reserving, spendingFile, found, inForce>>
  BY DEF CrashReport
<1>2. ReportTyped /\ TurnsPayWell
  BY DEF ReportInv
<1>3. /\ checker' \in [ReportWorkers -> Report \cup {Unloaded}] /\ checker'[w] = Unloaded
      /\ \A o \in ReportWorkers : o # w => checker'[o] = checker[o]
  BY <1>1, <1>2 DEF ReportTyped
<1>4. \A payer \in ReportTurns : payer \in died <=> workerOf[payer] = w
  OBVIOUS
<1> HIDE DEF died
<1>5. /\ saver' \in [SaverNames -> SaverStates]
      /\ \A s \in SaverNames :
            /\ s \in died \cup {w} => saver'[s] = NotSaving
            /\ s \notin died \cup {w} => saver'[s] = saver[s]
  BY <1>1, <1>2 DEF ReportTyped, SaverStates
<1>6. /\ paying' \in [ReportTurns -> PayingStates]
      /\ \A payer \in ReportTurns :
            /\ payer \in died => /\ paying'[payer].at = "over"
                                /\ paying'[payer].calls = paying[payer].calls
                                /\ paying'[payer].nth = paying[payer].nth
            /\ payer \notin died => paying'[payer] = paying[payer]
  <2>1. ASSUME NEW payer \in ReportTurns
        PROVE  LET over == [paying[payer] EXCEPT !.at = "over"] IN
               /\ over \in PayingStates /\ over.at = "over"
               /\ over.calls = paying[payer].calls /\ over.nth = paying[payer].nth
    <3>1. paying[payer] \in PayingStates
      BY <1>2 DEF ReportTyped
    <3>2. QED
      BY <3>1 DEF PayingStates
  <2>2. \A payer \in ReportTurns : paying[payer] \in PayingStates
    BY <1>2 DEF ReportTyped
  <2>3. QED
    BY <1>1, <2>1, <2>2
<1>7. ReportTyped'
  <2>1. reportUpsets' \in 0 .. MaxReportUpsets
    <3>1. MaxReportUpsets \in Nat /\ reportUpsets \in 0 .. MaxReportUpsets
      BY <1>2, SpendingReportAssumption DEF ReportTyped
    <3>2. QED
      BY <1>1, <3>1
  <2>2. QED
    BY <1>1, <1>2, <1>3, <1>5, <1>6, <2>1 DEF ReportTyped
<1>8. TurnsPayWell'
  <2>1. ASSUME NEW q \in ReportTurns
        PROVE  /\ PaysWell(q, paying'[q], saver'[q])
               /\ paying'[q].at \in NeedsChecker => checker'[workerOf'[q]] # Unloaded
               /\ paying'[q].at = "judge" => paying'[q].budget \in inForce'[TenantIds[q][1]]
    <3>1. q \in SaverNames /\ q # w /\ workerOf[q] \in ReportWorkers
      BY <1>2, SpendingReportAssumption DEF SaverNames, ReportTyped
    <3>2. CASE q \in died
      <4>1. saver'[q] = NotSaving /\ paying'[q].at = "over"
        BY <1>5, <1>6, <3>1, <3>2
      <4>2. paying'[q].nth \in 1 .. Len(TenantIds[q])
        BY <1>2, <1>6, <3>2 DEF TurnsPayWell, PaysWell
      <4>3. QED
        BY <4>1, <4>2 DEF PaysWell, NeedsChecker
    <3>3. CASE q \notin died
      <4>1. saver'[q] = saver[q] /\ paying'[q] = paying[q] /\ workerOf[q] # w
        BY <1>4, <1>5, <1>6, <3>1, <3>3
      <4>2. QED
        BY <1>1, <1>2, <1>3, <3>1, <4>1 DEF TurnsPayWell
    <3>4. QED
      BY <3>2, <3>3
  <2>2. ASSUME NEW o \in ReportWorkers, saver'[o] # NotSaving
        PROVE  checker'[o] # Unloaded
    <3>1. o \in SaverNames /\ o # w /\ saver'[o] = saver[o]
      BY <1>5, <2>2 DEF SaverNames
    <3>2. QED
      BY <1>2, <1>3, <2>2, <3>1 DEF TurnsPayWell
  <2>3. QED
    BY <2>1, <2>2 DEF TurnsPayWell
<1>9. ASSUME NEW t \in ReportTenants, NEW q \in ReportTurns
      PROVE  /\ NotedFor(t)[q] \in Nat /\ NotedFor(t)'[q] \in Nat
             /\ NotedFor(t)[q] <= NotedFor(t)'[q]
             /\ q \notin died => NotedFor(t)'[q] = NotedFor(t)[q]
  <2>1. NotedFor(t)'[q] = NotedOf(q, paying'[q], saver'[q], t)
    BY DEF NotedFor
  <2>2. /\ NotedFor(t)[q] = NotedOf(q, paying[q], saver[q], t)
        /\ NotedFor(t)[q] \in Nat /\ NotedFor(t)[q] <= paying[q].calls
        /\ paying[q] \in PayingStates
    BY <1>2, TurnIsPaying
  <2>3. q \in SaverNames /\ q # w
    BY SpendingReportAssumption DEF SaverNames
  <2>4. CASE q \in died
    <3>1. ~OwesFor(q, paying'[q], saver'[q], t)
      BY <1>6, <2>4 DEF OwesFor
    <3>2. CASE Contains(TenantIds[q], t)
      <4>1. NotedFor(t)'[q] = paying[q].calls
        BY <1>6, <2>1, <2>4, <3>1, <3>2 DEF NotedOf
      <4>2. paying[q].calls \in Nat
        BY <2>2 DEF PayingStates
      <4>3. QED
        BY <2>2, <2>4, <4>1, <4>2
    <3>3. CASE ~Contains(TenantIds[q], t)
      <4>1. NotedFor(t)'[q] = 0 /\ NotedFor(t)[q] = 0
        BY <2>1, <2>2, <3>3 DEF NotedOf
      <4>2. QED
        BY <2>4, <4>1
    <3>4. QED
      BY <3>2, <3>3
  <2>5. CASE q \notin died
    <3>1. NotedFor(t)'[q] = NotedFor(t)[q]
      BY <1>5, <1>6, <2>1, <2>2, <2>3, <2>5
    <3>2. QED
      BY <2>2, <3>1
  <2>6. QED
    BY <2>4, <2>5
<1>10. \A t \in ReportTenants :
          AllNoted[t] \in Nat /\ AllNoted'[t] \in Nat /\ AllNoted[t] <= AllNoted'[t]
  <2>1. ASSUME NEW t \in ReportTenants
        PROVE  AllNoted[t] \in Nat /\ AllNoted'[t] \in Nat /\ AllNoted[t] <= AllNoted'[t]
    <3>1. IsFiniteSet(ReportTurns)
      BY SpendingReportAssumption
    <3>2. /\ AllNoted[t] = SumOver(NotedFor(t), ReportTurns)
          /\ AllNoted'[t] = SumOver(NotedFor(t)', ReportTurns)
      BY DEF AllNoted, NotedBy
    <3>3. /\ SumOver(NotedFor(t), ReportTurns) \in Nat
          /\ SumOver(NotedFor(t)', ReportTurns) \in Nat
      BY <1>9, <3>1, SumIsNat
    <3>4. SumOver(NotedFor(t), ReportTurns) <= SumOver(NotedFor(t)', ReportTurns)
      BY <1>9, <3>1, SumGrows
    <3>5. QED
      BY <3>2, <3>3, <3>4
  <2>2. QED
    BY <2>1
<1>11. ReportsAreKnown'
  <2>1. ASSUME NEW known \in Report, KnownAs(known, AllNoted, inForce)
        PROVE  KnownAs(known, AllNoted', inForce)
    BY <1>10, <2>1, StillKnown
  <2>2. KnownAs(spendingFile, AllNoted', inForce)
    BY <1>2, <2>1 DEF ReportInv, ReportsAreKnown, ReportTyped
  <2>3. ASSUME NEW o \in ReportWorkers, checker'[o] # Unloaded
        PROVE  KnownAs(checker'[o], AllNoted', inForce)
    <3>1. checker'[o] = checker[o] /\ checker[o] \in Report
      BY <1>2, <1>3, <2>3 DEF ReportTyped
    <3>2. QED
      BY <2>1, <2>3, <3>1 DEF ReportInv, ReportsAreKnown
  <2>4. ASSUME NEW o \in SaverNames, saver'[o].at = "write"
        PROVE  KnownAs(saver'[o].snapshot, AllNoted', inForce)
    <3>1. saver'[o] = saver[o]
      BY <1>5, <2>4 DEF NotSaving
    <3>2. saver[o].snapshot \in Report
      BY <1>2, <2>4, <3>1, SaverIs DEF ReportTyped
    <3>3. KnownAs(saver[o].snapshot, AllNoted, inForce)
      BY <2>4, <3>1 DEF ReportInv, ReportsAreKnown
    <3>4. QED
      BY <2>1, <3>1, <3>2, <3>3
  <2>5. QED
    BY <1>1, <2>2, <2>3, <2>4 DEF ReportInv, ReportsAreKnown, SaverNames
<1>12. BooksAgree'
  <2> SUFFICES ASSUME NEW o \in ReportWorkers \ crashed', NEW t \in ReportTenants
               PROVE  /\ checker'[o] = Unloaded => NotedBy(TurnsOfWorker(o), t)' = 0
                      /\ checker'[o] # Unloaded =>
                            checker'[o].spent[t]
                            = found'[o][t] + NotedBy(TurnsOfWorker(o), t)'
    BY DEF BooksAgree
  <2>1. o # w /\ o \notin crashed /\ checker'[o] = checker[o] /\ found'[o] = found[o]
    BY <1>1, <1>3
  <2>2. /\ NotedBy(TurnsOfWorker(o), t)' = SumOver(NotedFor(t)', TurnsOfWorker(o))
        /\ TurnsOfWorker(o) \subseteq ReportTurns /\ IsFiniteSet(TurnsOfWorker(o))
    BY <1>1, SomeTurns DEF TurnsOfWorker, NotedBy
  <2>3. \A x \in TurnsOfWorker(o) : NotedFor(t)'[x] = NotedFor(t)[x]
    BY <1>4, <1>9, <2>1 DEF TurnsOfWorker
  <2>4. SumOver(NotedFor(t)', TurnsOfWorker(o)) = SumOver(NotedFor(t), TurnsOfWorker(o))
    BY <2>2, <2>3, SumAgrees
  <2>5. QED
    BY <2>1, <2>2, <2>4 DEF ReportInv, BooksAgree, NotedBy
<1>13. TurnsStop'
  <2>1. ASSUME NEW q \in ReportTurns
        PROVE  GrantedOf(paying'[q]) <= GrantedOf(paying[q])
    <3>1. paying[q].calls \in Nat
      BY <1>2 DEF ReportTyped, PayingStates
    <3>2. GrantedOf(paying[q]) \in Nat /\ GrantedOf(paying[q]) >= paying[q].calls
      BY <3>1 DEF GrantedOf
    <3>3. CASE q \in died
      <4>1. GrantedOf(paying'[q]) = paying[q].calls
        BY <1>6, <3>3 DEF GrantedOf
      <4>2. QED
        BY <3>1, <3>2, <4>1
    <3>4. CASE q \notin died
      BY <1>6, <3>2, <3>4
    <3>5. QED
      BY <3>3, <3>4
  <2>2. QED
    BY <1>1, <1>7, <1>8, <2>1, GrantsStay
<1>14. LastIsWritten'
  <2>1. ASSUME NEW o \in SaverNames, saver'[o].at = "write", saver'[o].newest
        PROVE  saver'[o].snapshot = checker'[SaverWorker(o)']
    <3>1. o \notin died \cup {w} /\ saver'[o] = saver[o] /\ saver[o] # NotSaving
      BY <1>5, <2>1 DEF NotSaving
    <3>2. SaverWorker(o)' = SaverWorker(o) /\ SaverWorker(o) \in ReportWorkers
      BY <1>1, <3>1, SaverHasChecker DEF SaverWorker
    <3>3. SaverWorker(o) # w
      BY <1>4, <3>1 DEF SaverWorker
    <3>4. QED
      BY <1>3, <2>1, <3>1, <3>2, <3>3 DEF ReportInv, LastIsWritten
  <2>2. LastWriteConverges'
    BY <1>1 DEF LastWriteConverges
  <2>3. QED
    BY <2>1, <2>2 DEF LastIsWritten, SaverNames
<1>15. QED
  BY <1>7, <1>8, <1>11, <1>12, <1>13, <1>14 DEF ReportInv

-----------------------------------------------------------------------------
\* Nobody has paid yet.
LEMMA ReportStarts ==
    ASSUME SpendingReportInit
    PROVE  ReportInv
<1> DEFINE fresh == [at |-> "ready", calls |-> 0, nth |-> 1, budget |-> 0, cancelled |-> FALSE]
<1>1. fresh \in PayingStates /\ fresh.at = "ready" /\ fresh.calls = 0 /\ fresh.nth = 1
  BY DEF PayingStates
<1>2. /\ workerOf \in [ReportTurns -> ReportWorkers] /\ reserving \in BOOLEAN
      /\ checker = [w \in ReportWorkers |-> Unloaded]
      /\ spendingFile = EmptyReport
      /\ paying = [payer \in ReportTurns |-> fresh]
      /\ saver = [s \in SaverNames |-> NotSaving]
      /\ reportUpsets = 0
      /\ found = [w \in ReportWorkers |-> EmptyReport.spent]
      /\ inForce = [t \in ReportTenants |-> {DefaultBudget}]
      /\ crashed = {} /\ settled = TRUE
  BY DEF SpendingReportInit, SaverNames
<1> HIDE DEF fresh
<1>3. /\ EmptyReport \in Report /\ EmptyReport.spent \in [ReportTenants -> Nat]
      /\ \A t \in ReportTenants : /\ EmptyReport.spent[t] = 0
                                  /\ EmptyReport.overrides[t] = NoBudget
  BY DEF EmptyReport, Report
<1>4. DefaultBudget \in Nat /\ MaxReportUpsets \in Nat
  BY SpendingReportAssumption
<1>5. ReportTyped
  BY <1>1, <1>2, <1>3, <1>4 DEF ReportTyped, SaverStates
<1>6. TurnsPayWell
  <2>1. ASSUME NEW q \in ReportTurns
        PROVE  /\ PaysWell(q, paying[q], saver[q])
               /\ paying[q].at \notin NeedsChecker /\ paying[q].at # "judge"
    <3>1. paying[q] = fresh /\ saver[q] = NotSaving
      BY <1>2 DEF SaverNames
    <3>2. 1 \in 1 .. Len(TenantIds[q])
      BY TenantsOfTurn
    <3>3. QED
      BY <1>1, <3>1, <3>2 DEF PaysWell, NeedsChecker
  <2>2. \A w \in ReportWorkers : saver[w] = NotSaving
    BY <1>2 DEF SaverNames
  <2>3. QED
    BY <2>1, <2>2 DEF TurnsPayWell
<1>7. ASSUME NEW t, NEW q \in ReportTurns
      PROVE  NotedFor(t)[q] = 0 /\ Granted[q] = 1
  <2>1. paying[q] = fresh
    BY <1>2
  <2>2. ~OwesFor(q, paying[q], saver[q], t)
    BY <1>1, <2>1 DEF OwesFor
  <2>3. QED
    BY <1>1, <2>1, <2>2 DEF NotedFor, NotedOf, Granted, GrantedOf
<1>8. ASSUME NEW turns, turns \subseteq ReportTurns, NEW t
      PROVE  NotedBy(turns, t) = 0
  <2>1. IsFiniteSet(turns)
    BY <1>8, SpendingReportAssumption, FS_Subset
  <2>2. \A q \in turns : NotedFor(t)[q] = 0
    BY <1>7, <1>8
  <2>3. QED
    BY <2>1, <2>2, SumOfZeros DEF NotedBy
<1>9. ReportsAreKnown
  <2>1. \A t \in ReportTenants : AllNoted[t] = 0
    BY <1>8 DEF AllNoted
  <2>2. KnownAs(spendingFile, AllNoted, inForce)
    BY <1>2, <1>3, <2>1 DEF KnownAs
  <2>3. \A t \in ReportTenants : IsFiniteSet(inForce[t]) /\ DefaultBudget \in inForce[t]
    BY <1>2, FS_Singleton
  <2>4. \A w \in ReportWorkers : checker[w] = Unloaded
    BY <1>2
  <2>5. \A s \in SaverNames : saver[s].at # "write"
    BY <1>2 DEF NotSaving
  <2>6. QED
    BY <2>2, <2>3, <2>4, <2>5 DEF ReportsAreKnown
<1>10. BooksAgree
  BY <1>2, <1>8, SomeTurns DEF BooksAgree
<1>11. TurnsStop
  <2> SUFFICES ASSUME NEW w \in ReportWorkers \ crashed, NEW t \in ReportTenants,
                      0 \notin inForce[t]
               PROVE  GrantsEnd(w, t)
    BY DEF TurnsStop
  <2> DEFINE own == OwnTurns(w, t)
             none == [q \in ReportTurns |-> 0]
  <2>1. IsFiniteSet(own) /\ own \subseteq ReportTurns
    BY SomeTurns
  <2>2. \A q \in own : none[q] = 0 /\ none[q] \in Int /\ Granted[q] = 1
    BY <1>7, <2>1
  <2> HIDE DEF own, none
  <2>3. \A q \in own : Granted[q] = IF q \in own THEN none[q] + 1 ELSE none[q]
    BY <2>2
  <2>4. SumOver(Granted, own) = SumOver(none, own) + Cardinality(own)
    BY <2>1, <2>2, <2>3, SumMarked
  <2>5. SumOver(none, own) = 0 /\ Cardinality(own) \in Nat
    BY <2>1, <2>2, SumOfZeros, FS_CardinalityType
  <2>6. DefaultBudget \in inForce[t] /\ DefaultBudget # 0
    BY <1>2
  <2>7. SumOver(Granted, own) + 1 <= DefaultBudget + Cardinality(own)
    BY <1>4, <2>4, <2>5, <2>6
  <2>8. QED
    BY <2>6, <2>7 DEF GrantsEnd, own
<1>12. LastIsWritten
  <2>1. \A s \in SaverNames : saver[s].at # "write"
    BY <1>2 DEF NotSaving
  <2>2. LastWriteConverges
    BY <1>2 DEF LastWriteConverges
  <2>3. QED
    BY <2>1, <2>2 DEF LastIsWritten
<1>13. QED
  BY <1>5, <1>6, <1>9, <1>10, <1>11, <1>12 DEF ReportInv

\* A worker's memory, with the calls under way, is what it found and its turns' calls.
LEMMA BooksTellCalls ==
    ASSUME ReportInv
    PROVE  PaidCallsAreCounted
<1> SUFFICES ASSUME NEW w \in ReportWorkers \ crashed, NEW t \in ReportTenants,
                    checker[w] # Unloaded
             PROVE  checker[w].spent[t]
                        + Cardinality({payer \in TurnsOfWorker(w) : Outstanding(payer, t)})
                    = found[w][t] + CallsOfAll(TurnsOfWorker(w), t)
  BY DEF PaidCallsAreCounted
<1> DEFINE turns == TurnsOfWorker(w)
           owing == {payer \in turns : Outstanding(payer, t)}
           calls == [payer \in ReportTurns |-> CallsFor(payer, t)]
<1>1. ReportTyped /\ TurnsPayWell
  BY DEF ReportInv
<1>2. turns \subseteq ReportTurns /\ IsFiniteSet(turns) /\ owing \subseteq turns
      /\ IsFiniteSet(owing)
  BY SomeTurns, FS_Subset
<1>3. ASSUME NEW q \in turns
      PROVE  /\ NotedFor(t)[q] \in Int
             /\ calls[q] = IF q \in owing THEN NotedFor(t)[q] + 1 ELSE NotedFor(t)[q]
  <2> DEFINE p == paying[q]
  <2>1. /\ q \in ReportTurns /\ p \in PayingStates /\ PaysWell(q, p, saver[q])
        /\ NotedFor(t)[q] = NotedOf(q, p, saver[q], t) /\ NotedFor(t)[q] \in Nat
        /\ p.calls \in Nat
    BY <1>1, <1>2, TurnIsPaying DEF PayingStates
  <2>2. Outstanding(q, t) <=> OwesFor(q, p, saver[q], t)
    BY DEF Outstanding, OwesFor
  <2>3. calls[q] = IF Contains(TenantIds[q], t) THEN p.calls ELSE 0
    BY <2>1 DEF CallsFor
  <2> HIDE DEF p, calls
  <2>4. CASE OwesFor(q, p, saver[q], t)
    <3>1. Contains(TenantIds[q], t) /\ NotedFor(t)[q] = p.calls - 1
      BY <2>1, <2>4, NotedIs
    <3>2. QED
      BY <2>1, <2>2, <2>3, <2>4, <3>1
  <2>5. CASE ~OwesFor(q, p, saver[q], t)
    BY <2>1, <2>2, <2>3, <2>5 DEF NotedOf
  <2>6. QED
    BY <2>4, <2>5
<1>4. checker[w].spent[t] = found[w][t] + NotedBy(turns, t)
  BY DEF ReportInv, BooksAgree
<1>5. found[w][t] \in Nat /\ NotedBy(turns, t) \in Nat /\ Cardinality(owing) \in Nat
  BY <1>1, <1>2, NotedByIs, FS_CardinalityType DEF ReportTyped
<1> HIDE DEF turns, owing, calls
<1>6. SumOver(calls, turns) = SumOver(NotedFor(t), turns) + Cardinality(owing)
  BY <1>2, <1>3, SumMarked
<1>7. checker[w].spent[t] + Cardinality(owing) = found[w][t] + SumOver(calls, turns)
  BY <1>4, <1>5, <1>6 DEF NotedBy
<1>8. QED
  BY <1>7 DEF CallsOfAll, calls, owing, turns

\* No report knows of more calls than there were.
LEMMA BooksKnowCalls ==
    ASSUME ReportInv
    PROVE  NothingIsCountedTwice
<1>1. ReportTyped /\ TurnsPayWell
  BY DEF ReportInv
<1>2. ASSUME NEW t \in ReportTenants
      PROVE  /\ AllNoted[t] <= CallsOfAll(ReportTurns, t)
             /\ AllNoted[t] \in Nat /\ CallsOfAll(ReportTurns, t) \in Int
  <2> DEFINE calls == [payer \in ReportTurns |-> CallsFor(payer, t)]
  <2>1. IsFiniteSet(ReportTurns)
    BY SpendingReportAssumption
  <2>2. ASSUME NEW q \in ReportTurns
        PROVE  NotedFor(t)[q] \in Nat /\ calls[q] \in Nat /\ NotedFor(t)[q] <= calls[q]
    <3>1. /\ NotedFor(t)[q] \in Nat /\ NotedFor(t)[q] <= paying[q].calls
          /\ NotedFor(t)[q] = NotedOf(q, paying[q], saver[q], t)
          /\ paying[q].calls \in Nat
      BY <1>1, TurnIsPaying DEF PayingStates
    <3>2. CASE Contains(TenantIds[q], t)
      BY <3>1, <3>2 DEF CallsFor
    <3>3. CASE ~Contains(TenantIds[q], t)
      BY <3>1, <3>3 DEF CallsFor, NotedOf
    <3>4. QED
      BY <3>2, <3>3
  <2> HIDE DEF calls
  <2>3. /\ SumOver(NotedFor(t), ReportTurns) <= SumOver(calls, ReportTurns)
        /\ SumOver(calls, ReportTurns) \in Int
    BY <2>1, <2>2, SumGrows, SumIsInt
  <2>4. AllNoted[t] = SumOver(NotedFor(t), ReportTurns) /\ AllNoted[t] \in Nat
    BY <1>1, NotedByIs DEF AllNoted, NotedBy
  <2>5. QED
    BY <2>3, <2>4 DEF CallsOfAll, calls
<1>3. ASSUME NEW report \in Report, KnownAs(report, AllNoted, inForce), NEW t \in ReportTenants
      PROVE  report.spent[t] <= CallsOfAll(ReportTurns, t)
  <2>1. report.spent[t] <= AllNoted[t] /\ report.spent[t] \in Nat
    BY <1>3 DEF KnownAs, Report
  <2>2. QED
    BY <1>2, <2>1
<1>4. /\ spendingFile \in Report /\ KnownAs(spendingFile, AllNoted, inForce)
      /\ \A w \in ReportWorkers : checker[w] # Unloaded =>
            checker[w] \in Report /\ KnownAs(checker[w], AllNoted, inForce)
  BY <1>1 DEF ReportInv, ReportsAreKnown, ReportTyped
<1>5. QED
  BY <1>3, <1>4 DEF NothingIsCountedTwice

\* The calls of a tenant's own turns are among those they were granted.
LEMMA GrantsBoundCalls ==
    ASSUME ReportInv
    PROVE  OverrunIsBounded
<1> SUFFICES ASSUME NEW w \in ReportWorkers \ crashed, NEW t \in ReportTenants,
                    ~reserving, 0 \notin inForce[t]
             PROVE  LET own == OwnTurns(w, t)
                    IN  CallsOfAll(own, t) <= Max(inForce[t]) - 1 + Cardinality(own)
  BY DEF OverrunIsBounded, OwnTurns
<1> DEFINE own == OwnTurns(w, t)
           calls == [payer \in ReportTurns |-> CallsFor(payer, t)]
           top == Max(inForce[t])
<1>1. ReportTyped /\ TurnsPayWell
  BY DEF ReportInv
<1>2. IsFiniteSet(own) /\ own \subseteq ReportTurns
  BY SomeTurns
<1>3. PICK b \in inForce[t] : SumOver(Granted, own) + 1 <= b + Cardinality(own)
  BY DEF ReportInv, TurnsStop, GrantsEnd
<1>4. inForce[t] \subseteq Nat /\ IsFiniteSet(inForce[t])
  BY <1>1 DEF ReportTyped, ReportInv, ReportsAreKnown
<1>5. top \in inForce[t] /\ top >= b
  <2>1. \E x \in inForce[t] : \A y \in inForce[t] : x >= y
    BY <1>3, <1>4, FiniteMax
  <2>2. QED
    BY <1>3, <2>1 DEF Max
<1>6. ASSUME NEW q \in own
      PROVE  calls[q] \in Nat /\ Granted[q] \in Nat /\ calls[q] <= Granted[q]
  <2>1. q \in ReportTurns /\ paying[q].calls \in Nat
    BY <1>1, <1>2, TurnIsPaying DEF PayingStates
  <2>2. Granted[q] = paying[q].calls \/ Granted[q] = paying[q].calls + 1
    BY <2>1 DEF Granted, GrantedOf
  <2>3. calls[q] = paying[q].calls \/ calls[q] = 0
    BY <2>1 DEF CallsFor
  <2>4. QED
    BY <2>1, <2>2, <2>3
<1> HIDE DEF own, calls, top
<1>7. SumOver(calls, own) <= SumOver(Granted, own)
  BY <1>2, <1>6, SumGrows
<1>8. SumOver(calls, own) \in Nat /\ SumOver(Granted, own) \in Nat /\ Cardinality(own) \in Nat
  BY <1>2, <1>6, SumIsNat, FS_CardinalityType
<1>9. b \in Nat /\ top \in Nat
  BY <1>4, <1>5
<1>10. SumOver(calls, own) <= top - 1 + Cardinality(own)
  BY <1>3, <1>5, <1>7, <1>8, <1>9
<1>11. QED
  BY <1>10 DEF CallsOfAll, calls, own, top

\* What each worker remembers is what it found and what its turns recorded, the file and
\* every write under way know of nothing else, a turn that made its last call before the
\* budget was used up is granted no other, and the last write is of the last change.
THEOREM ReportIsInOrder == SpendingReportSpec => []ReportInv
<1>1. SpendingReportInit => ReportInv
  BY ReportStarts
<1>2. ReportInv /\ [SpendingReportNext]_reportVars => ReportInv'
  <2>1. ASSUME ReportInv, SpendingReportNext
        PROVE  ReportInv'
    <3>1. DOMAIN saver = SaverNames
      BY <2>1 DEF ReportInv, ReportTyped
    <3>2. QED
      BY <2>1, <3>1, CallModelKeeps, StartThreadKeeps, RecordSpendingKeeps, ReadBudgetKeeps,
         JudgeSpendingKeeps, CancelTurnKeeps, TakeSnapshotKeeps, ReplaceFileKeeps,
         SetBudgetKeeps, CrashReportKeeps DEF SpendingReportNext
  <2>2. ASSUME ReportInv, UNCHANGED reportVars
        PROVE  ReportInv'
    <3>1. UNCHANGED <<workerOf, reserving, checker, spendingFile, paying, saver, reportUpsets,
                      found, inForce, crashed, settled>>
      BY <2>2 DEF reportVars
    <3>2. ReportTyped' /\ TurnsPayWell'
      BY <2>2, <3>1 DEF ReportInv, ReportTyped, TurnsPayWell
    <3>3. \A t : NotedFor(t)' = NotedFor(t)
      BY <3>1 DEF NotedFor
    <3>4. AllNoted' = AllNoted
      BY <3>3 DEF AllNoted, NotedBy
    <3>5. ReportsAreKnown' /\ BooksAgree'
      BY <2>2, <3>1, <3>3, <3>4 DEF ReportInv, ReportsAreKnown, BooksAgree, NotedBy,
                                    TurnsOfWorker
    <3>6. TurnsStop'
      BY <2>2, <3>1 DEF ReportInv, TurnsStop, GrantsEnd, Granted, OwnTurns, TurnsOfWorker
    <3>7. LastIsWritten'
      BY <2>2, <3>1 DEF ReportInv, LastIsWritten, SaverWorker, LastWriteConverges,
                        TurnsOfWorker
    <3>8. QED
      BY <3>2, <3>5, <3>6, <3>7 DEF ReportInv
  <2>3. QED
    BY <2>1, <2>2
<1>3. QED
  BY <1>1, <1>2, PTL DEF SpendingReportSpec

\* What the report says was spent, and what it stops, whatever threads, writes, restarts and
\* settings come between.
THEOREM ReportIsAlwaysSound == SpendingReportSpec => []ReportIsSound
<1>1. ReportInv => ReportIsSound
  BY BooksTellCalls, BooksKnowCalls, GrantsBoundCalls
     DEF ReportIsSound, ReportInv, LastIsWritten
<1>2. QED
  BY <1>1, ReportIsInOrder, PTL

-----------------------------------------------------------------------------
(* Voice messages *)

\* A request on its way.
VoiceStates ==
    [at : {"new", "known", "trying", "recorded", "running", "heard", "turn", "refused"},
     row : VoiceAgentRows, named : BOOLEAN, config : VoiceSettings, failed : Nat,
     timedOut : BOOLEAN, unwritten : BOOLEAN, scope : AgentScopes \cup {DirectScope, {}}]

VoiceTyped ==
    /\ voiceConfig \in VoiceSettings /\ voiceAgent \in VoiceAgentRows
    /\ voice \in [VoiceRequests -> VoiceStates]

\* Its row tells whether it named an agent, its chain has a provider left while it is being
\* transcribed, and no more than one has failed unless it may go on to the next.
VoiceStands(v) ==
    /\ v.at \notin {"new", "refused"} => (v.row.there <=> v.named)
    /\ v.at = "turn" => v.scope = IF v.named THEN v.row.scope ELSE DirectScope
    /\ v.at \in {"trying", "recorded", "running", "heard", "turn"} =>
          /\ v.config.enabled /\ (v.row.there => ~v.row.override.inputDisabled)
          /\ v.failed < Len(BuildProviders(v.config))
          /\ v.failed > 0 => v.config.fallback
    /\ v.at \in {"new", "known"} => v.failed = 0
    /\ v.failed > 1 => v.config.fallback
    /\ v.failed <= Len(BuildProviders(v.config))

VoiceInv ==
    /\ VoiceTyped /\ \A r \in VoiceRequests : VoiceStands(voice[r])
    /\ NothingIsLeft

-----------------------------------------------------------------------------
\* What is built is switched on.
LEMMA BuiltIsEnabled ==
    ASSUME NEW config \in VoiceSettings
    PROVE  /\ BuildProviders(config) \in Seq(VoiceProviders)
           /\ \A k \in DOMAIN BuildProviders(config) : BuildProviders(config)[k].enabled
<1> DEFINE p == config.providers
           I == {i \in DOMAIN p : p[i].enabled /\ p[i].kind \in {"litellm", "local"}}
<1>1. p \in Seq(VoiceProviders) /\ BuildProviders(config) = SelectAt(p, I)
  BY DEF VoiceSettings, BuildProviders
<1>2. \A i \in I : p[i].enabled
  OBVIOUS
<1> HIDE DEF p, I
<1>3. /\ SelectAt(p, I) \in Seq(VoiceProviders)
      /\ \A k \in DOMAIN SelectAt(p, I) : \E i \in I \cap DOMAIN p : SelectAt(p, I)[k] = p[i]
  BY <1>1, SelectedMembers
<1>4. QED
  BY <1>1, <1>2, <1>3

\* What an agent makes of the configuration: still one, and off where the agent's input is.
LEMMA ResolvedIs ==
    ASSUME NEW config \in VoiceSettings, NEW row \in VoiceAgentRows
    PROVE  /\ ResolveVoice(config, row) \in VoiceSettings
           /\ ResolveVoice(config, row).enabled /\ row.there => ~row.override.inputDisabled
<1>1. CASE ~row.there
  BY <1>1 DEF ResolveVoice
<1>2. CASE row.there
  <2>1. row.override \in VoiceOverrides
    <3>1. row # NoAgent
      BY <1>2 DEF NoAgent
    <3>2. row \in [there : {TRUE}, scope : AgentScopes, override : AgentVoices]
      BY <3>1 DEF VoiceAgentRows
    <3>3. QED
      BY <3>2, VoiceInputAssumption
  <2> DEFINE on == Override(config.enabled, row.override.enabled) /\ ~row.override.inputDisabled
             next == Override(config.fallback, row.override.fallback)
  <2>2. ResolveVoice(config, row) = [config EXCEPT !.enabled = on, !.fallback = next]
    BY <1>2 DEF ResolveVoice
  <2>3. on \in BOOLEAN /\ next \in BOOLEAN
    BY <2>1 DEF Override, VoiceSettings, VoiceOverrides
  <2>4. on => ~row.override.inputDisabled
    OBVIOUS
  <2> HIDE DEF on, next
  <2>5. ResolveVoice(config, row) \in VoiceSettings /\ ResolveVoice(config, row).enabled = on
    BY <2>2, <2>3 DEF VoiceSettings
  <2>6. QED
    BY <2>4, <2>5
<1>3. QED
  BY <1>1, <1>2

\* What is known of a request.
LEMMA VoiceIs ==
    ASSUME VoiceTyped, NEW r \in VoiceRequests
    PROVE  /\ voice[r] \in VoiceStates /\ voice[r].config \in VoiceSettings
           /\ voice[r].row \in VoiceAgentRows /\ voice[r].failed \in Nat
BY DEF VoiceTyped, VoiceStates

\* A step of one request.
LEMMA VoiceSteps ==
    ASSUME VoiceInv, NEW r \in VoiceRequests, NEW v \in VoiceStates,
           voice' = [voice EXCEPT ![r] = v], VoiceStands(v),
           UNCHANGED <<voiceConfig, voiceAgent>>,
           recordings' \in {recordings, recordings \cup {r}, recordings \ {r}},
           transcribers' \in {transcribers, transcribers \cup {r}, transcribers \ {r}},
           r \in recordings' => v.at \in {"recorded", "running"} \/ v.unwritten,
           r \in transcribers' => v.at = "running" \/ v.timedOut
    PROVE  VoiceInv'
<1>1. VoiceTyped'
  BY DEF VoiceInv, VoiceTyped
<1>2. \A q \in VoiceRequests : voice'[q] = IF q = r THEN v ELSE voice[q]
  BY DEF VoiceInv, VoiceTyped
<1>3. \A q \in VoiceRequests : VoiceStands(voice'[q])
  BY <1>2 DEF VoiceInv
<1>4. NothingIsLeft'
  <2> SUFFICES ASSUME NEW q \in VoiceRequests
               PROVE  /\ q \in recordings' => voice'[q].at \in {"recorded", "running"}
                                              \/ voice'[q].unwritten
                      /\ q \in transcribers' => voice'[q].at = "running" \/ voice'[q].timedOut
    BY DEF NothingIsLeft, VoiceAt
  <2>1. CASE q = r
    BY <1>2, <2>1
  <2>2. CASE q # r
    BY <1>2, <2>2 DEF VoiceInv, NothingIsLeft, VoiceAt
  <2>3. QED
    BY <2>1, <2>2
<1>5. QED
  BY <1>1, <1>3, <1>4 DEF VoiceInv

\* A request that goes to another place and takes nothing along.
LEMMA GoesIs ==
    ASSUME VoiceTyped, NEW r \in VoiceRequests,
           NEW at \in {"new", "known", "trying", "recorded", "running", "heard", "turn", "refused"},
           VoiceGoes(r, at)
    PROVE  \E v \in VoiceStates :
              /\ voice' = [voice EXCEPT ![r] = v] /\ v.at = at
              /\ v.row = voice[r].row /\ v.named = voice[r].named /\ v.config = voice[r].config
              /\ v.failed = voice[r].failed /\ v.timedOut = voice[r].timedOut
              /\ v.unwritten = voice[r].unwritten /\ v.scope = voice[r].scope
<1> DEFINE v == [voice[r] EXCEPT !.at = at]
<1>1. voice[r] \in VoiceStates
  BY VoiceIs
<1>2. voice' = [voice EXCEPT ![r] = v]
  BY DEF VoiceGoes
<1>3. /\ v \in VoiceStates /\ v.at = at
      /\ v.row = voice[r].row /\ v.named = voice[r].named /\ v.config = voice[r].config
      /\ v.failed = voice[r].failed /\ v.timedOut = voice[r].timedOut
      /\ v.unwritten = voice[r].unwritten /\ v.scope = voice[r].scope
  BY <1>1 DEF VoiceStates
<1> HIDE DEF v
<1>4. QED
  BY <1>2, <1>3

\* Nobody is asked again who failed, and the next only where that is allowed.
LEMMA NextIs ==
    ASSUME VoiceInv, NEW r \in VoiceRequests, NEW timedOut \in BOOLEAN, NEW unwritten \in BOOLEAN,
           NextProvider(r, timedOut, unwritten), voice[r].at \in {"trying", "recorded", "running"}
    PROVE  \E v \in VoiceStates :
              /\ voice' = [voice EXCEPT ![r] = v] /\ VoiceStands(v)
              /\ v.at \in {"trying", "refused"}
              /\ v.timedOut = (voice[r].timedOut \/ timedOut)
              /\ v.unwritten = (voice[r].unwritten \/ unwritten)
<1> DEFINE at == IF voice[r].config.fallback /\ voice[r].failed + 1 < Len(Chain(r))
                 THEN "trying" ELSE "refused"
           expired == voice[r].timedOut \/ timedOut
           unkept == voice[r].unwritten \/ unwritten
           v == [voice[r] EXCEPT !.failed = voice[r].failed + 1, !.timedOut = expired,
                                 !.unwritten = unkept, !.at = at]
<1>1. /\ VoiceTyped /\ VoiceStands(voice[r]) /\ voice[r] \in VoiceStates
      /\ voice[r].failed \in Nat /\ voice[r].config \in VoiceSettings
  BY VoiceIs DEF VoiceInv
<1>2. voice' = [voice EXCEPT ![r] = v]
  BY DEF NextProvider
<1>3. expired \in BOOLEAN /\ unkept \in BOOLEAN /\ at \in {"trying", "refused"}
  BY <1>1 DEF VoiceStates
<1>4. at = "trying" => voice[r].config.fallback /\ voice[r].failed + 1 < Len(Chain(r))
  OBVIOUS
<1> HIDE DEF at, expired, unkept
<1>5. /\ v \in VoiceStates /\ v.at = at /\ v.row = voice[r].row /\ v.named = voice[r].named
      /\ v.config = voice[r].config /\ v.failed = voice[r].failed + 1
      /\ v.timedOut = expired /\ v.unwritten = unkept
  <2> DEFINE u == [voice[r] EXCEPT !.timedOut = expired, !.unwritten = unkept]
  <2>1. /\ u \in VoiceStates /\ u.row = voice[r].row /\ u.named = voice[r].named
        /\ u.config = voice[r].config /\ u.failed = voice[r].failed
        /\ u.timedOut = expired /\ u.unwritten = unkept
    BY <1>1, <1>3 DEF VoiceStates
  <2>2. v = [u EXCEPT !.failed = voice[r].failed + 1, !.at = at]
    BY <1>1 DEF VoiceStates
  <2> HIDE DEF u, v
  <2>3. voice[r].failed + 1 \in Nat
    BY <1>1
  <2>4. v \in VoiceStates
    BY <1>3, <2>1, <2>2, <2>3 DEF VoiceStates
  <2>5. /\ v.at = at /\ v.row = u.row /\ v.named = u.named /\ v.config = u.config
        /\ v.failed = voice[r].failed + 1 /\ v.timedOut = u.timedOut /\ v.unwritten = u.unwritten
    BY <2>1, <2>2 DEF VoiceStates
  <2>6. QED
    BY <2>1, <2>4, <2>5
<1> HIDE DEF v
<1>6. VoiceStands(v)
  BY <1>1, <1>3, <1>4, <1>5 DEF VoiceStands, Chain
<1>7. QED
  BY <1>2, <1>3, <1>5, <1>6 DEF expired, unkept

-----------------------------------------------------------------------------
\* The row is read before anything is transcribed.
LEMMA ArrivesKeeps ==
    ASSUME VoiceInv, NEW r \in VoiceRequests, VoiceArrives(r)
    PROVE  VoiceInv'
<1>1. PICK named \in BOOLEAN :
         voice' = [voice EXCEPT
              ![r].named = named,
              ![r].row = IF named THEN voiceAgent ELSE NoAgent,
              ![r].at = IF named /\ ~voiceAgent.there THEN "refused" ELSE "known"]
  BY DEF VoiceArrives
<1> DEFINE row == IF named THEN voiceAgent ELSE NoAgent
           at == IF named /\ ~voiceAgent.there THEN "refused" ELSE "known"
           v == [voice[r] EXCEPT !.named = named, !.row = row, !.at = at]
<1>2. /\ voice[r].at = "new" /\ VoiceStands(voice[r]) /\ voice[r] \in VoiceStates
      /\ voiceAgent \in VoiceAgentRows
      /\ UNCHANGED <<voiceConfig, voiceAgent, recordings, transcribers>>
  BY VoiceIs DEF VoiceArrives, VoiceAt, VoiceInv, VoiceTyped
<1>3. voice' = [voice EXCEPT ![r] = v]
  BY <1>1
<1>4. /\ row \in VoiceAgentRows /\ at \in {"refused", "known"}
      /\ at = "known" => (row.there <=> named)
  BY <1>2 DEF VoiceAgentRows, NoAgent
<1> HIDE DEF row, at
<1>5. /\ v \in VoiceStates /\ v.at = at /\ v.row = row /\ v.named = named
      /\ v.config = voice[r].config /\ v.failed = voice[r].failed
      /\ v.timedOut = voice[r].timedOut /\ v.unwritten = voice[r].unwritten
  BY <1>2, <1>4 DEF VoiceStates
<1> HIDE DEF v
<1>6. VoiceStands(v)
  BY <1>2, <1>4, <1>5 DEF VoiceStands
<1>7. /\ r \in recordings => v.unwritten
      /\ r \in transcribers => v.timedOut
  BY <1>2, <1>5 DEF VoiceInv, NothingIsLeft, VoiceAt
<1>8. QED
  BY <1>2, <1>3, <1>5, <1>6, <1>7, VoiceSteps

\* A chain that is entered is allowed and has a provider.
LEMMA ConfigureKeeps ==
    ASSUME VoiceInv, NEW r \in VoiceRequests, ConfigureVoice(r)
    PROVE  VoiceInv'
<1> DEFINE resolved == ResolveVoice(voiceConfig, voice[r].row)
<1>1. /\ VoiceTyped /\ VoiceStands(voice[r]) /\ voice[r] \in VoiceStates
      /\ voice[r].at = "known" /\ voiceConfig \in VoiceSettings /\ voice[r].row \in VoiceAgentRows
      /\ UNCHANGED <<voiceConfig, voiceAgent, recordings, transcribers>>
  BY VoiceIs DEF ConfigureVoice, VoiceAt, VoiceInv, VoiceTyped
<1>2. /\ r \in recordings => voice[r].unwritten
      /\ r \in transcribers => voice[r].timedOut
  BY <1>1 DEF VoiceInv, NothingIsLeft, VoiceAt
<1>3. CASE VoiceGoes(r, "refused")
  <2>1. PICK v \in VoiceStates :
           /\ voice' = [voice EXCEPT ![r] = v] /\ v.at = "refused"
           /\ v.row = voice[r].row /\ v.named = voice[r].named /\ v.config = voice[r].config
           /\ v.failed = voice[r].failed /\ v.timedOut = voice[r].timedOut
           /\ v.unwritten = voice[r].unwritten /\ v.scope = voice[r].scope
    BY <1>1, <1>3, GoesIs
  <2>2. VoiceStands(v)
    BY <1>1, <2>1 DEF VoiceStands
  <2>3. QED
    BY <1>1, <1>2, <2>1, <2>2, VoiceSteps
<1>4. CASE ~VoiceGoes(r, "refused")
  <2>1. /\ resolved.enabled /\ BuildProviders(resolved) # <<>>
        /\ voice' = [voice EXCEPT ![r].at = "trying", ![r].config = resolved]
    BY <1>4 DEF ConfigureVoice
  <2>2. /\ resolved \in VoiceSettings
        /\ voice[r].row.there => ~voice[r].row.override.inputDisabled
        /\ BuildProviders(resolved) \in Seq(VoiceProviders)
    BY <1>1, <2>1, ResolvedIs, BuiltIsEnabled
  <2>3. Len(BuildProviders(resolved)) \in Nat /\ Len(BuildProviders(resolved)) > 0
    <3> DEFINE b == BuildProviders(resolved)
    <3>1. b \in Seq(VoiceProviders) /\ b # <<>>
      BY <2>1, <2>2
    <3> HIDE DEF b
    <3>2. Len(b) \in Nat /\ Len(b) > 0
      BY <3>1, EmptySeq, LenProperties
    <3>3. QED
      BY <3>2 DEF b
  <2> DEFINE v == [voice[r] EXCEPT !.at = "trying", !.config = resolved]
  <2>4. voice' = [voice EXCEPT ![r] = v]
    BY <2>1
  <2>5. resolved.enabled
    BY <2>1
  <2> HIDE DEF resolved
  <2>6. /\ v \in VoiceStates /\ v.at = "trying" /\ v.row = voice[r].row
        /\ v.named = voice[r].named /\ v.config = resolved /\ v.failed = voice[r].failed
        /\ v.timedOut = voice[r].timedOut /\ v.unwritten = voice[r].unwritten
    BY <1>1, <2>2 DEF VoiceStates
  <2> HIDE DEF v
  <2>7. VoiceStands(v)
    BY <1>1, <2>2, <2>3, <2>5, <2>6 DEF VoiceStands
  <2>8. QED
    BY <1>1, <1>2, <2>4, <2>6, <2>7, VoiceSteps
<1>5. QED
  BY <1>3, <1>4

\* What was transcribed is heard or is silence.
LEMMA TranscribedIs ==
    ASSUME VoiceInv, NEW r \in VoiceRequests, voice[r].at \in {"trying", "running"}, Transcribed(r)
    PROVE  \E v \in VoiceStates :
              /\ voice' = [voice EXCEPT ![r] = v] /\ VoiceStands(v) /\ v.at \in {"heard", "refused"}
              /\ v.timedOut = voice[r].timedOut /\ v.unwritten = voice[r].unwritten
<1>1. VoiceTyped /\ VoiceStands(voice[r])
  BY DEF VoiceInv
<1>2. PICK at \in {"heard", "refused"} : VoiceGoes(r, at)
  BY DEF Transcribed
<1>3. PICK v \in VoiceStates :
         /\ voice' = [voice EXCEPT ![r] = v] /\ v.at = at
         /\ v.row = voice[r].row /\ v.named = voice[r].named /\ v.config = voice[r].config
         /\ v.failed = voice[r].failed /\ v.timedOut = voice[r].timedOut
         /\ v.unwritten = voice[r].unwritten /\ v.scope = voice[r].scope
  BY <1>1, <1>2, GoesIs
<1>4. VoiceStands(v)
  BY <1>1, <1>2, <1>3 DEF VoiceStands
<1>5. QED
  BY <1>2, <1>3, <1>4

\* A remote provider leaves nothing behind.
LEMMA RemoteKeeps ==
    ASSUME VoiceInv, NEW r \in VoiceRequests, TranscribeRemotely(r)
    PROVE  VoiceInv'
<1>1. /\ voice[r].at = "trying" /\ (Transcribed(r) \/ NextProvider(r, FALSE, FALSE))
      /\ UNCHANGED <<voiceConfig, voiceAgent, recordings, transcribers>>
  BY DEF TranscribeRemotely, VoiceAt
<1>2. /\ r \in recordings => voice[r].unwritten
      /\ r \in transcribers => voice[r].timedOut
  BY <1>1 DEF VoiceInv, NothingIsLeft, VoiceAt
<1>3. PICK v \in VoiceStates :
         /\ voice' = [voice EXCEPT ![r] = v] /\ VoiceStands(v)
         /\ voice[r].unwritten => v.unwritten
         /\ voice[r].timedOut => v.timedOut
  <2>1. CASE Transcribed(r)
    BY <1>1, <2>1, TranscribedIs
  <2>2. CASE NextProvider(r, FALSE, FALSE)
    BY <1>1, <2>2, NextIs
  <2>3. QED
    BY <1>1, <2>1, <2>2
<1>4. QED
  BY <1>1, <1>2, <1>3, VoiceSteps

\* A recording that could not be written whole is the only one that stays.
LEMMA WriteKeeps ==
    ASSUME VoiceInv, NEW r \in VoiceRequests, WriteRecording(r)
    PROVE  VoiceInv'
<1>1. /\ voice[r].at = "trying" /\ recordings' = recordings \cup {r}
      /\ VoiceGoes(r, "recorded") \/ NextProvider(r, FALSE, TRUE)
      /\ UNCHANGED <<voiceConfig, voiceAgent, transcribers>>
  BY DEF WriteRecording, VoiceAt
<1>2. /\ r \in transcribers => voice[r].timedOut
      /\ VoiceTyped /\ VoiceStands(voice[r])
  BY <1>1 DEF VoiceInv, NothingIsLeft, VoiceAt
<1>3. PICK v \in VoiceStates :
         /\ voice' = [voice EXCEPT ![r] = v] /\ VoiceStands(v)
         /\ v.at = "recorded" \/ v.unwritten
         /\ voice[r].timedOut => v.timedOut
  <2>1. CASE VoiceGoes(r, "recorded")
    <3>1. PICK v \in VoiceStates :
             /\ voice' = [voice EXCEPT ![r] = v] /\ v.at = "recorded"
             /\ v.row = voice[r].row /\ v.named = voice[r].named /\ v.config = voice[r].config
             /\ v.failed = voice[r].failed /\ v.timedOut = voice[r].timedOut
             /\ v.unwritten = voice[r].unwritten /\ v.scope = voice[r].scope
      BY <1>2, <2>1, GoesIs
    <3>2. VoiceStands(v)
      BY <1>1, <1>2, <3>1 DEF VoiceStands
    <3>3. QED
      BY <3>1, <3>2
  <2>2. CASE NextProvider(r, FALSE, TRUE)
    BY <1>1, <2>2, NextIs
  <2>3. QED
    BY <1>1, <2>1, <2>2
<1>4. QED
  BY <1>1, <1>2, <1>3, VoiceSteps

\* A transcriber that cannot be started takes its recording with it.
LEMMA StartTranscriberKeeps ==
    ASSUME VoiceInv, NEW r \in VoiceRequests, StartTranscriber(r)
    PROVE  VoiceInv'
<1>1. voice[r].at = "recorded" /\ UNCHANGED <<voiceConfig, voiceAgent>>
  BY DEF StartTranscriber, VoiceAt
<1>2. /\ r \in transcribers => voice[r].timedOut
      /\ VoiceTyped /\ VoiceStands(voice[r])
  BY <1>1 DEF VoiceInv, NothingIsLeft, VoiceAt
<1>3. CASE VoiceGoes(r, "running") /\ transcribers' = transcribers \cup {r} /\ UNCHANGED recordings
  <2>1. PICK v \in VoiceStates :
           /\ voice' = [voice EXCEPT ![r] = v] /\ v.at = "running"
           /\ v.row = voice[r].row /\ v.named = voice[r].named /\ v.config = voice[r].config
           /\ v.failed = voice[r].failed /\ v.timedOut = voice[r].timedOut
           /\ v.unwritten = voice[r].unwritten /\ v.scope = voice[r].scope
    BY <1>2, <1>3, GoesIs
  <2>2. VoiceStands(v)
    BY <1>1, <1>2, <2>1 DEF VoiceStands
  <2>3. QED
    BY <1>1, <1>3, <2>1, <2>2, VoiceSteps
<1>4. CASE /\ NextProvider(r, FALSE, FALSE) /\ recordings' = recordings \ {r}
           /\ UNCHANGED transcribers
  <2>1. PICK v \in VoiceStates :
           /\ voice' = [voice EXCEPT ![r] = v] /\ VoiceStands(v)
           /\ voice[r].timedOut => v.timedOut
    BY <1>1, <1>4, NextIs
  <2>2. r \notin recordings' /\ (r \in transcribers' => v.timedOut)
    BY <1>2, <1>4, <2>1
  <2>3. QED
    BY <1>1, <1>4, <2>1, <2>2, VoiceSteps
<1>5. QED
  BY <1>3, <1>4 DEF StartTranscriber

\* A transcriber is left to itself only after its time.
LEMMA AnswersKeeps ==
    ASSUME VoiceInv, NEW r \in VoiceRequests, TranscriberAnswers(r)
    PROVE  VoiceInv'
<1>1. /\ voice[r].at = "running" /\ recordings' = recordings \ {r}
      /\ UNCHANGED <<voiceConfig, voiceAgent>>
  BY DEF TranscriberAnswers, VoiceAt
<1>2. CASE /\ transcribers' = transcribers \ {r}
           /\ Transcribed(r) \/ NextProvider(r, FALSE, FALSE)
  <2>1. PICK v \in VoiceStates : voice' = [voice EXCEPT ![r] = v] /\ VoiceStands(v)
    <3>1. CASE Transcribed(r)
      BY <1>1, <3>1, TranscribedIs
    <3>2. CASE NextProvider(r, FALSE, FALSE)
      BY <1>1, <3>2, NextIs
    <3>3. QED
      BY <1>2, <3>1, <3>2
  <2>2. QED
    BY <1>1, <1>2, <2>1, VoiceSteps
<1>3. CASE NextProvider(r, TRUE, FALSE) /\ UNCHANGED transcribers
  <2>1. PICK v \in VoiceStates :
           voice' = [voice EXCEPT ![r] = v] /\ VoiceStands(v) /\ v.timedOut
    BY <1>1, <1>3, NextIs
  <2>2. QED
    BY <1>1, <1>3, <2>1, VoiceSteps
<1>4. QED
  BY <1>2, <1>3 DEF TranscriberAnswers

\* One that was given up ends.
LEMMA EndsKeeps ==
    ASSUME VoiceInv, NEW r \in VoiceRequests, TranscriberEnds(r)
    PROVE  VoiceInv'
<1>1. transcribers' = transcribers \ {r} /\ UNCHANGED <<voiceConfig, voiceAgent, voice, recordings>>
  BY DEF TranscriberEnds
<1>2. QED
  BY <1>1 DEF VoiceInv, VoiceTyped, NothingIsLeft, VoiceAt

\* The turn runs in the scope of the row that was read.
LEMMA StartTurnKeeps ==
    ASSUME VoiceInv, NEW r \in VoiceRequests, StartVoiceTurn(r)
    PROVE  VoiceInv'
<1> DEFINE scope == IF voice[r].row.there THEN voice[r].row.scope ELSE DirectScope
           v == [voice[r] EXCEPT !.at = "turn", !.scope = scope]
<1>1. /\ VoiceTyped /\ VoiceStands(voice[r]) /\ voice[r] \in VoiceStates
      /\ voice[r].at = "heard" /\ voice[r].row \in VoiceAgentRows
      /\ UNCHANGED <<voiceConfig, voiceAgent, recordings, transcribers>>
  BY VoiceIs DEF StartVoiceTurn, VoiceAt, VoiceInv
<1>2. /\ r \in recordings => voice[r].unwritten
      /\ r \in transcribers => voice[r].timedOut
  BY <1>1 DEF VoiceInv, NothingIsLeft, VoiceAt
<1>3. CASE VoiceGoes(r, "refused")
  <2>1. PICK w \in VoiceStates :
           /\ voice' = [voice EXCEPT ![r] = w] /\ w.at = "refused"
           /\ w.row = voice[r].row /\ w.named = voice[r].named /\ w.config = voice[r].config
           /\ w.failed = voice[r].failed /\ w.timedOut = voice[r].timedOut
           /\ w.unwritten = voice[r].unwritten /\ w.scope = voice[r].scope
    BY <1>1, <1>3, GoesIs
  <2>2. VoiceStands(w)
    BY <1>1, <2>1 DEF VoiceStands
  <2>3. QED
    BY <1>1, <1>2, <2>1, <2>2, VoiceSteps
<1>4. CASE ~VoiceGoes(r, "refused")
  <2>1. voice' = [voice EXCEPT ![r] = v]
    BY <1>4 DEF StartVoiceTurn
  <2>2. scope \in AgentScopes \cup {DirectScope, {}}
    <3>1. CASE voice[r].row = NoAgent
      BY <3>1 DEF NoAgent
    <3>2. CASE voice[r].row # NoAgent
      <4>1. voice[r].row \in [there : {TRUE}, scope : AgentScopes, override : AgentVoices]
        BY <1>1, <3>2 DEF VoiceAgentRows
      <4>2. QED
        BY <4>1
    <3>3. QED
      BY <3>1, <3>2
  <2>3. scope = IF voice[r].named THEN voice[r].row.scope ELSE DirectScope
    BY <1>1 DEF VoiceStands
  <2> HIDE DEF scope
  <2>4. /\ v \in VoiceStates /\ v.at = "turn" /\ v.row = voice[r].row
        /\ v.named = voice[r].named /\ v.config = voice[r].config /\ v.failed = voice[r].failed
        /\ v.timedOut = voice[r].timedOut /\ v.unwritten = voice[r].unwritten /\ v.scope = scope
    BY <1>1, <2>2 DEF VoiceStates
  <2> HIDE DEF v
  <2>5. VoiceStands(v)
    BY <1>1, <2>3, <2>4 DEF VoiceStands
  <2>6. QED
    BY <1>1, <1>2, <2>1, <2>4, <2>5, VoiceSteps
<1>5. QED
  BY <1>3, <1>4

\* What the administrator changes is none of the requests' business.
LEMMA ChangeVoiceKeeps == ASSUME VoiceInv, ChangeVoice PROVE VoiceInv'
<1>1. /\ voiceConfig' \in VoiceSettings /\ voiceAgent' \in VoiceAgentRows
      /\ UNCHANGED <<voice, recordings, transcribers>>
  BY VoiceInputAssumption DEF ChangeVoice, VoiceInv, VoiceTyped
<1>2. QED
  BY <1>1 DEF VoiceInv, VoiceTyped, NothingIsLeft, VoiceAt

\* No request has arrived yet.
LEMMA VoiceStarts == VoiceInputInit => VoiceInv
<1> SUFFICES ASSUME VoiceInputInit PROVE VoiceInv
  OBVIOUS
<1> DEFINE v == [at |-> "new", row |-> NoAgent, named |-> FALSE, config |-> Unresolved,
                 failed |-> 0, timedOut |-> FALSE, unwritten |-> FALSE, scope |-> {}]
<1>1. Unresolved \in VoiceSettings /\ NoAgent \in VoiceAgentRows
  BY DEF Unresolved, VoiceSettings, VoiceAgentRows
<1>2. v \in VoiceStates
  BY <1>1 DEF VoiceStates
<1>3. VoiceStands(v)
  BY DEF VoiceStands
<1>4. voice = [r \in VoiceRequests |-> v]
  BY DEF VoiceInputInit
<1> HIDE DEF v
<1>5. VoiceTyped
  BY <1>2, <1>4, VoiceInputAssumption DEF VoiceInputInit, VoiceTyped
<1>6. NothingIsLeft
  BY DEF VoiceInputInit, NothingIsLeft
<1>7. QED
  BY <1>3, <1>4, <1>5, <1>6 DEF VoiceInv

\* Every step of a request keeps what is known of it where it stands.
LEMMA VoiceStep == VoiceInv /\ [VoiceInputNext]_voiceVars => VoiceInv'
<1> SUFFICES ASSUME VoiceInv, [VoiceInputNext]_voiceVars PROVE VoiceInv'
  OBVIOUS
<1>1. CASE UNCHANGED voiceVars
  BY <1>1 DEF voiceVars, VoiceInv, VoiceTyped, NothingIsLeft, VoiceAt
<1>2. QED
  BY <1>1, ArrivesKeeps, ConfigureKeeps, RemoteKeeps, WriteKeeps, StartTranscriberKeeps,
     AnswersKeeps, EndsKeeps, StartTurnKeeps, ChangeVoiceKeeps DEF VoiceInputNext

\* Where a voice message stands tells what was read for it and how many providers have
\* failed, whatever the administrator changes meanwhile.
THEOREM VoiceIsInOrder == VoiceInputSpec => []VoiceInv
BY VoiceStarts, VoiceStep, PTL DEF VoiceInputSpec

\* What stands of each request makes voice messages sound.
LEMMA VoiceFollows == VoiceInv => VoiceIsSound
<1> SUFFICES ASSUME VoiceInv PROVE VoiceIsSound
  OBVIOUS
<1>1. ScopeIsTheAgents
  <2> SUFFICES ASSUME NEW r \in VoiceRequests, voice[r].at = "turn"
               PROVE  IF voice[r].named THEN voice[r].scope \in AgentScopes
                      ELSE voice[r].scope = DirectScope
    BY DEF ScopeIsTheAgents, VoiceAt
  <2>1. VoiceStands(voice[r]) /\ voice[r].row \in VoiceAgentRows
    BY VoiceIs DEF VoiceInv
  <2>2. CASE voice[r].row = NoAgent
    BY <2>1, <2>2 DEF VoiceStands, NoAgent
  <2>3. CASE voice[r].row # NoAgent
    <3>1. voice[r].row \in [there : {TRUE}, scope : AgentScopes, override : AgentVoices]
      BY <2>1, <2>3 DEF VoiceAgentRows
    <3>2. QED
      BY <2>1, <3>1 DEF VoiceStands
  <2>4. QED
    BY <2>2, <2>3
<1>2. OnlyAllowedProviders
  <2> SUFFICES ASSUME NEW r \in VoiceRequests
               PROVE  /\ voice[r].at \in {"trying", "recorded", "running", "heard", "turn"} =>
                            /\ voice[r].config.enabled
                            /\ voice[r].row.there => ~voice[r].row.override.inputDisabled
                            /\ voice[r].failed < Len(Chain(r)) /\ Provider(r).enabled
                      /\ voice[r].failed > 1 => voice[r].config.fallback
    BY DEF OnlyAllowedProviders
  <2>1. /\ VoiceStands(voice[r]) /\ voice[r].config \in VoiceSettings /\ voice[r].failed \in Nat
    BY VoiceIs DEF VoiceInv
  <2>2. /\ Chain(r) \in Seq(VoiceProviders)
        /\ \A k \in DOMAIN Chain(r) : Chain(r)[k].enabled
    BY <2>1, BuiltIsEnabled DEF Chain
  <2>3. voice[r].failed < Len(Chain(r)) => Provider(r).enabled
    <3> DEFINE c == Chain(r)
    <3>1. c \in Seq(VoiceProviders) /\ \A k \in DOMAIN c : c[k].enabled
      BY <2>2
    <3>2. Provider(r) = c[voice[r].failed + 1]
      BY DEF Provider
    <3> HIDE DEF c
    <3>3. voice[r].failed < Len(c) => voice[r].failed + 1 \in DOMAIN c
      BY <2>1, <3>1
    <3>4. QED
      BY <3>1, <3>2, <3>3 DEF c
  <2>4. QED
    BY <2>1, <2>3 DEF VoiceStands, Chain
<1>3. QED
  BY <1>1, <1>2 DEF VoiceInv, VoiceIsSound

\* A voice message is a chat request of the agent it names, and leaves nothing behind, for
\* any configurations, agents, requests and changes.
THEOREM VoiceIsAlwaysSound == VoiceInputSpec => []VoiceIsSound
<1>1. QED
  BY VoiceIsInOrder, VoiceFollows, PTL

-----------------------------------------------------------------------------
(* All of it *)

\* What the administrator and the operating system have of voice messages.
VoiceStored ==
    /\ voiceConfig \in VoiceConfigs
    /\ recordings \subseteq VoiceRequests /\ transcribers \subseteq VoiceRequests
    /\ voiceChanges \in 0 .. MaxVoiceChanges

LEMMA VoiceStaysStored == VoiceInputSpec => []VoiceStored
<1>1. VoiceInputInit => VoiceStored
  BY VoiceInputAssumption DEF VoiceInputInit, VoiceStored
<1>2. VoiceStored /\ [VoiceInputNext]_voiceVars => VoiceStored'
  <2> SUFFICES ASSUME VoiceStored, [VoiceInputNext]_voiceVars PROVE VoiceStored'
    OBVIOUS
  <2>1. CASE ChangeVoice
    <3>1. voiceChanges < MaxVoiceChanges /\ voiceChanges' = voiceChanges + 1
      BY <2>1 DEF ChangeVoice
    <3>2. voiceChanges' \in 0 .. MaxVoiceChanges
      BY <3>1, VoiceInputAssumption DEF VoiceStored
    <3>3. QED
      BY <2>1, <3>2 DEF ChangeVoice, VoiceStored
  <2>2. ASSUME NEW r \in VoiceRequests,
               \/ VoiceArrives(r) \/ ConfigureVoice(r) \/ TranscribeRemotely(r)
               \/ WriteRecording(r) \/ StartTranscriber(r) \/ TranscriberAnswers(r)
               \/ TranscriberEnds(r) \/ StartVoiceTurn(r)
        PROVE  VoiceStored'
    <3>1. /\ UNCHANGED <<voiceConfig, voiceChanges>>
          /\ recordings' \in {recordings, recordings \cup {r}, recordings \ {r}}
          /\ transcribers' \in {transcribers, transcribers \cup {r}, transcribers \ {r}}
      BY <2>2 DEF VoiceArrives, ConfigureVoice, TranscribeRemotely, WriteRecording,
                  StartTranscriber, TranscriberAnswers, TranscriberEnds, StartVoiceTurn
    <3>2. QED
      BY <3>1 DEF VoiceStored
  <2>3. CASE UNCHANGED voiceVars
    BY <2>3 DEF voiceVars, VoiceStored
  <2>4. QED
    BY <2>1, <2>2, <2>3 DEF VoiceInputNext
<1>3. QED
  BY <1>1, <1>2, PTL DEF VoiceInputSpec

LEMMA VoiceHasItsType == VoiceInv /\ VoiceStored => VoiceInputTypeOK
<1> SUFFICES ASSUME VoiceInv, VoiceStored PROVE VoiceInputTypeOK
  OBVIOUS
<1>1. ASSUME NEW r \in VoiceRequests
      PROVE  /\ voice[r].at \in {"new", "known", "trying", "recorded", "running",
                                   "heard", "turn", "refused"}
             /\ voice[r].failed \in 0 .. Len(voice[r].config.providers)
  <2> DEFINE p == voice[r].config.providers
             b == BuildProviders(voice[r].config)
  <2>1. /\ voice[r] \in VoiceStates /\ p \in Seq(VoiceProviders) /\ voice[r].failed \in Nat
        /\ VoiceStands(voice[r])
    BY VoiceIs DEF VoiceInv, VoiceSettings
  <2>2. voice[r].failed <= Len(b)
    BY <2>1 DEF VoiceStands
  <2>3. Len(b) \in Nat /\ Len(b) <= Len(p)
    <3>1. b = SelectAt(p, {i \in DOMAIN p : p[i].enabled /\ p[i].kind \in {"litellm", "local"}})
      BY DEF BuildProviders
    <3> HIDE DEF p, b
    <3>2. QED
      BY <2>1, <3>1, SelectedIsNoLonger
  <2>4. Len(p) \in Nat
    BY <2>1, LenProperties
  <2> HIDE DEF p, b
  <2>5. voice[r].failed \in 0 .. Len(p)
    BY <2>1, <2>2, <2>3, <2>4
  <2>6. QED
    BY <2>1, <2>5 DEF VoiceStates, p
<1>2. QED
  BY <1>1 DEF VoiceInv, VoiceTyped, VoiceStored, VoiceInputTypeOK

LEMMA WireHasItsType == WireInv => CompletionWireTypeOK
<1> SUFFICES ASSUME WireInv PROVE CompletionWireTypeOK
  OBVIOUS
<1> DEFINE Wide == [role : {"user", "assistant", "tool", "system"},
                    args : Seq({"object", "text", "broken", "list"})]
<1>1. MessageOf("object") \subseteq Wide
  <2> SUFFICES ASSUME NEW m \in MessageOf("object") PROVE m \in Wide
    OBVIOUS
  <2>1. /\ m = [role |-> m.role, args |-> m.args] /\ m.role \in WireRoles
        /\ m.args \in Seq({"object"})
    BY DEF MessageOf
  <2>2. m.args \in Seq({"object", "text", "broken", "list"})
    <3> DEFINE c == m.args
    <3>1. c \in Seq({"object"})
      BY <2>1
    <3> HIDE DEF c
    <3>2. c \in Seq({"object", "text", "broken", "list"})
      BY <3>1, SeqMonotonic
    <3>3. QED
      BY <3>2 DEF c
  <2>3. QED
    BY <2>1, <2>2 DEF WireRoles
<1> HIDE DEF Wide
<1>2. wireTranscript \in Seq(Wide)
  BY <1>1, SeqMonotonic DEF WireInv, WireTyped, MessagesOf
<1>3. {request.tools, request.final} \subseteq BOOLEAN
  BY DEF WireInv, WireTyped, WireRequests
<1>4. QED
  BY <1>2, <1>3 DEF WireInv, WireTyped, CompletionWireTypeOK, Wide

LEMMA ReportHasItsType == ReportInv => SpendingReportTypeOK
<1> SUFFICES ASSUME ReportInv PROVE SpendingReportTypeOK
  OBVIOUS
<1>1. ReportTyped /\ TurnsPayWell
  BY DEF ReportInv
<1>2. ASSUME NEW w \in ReportWorkers
      PROVE  checker[w] = Unloaded \/ checker[w] \in Report
  BY <1>1 DEF ReportTyped
<1>3. ASSUME NEW payer \in ReportTurns
      PROVE  /\ paying[payer].at \in {"ready", "record", "thread", "check", "judge",
                                       "limited", "over"}
             /\ paying[payer].nth \in 1 .. Len(TenantIds[payer])
  <2>1. paying[payer] \in PayingStates
    BY <1>1 DEF ReportTyped
  <2>2. QED
    BY <1>1, <2>1 DEF TurnsPayWell, PaysWell, PayingStates
<1>4. ASSUME NEW s \in DOMAIN saver
      PROVE  saver[s].at \in {"none", "changed", "write"}
  <2>1. saver[s] \in SaverStates
    BY <1>1, <1>4 DEF ReportTyped
  <2>2. QED
    BY <2>1 DEF SaverStates, NotSaving
<1>5. QED
  BY <1>1, <1>2, <1>3, <1>4 DEF ReportTyped, SpendingReportTypeOK

\* A voice message is heard as it was meant, a completion retried within its bounds and taken
\* whole or not at all, and what turns cost reported once, for any configurations, providers,
\* tenants, workers and interleavings of them.
THEOREM CompletionsStaySound == CompletionsSpec => []CompletionsAreSound
<1>1. RetryInv => RetryTypeOK
  BY DEF RetryInv
<1>2. RetriesAreBounded /\ WireIsFaithful /\ ReportIsSound /\ VoiceIsSound
        /\ RetryTypeOK /\ CompletionWireTypeOK /\ SpendingReportTypeOK /\ VoiceInputTypeOK
      => CompletionsAreSound
  BY DEF CompletionsAreSound, CompletionsTypeOK
<1>3. QED
  BY <1>1, <1>2, RetriesAreInOrder, RetriesAreAlwaysBounded, WireIsInOrder, WireIsAlwaysFaithful,
     WireHasItsType, ReportIsInOrder, ReportIsAlwaysSound, ReportHasItsType, VoiceIsInOrder,
     VoiceStaysStored, VoiceIsAlwaysSound, VoiceHasItsType, PTL DEF CompletionsSpec
=============================================================================
