------------------------ MODULE SpendingLedgerProofs ------------------------
(***************************************************************************)
(* The counters of the ledger agree with its rows, and the ledger keeps    *)
(* the promise of SpendingAdmission, for any number of principals,         *)
(* requests and amounts.                                                   *)
(*                                                                         *)
(* The counters are inductive beside three facts about the rows: a row is  *)
(* written whole, only a row that is ACTIVE is overdue, and only a balance *)
(* that exists has a budget of its own.                                    *)
(***************************************************************************)
EXTENDS SpendingLedger, FoldTheorems

Estimate == [r \in Requests |-> reservations[r].estimate]

Cost == [r \in Requests |-> reservations[r].cost]

Committed(p) == {r \in Of(p) : reservations[r].status = "COMMITTED"}

RowsAreWhole ==
    \A r \in Requests :
        /\ reservations[r].status = "NONE" => reservations[r] = NoRow
        /\ reservations[r].status # "NONE" => reservations[r].principal \in Principals

OverdueIsActive == \A r \in overdue : reservations[r].status = "ACTIVE"

OverridesAreKnown == \A p \in Principals : balances[p].override => balances[p].known

\* The inductive invariant.
LedgerInv ==
    /\ TypeOK
    /\ CountersExact
    /\ RowsAreWhole
    /\ OverdueIsActive
    /\ OverridesAreKnown

-----------------------------------------------------------------------------
(* Sums over rows *)

LEMMA RowsAreFinite == ASSUME NEW S \in SUBSET Requests PROVE IsFiniteSet(S)
BY RequestsAssumption, FS_Subset

LEMMA RowsAreNumbers ==
    ASSUME TypeOK
    PROVE  /\ \A r \in Requests : Estimate[r] \in Nat /\ Cost[r] \in Nat
           /\ \A S \in SUBSET Requests : SumOver(Estimate, S) \in Nat /\ SumOver(Cost, S) \in Nat
<1>1. \A r \in Requests : Estimate[r] \in Nat /\ Cost[r] \in Nat
  <2>1. \A r \in Requests : /\ reservations[r].estimate \in Estimates \cup {0}
                           /\ reservations[r].cost \in Costs \cup {0}
    BY DEF TypeOK
  <2>2. Estimates \cup {0} \subseteq Nat /\ Costs \cup {0} \subseteq Nat
    BY AmountsAssumption
  <2>3. QED
    BY <2>1, <2>2 DEF Estimate, Cost
<1>2. ASSUME NEW S \in SUBSET Requests
      PROVE  SumOver(Estimate, S) \in Nat /\ SumOver(Cost, S) \in Nat
  <2>1. IsFiniteSet(S)
    BY RowsAreFinite
  <2>2. QED
    BY <1>1, <2>1, SumIsNat
<1>3. QED
  BY <1>1, <1>2

\* A balance that gives back the holds S keeps the estimates of the rest reserved.
LEMMA FreedIsExact ==
    ASSUME LedgerInv, NEW p \in Principals, NEW S \in SUBSET Active(p),
           NEW b \in Balance, b.reserved = balances[p].reserved
    PROVE  /\ Freed(b, S) \in Balance
           /\ Freed(b, S).reserved = SumOver(Estimate, Active(p) \ S)
           /\ Freed(b, S).committed = b.committed
           /\ Freed(b, S).override = b.override
           /\ Freed(b, S).known = b.known
           /\ Freed(b, S).budget = b.budget
<1>1. S \subseteq Active(p) /\ Active(p) \subseteq Requests
  BY DEF Active, Of
<1>2. SumOver(Estimate, Active(p)) = SumOver(Estimate, S) + SumOver(Estimate, Active(p) \ S)
  <2>1. IsFiniteSet(Active(p))
    BY <1>1, RowsAreFinite
  <2>2. \A r \in Active(p) : Estimate[r] \in Int
    BY <1>1, RowsAreNumbers DEF LedgerInv
  <2>3. QED
    BY <1>1, <2>1, <2>2, SumSplits
<1>3. /\ SumOver(Estimate, S) \in Nat
      /\ SumOver(Estimate, Active(p) \ S) \in Nat
  BY <1>1, RowsAreNumbers DEF LedgerInv
<1>4. balances[p].reserved = SumOver(Estimate, Active(p))
  BY DEF LedgerInv, CountersExact, Estimated, Estimate
<1>5. balances[p].reserved - SumOver(Estimate, S) = SumOver(Estimate, Active(p) \ S)
  BY <1>2, <1>3, <1>4
<1>6. Estimated(S) = SumOver(Estimate, S)
  BY DEF Estimated, Estimate
<1> DEFINE m == SumOver(Estimate, Active(p) \ S)
<1>7. Freed(b, S) = [b EXCEPT !.reserved = m]
  BY <1>5, <1>6 DEF Freed, Balance
<1> HIDE DEF m
<1>8. m \in Nat
  BY <1>3 DEF m
<1>9. QED
  BY <1>7, <1>8 DEF Balance, m

\* A transaction that has expired the holds S of p finds the estimates of the rest
\* reserved.
LEMMA AccountIsExact ==
    ASSUME LedgerInv, NEW p \in Principals, NEW S \in SUBSET Overdue(p)
    PROVE  /\ Account(p, S) \in Balance
           /\ Account(p, S).reserved = SumOver(Estimate, Active(p) \ S)
           /\ Account(p, S).committed = balances[p].committed
           /\ Account(p, S).override = balances[p].override
           /\ Account(p, S).known
           /\ Account(p, S).budget = IF balances[p].known THEN balances[p].budget ELSE default
<1>1. S \in SUBSET Active(p)
  BY DEF Overdue
<1>2. balances[p] \in Balance /\ default \in Budgets
  BY DEF LedgerInv, TypeOK
<1> DEFINE b == Seeded(balances[p])
<1>3. /\ b \in Balance
      /\ b.reserved = balances[p].reserved
      /\ b.committed = balances[p].committed
      /\ b.override = balances[p].override
      /\ b.known
      /\ b.budget = IF balances[p].known THEN balances[p].budget ELSE default
  BY <1>2 DEF Seeded, Balance
<1>4. Account(p, S) = Freed(b, S)
  BY DEF Account
<1> HIDE DEF b
<1>5. QED
  BY <1>1, <1>3, <1>4, FreedIsExact

-----------------------------------------------------------------------------
(* The steps of the ledger *)

\* What a step does that expires the holds S and touches no other row but r.
LEMMA ExpiryKeepsRows ==
    ASSUME LedgerInv, NEW S \in SUBSET overdue
    PROVE  /\ Mark(S, "EXPIRED") \in [Requests -> [status: Statuses,
                  principal: Principals \cup {Nobody},
                  estimate: Estimates \cup {0}, cost: Costs \cup {0}]]
           /\ \A r \in Requests :
                /\ Mark(S, "EXPIRED")[r].principal = reservations[r].principal
                /\ Mark(S, "EXPIRED")[r].estimate = reservations[r].estimate
                /\ Mark(S, "EXPIRED")[r].cost = reservations[r].cost
                /\ Mark(S, "EXPIRED")[r].status =
                       IF r \in S THEN "EXPIRED" ELSE reservations[r].status
                /\ r \notin S => Mark(S, "EXPIRED")[r] = reservations[r]
BY DEF LedgerInv, TypeOK, Mark, Statuses

\* The counters of a principal whose rows are as they were.
LEMMA CountersKept ==
    ASSUME LedgerInv, NEW p \in Principals,
           balances'[p].reserved = balances[p].reserved,
           balances'[p].committed = balances[p].committed,
           Active(p)' = Active(p), Committed(p)' = Committed(p),
           \A r \in Active(p) : reservations'[r].estimate = reservations[r].estimate,
           \A r \in Committed(p) : reservations'[r].cost = reservations[r].cost
    PROVE  /\ balances'[p].reserved = SumOver(Estimate', Active(p)')
           /\ balances'[p].committed = SumOver(Cost', Committed(p)')
<1>1. Active(p) \in SUBSET Requests /\ Committed(p) \in SUBSET Requests
  BY DEF Active, Of, Committed
<1>2. IsFiniteSet(Active(p)) /\ IsFiniteSet(Committed(p))
  BY <1>1, RowsAreFinite
<1>3. \A r \in Active(p) : Estimate'[r] = Estimate[r]
  BY <1>1 DEF Estimate
<1>4. \A r \in Committed(p) : Cost'[r] = Cost[r]
  BY <1>1 DEF Cost
<1>5. SumOver(Estimate', Active(p)) = SumOver(Estimate, Active(p))
  BY <1>2, <1>3, SumAgrees
<1>6. SumOver(Cost', Committed(p)) = SumOver(Cost, Committed(p))
  BY <1>2, <1>4, SumAgrees
<1>7. /\ balances[p].reserved = SumOver(Estimate, Active(p))
      /\ balances[p].committed = SumOver(Cost, Committed(p))
  BY DEF LedgerInv, CountersExact, Estimated, Estimate, Cost, Committed
<1>8. QED
  BY <1>5, <1>6, <1>7

LEMMA AdmitKeepsInv ==
    ASSUME LedgerInv, NEW p \in Principals, NEW r \in Requests, NEW e \in Estimates, Admit(p, r, e)
    PROVE  LedgerInv'
<1>1. PICK S \in SUBSET Overdue(p) :
        /\ reservations[r] = NoRow
        /\ balances' = [balances EXCEPT ![p] = [Followed(Account(p, S)) EXCEPT !.reserved = @ + e]]
        /\ reservations' = [Mark(S, "EXPIRED") EXCEPT ![r] = Row("ACTIVE", p, e, 0)]
        /\ overdue' = overdue \ S
        /\ UNCHANGED default
  BY DEF Admit
<1> USE <1>1
<1>2. S \in SUBSET overdue /\ S \subseteq Active(p) /\ r \notin S /\ r \notin overdue
  BY DEF Overdue, Active, LedgerInv, OverdueIsActive, NoRow, Row
<1>3. /\ Account(p, S) \in Balance
      /\ Account(p, S).reserved = SumOver(Estimate, Active(p) \ S)
      /\ Account(p, S).committed = balances[p].committed
      /\ Account(p, S).override = balances[p].override
      /\ Account(p, S).known
  BY AccountIsExact
<1>4. e \in Nat /\ Estimates \subseteq Nat
  BY AmountsAssumption
<1> DEFINE b == [Followed(Account(p, S)) EXCEPT !.reserved = @ + e]
<1>5. /\ b \in Balance
      /\ b.reserved = SumOver(Estimate, Active(p) \ S) + e
      /\ b.committed = balances[p].committed
      /\ b.override = balances[p].override
      /\ b.known
  BY <1>3, <1>4 DEF Followed, Balance, LedgerInv, TypeOK
<1> HIDE DEF b
<1>6. balances' = [balances EXCEPT ![p] = b]
  BY DEF b
<1>7. /\ reservations'[r] = Row("ACTIVE", p, e, 0)
      /\ \A x \in Requests \ {r} :
            /\ reservations'[x].principal = reservations[x].principal
            /\ reservations'[x].estimate = reservations[x].estimate
            /\ reservations'[x].cost = reservations[x].cost
            /\ reservations'[x].status = IF x \in S THEN "EXPIRED" ELSE reservations[x].status
            /\ x \notin S => reservations'[x] = reservations[x]
  BY <1>2, ExpiryKeepsRows DEF Mark
<1>8. TypeOK'
  <2>1. reservations' \in [Requests -> [status: Statuses, principal: Principals \cup {Nobody},
                                        estimate: Estimates \cup {0}, cost: Costs \cup {0}]]
    <3>1. Row("ACTIVE", p, e, 0) \in [status: Statuses, principal: Principals \cup {Nobody},
                                     estimate: Estimates \cup {0}, cost: Costs \cup {0}]
      BY DEF Row, Statuses
    <3>2. QED
      BY <1>2, <3>1, ExpiryKeepsRows
  <2>2. balances' \in [Principals -> Balance]
    BY <1>5, <1>6 DEF LedgerInv, TypeOK
  <2>3. QED
    BY <2>1, <2>2 DEF LedgerInv, TypeOK
<1>9. /\ reservations'[r].status = "ACTIVE" /\ reservations'[r].principal = p
      /\ reservations'[r].estimate = e
      /\ reservations[r].status = "NONE" /\ reservations[r].principal = Nobody
  BY <1>7 DEF Row, NoRow
<1>10. \A q \in Principals : Committed(q)' = Committed(q)
  <2>1. \A q \in Principals, x \in Requests :
          x \in Committed(q)' <=> x \in Committed(q)
    <3>1. \A x \in S : reservations[x].status = "ACTIVE"
      BY <1>2 DEF Active
    <3>2. QED
      BY <1>7, <1>9, <3>1 DEF Committed, Of
  <2>2. QED
    BY <2>1 DEF Committed, Of
<1>11. \A q \in Principals \ {p} : Active(q)' = Active(q)
  <2>1. \A q \in Principals \ {p}, x \in Requests : x \in Active(q)' <=> x \in Active(q)
    <3>1. \A x \in S : reservations[x].principal = p
      BY <1>2 DEF Active, Of
    <3>2. p # Nobody
      BY NobodyAssumption
    <3>3. QED
      BY <1>7, <1>9, <3>1, <3>2 DEF Active, Of
  <2>2. QED
    BY <2>1 DEF Active, Of
<1>12. Active(p)' = (Active(p) \ S) \cup {r}
  BY <1>7, <1>9 DEF Active, Of
<1>13. r \notin Active(p)
  BY <1>9 DEF Active, Of
<1>14. SumOver(Estimate', Active(p)') = e + SumOver(Estimate, Active(p) \ S)
  <2> DEFINE T == Active(p) \ S
  <2>1. T \in SUBSET Requests /\ IsFiniteSet(T) /\ r \notin T
    <3>1. T \in SUBSET Requests
      BY DEF Active, Of
    <3>2. QED
      BY <1>13, <3>1, RowsAreFinite
  <2>2. \A x \in T : Estimate'[x] = Estimate[x]
    BY <1>7, <2>1 DEF Estimate
  <2>3. SumOver(Estimate', T) = SumOver(Estimate, T)
    BY <2>1, <2>2, SumAgrees
  <2>4. \A x \in T \cup {r} : Estimate'[x] \in Int
    <3>1. \A x \in T : Estimate[x] \in Nat
      BY <2>1, RowsAreNumbers DEF LedgerInv
    <3>2. Estimate'[r] \in Nat
      BY <1>4, <1>9 DEF Estimate
    <3>3. QED
      BY <2>2, <3>1, <3>2
  <2>5. SumOver(Estimate', T \cup {r}) = Estimate'[r] + SumOver(Estimate', T)
    <3> HIDE DEF T
    <3>1. QED
      BY <2>1, <2>4, SumAdds
  <2>6. Estimate'[r] = e
    BY <1>9 DEF Estimate
  <2>7. QED
    BY <1>12, <2>3, <2>5, <2>6
<1>15. SumOver(Cost', Committed(p)') = balances[p].committed
  <2>1. Committed(p) \in SUBSET Requests /\ r \notin Committed(p)
    BY <1>9 DEF Committed, Of
  <2>2. IsFiniteSet(Committed(p))
    BY <2>1, RowsAreFinite
  <2>3. \A x \in Committed(p) : Cost'[x] = Cost[x]
    BY <1>7, <2>1 DEF Cost
  <2>4. SumOver(Cost', Committed(p)) = SumOver(Cost, Committed(p))
    BY <2>2, <2>3, SumAgrees
  <2>5. QED
    BY <1>10, <2>4 DEF LedgerInv, CountersExact, Cost, Committed
<1>16. CountersExact'
  <2>1. SUFFICES ASSUME NEW q \in Principals
                 PROVE  /\ balances'[q].reserved = SumOver(Estimate', Active(q)')
                        /\ balances'[q].committed = SumOver(Cost', Committed(q)')
    BY DEF CountersExact, Estimated, Estimate, Cost, Committed
  <2>2. CASE q = p
    <3>1. balances'[p] = b
      BY <1>6 DEF LedgerInv, TypeOK
    <3>2. SumOver(Estimate, Active(p) \ S) \in Nat
      <4>1. Active(p) \ S \in SUBSET Requests
        BY DEF Active, Of
      <4>2. QED
        BY <4>1, RowsAreNumbers DEF LedgerInv
    <3>3. SumOver(Estimate, Active(p) \ S) + e = e + SumOver(Estimate, Active(p) \ S)
      BY <1>4, <3>2
    <3>4. /\ balances'[p].reserved = SumOver(Estimate', Active(p)')
          /\ balances'[p].committed = SumOver(Cost', Committed(p)')
      BY <1>5, <1>14, <1>15, <3>1, <3>3
    <3>5. QED
      BY <2>2, <3>4
  <2>3. CASE q # p
    <3>1. balances'[q] = balances[q]
      BY <1>6, <2>3
    <3>2. r \notin Active(q) /\ r \notin Committed(q)
      BY <1>9 DEF Active, Committed, Of
    <3>3. /\ \A x \in Active(q) : reservations'[x].estimate = reservations[x].estimate
          /\ \A x \in Committed(q) : reservations'[x].cost = reservations[x].cost
      BY <1>7, <3>2 DEF Active, Committed, Of
    <3>4. Active(q)' = Active(q) /\ Committed(q)' = Committed(q)
      BY <1>10, <1>11, <2>3
    <3>5. /\ balances'[q].reserved = balances[q].reserved
          /\ balances'[q].committed = balances[q].committed
      BY <3>1
    <3>6. QED
      BY <3>3, <3>4, <3>5, CountersKept
  <2>4. QED
    BY <2>2, <2>3
<1>17. RowsAreWhole'
  BY <1>2, <1>7, <1>9 DEF RowsAreWhole, LedgerInv, Active, Of
<1>18. OverdueIsActive'
  BY <1>2, <1>7 DEF OverdueIsActive, LedgerInv, TypeOK
<1>19. OverridesAreKnown'
  BY <1>5, <1>6 DEF OverridesAreKnown, LedgerInv, TypeOK
<1>20. QED
  BY <1>8, <1>16, <1>17, <1>18, <1>19 DEF LedgerInv

\* What is held for r goes with it when its row stops being ACTIVE.
LEMMA HoldEnds ==
    ASSUME LedgerInv, NEW r \in Requests, NEW p \in Principals,
           reservations[r].principal = p, reservations'[r].principal = p,
           reservations'[r].status # "ACTIVE",
           \A x \in Requests \ {r} : reservations'[x] = reservations[x]
    PROVE  /\ Active(p)' = Active(p) \ {r}
           /\ \A q \in Principals \ {p} :
                Active(q)' = Active(q) /\ Committed(q)' = Committed(q)
           /\ SumOver(Estimate', Active(p)') \in Nat
           /\ reservations[r].estimate \in Nat
           /\ SumOver(Estimate', Active(p)') =
                balances[p].reserved
                  - (IF reservations[r].status = "ACTIVE" THEN reservations[r].estimate ELSE 0)
<1>1. Active(p)' = Active(p) \ {r}
  BY DEF Active, Of
<1>2. ASSUME NEW q \in Principals \ {p}
      PROVE  Active(q)' = Active(q) /\ Committed(q)' = Committed(q)
  <2>1. \A x \in Requests : /\ x \in Active(q)' <=> x \in Active(q)
                            /\ x \in Committed(q)' <=> x \in Committed(q)
    BY <1>2 DEF Active, Committed, Of
  <2>2. QED
    BY <2>1 DEF Active, Committed, Of
<1> DEFINE T == Active(p) \ {r}
<1>3. T \in SUBSET Requests /\ Active(p) \in SUBSET Requests
  BY DEF Active, Of
<1>4. IsFiniteSet(T) /\ IsFiniteSet(Active(p))
  BY <1>3, RowsAreFinite
<1>5. \A x \in T : Estimate'[x] = Estimate[x]
  BY <1>3 DEF Estimate
<1>6. SumOver(Estimate', T) = SumOver(Estimate, T)
  BY <1>4, <1>5, SumAgrees
<1>7. /\ SumOver(Estimate, T) \in Nat
      /\ Estimate[r] \in Nat
      /\ \A x \in Active(p) : Estimate[x] \in Int
  BY <1>3, RowsAreNumbers DEF LedgerInv
<1>8. balances[p].reserved = SumOver(Estimate, Active(p))
  BY DEF LedgerInv, CountersExact, Estimated, Estimate
<1>9. Estimate[r] = reservations[r].estimate
  BY DEF Estimate
<1>10. SumOver(Estimate, T)
         = SumOver(Estimate, Active(p))
             - (IF reservations[r].status = "ACTIVE" THEN Estimate[r] ELSE 0)
  <2>1. CASE reservations[r].status = "ACTIVE"
    <3>1. r \in Active(p)
      BY <2>1 DEF Active, Of
    <3>2. SumOver(Estimate, Active(p)) = Estimate[r] + SumOver(Estimate, T)
      BY <1>4, <1>7, <3>1, SumTakes
    <3> HIDE DEF T
    <3>3. QED
      BY <1>7, <2>1, <3>2
  <2>2. CASE reservations[r].status # "ACTIVE"
    <3>1. T = Active(p)
      BY <2>2 DEF Active
    <3>2. SumOver(Estimate, T) - 0 = SumOver(Estimate, T)
      BY <1>7
    <3>3. QED
      BY <2>2, <3>1, <3>2
  <2>3. QED
    BY <2>1, <2>2
<1>11. QED
  BY <1>1, <1>2, <1>6, <1>7, <1>8, <1>9, <1>10

\* The parts of the invariant that are about single rows and balances, when row r alone
\* changes, from ACTIVE or EXPIRED to a status that ends the hold.
LEMMA SettledIsWhole ==
    ASSUME LedgerInv, NEW r \in Requests, NEW p \in Principals, NEW b \in Balance,
           reservations[r].principal = p, reservations'[r].principal = p,
           reservations'[r].status \in {"COMMITTED", "RELEASED"},
           \A x \in Requests \ {r} : reservations'[x] = reservations[x],
           balances' = [balances EXCEPT ![p] = b],
           b.known = balances[p].known, b.override = balances[p].override,
           overdue' = overdue \ {r}, UNCHANGED default
    PROVE  RowsAreWhole' /\ OverdueIsActive' /\ OverridesAreKnown'
<1>1. RowsAreWhole'
  BY DEF RowsAreWhole, LedgerInv
<1>2. OverdueIsActive'
  BY DEF OverdueIsActive, LedgerInv, TypeOK
<1>3. OverridesAreKnown'
  BY DEF OverridesAreKnown, LedgerInv, TypeOK
<1>4. QED
  BY <1>1, <1>2, <1>3

LEMMA CommitKeepsInv ==
    ASSUME LedgerInv, NEW r \in Requests, NEW c \in Costs, Commit(r, c)
    PROVE  LedgerInv'
<1>0. reservations[r].status \in {"ACTIVE", "EXPIRED"}
  BY DEF Commit
<1>2. PICK p \in Principals : reservations[r].principal = p
  BY <1>0 DEF LedgerInv, RowsAreWhole
<1> DEFINE held == IF reservations[r].status = "ACTIVE" THEN reservations[r].estimate ELSE 0
           b == [balances[p] EXCEPT !.reserved = @ - held, !.committed = @ + c]
<1>1. /\ reservations[r].status \in {"ACTIVE", "EXPIRED"}
      /\ reservations' = [reservations EXCEPT ![r].status = "COMMITTED", ![r].cost = c]
      /\ overdue' = overdue \ {r}
      /\ UNCHANGED default
  BY DEF Commit
<1>3. balances' = [balances EXCEPT ![p] = b]
  BY <1>2 DEF Commit, LedgerInv, TypeOK, Balance
<1>4. c \in Nat
  BY AmountsAssumption
<1>5. /\ reservations'[r].principal = p /\ reservations'[r].status = "COMMITTED"
      /\ reservations'[r].cost = c
      /\ \A x \in Requests \ {r} : reservations'[x] = reservations[x]
  BY <1>1, <1>2 DEF LedgerInv, TypeOK
<1>6. /\ \A q \in Principals \ {p} :
            Active(q)' = Active(q) /\ Committed(q)' = Committed(q)
      /\ SumOver(Estimate', Active(p)') \in Nat
      /\ SumOver(Estimate', Active(p)') = balances[p].reserved - held
  BY <1>1, <1>2, <1>5, HoldEnds
<1>7. balances[p] \in Balance
  BY <1>2 DEF LedgerInv, TypeOK
<1>8. /\ b \in Balance
      /\ b.reserved = SumOver(Estimate', Active(p)')
      /\ b.committed = balances[p].committed + c
      /\ b.known = balances[p].known /\ b.override = balances[p].override
  <2> DEFINE n == balances[p].reserved - held
             m == balances[p].committed + c
  <2>1. n \in Nat /\ n = SumOver(Estimate', Active(p)')
    BY <1>6
  <2>2. m \in Nat
    BY <1>4, <1>7 DEF Balance
  <2>3. b = [balances[p] EXCEPT !.reserved = n, !.committed = m]
    BY <1>7 DEF Balance
  <2> HIDE DEF n, b
  <2>4. m = balances[p].committed + c
    OBVIOUS
  <2> HIDE DEF m
  <2>5. QED
    BY <1>7, <2>1, <2>2, <2>3, <2>4 DEF Balance
<1> HIDE DEF b
<1>9. TypeOK'
  <2>1. reservations' \in [Requests -> [status: Statuses, principal: Principals \cup {Nobody},
                                        estimate: Estimates \cup {0}, cost: Costs \cup {0}]]
    <3> DEFINE row == [reservations[r] EXCEPT !.status = "COMMITTED", !.cost = c]
               Rows == [status: Statuses, principal: Principals \cup {Nobody},
                        estimate: Estimates \cup {0}, cost: Costs \cup {0}]
    <3>1. reservations \in [Requests -> Rows]
      BY DEF LedgerInv, TypeOK
    <3>2. reservations[r] \in Rows /\ row \in Rows
      BY <3>1 DEF Statuses
    <3>3. reservations' = [reservations EXCEPT ![r] = row]
      BY <1>1, <3>1
    <3> HIDE DEF row, Rows
    <3>4. reservations' \in [Requests -> Rows]
      BY <3>1, <3>2, <3>3
    <3>5. QED
      BY <3>4 DEF Rows
  <2>2. QED
    BY <1>1, <1>2, <1>3, <1>8, <2>1 DEF LedgerInv, TypeOK
<1>10. SumOver(Cost', Committed(p)') = balances[p].committed + c
  <2>1. Committed(p)' = Committed(p) \cup {r} /\ r \notin Committed(p)
    BY <1>1, <1>5 DEF Committed, Of
  <2>2. Committed(p) \in SUBSET Requests
    BY DEF Committed, Of
  <2>3. IsFiniteSet(Committed(p)) /\ SumOver(Cost, Committed(p)) \in Nat
    BY <2>2, RowsAreFinite, RowsAreNumbers DEF LedgerInv
  <2>4. \A x \in Committed(p) : Cost'[x] = Cost[x]
    BY <1>5, <2>1, <2>2 DEF Cost
  <2>5. SumOver(Cost', Committed(p)) = SumOver(Cost, Committed(p))
    BY <2>3, <2>4, SumAgrees
  <2>6. Cost'[r] = c
    BY <1>5 DEF Cost
  <2>7. \A x \in Committed(p) \cup {r} : Cost'[x] \in Int
    <3>1. \A x \in Committed(p) : Cost[x] \in Nat
      BY <2>2, RowsAreNumbers DEF LedgerInv
    <3>2. QED
      BY <1>4, <2>4, <2>6, <3>1
  <2>8. SumOver(Cost', Committed(p) \cup {r}) = Cost'[r] + SumOver(Cost', Committed(p))
    BY <2>1, <2>3, <2>7, SumAdds
  <2>9. balances[p].committed = SumOver(Cost, Committed(p))
    BY <1>2 DEF LedgerInv, CountersExact, Cost, Committed
  <2>10. c + SumOver(Cost, Committed(p)) = SumOver(Cost, Committed(p)) + c
    BY <1>4, <2>3
  <2>11. QED
    BY <2>1, <2>5, <2>6, <2>8, <2>9, <2>10
<1>11. CountersExact'
  <2>1. SUFFICES ASSUME NEW q \in Principals
                 PROVE  /\ balances'[q].reserved = SumOver(Estimate', Active(q)')
                        /\ balances'[q].committed = SumOver(Cost', Committed(q)')
    BY DEF CountersExact, Estimated, Estimate, Cost, Committed
  <2>2. CASE q = p
    <3>1. balances'[p] = b
      BY <1>2, <1>3 DEF LedgerInv, TypeOK
    <3>2. /\ balances'[p].reserved = SumOver(Estimate', Active(p)')
          /\ balances'[p].committed = SumOver(Cost', Committed(p)')
      BY <1>8, <1>10, <3>1
    <3>3. QED
      BY <2>2, <3>2
  <2>3. CASE q # p
    <3>1. /\ balances'[q].reserved = balances[q].reserved
          /\ balances'[q].committed = balances[q].committed
      BY <1>3, <2>3
    <3>2. Active(q)' = Active(q) /\ Committed(q)' = Committed(q)
      BY <1>6, <2>3
    <3>3. /\ \A x \in Active(q) : reservations'[x].estimate = reservations[x].estimate
          /\ \A x \in Committed(q) : reservations'[x].cost = reservations[x].cost
      BY <1>2, <1>5, <2>3 DEF Active, Committed, Of
    <3>4. /\ balances'[q].reserved = SumOver(Estimate', Active(q)')
          /\ balances'[q].committed = SumOver(Cost', Committed(q)')
      <4> HIDE DEF held
      <4>1. QED
        BY <3>1, <3>2, <3>3, CountersKept
    <3>5. QED
      BY <3>4
  <2>4. QED
    BY <2>2, <2>3
<1>12. RowsAreWhole' /\ OverdueIsActive' /\ OverridesAreKnown'
  BY <1>1, <1>2, <1>3, <1>5, <1>8, SettledIsWhole
<1>13. QED
  BY <1>9, <1>11, <1>12 DEF LedgerInv

LEMMA ReleaseKeepsInv ==
    ASSUME LedgerInv, NEW r \in Requests, Release(r)
    PROVE  LedgerInv'
<1>1. /\ reservations[r].status = "ACTIVE"
      /\ reservations' = [reservations EXCEPT ![r].status = "RELEASED"]
      /\ overdue' = overdue \ {r}
      /\ UNCHANGED default
  BY DEF Release
<1>2. PICK p \in Principals : reservations[r].principal = p
  BY <1>1 DEF LedgerInv, RowsAreWhole
<1> DEFINE b == [balances[p] EXCEPT !.reserved = @ - reservations[r].estimate]
<1>3. balances' = [balances EXCEPT ![p] = b]
  BY <1>2 DEF Release, LedgerInv, TypeOK, Balance
<1>4. /\ reservations'[r].principal = p /\ reservations'[r].status = "RELEASED"
      /\ \A x \in Requests \ {r} : reservations'[x] = reservations[x]
  BY <1>1, <1>2 DEF LedgerInv, TypeOK
<1>5. /\ \A q \in Principals \ {p} :
            Active(q)' = Active(q) /\ Committed(q)' = Committed(q)
      /\ SumOver(Estimate', Active(p)') \in Nat
      /\ SumOver(Estimate', Active(p)') = balances[p].reserved - reservations[r].estimate
  BY <1>1, <1>2, <1>4, HoldEnds
<1>6. balances[p] \in Balance
  BY <1>2 DEF LedgerInv, TypeOK
<1>7. /\ b \in Balance
      /\ b.reserved = SumOver(Estimate', Active(p)')
      /\ b.committed = balances[p].committed
      /\ b.known = balances[p].known /\ b.override = balances[p].override
  <2> DEFINE n == balances[p].reserved - reservations[r].estimate
  <2>1. n \in Nat /\ n = SumOver(Estimate', Active(p)')
    BY <1>5
  <2>2. b = [balances[p] EXCEPT !.reserved = n]
    BY <1>6 DEF Balance
  <2> HIDE DEF n, b
  <2>3. QED
    BY <1>6, <2>1, <2>2 DEF Balance
<1> HIDE DEF b
<1>8. TypeOK'
  <2>1. reservations' \in [Requests -> [status: Statuses, principal: Principals \cup {Nobody},
                                        estimate: Estimates \cup {0}, cost: Costs \cup {0}]]
    BY <1>1 DEF LedgerInv, TypeOK, Statuses
  <2>2. QED
    BY <1>1, <1>2, <1>3, <1>7, <2>1 DEF LedgerInv, TypeOK
<1>9. Committed(p)' = Committed(p)
  <2>1. \A x \in Requests : x \in Committed(p)' <=> x \in Committed(p)
    BY <1>1, <1>4 DEF Committed, Of
  <2>2. QED
    BY <2>1 DEF Committed, Of
<1>10. SumOver(Cost', Committed(p)') = balances[p].committed
  <2>1. Committed(p) \in SUBSET Requests /\ r \notin Committed(p)
    BY <1>1 DEF Committed, Of
  <2>2. IsFiniteSet(Committed(p))
    BY <2>1, RowsAreFinite
  <2>3. \A x \in Committed(p) : Cost'[x] = Cost[x]
    BY <1>4, <2>1 DEF Cost
  <2>4. SumOver(Cost', Committed(p)) = SumOver(Cost, Committed(p))
    BY <2>2, <2>3, SumAgrees
  <2>5. balances[p].committed = SumOver(Cost, Committed(p))
    BY <1>2 DEF LedgerInv, CountersExact, Cost, Committed
  <2>6. QED
    BY <1>9, <2>4, <2>5
<1>11. CountersExact'
  <2>1. SUFFICES ASSUME NEW q \in Principals
                 PROVE  /\ balances'[q].reserved = SumOver(Estimate', Active(q)')
                        /\ balances'[q].committed = SumOver(Cost', Committed(q)')
    BY DEF CountersExact, Estimated, Estimate, Cost, Committed
  <2>2. CASE q = p
    <3>1. balances'[p] = b
      BY <1>2, <1>3 DEF LedgerInv, TypeOK
    <3>2. QED
      BY <1>7, <1>10, <2>2, <3>1
  <2>3. CASE q # p
    <3>1. /\ balances'[q].reserved = balances[q].reserved
          /\ balances'[q].committed = balances[q].committed
      BY <1>3, <2>3
    <3>2. Active(q)' = Active(q) /\ Committed(q)' = Committed(q)
      BY <1>5, <2>3
    <3>3. /\ \A x \in Active(q) : reservations'[x].estimate = reservations[x].estimate
          /\ \A x \in Committed(q) : reservations'[x].cost = reservations[x].cost
      BY <1>2, <1>4, <2>3 DEF Active, Committed, Of
    <3>4. QED
      BY <3>1, <3>2, <3>3, CountersKept
  <2>4. QED
    BY <2>2, <2>3
<1>12. RowsAreWhole' /\ OverdueIsActive' /\ OverridesAreKnown'
  BY <1>1, <1>2, <1>3, <1>4, <1>7, SettledIsWhole
<1>13. QED
  BY <1>8, <1>11, <1>12 DEF LedgerInv

\* Expiring holds of p leaves the rows of everyone else, and every charge, as they were.
LEMMA ExpiryKeepsCharges ==
    ASSUME LedgerInv, NEW S \in SUBSET overdue, reservations' = Mark(S, "EXPIRED")
    PROVE  /\ \A q \in Principals : Committed(q)' = Committed(q) /\ Active(q)' = Active(q) \ S
           /\ Estimate' = Estimate /\ Cost' = Cost
<1>1. \A r \in Requests :
        /\ reservations'[r].principal = reservations[r].principal
        /\ reservations'[r].estimate = reservations[r].estimate
        /\ reservations'[r].cost = reservations[r].cost
        /\ reservations'[r].status = IF r \in S THEN "EXPIRED" ELSE reservations[r].status
  BY ExpiryKeepsRows
<1>2. \A r \in S : reservations[r].status = "ACTIVE"
  BY DEF LedgerInv, OverdueIsActive
<1>3. ASSUME NEW q \in Principals
      PROVE  Committed(q)' = Committed(q) /\ Active(q)' = Active(q) \ S
  <2>1. \A r \in Requests : /\ r \in Committed(q)' <=> r \in Committed(q)
                            /\ r \in Active(q)' <=> r \in Active(q) \ S
    BY <1>1, <1>2 DEF Committed, Active, Of
  <2>2. QED
    BY <2>1 DEF Committed, Active, Of
<1>4. Estimate' = Estimate /\ Cost' = Cost
  BY <1>1 DEF Estimate, Cost
<1>5. QED
  BY <1>3, <1>4

LEMMA ExpiryKeepsInv ==
    ASSUME LedgerInv, NEW S \in SUBSET overdue, reservations' = Mark(S, "EXPIRED"),
           overdue' = overdue \ S, UNCHANGED default,
           balances' \in [Principals -> Balance],
           \A q \in Principals :
              /\ balances'[q].reserved = SumOver(Estimate, Active(q) \ S)
              /\ balances'[q].committed = balances[q].committed
              /\ balances'[q].override => balances'[q].known
    PROVE  LedgerInv'
<1>1. TypeOK'
  BY ExpiryKeepsRows DEF LedgerInv, TypeOK
<1>2. CountersExact'
  <2>1. SUFFICES ASSUME NEW q \in Principals
                 PROVE  /\ balances'[q].reserved = SumOver(Estimate', Active(q)')
                        /\ balances'[q].committed = SumOver(Cost', Committed(q)')
    BY DEF CountersExact, Estimated, Estimate, Cost, Committed
  <2>2. /\ Committed(q)' = Committed(q) /\ Active(q)' = Active(q) \ S
        /\ Estimate' = Estimate /\ Cost' = Cost
    BY ExpiryKeepsCharges
  <2>3. balances[q].committed = SumOver(Cost, Committed(q))
    BY DEF LedgerInv, CountersExact, Cost, Committed
  <2>4. QED
    BY <2>2, <2>3
<1>3. RowsAreWhole'
  <2>1. \A r \in S : reservations[r].status = "ACTIVE"
    BY DEF LedgerInv, OverdueIsActive
  <2>2. QED
    BY <2>1, ExpiryKeepsRows DEF RowsAreWhole, LedgerInv
<1>4. OverdueIsActive'
  BY ExpiryKeepsRows DEF OverdueIsActive, LedgerInv, TypeOK
<1>5. OverridesAreKnown'
  BY DEF OverridesAreKnown
<1>6. QED
  BY <1>1, <1>2, <1>3, <1>4, <1>5 DEF LedgerInv

LEMMA ReserveAgainKeepsInv ==
    ASSUME LedgerInv, NEW p \in Principals, NEW r \in Requests, NEW e \in Estimates,
           ReserveAgain(p, r, e)
    PROVE  LedgerInv'
<1>1. PICK S \in SUBSET Overdue(p) :
        /\ balances' = [balances EXCEPT ![p] = Account(p, S)]
        /\ reservations' = Mark(S, "EXPIRED")
        /\ overdue' = overdue \ S
        /\ UNCHANGED default
  BY DEF ReserveAgain
<1>2. S \in SUBSET overdue /\ S \subseteq Active(p)
  BY DEF Overdue
<1>3. /\ Account(p, S) \in Balance
      /\ Account(p, S).reserved = SumOver(Estimate, Active(p) \ S)
      /\ Account(p, S).committed = balances[p].committed
      /\ Account(p, S).known
  BY AccountIsExact
<1>4. balances' \in [Principals -> Balance]
  BY <1>1, <1>3 DEF LedgerInv, TypeOK
<1>5. ASSUME NEW q \in Principals
      PROVE  /\ balances'[q].reserved = SumOver(Estimate, Active(q) \ S)
             /\ balances'[q].committed = balances[q].committed
             /\ balances'[q].override => balances'[q].known
  <2>1. CASE q = p
    BY <1>1, <1>3, <2>1 DEF LedgerInv, TypeOK
  <2>2. CASE q # p
    <3>1. balances'[q] = balances[q]
      BY <1>1, <2>2 DEF LedgerInv, TypeOK
    <3>2. Active(q) \ S = Active(q)
      BY <1>2, <2>2 DEF Active, Of
    <3>3. balances[q].reserved = SumOver(Estimate, Active(q))
      BY DEF LedgerInv, CountersExact, Estimated, Estimate
    <3>4. QED
      BY <3>1, <3>2, <3>3 DEF LedgerInv, OverridesAreKnown
  <2>3. QED
    BY <2>1, <2>2
<1>6. QED
  BY <1>1, <1>2, <1>4, <1>5, ExpiryKeepsInv

LEMMA ExpireStaleKeepsInv ==
    ASSUME LedgerInv, ExpireStale
    PROVE  LedgerInv'
<1>1. /\ balances' = [p \in Principals |-> Freed(balances[p], Overdue(p))]
      /\ reservations' = Mark(overdue, "EXPIRED")
      /\ overdue' = {}
      /\ UNCHANGED default
  BY DEF ExpireStale
<1>2. ASSUME NEW q \in Principals
      PROVE  /\ balances'[q] \in Balance
             /\ balances'[q].reserved = SumOver(Estimate, Active(q) \ overdue)
             /\ balances'[q].committed = balances[q].committed
             /\ balances'[q].override => balances'[q].known
  <2>1. Overdue(q) \in SUBSET Active(q) /\ Active(q) \ Overdue(q) = Active(q) \ overdue
    BY DEF Overdue
  <2>2. balances[q] \in Balance /\ (balances[q].override => balances[q].known)
    BY DEF LedgerInv, TypeOK, OverridesAreKnown
  <2>3. balances'[q] = Freed(balances[q], Overdue(q))
    BY <1>1
  <2> DEFINE b == balances[q]
             S == Overdue(q)
  <2>4. /\ Freed(b, S) \in Balance
        /\ Freed(b, S).reserved = SumOver(Estimate, Active(q) \ S)
        /\ Freed(b, S).committed = b.committed
        /\ Freed(b, S).override = b.override
        /\ Freed(b, S).known = b.known
    <3> HIDE DEF S
    <3>1. b \in Balance /\ b.reserved = balances[q].reserved /\ S \in SUBSET Active(q)
      BY <2>1, <2>2 DEF S
    <3> HIDE DEF b
    <3>2. QED
      BY <3>1, FreedIsExact
  <2>5. QED
    BY <2>1, <2>2, <2>3, <2>4
<1>3. balances' \in [Principals -> Balance]
  BY <1>1, <1>2
<1>4. overdue' = overdue \ overdue /\ overdue \in SUBSET overdue
  BY <1>1
<1>5. QED
  BY <1>1, <1>2, <1>3, <1>4, ExpiryKeepsInv

\* Steps that leave every row as it was.
LEMMA RowsUntouched ==
    ASSUME LedgerInv, UNCHANGED reservations,
           \A p \in Principals : /\ balances'[p].reserved = balances[p].reserved
                                 /\ balances'[p].committed = balances[p].committed
    PROVE  CountersExact' /\ RowsAreWhole'
BY DEF LedgerInv, CountersExact, RowsAreWhole, Estimated, Active, Of

LEMMA SettingsKeepInv ==
    ASSUME LedgerInv, NEW b \in Budgets,
           ReloadDefault(b) \/ \E p \in Principals : SetBudget(p, b)
    PROVE  LedgerInv'
<1>1. CASE ReloadDefault(b)
  <2>1. UNCHANGED <<balances, reservations, overdue>> /\ default' = b
    BY <1>1 DEF ReloadDefault
  <2>2. CountersExact' /\ RowsAreWhole'
    BY <2>1, RowsUntouched
  <2>3. QED
    BY <2>1, <2>2 DEF LedgerInv, TypeOK, OverdueIsActive, OverridesAreKnown
<1>2. ASSUME NEW p \in Principals, SetBudget(p, b)
      PROVE  LedgerInv'
  <2>1. /\ UNCHANGED <<reservations, default, overdue>>
        /\ balances' = [balances EXCEPT ![p] =
                           [@ EXCEPT !.known = TRUE, !.budget = b, !.override = TRUE]]
    BY <1>2 DEF SetBudget, LedgerInv, TypeOK, Balance
  <2>2. balances' \in [Principals -> Balance]
    BY <2>1 DEF LedgerInv, TypeOK, Balance
  <2>3. \A q \in Principals : /\ balances'[q].reserved = balances[q].reserved
                              /\ balances'[q].committed = balances[q].committed
                              /\ balances'[q].override => balances'[q].known
    BY <2>1 DEF LedgerInv, TypeOK, Balance, OverridesAreKnown
  <2>4. CountersExact' /\ RowsAreWhole'
    BY <2>1, <2>3, RowsUntouched
  <2>5. QED
    BY <2>1, <2>2, <2>3, <2>4 DEF LedgerInv, TypeOK, OverdueIsActive, OverridesAreKnown
<1>3. QED
  BY <1>1, <1>2

LEMMA LapseKeepsInv ==
    ASSUME LedgerInv, NEW r \in Requests, Lapse(r)
    PROVE  LedgerInv'
<1>1. CountersExact' /\ RowsAreWhole'
  BY RowsUntouched DEF Lapse
<1>2. QED
  BY <1>1 DEF Lapse, LedgerInv, TypeOK, OverdueIsActive, OverridesAreKnown

LEMMA InitHasInv == ASSUME Init PROVE LedgerInv
<1>1. TypeOK
  BY DEF Init, TypeOK, Balance, NoRow, Row, Statuses
<1>2. CountersExact
  <2>1. SUFFICES ASSUME NEW p \in Principals
                 PROVE  /\ balances[p].reserved = SumOver(Estimate, Active(p))
                        /\ balances[p].committed = SumOver(Cost, Committed(p))
    BY DEF CountersExact, Estimated, Estimate, Cost, Committed
  <2>2. Active(p) = {} /\ Committed(p) = {}
    BY DEF Init, Active, Committed, Of, NoRow, Row
  <2>3. balances[p].reserved = 0 /\ balances[p].committed = 0
    BY DEF Init
  <2>4. QED
    BY <2>2, <2>3, SumOfNone
<1>3. RowsAreWhole /\ OverdueIsActive /\ OverridesAreKnown
  BY DEF Init, RowsAreWhole, OverdueIsActive, OverridesAreKnown, NoRow, Row
<1>4. QED
  BY <1>1, <1>2, <1>3 DEF LedgerInv

LEMMA StepKeepsInv ==
    ASSUME LedgerInv, [Next]_ledgerVars
    PROVE  LedgerInv'
<1>1. CASE Next
  <2>1. ASSUME NEW p \in Principals, NEW r \in Requests, NEW e \in Estimates,
               Admit(p, r, e) \/ ReserveAgain(p, r, e)
        PROVE  LedgerInv'
    BY <2>1, AdmitKeepsInv, ReserveAgainKeepsInv
  <2>2. ASSUME NEW r \in Requests, Release(r) \/ Lapse(r) \/ \E c \in Costs : Commit(r, c)
        PROVE  LedgerInv'
    BY <2>2, ReleaseKeepsInv, LapseKeepsInv, CommitKeepsInv
  <2>3. QED
    BY <1>1, <2>1, <2>2, ExpireStaleKeepsInv, SettingsKeepInv DEF Next
<1>2. CASE UNCHANGED ledgerVars
  <2>1. CountersExact' /\ RowsAreWhole'
    BY <1>2, RowsUntouched DEF ledgerVars
  <2>2. QED
    BY <1>2, <2>1 DEF ledgerVars, LedgerInv, TypeOK, OverdueIsActive, OverridesAreKnown
<1>3. QED
  BY <1>1, <1>2

-----------------------------------------------------------------------------
(* The theorems *)

\* The inductive invariant holds: the counters are those of the rows, a row is written
\* whole, only an ACTIVE row is overdue, only a balance that exists has its own budget.
THEOREM LedgerIsExact == Spec => []LedgerInv
<1>1. Init => LedgerInv
  BY InitHasInv
<1>2. LedgerInv /\ [Next]_ledgerVars => LedgerInv'
  BY StepKeepsInv
<1>3. QED
  BY <1>1, <1>2, PTL DEF Spec

\* The tables of the ledger hold what their columns say.
THEOREM LedgerTypeOK == Spec => []TypeOK
<1>1. LedgerInv => TypeOK
  BY DEF LedgerInv
<1>2. QED
  BY <1>1, LedgerIsExact, PTL

\* After any sequence of transactions, expiries and late commits the two counters of a
\* principal are the sums of its ACTIVE estimates and of its COMMITTED costs
\* (_expire_for_principal, commit, release).
THEOREM CountersAreExact == Spec => []CountersExact
<1>1. LedgerInv => CountersExact
  BY DEF LedgerInv
<1>2. QED
  BY <1>1, LedgerIsExact, PTL

-----------------------------------------------------------------------------
(* The ledger keeps the promise *)

\* What the promise sees of the tables.
CallBar ==
    [r \in Requests |->
        LET row == reservations[r] IN
        [state |-> Fate(r),
         payer |-> row.principal,
         amount |-> IF row.status = "COMMITTED" THEN row.cost ELSE row.estimate]]

OwnBar == [p \in Principals |-> IF balances[p].override THEN balances[p].budget ELSE Nobody]

LEMMA PromiseSums == ASSUME NEW f, NEW S PROVE Promise!SumOver(f, S) = SumOver(f, S)
BY DEF SumOver, Promise!SumOver, FoldFunctionOnSet, Promise!FoldFunctionOnSet,
       MapThenFoldSet, Promise!MapThenFoldSet

\* The promise charges and holds what the rows say.
LEMMA PromiseTotals ==
    ASSUME LedgerInv, NEW p \in Principals
    PROVE  /\ Promise!Total(p, "charged") = SumOver(Cost, Committed(p))
           /\ Promise!Total(p, "held") = SumOver(Estimate, Active(p) \ overdue)
<1> DEFINE Amount == [r \in Requests |-> CallBar[r].amount]
           In(s) == {r \in Requests : CallBar[r].payer = p /\ CallBar[r].state = s}
<1>1. \A s : Promise!Total(p, s) = SumOver(Amount, In(s))
  BY PromiseSums DEF Promise!Total, CallBar
<1>2. In("charged") = Committed(p) /\ Committed(p) \in SUBSET Requests
  <2>1. \A r \in Requests : Fate(r) = "charged" <=> reservations[r].status = "COMMITTED"
    BY DEF Fate, LedgerInv, TypeOK, Statuses
  <2>2. QED
    BY <2>1 DEF CallBar, Committed, Of
<1>3. In("held") = Active(p) \ overdue /\ Active(p) \ overdue \in SUBSET Requests
  <2>1. \A r \in Requests :
          Fate(r) = "held" <=> reservations[r].status = "ACTIVE" /\ r \notin overdue
    BY DEF Fate, LedgerInv, TypeOK, Statuses
  <2>2. QED
    BY <2>1 DEF CallBar, Active, Of
<1>4. \A r \in Committed(p) : Amount[r] = Cost[r]
  BY DEF CallBar, Committed, Of, Cost
<1>5. \A r \in Active(p) \ overdue : Amount[r] = Estimate[r]
  BY DEF CallBar, Active, Of, Estimate
<1>6. SumOver(Amount, Committed(p)) = SumOver(Cost, Committed(p))
  <2> HIDE DEF Amount
  <2>1. QED
    BY <1>2, <1>4, RowsAreFinite, SumAgrees
<1>7. SumOver(Amount, Active(p) \ overdue) = SumOver(Estimate, Active(p) \ overdue)
  <2> HIDE DEF Amount
  <2>1. QED
    BY <1>3, <1>5, RowsAreFinite, SumAgrees
<1>8. QED
  BY <1>1, <1>2, <1>3, <1>6, <1>7

\* A call the transaction admits fits the budget in force, the holds whose time is over
\* left out, whether the transaction has noticed them or not.
LEMMA AdmittedFits ==
    ASSUME LedgerInv, NEW p \in Principals, NEW e \in Estimates, NEW S \in SUBSET Overdue(p),
           Admissible(p, e, S)
    PROVE  Promise!Fits(p, e)
<1> DEFINE a == Account(p, S)
           held == SumOver(Estimate, Active(p) \ S)
           due == SumOver(Estimate, Active(p) \ overdue)
<1>1. /\ a \in Balance
      /\ a.reserved = held
      /\ a.committed = balances[p].committed
      /\ a.override = balances[p].override
      /\ a.budget = IF balances[p].known THEN balances[p].budget ELSE default
  BY AccountIsExact
<1>2. /\ balances[p] \in Balance /\ default \in Budgets
      /\ balances[p].override => balances[p].known
      /\ balances[p].committed = SumOver(Cost, Committed(p))
  BY DEF LedgerInv, TypeOK, OverridesAreKnown, CountersExact, Cost, Committed
<1>3. Promise!Budget(p) = Followed(a).budget
  <2>1. balances[p].budget # Nobody
    BY <1>2, NobodyAssumption DEF Balance, Budgets
  <2>2. Followed(a).budget = IF balances[p].override THEN balances[p].budget ELSE default
    BY <1>1, <1>2 DEF Followed, Balance
  <2>3. QED
    BY <2>1, <2>2 DEF Promise!Budget
<1>4. Followed(a).committed = balances[p].committed /\ Followed(a).reserved = held
  BY <1>1 DEF Followed, Balance
<1>5. due <= held /\ due \in Nat /\ held \in Nat
  <2>1. /\ Active(p) \ overdue \subseteq Active(p) \ S
        /\ Active(p) \ S \in SUBSET Requests
        /\ Active(p) \ overdue \in SUBSET Requests
        /\ (Active(p) \ S) \ (Active(p) \ overdue) \in SUBSET Requests
    BY DEF Overdue, Active, Of
  <2> DEFINE R == Active(p) \ overdue
             T == Active(p) \ S
  <2>2. SumOver(Estimate, R) \in Nat /\ SumOver(Estimate, T) \in Nat
        /\ SumOver(Estimate, T \ R) \in Nat
    BY <2>1, RowsAreNumbers DEF LedgerInv
  <2>3. IsFiniteSet(T) /\ \A x \in T : Estimate[x] \in Int
    BY <2>1, RowsAreFinite, RowsAreNumbers DEF LedgerInv
  <2>4. SumOver(Estimate, T) = SumOver(Estimate, R) + SumOver(Estimate, T \ R)
    <3> HIDE DEF R, T
    <3>1. R \subseteq T
      BY <2>1 DEF R, T
    <3>2. QED
      BY <2>3, <3>1, SumSplits
  <2>5. QED
    BY <2>2, <2>4
<1>6. e \in Nat /\ balances[p].committed \in Nat
  BY <1>2, AmountsAssumption DEF Balance
<1>7. Promise!Total(p, "charged") = balances[p].committed /\ Promise!Total(p, "held") = due
  BY <1>2, PromiseTotals
<1>8. ASSUME Promise!Budget(p) # Unlimited
      PROVE  balances[p].committed + due + e <= Promise!Budget(p)
  <2>1. Followed(a).budget # Unlimited
    BY <1>3, <1>8
  <2>2. Followed(a).budget \in Nat
    <3>1. Followed(a) \in Balance
      BY <1>1, <1>2 DEF Followed, Balance
    <3>2. QED
      BY <2>1, <3>1, AmountsAssumption DEF Balance, Budgets
  <2>3. e <= Followed(a).budget - balances[p].committed - held
    BY <1>4, <2>1 DEF Admissible, Available
  <2> HIDE DEF a, held, due
  <2>4. QED
    BY <1>3, <1>5, <1>6, <2>2, <2>3
<1>9. QED
  BY <1>7, <1>8 DEF Promise!Fits

\* A step on row r alone is a step of the promise on call r alone.
LEMMA OneCall ==
    ASSUME LedgerInv, NEW r \in Requests,
           \A x \in Requests \ {r} :
              /\ reservations'[x] = reservations[x]
              /\ x \in overdue' <=> x \in overdue
    PROVE  CallBar' = [CallBar EXCEPT ![r] = CallBar'[r]]
<1>1. \A x \in Requests \ {r} : CallBar'[x] = CallBar[x]
  BY DEF CallBar, Fate
<1>2. QED
  BY ZenonT(60), <1>1 DEF CallBar

\* Balances that keep their own budgets.
LEMMA OwnKept ==
    ASSUME \A p \in Principals : /\ balances'[p].override = balances[p].override
                                 /\ balances[p].override => balances'[p].budget = balances[p].budget
    PROVE  OwnBar' = OwnBar
BY DEF OwnBar

LEMMA AdmitIsAdmit ==
    ASSUME LedgerInv, NEW p \in Principals, NEW r \in Requests, NEW e \in Estimates, Admit(p, r, e)
    PROVE  Promise!Admit(r, p, e)
<1>1. PICK S \in SUBSET Overdue(p) :
        /\ reservations[r] = NoRow
        /\ Admissible(p, e, S)
        /\ balances' = [balances EXCEPT ![p] = [Followed(Account(p, S)) EXCEPT !.reserved = @ + e]]
        /\ reservations' = [Mark(S, "EXPIRED") EXCEPT ![r] = Row("ACTIVE", p, e, 0)]
        /\ overdue' = overdue \ S
        /\ UNCHANGED default
  BY DEF Admit
<1>2. Promise!Fits(p, e)
  BY <1>1, AdmittedFits
<1>3. CallBar[r] = Promise!New
  BY <1>1 DEF CallBar, Fate, NoRow, Row, Promise!New, Promise!Call
<1>4. r \notin overdue /\ S \in SUBSET overdue /\ \A x \in S : reservations[x].status = "ACTIVE"
  BY <1>1 DEF LedgerInv, OverdueIsActive, NoRow, Row, Overdue, Active
<1>5. CallBar' = [CallBar EXCEPT ![r] = Promise!Call("held", p, e)]
  <2>1. reservations'[r] = Row("ACTIVE", p, e, 0) /\ r \notin overdue'
    BY <1>1, <1>4 DEF Mark
  <2>2. CallBar'[r] = Promise!Call("held", p, e)
    BY <2>1 DEF CallBar, Fate, Row, Promise!Call
  <2>3. ASSUME NEW x \in Requests \ {r}
        PROVE  CallBar'[x] = CallBar[x]
    <3>1. reservations'[x] = Mark(S, "EXPIRED")[x]
      BY <1>1, <2>3 DEF Mark
    <3>2. /\ reservations'[x].principal = reservations[x].principal
          /\ reservations'[x].estimate = reservations[x].estimate
          /\ reservations'[x].cost = reservations[x].cost
          /\ reservations'[x].status = IF x \in S THEN "EXPIRED" ELSE reservations[x].status
      BY <1>4, <3>1, ExpiryKeepsRows
    <3>3. x \in overdue' <=> x \in overdue /\ x \notin S
      BY <1>1
    <3>4. QED
      BY <1>4, <3>2, <3>3 DEF CallBar, Fate
  <2>4. QED
    BY <2>2, <2>3 DEF CallBar
<1>6. OwnBar' = OwnBar
  <2>1. /\ Account(p, S) \in Balance
        /\ Account(p, S).override = balances[p].override
        /\ Account(p, S).budget = IF balances[p].known THEN balances[p].budget ELSE default
    BY AccountIsExact
  <2>2. balances[p].override => balances[p].known
    BY DEF LedgerInv, OverridesAreKnown
  <2>3. /\ Followed(Account(p, S)).override = balances[p].override
        /\ balances[p].override => Followed(Account(p, S)).budget = balances[p].budget
    BY <2>1, <2>2 DEF Followed, Balance
  <2>4. /\ balances'[p].override = Followed(Account(p, S)).override
        /\ balances'[p].budget = Followed(Account(p, S)).budget
    BY <1>1, <2>1 DEF LedgerInv, TypeOK, Followed, Balance
  <2>5. \A q \in Principals \ {p} : balances'[q] = balances[q]
    BY <1>1 DEF LedgerInv, TypeOK
  <2>6. QED
    BY <2>3, <2>4, <2>5, OwnKept
<1>7. QED
  BY <1>1, <1>2, <1>3, <1>5, <1>6 DEF Promise!Admit, CallBar, OwnBar

LEMMA ExpiryIsSilent ==
    ASSUME LedgerInv, NEW S \in SUBSET overdue, reservations' = Mark(S, "EXPIRED"),
           overdue' = overdue \ S
    PROVE  CallBar' = CallBar
<1>1. \A x \in S : reservations[x].status = "ACTIVE"
  BY DEF LedgerInv, OverdueIsActive
<1>2. ASSUME NEW x \in Requests
      PROVE  CallBar'[x] = CallBar[x]
  <2>1. /\ reservations'[x].principal = reservations[x].principal
        /\ reservations'[x].estimate = reservations[x].estimate
        /\ reservations'[x].cost = reservations[x].cost
        /\ reservations'[x].status = IF x \in S THEN "EXPIRED" ELSE reservations[x].status
    BY ExpiryKeepsRows
  <2>2. x \in overdue' <=> x \in overdue /\ x \notin S
    OBVIOUS
  <2>3. QED
    BY <1>1, <2>1, <2>2 DEF CallBar, Fate
<1>3. QED
  BY <1>2 DEF CallBar

LEMMA ReserveAgainIsSilent ==
    ASSUME LedgerInv, NEW p \in Principals, NEW r \in Requests, NEW e \in Estimates,
           ReserveAgain(p, r, e)
    PROVE  UNCHANGED <<CallBar, OwnBar, default>>
<1>1. PICK S \in SUBSET Overdue(p) :
        /\ balances' = [balances EXCEPT ![p] = Account(p, S)]
        /\ reservations' = Mark(S, "EXPIRED")
        /\ overdue' = overdue \ S
        /\ UNCHANGED default
  BY DEF ReserveAgain
<1>2. CallBar' = CallBar
  BY <1>1, ExpiryIsSilent DEF Overdue
<1>3. OwnBar' = OwnBar
  <2>1. /\ Account(p, S).override = balances[p].override
        /\ Account(p, S).budget = IF balances[p].known THEN balances[p].budget ELSE default
    BY AccountIsExact
  <2>2. balances[p].override => balances[p].known
    BY DEF LedgerInv, OverridesAreKnown
  <2>3. balances'[p] = Account(p, S) /\ \A q \in Principals \ {p} : balances'[q] = balances[q]
    BY <1>1 DEF LedgerInv, TypeOK
  <2>4. QED
    BY <2>1, <2>2, <2>3, OwnKept
<1>4. QED
  BY <1>1, <1>2, <1>3

LEMMA ExpireStaleIsSilent ==
    ASSUME LedgerInv, ExpireStale
    PROVE  UNCHANGED <<CallBar, OwnBar, default>>
<1>1. /\ balances' = [p \in Principals |-> Freed(balances[p], Overdue(p))]
      /\ reservations' = Mark(overdue, "EXPIRED")
      /\ overdue' = overdue \ overdue
      /\ UNCHANGED default
  BY DEF ExpireStale
<1>2. CallBar' = CallBar
  BY <1>1, ExpiryIsSilent
<1>3. OwnBar' = OwnBar
  BY <1>1, OwnKept DEF LedgerInv, TypeOK, Balance, Freed
<1>4. QED
  BY <1>1, <1>2, <1>3

LEMMA CommitIsCharge ==
    ASSUME LedgerInv, NEW r \in Requests, NEW c \in Costs, Commit(r, c)
    PROVE  Promise!Charge(r, c)
<1>1. /\ reservations[r].status \in {"ACTIVE", "EXPIRED"}
      /\ reservations' = [reservations EXCEPT ![r].status = "COMMITTED", ![r].cost = c]
      /\ overdue' = overdue \ {r}
      /\ UNCHANGED default
  BY DEF Commit
<1>2. CallBar[r].state \in {"held", "lapsed"}
  BY <1>1 DEF CallBar, Fate
<1>3. CallBar' = [CallBar EXCEPT ![r] = Promise!Call("charged", @.payer, c)]
  <2>1. /\ reservations'[r].status = "COMMITTED"
        /\ reservations'[r].cost = c
        /\ reservations'[r].principal = reservations[r].principal
        /\ \A x \in Requests \ {r} : reservations'[x] = reservations[x]
    BY <1>1 DEF LedgerInv, TypeOK
  <2>2. CallBar'[r] = Promise!Call("charged", CallBar[r].payer, c)
    BY <2>1 DEF CallBar, Fate, Promise!Call
  <2>3. CallBar' = [CallBar EXCEPT ![r] = CallBar'[r]]
    BY <1>1, <2>1, OneCall
  <2>4. QED
    BY <2>2, <2>3 DEF CallBar
<1>4. OwnBar' = OwnBar
  BY OwnKept DEF Commit, LedgerInv, TypeOK, Balance
<1>5. QED
  BY <1>1, <1>2, <1>3, <1>4 DEF Promise!Charge, CallBar, OwnBar

LEMMA ReleaseIsGiveBack ==
    ASSUME LedgerInv, NEW r \in Requests, Release(r)
    PROVE  Promise!GiveBack(r)
<1>1. /\ reservations[r].status = "ACTIVE"
      /\ reservations' = [reservations EXCEPT ![r].status = "RELEASED"]
      /\ overdue' = overdue \ {r}
      /\ UNCHANGED default
  BY DEF Release
<1>2. CallBar[r].state \in {"held", "lapsed"}
  BY <1>1 DEF CallBar, Fate
<1>3. CallBar' = [CallBar EXCEPT ![r].state = "returned"]
  <2>1. /\ reservations'[r].status = "RELEASED"
        /\ reservations'[r].estimate = reservations[r].estimate
        /\ reservations'[r].principal = reservations[r].principal
        /\ \A x \in Requests \ {r} : reservations'[x] = reservations[x]
    BY <1>1 DEF LedgerInv, TypeOK
  <2>2. CallBar'[r] = [CallBar[r] EXCEPT !.state = "returned"]
    BY <1>1, <2>1 DEF CallBar, Fate
  <2>3. CallBar' = [CallBar EXCEPT ![r] = CallBar'[r]]
    BY <1>1, <2>1, OneCall
  <2>4. QED
    BY <2>2, <2>3 DEF CallBar
<1>4. OwnBar' = OwnBar
  BY OwnKept DEF Release, LedgerInv, TypeOK, Balance
<1>5. QED
  BY <1>1, <1>2, <1>3, <1>4 DEF Promise!GiveBack, CallBar, OwnBar

LEMMA LapseIsLapse ==
    ASSUME LedgerInv, NEW r \in Requests, Lapse(r)
    PROVE  Promise!Lapse(r) \/ UNCHANGED <<CallBar, OwnBar, default>>
<1>1. /\ reservations[r].status = "ACTIVE"
      /\ overdue' = overdue \cup {r}
      /\ UNCHANGED <<balances, reservations, default>>
  BY DEF Lapse
<1>2. OwnBar' = OwnBar
  BY <1>1, OwnKept
<1>3. CASE r \in overdue
  <2>1. overdue' = overdue
    BY <1>1, <1>3
  <2>2. CallBar' = CallBar
    BY <1>1, <2>1 DEF CallBar, Fate
  <2>3. QED
    BY <1>1, <1>2, <2>2
<1>4. CASE r \notin overdue
  <2>1. CallBar[r].state = "held" /\ CallBar'[r] = [CallBar[r] EXCEPT !.state = "lapsed"]
    BY <1>1, <1>4 DEF CallBar, Fate
  <2>2. CallBar' = [CallBar EXCEPT ![r] = CallBar'[r]]
    BY <1>1, OneCall
  <2>3. CallBar' = [CallBar EXCEPT ![r].state = "lapsed"]
    BY <2>1, <2>2 DEF CallBar
  <2>4. QED
    BY <1>1, <1>2, <2>1, <2>3 DEF Promise!Lapse, CallBar, OwnBar
<1>5. QED
  BY <1>3, <1>4

LEMMA SettingsAreSettings ==
    ASSUME LedgerInv, NEW b \in Budgets
    PROVE  /\ ReloadDefault(b) => Promise!SetCommon(b)
           /\ \A p \in Principals : SetBudget(p, b) => Promise!SetOwn(p, b)
<1>1. ASSUME ReloadDefault(b) PROVE Promise!SetCommon(b)
  BY <1>1 DEF ReloadDefault, Promise!SetCommon, Fate
<1>2. ASSUME NEW p \in Principals, SetBudget(p, b) PROVE Promise!SetOwn(p, b)
  <2>1. UNCHANGED <<reservations, default, overdue>>
    BY <1>2 DEF SetBudget
  <2>2. CallBar' = CallBar
    BY <2>1 DEF CallBar, Fate
  <2>3. OwnBar' = [OwnBar EXCEPT ![p] = b]
    BY ZenonT(60), <1>2 DEF SetBudget, OwnBar, LedgerInv, TypeOK, Balance
  <2>4. QED
    BY <2>1, <2>2, <2>3 DEF Promise!SetOwn, CallBar, OwnBar
<1>3. QED
  BY <1>1, <1>2

LEMMA InitIsPromised == ASSUME Init PROVE Promise!Init
BY DEF Init, Promise!Init, Promise!New, Promise!Call, NoRow, Row, Fate

LEMMA StepIsPromised ==
    ASSUME LedgerInv, [Next]_ledgerVars
    PROVE  [Promise!Next]_(Promise!vars)
<1>1. UNCHANGED <<CallBar, OwnBar, default>> => UNCHANGED Promise!vars
  BY DEF Promise!vars, CallBar, OwnBar
<1>2. CASE Next
  <2>1. ASSUME NEW p \in Principals, NEW r \in Requests, NEW e \in Estimates, Admit(p, r, e)
        PROVE  Promise!Next
    BY <2>1, AdmitIsAdmit DEF Promise!Next
  <2>2. ASSUME NEW r \in Requests, NEW c \in Costs, Commit(r, c)
        PROVE  Promise!Next
    BY <2>2, CommitIsCharge DEF Promise!Next
  <2>3. ASSUME NEW r \in Requests, Release(r)
        PROVE  Promise!Next
    BY <2>3, ReleaseIsGiveBack DEF Promise!Next
  <2>4. ASSUME NEW r \in Requests, Lapse(r)
        PROVE  Promise!Next \/ UNCHANGED <<CallBar, OwnBar, default>>
    BY <2>4, LapseIsLapse DEF Promise!Next
  <2>5. ASSUME NEW b \in Budgets, ReloadDefault(b) \/ \E p \in Principals : SetBudget(p, b)
        PROVE  Promise!Next
    BY <2>5, SettingsAreSettings DEF Promise!Next
  <2>6. QED
    BY <1>1, <1>2, <2>1, <2>2, <2>3, <2>4, <2>5, ReserveAgainIsSilent, ExpireStaleIsSilent DEF Next
<1>3. CASE UNCHANGED ledgerVars
  <2>1. UNCHANGED <<balances, reservations, default, overdue>>
    BY <1>3 DEF ledgerVars
  <2>2. CallBar' = CallBar /\ OwnBar' = OwnBar
    BY <2>1 DEF CallBar, OwnBar, Fate
  <2>3. QED
    BY <1>1, <2>1, <2>2
<1>4. QED
  BY <1>2, <1>3

\* The ledger implements the promise: counters, lazy expiry, reloaded defaults and late
\* commits admit a call only when what is charged and held for its principal leaves room,
\* and charge it once (reserve, commit, release, expire_stale, set_budget).
THEOREM LedgerKeepsPromise == Spec => AdmissionKept
<1>1. Init => Promise!Init
  BY InitIsPromised
<1>2. LedgerInv /\ [Next]_ledgerVars => [Promise!Next]_(Promise!vars)
  BY StepIsPromised
<1>3. QED
  BY <1>1, <1>2, LedgerIsExact, PTL DEF Spec, AdmissionKept, Promise!Spec

=============================================================================
