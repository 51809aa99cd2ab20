--------------------------- MODULE SpendingLedger ---------------------------
(***************************************************************************)
(* SQLiteSpendingLedger (api_service/spending.py): the durable ledger that *)
(* admits paid provider calls.  Every operation is one BEGIN IMMEDIATE     *)
(* transaction, so it is one step; an exception inside it rolls all of it  *)
(* back.  The tables keep a counter per principal beside the rows the      *)
(* counter sums up, and a hold whose time is over stays ACTIVE until some  *)
(* later transaction of its principal notices.                             *)
(***************************************************************************)
EXTENDS FiniteSums

CONSTANTS
    Principals,     \* principal_id
    Nobody,
    Requests,       \* request_id
    Estimates,      \* estimated_cost_micros
    Costs,          \* actual_cost_micros
    Limits,         \* finite budgets
    Unlimited       \* a budget of NULL

ASSUME AmountsAssumption ==
    /\ Estimates \subseteq Nat
    /\ Costs \subseteq Nat
    /\ Limits \subseteq Nat
ASSUME RequestsAssumption == IsFiniteSet(Requests)
ASSUME UnlimitedAssumption == Unlimited \notin Nat
ASSUME NobodyAssumption == Nobody \notin Principals \cup Limits \cup {Unlimited}

VARIABLES
    balances,       \* spending_balances; `known` tells whether the row exists
    reservations,   \* spending_reservations; "NONE" where there is no row
    default,        \* default_budget_micros, reloaded from the settings
    overdue         \* the ACTIVE reservations whose expires_at has come

ledgerVars == <<balances, reservations, default, overdue>>

Budgets == Limits \cup {Unlimited}

Statuses == {"NONE", "ACTIVE", "COMMITTED", "RELEASED", "EXPIRED"}

Balance ==
    [known: BOOLEAN, budget: Budgets, override: BOOLEAN, committed: Nat, reserved: Nat]

Row(s, p, e, c) == [status |-> s, principal |-> p, estimate |-> e, cost |-> c]

NoRow == Row("NONE", Nobody, 0, 0)

TypeOK ==
    /\ balances \in [Principals -> Balance]
    /\ reservations \in [Requests -> [status: Statuses, principal: Principals \cup {Nobody},
                                      estimate: Estimates \cup {0}, cost: Costs \cup {0}]]
    /\ default \in Budgets
    /\ overdue \in SUBSET Requests

-----------------------------------------------------------------------------
(* The rows a transaction reads *)

Of(p) == {r \in Requests : reservations[r].principal = p}

Active(p) == {r \in Of(p) : reservations[r].status = "ACTIVE"}

Overdue(p) == Active(p) \cap overdue

Estimated(S) == SumOver([r \in Requests |-> reservations[r].estimate], S)

\* The status of the rows in S becomes s.
Mark(S, s) ==
    [r \in Requests |-> IF r \in S THEN [reservations[r] EXCEPT !.status = s] ELSE reservations[r]]

-----------------------------------------------------------------------------
Init ==
    /\ default \in Budgets
    /\ balances = [p \in Principals |-> [known |-> FALSE, budget |-> default, override |-> FALSE,
                                         committed |-> 0, reserved |-> 0]]
    /\ reservations = [r \in Requests |-> NoRow]
    /\ overdue = {}

\* INSERT ... ON CONFLICT DO NOTHING
Seeded(b) == IF b.known THEN b ELSE [b EXCEPT !.known = TRUE, !.budget = default]

\* Faulty variant of Followed: a principal keeps the default it began with.
FollowedNever(b) == b

\* A row seeded from the default follows the default in force now.
Followed(b) == IF b.override THEN b ELSE [b EXCEPT !.budget = default]

\* _expire_for_principal, when the clock had reached the holds in S.
Freed(b, S) == [b EXCEPT !.reserved = @ - Estimated(S)]

Available(b) == b.budget - b.committed - b.reserved

\* What the transaction of reserve finds once it has expired S.  `now` was read
\* before it waited for the write lock, so S may miss holds overdue by then (any
\* of them: the time to live is reloaded, so holds need not end in their order).
Account(p, S) == Freed(Seeded(balances[p]), S)

\* Faulty variant of Admissible: what is held for other calls is left out.
AdmissibleUnheld(p, e, S) ==
    LET b == Followed(Account(p, S))
    IN  b.budget # Unlimited => e <= b.budget - b.committed

Admissible(p, e, S) ==
    LET b == Followed(Account(p, S))
    IN  b.budget # Unlimited => e <= Available(b)

\* reserve of a new request
Admit(p, r, e) ==
    \E S \in SUBSET Overdue(p) :
        /\ reservations[r] = NoRow
        /\ Admissible(p, e, S)
        /\ balances' = [balances EXCEPT ![p] = [Followed(Account(p, S)) EXCEPT !.reserved = @ + e]]
        /\ reservations' = [Mark(S, "EXPIRED") EXCEPT ![r] = Row("ACTIVE", p, e, 0)]
        /\ overdue' = overdue \ S
        /\ UNCHANGED default

\* reserve again with the same arguments while the hold is active.  With other
\* arguments, or after the end of the hold, it is a conflict and changes nothing.
ReserveAgain(p, r, e) ==
    \E S \in SUBSET Overdue(p) :
        /\ r \in Active(p) \ S
        /\ reservations[r].estimate = e
        /\ balances' = [balances EXCEPT ![p] = Account(p, S)]
        /\ reservations' = Mark(S, "EXPIRED")
        /\ overdue' = overdue \ S
        /\ UNCHANGED default

\* Faulty variant of Commit: an expired hold gives its estimate back again.
CommitFreesTwice(r, c) ==
    LET row == reservations[r]
    IN  /\ row.status \in {"ACTIVE", "EXPIRED"}
        /\ balances' = [balances EXCEPT ![row.principal].reserved = @ - row.estimate,
                                        ![row.principal].committed = @ + c]
        /\ reservations' = [reservations EXCEPT ![r].status = "COMMITTED", ![r].cost = c]
        /\ overdue' = overdue \ {r}
        /\ UNCHANGED default

\* commit: an expired hold has already given its estimate back.
Commit(r, c) ==
    LET row == reservations[r]
        held == IF row.status = "ACTIVE" THEN row.estimate ELSE 0
    IN  /\ row.status \in {"ACTIVE", "EXPIRED"}
        /\ balances' = [balances EXCEPT ![row.principal].reserved = @ - held,
                                        ![row.principal].committed = @ + c]
        /\ reservations' = [reservations EXCEPT ![r].status = "COMMITTED", ![r].cost = c]
        /\ overdue' = overdue \ {r}
        /\ UNCHANGED default

\* Faulty variant of Release: a hold that has expired is given back once more.
ReleaseExpired(r) ==
    LET row == reservations[r] IN
    /\ row.status \in {"ACTIVE", "EXPIRED"}
    /\ balances' = [balances EXCEPT ![row.principal].reserved = @ - row.estimate]
    /\ reservations' = [reservations EXCEPT ![r].status = "RELEASED"]
    /\ overdue' = overdue \ {r}
    /\ UNCHANGED default

Release(r) ==
    LET row == reservations[r] IN
    /\ row.status = "ACTIVE"
    /\ balances' = [balances EXCEPT ![row.principal].reserved = @ - row.estimate]
    /\ reservations' = [reservations EXCEPT ![r].status = "RELEASED"]
    /\ overdue' = overdue \ {r}
    /\ UNCHANGED default

\* expire_stale reads the clock inside its transaction.
ExpireStale ==
    /\ overdue # {}
    /\ balances' = [p \in Principals |-> Freed(balances[p], Overdue(p))]
    /\ reservations' = Mark(overdue, "EXPIRED")
    /\ overdue' = {}
    /\ UNCHANGED default

SetBudget(p, b) ==
    /\ balances' = [balances EXCEPT ![p].known = TRUE, ![p].budget = b, ![p].override = TRUE]
    /\ UNCHANGED <<reservations, default, overdue>>

\* get_spending_ledger reads the settings on every call.
ReloadDefault(b) ==
    /\ default' = b
    /\ UNCHANGED <<balances, reservations, overdue>>

\* The time to live of a hold runs out.
Lapse(r) ==
    /\ reservations[r].status = "ACTIVE"
    /\ overdue' = overdue \cup {r}
    /\ UNCHANGED <<balances, reservations, default>>

Next ==
    \/ \E p \in Principals, r \in Requests, e \in Estimates : Admit(p, r, e) \/ ReserveAgain(p, r, e)
    \/ \E r \in Requests : Release(r) \/ Lapse(r) \/ \E c \in Costs : Commit(r, c)
    \/ ExpireStale
    \/ \E b \in Budgets : ReloadDefault(b) \/ \E p \in Principals : SetBudget(p, b)

Spec == Init /\ [][Next]_ledgerVars

-----------------------------------------------------------------------------
(* Properties *)

\* The counters agree with the rows, through expiry, late commits, releases and
\* refused transactions: what a principal is told to have left is what it has.
CountersExact ==
    \A p \in Principals :
        /\ balances[p].reserved = Estimated(Active(p))
        /\ balances[p].committed =
             SumOver([r \in Requests |-> reservations[r].cost],
                     {r \in Of(p) : reservations[r].status = "COMMITTED"})

\* A hold whose time is over counts as lapsed before the ledger has noticed.
Fate(r) ==
    CASE reservations[r].status = "NONE" -> "new"
      [] reservations[r].status = "ACTIVE" -> IF r \in overdue THEN "lapsed" ELSE "held"
      [] reservations[r].status = "EXPIRED" -> "lapsed"
      [] reservations[r].status = "RELEASED" -> "returned"
      [] reservations[r].status = "COMMITTED" -> "charged"

Promise == INSTANCE SpendingAdmission WITH
    Amounts <- Estimates \cup Costs,
    Unset <- Nobody,
    call <- [r \in Requests |->
                LET row == reservations[r] IN
                [state |-> Fate(r),
                 payer |-> row.principal,
                 amount |-> IF row.status = "COMMITTED" THEN row.cost ELSE row.estimate]],
    own <- [p \in Principals |-> IF balances[p].override THEN balances[p].budget ELSE Nobody],
    common <- default

\* The ledger implements the promise: its counters, its lazy expiry and its
\* late commits admit exactly what the calls themselves leave room for.
AdmissionKept == Promise!Spec

=============================================================================
