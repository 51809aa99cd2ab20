-------------------------- MODULE SpendingAdmission --------------------------
(***************************************************************************)
(* What the spending ledger promises its callers.  A paid call is admitted *)
(* only if what was already charged to its principal and what is still     *)
(* held for it leave room for its estimate, under the budget in force at   *)
(* that moment.  An admitted call is charged at most once, also after its  *)
(* hold has lapsed, and a hold lapses by the passing of time alone.        *)
(***************************************************************************)
EXTENDS FiniteSums

CONSTANTS
    Principals,
    Nobody,
    Requests,
    Amounts,    \* estimates and costs, in micro-USD
    Budgets,    \* amounts, and Unlimited
    Unlimited,
    Unset

VARIABLES
    call,       \* what became of each request: its state, its payer, its amount
    own,        \* the budget an operator set for a principal, or Unset
    common      \* the budget of every other principal

vars == <<call, own, common>>

Call(s, p, n) == [state |-> s, payer |-> p, amount |-> n]

New == Call("new", Nobody, 0)

Total(p, s) ==
    SumOver([r \in Requests |-> call[r].amount],
            {r \in Requests : call[r].payer = p /\ call[r].state = s})

Budget(p) == IF own[p] = Unset THEN common ELSE own[p]

Fits(p, n) == Budget(p) # Unlimited => Total(p, "charged") + Total(p, "held") + n <= Budget(p)

Init ==
    /\ call = [r \in Requests |-> New]
    /\ own = [p \in Principals |-> Unset]
    /\ common \in Budgets

Admit(r, p, n) ==
    /\ call[r] = New
    /\ Fits(p, n)
    /\ call' = [call EXCEPT ![r] = Call("held", p, n)]
    /\ UNCHANGED <<own, common>>

\* The real cost replaces the estimate, whatever the budget has become.
Charge(r, n) ==
    /\ call[r].state \in {"held", "lapsed"}
    /\ call' = [call EXCEPT ![r] = Call("charged", @.payer, n)]
    /\ UNCHANGED <<own, common>>

GiveBack(r) ==
    /\ call[r].state \in {"held", "lapsed"}
    /\ call' = [call EXCEPT ![r].state = "returned"]
    /\ UNCHANGED <<own, common>>

Lapse(r) ==
    /\ call[r].state = "held"
    /\ call' = [call EXCEPT ![r].state = "lapsed"]
    /\ UNCHANGED <<own, common>>

SetOwn(p, b) ==
    /\ own' = [own EXCEPT ![p] = b]
    /\ UNCHANGED <<call, common>>

SetCommon(b) ==
    /\ common' = b
    /\ UNCHANGED <<call, own>>

Next ==
    \/ \E r \in Requests :
        \/ \E n \in Amounts : Charge(r, n) \/ \E p \in Principals : Admit(r, p, n)
        \/ GiveBack(r)
        \/ Lapse(r)
    \/ \E b \in Budgets : SetCommon(b) \/ \E p \in Principals : SetOwn(p, b)

Spec == Init /\ [][Next]_vars

=============================================================================
