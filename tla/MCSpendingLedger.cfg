SPECIFICATION Spec
CONSTANTS
    Principals = {a, b}
    Nobody = Nobody
    Requests = {r1, r2, r3}
    Estimates = {1, 2}
    Costs = {0, 3}
    Limits = {3}
    Unlimited = Unlimited
SYMMETRY Alike
INVARIANTS
    TypeOK
    CountersExact
PROPERTY
    AdmissionKept
