SPECIFICATION Spec
CONSTANTS
    Turns = {t1, t2}
    account = account
    Principals = {account}
    Nobody = Nobody
    Payer <- OnePayer
    Estimates = {2}
    Costs = {1}
    Limits = {3}
    Unlimited = Unlimited
    Reserving = {t1}
    Batches = {1, 2}
    MaxModelCalls = 2
    MaxToolCalls = 1
    MaxEmpty = 2
PROPERTY
    TurnsEnd
CHECK_DEADLOCK FALSE
