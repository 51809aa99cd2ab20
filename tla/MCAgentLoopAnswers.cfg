SPECIFICATION Spec
CONSTANTS
    Turns = {t1}
    account = account
    Principals = {account}
    Nobody = Nobody
    Payer <- OnePayer
    Estimates = {1}
    Costs = {1}
    Limits = {3}
    Unlimited = Unlimited
    Reserving = {}
    Batches = {2}
    MaxModelCalls = 2
    MaxToolCalls = 1
    MaxEmpty = 1
INVARIANT
    EveryCallAnswered
CHECK_DEADLOCK FALSE
