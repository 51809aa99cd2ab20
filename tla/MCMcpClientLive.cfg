SPECIFICATION Spec
CONSTANTS
    p1 = p1
    p2 = p2
    t1 = t1
    t2 = t2
    Turns = {p1, p2}
    Tenants = {t1}
    Scope <- OneScope
    Conns = {c1, c2}
    NoConn = NoConn
    MaxFailures = 1
    Cooldown = 1
    ZombieTimeouts = 1
PROPERTIES
    DroppedIsClosed
    OperationReturns
