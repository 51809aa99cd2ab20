SPECIFICATION Spec
CONSTANTS
    p1 = p1
    p2 = p2
    t1 = t1
    t2 = t2
    Turns = {p1}
    Tenants = {t1}
    Scope <- OneScope
    Conns = {c1, c2}
    NoConn = NoConn
    MaxFailures = 2
    Cooldown = 2
    ZombieTimeouts = 2
PROPERTY
    CooldownEnds
