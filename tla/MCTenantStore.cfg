SPECIFICATION Spec
CONSTANTS
    Ids = {shop}
    Databases = {d1, d2}
    Instances = {i1, i2, i3}
    NoInstance = NoInstance
    Operations = {o1, o2}
    NoOperation = NoOperation
    Requests = {r1}
    None = None
SYMMETRY Alike
INVARIANTS
    TypeOK
    Pinned
    PoolsAccounted
    
    LockIsReleased
PROPERTY
    RouterKept
