CONSTANTS
    Callers = {c1, c2}
    MaxKeys = 2
    MaxIdentities = 2
    MaxClock = 0
    NoKey = NoKey
    NoIdentity = NoIdentity
SPECIFICATION Spec
SYMMETRY CallerSymmetry
INVARIANTS
    TypeOK
    OneKeyReadsAll
    IdentityComesBack
    WipedKeysStayDead
    RunningClientStores
CHECK_DEADLOCK FALSE
