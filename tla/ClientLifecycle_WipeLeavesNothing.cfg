CONSTANTS
    Callers = {c1, c2}
    MaxKeys = 2
    MaxIdentities = 2
    MaxClock = 0
    NoKey = NoKey
    NoIdentity = NoIdentity
SPECIFICATION Spec
SYMMETRY CallerSymmetry
PROPERTY WipeLeavesNothing
CHECK_DEADLOCK FALSE
