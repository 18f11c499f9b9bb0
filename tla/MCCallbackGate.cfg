SPECIFICATION FairSpec
CONSTANTS
    Callbacks = {t1, t2, t3}
    Captures = {c1, c2}
    ClosedBit = 3
    NoTarget = NoTarget
INVARIANTS
    NoDanglingReader
PROPERTIES
    DeactivationEnds
