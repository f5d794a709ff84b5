SPECIFICATION Spec
CONSTANTS
    t1 = t1
    t2 = t2
    t3 = t3
    k1 = k1
    k2 = k2
    Thread = {t1, t2, t3}
    Key = {k1, k2}
    IPC_PRIVATE = IPC_PRIVATE
    None = None
    MAX_TAGS = 3
    Interruptible = {t1, t2, t3}
SYMMETRY Symmetry
INVARIANT TypeOK
INVARIANT OneOwner
INVARIANT Consistent
INVARIANT OpenIsRight
INVARIANT NothingElseLost
PROPERTY ImplementsNames
