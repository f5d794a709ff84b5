SPECIFICATION Spec
CONSTANTS
    r1 = r1
    r2 = r2
    s1 = s1
    a1 = a1
    Thread = {r1, r2, s1, a1}
    LEVELS = 1
    MAX_EPOCH = 1
    Ops <- MCOps
    Permitted = {r1, r2, s1, a1}
    Interruptible = {r1, r2, s1, a1}
    Receivers = {r1, r2}
    Senders = {s1, a1}
    Awakers = {a1}
    Deleters = {s1}
    Viewers = {}
SYMMETRY Symmetry
INVARIANT WaitingExact
INVARIANT NoLockLeak
INVARIANT DeleteSafe
INVARIANT UseInv
INVARIANT NoTornRead
