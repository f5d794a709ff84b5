SPECIFICATION Spec
CONSTANTS
    r1 = r1
    r2 = r2
    r3 = r3
    s1 = s1
    a1 = a1
    Thread = {r1, r2, r3, s1, a1}
    LEVELS = 1
    MAX_EPOCH = 1
    Ops <- MCOps
    Permitted = {r1, r2, r3, s1, a1}
    Interruptible = {a1}
    Receivers = {r1, r2, r3}
    Senders = {s1}
    Awakers = {a1}
    Deleters = {}
    Viewers = {}
SYMMETRY Symmetry
INVARIANT OccupiedMeansAwaking
