SPECIFICATION Spec
CONSTANTS
    r1 = r1
    r2 = r2
    a1 = a1
    a2 = a2
    d1 = d1
    Thread = {r1, r2, a1, a2, d1}
    LEVELS = 2
    MAX_EPOCH = 0
    Ops <- MCOps
    Permitted = {r1, r2, a1, a2}
    Interruptible = {}
    Receivers = {r1, r2}
    Senders = {}
    Awakers = {a1, a2}
    Deleters = {d1}
    Viewers = {d1}
SYMMETRY Symmetry
INVARIANT TypeOK
INVARIANT AwakeReachesSleepers
