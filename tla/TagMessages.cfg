SPECIFICATION Spec
CONSTANTS
    r1 = r1
    r2 = r2
    r3 = r3
    s1 = s1
    Thread = {r1, r2, r3, s1}
    LEVELS = 1
    MAX_EPOCH = 1
    Ops <- MCOps
    Permitted = {r1, r2, r3, s1}
    Interruptible = {r1, r2, r3}
    Receivers = {r1, r2, r3}
    Senders = {s1}
    Awakers = {}
    Deleters = {}
    Viewers = {}
SYMMETRY Symmetry
INVARIANT ProtectedAccess
INVARIANT NoStaleDelivery
INVARIANT NoStranded
INVARIANT NoLostWakeup
PROPERTY EpochMonotonic
PROPERTY ImplementsMeeting
