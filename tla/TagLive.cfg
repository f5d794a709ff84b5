SPECIFICATION FairSpec
CONSTANTS
    r1 = r1
    r2 = r2
    s1 = s1
    Thread = {r1, r2, s1}
    LEVELS = 1
    MAX_EPOCH = 1
    Ops <- MCOps
    Permitted = {r1, r2, s1}
    Interruptible = {r1, s1}
    Receivers = {r1, r2}
    Senders = {s1}
    Awakers = {s1}
    Deleters = {s1}
    Viewers = {s1}
PROPERTY OnlySleepersBlock
