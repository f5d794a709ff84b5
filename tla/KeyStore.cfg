SPECIFICATION Spec
CONSTANTS
    k1 = k1
    k2 = k2
    k3 = k3
    k4 = k4
    Key <- MCKey
    Hash <- MCHash
    IPC_PRIVATE = IPC_PRIVATE
    None = None
    MIN_CAP = 4
    Caps = {4, 8}
    Sizes = {3, 4}
    W = 3
SYMMETRY Symmetry
INVARIANT RobinHood
INVARIANT ProbesEnd
INVARIANT NeverGrows
INVARIANT NothingLeftBehind
PROPERTY ImplementsMap
PROPERTY ImplementsPool
PROPERTY ImplementsNames
