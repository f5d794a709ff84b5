SPECIFICATION Spec
CONSTANTS
    MAX_TAGS = 3
    LEVELS = 2
    LINE = 3
    FIELD = 2
    UID_BITS = 5
    CHAR_BLOCK = 7
    ReadSizes = {1, 4, 40}
    MAX_POS = 38
    MAX_CREATED = 4
    Euid <- MCEuid
INVARIANTS TypeOK PieceOfFile PieceLength BufferFits NothingHeld ReadsLiveTag
