SPECIFICATION Spec
CONSTANTS
    Keys = {"k1", "k2"}
    Seconds = {0, 1}
    COUNTER_LIMIT = 4
    FIRST_LIMIT = 2
    BLOCKLEN = 3
    MaxBytes = 7
INVARIANTS
    TypeOK
PROPERTIES
    ImplementsStream
