\* Is what add_descendants returns always a transaction?
SPECIFICATION Spec
CONSTANTS
    MAX_REPLACEMENT_CANDIDATES = 100
    CENT = 1000
    HugeVsize = 999999
    DEFAULT_INCREMENTAL_RELAY_FEE = 1000
    TxBaseSize = 10
    TxInputSize = 41
    TxOutputSize = 11
    Hashes <- MCHashes
CHECK_DEADLOCK FALSE
INVARIANTS
    NoIndeterminateUse
