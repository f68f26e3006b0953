\* Do the four rules of the topology check bound the clusters to two entries?
SPECIFICATION Spec
CONSTANTS
    MAX_REPLACEMENT_CANDIDATES = 100
    CENT = 1000
    HugeVsize = 999999
    DEFAULT_INCREMENTAL_RELAY_FEE = 1000
    TxBaseSize = 10
    TxInputSize = 41
    TxOutputSize = 11
    Hashes <- MCHashes
CHECK_DEADLOCK FALSE
INVARIANTS
    TopologyBoundsClusters
