\* Every pair of diagrams of at most 3 chunks with fees 0..3 and sizes 1..2,
\* and the pairs of test feerate_diagram_utilities.
SPECIFICATION Spec
CONSTANTS
    MaxChunks = 3
    MaxFee = 3
    MaxSize = 2
    Diagrams <- MCDiagrams
CHECK_DEADLOCK FALSE
INVARIANTS
    TypeOK
    ResultMatchesReference
    VectorsAsExpected
PROPERTIES
    Termination
