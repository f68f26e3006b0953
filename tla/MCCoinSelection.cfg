SPECIFICATION Spec
CONSTANTS
    vout <- MCvout
    NullTx = NullTx
    Indeterminate = 99
    InputBytes <- MCInputBytes
    Confirmations <- MCConfirmations
    Chains <- MCChains
    Groups = {g1, g2}
    Filters <- MCFilters
    Targets = {3, 7}
    EFFECTIVE_FEERATE = 2
    LONG_TERM_FEERATE = 1
    COST_OF_CHANGE = 2
SYMMETRY GroupSymmetry
CHECK_DEADLOCK FALSE
INVARIANTS
    TypeOK
    CoinsAreOutputs
    SelectionAddsUp
    FailsOnlyWhenPoolShort
    SelectedCoinsAreConfirmed
