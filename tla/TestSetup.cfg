\* Two fixtures of either class in one process, a chain of 3 blocks, a queue
\* that is full at 2 pending callbacks, two values GetRandHash may return.
SPECIFICATION Spec
CONSTANTS
    MaxFixtures = 2
    COINBASE_MATURITY = 3
    QueueLimit = 2
    Seeds = {s1, s2}
    Null = Null
CHECK_DEADLOCK FALSE
INVARIANTS
    TypeOK
    ThreadsJoinedBeforeRelease
    NoCallbackAfterRelease
    CleanBetweenFixtures
PROPERTIES
    FixtureCompletes
