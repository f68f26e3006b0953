\* The constructor of TestingSetup may throw after it started the scheduler thread.
SPECIFICATION Spec
CONSTANTS
    MaxFixtures = 2
    COINBASE_MATURITY = 3
    QueueLimit = 2
    Seeds = {s1, s2}
    Null = Null
CHECK_DEADLOCK FALSE
INVARIANTS
    NoThreadOutlivesFixture
