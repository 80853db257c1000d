SPECIFICATION FairSpec
CONSTANTS
    alice = alice
    Users <- One
    PeriodLimit = 2
    Retention = 2
    MaxTime = 4
    MaxBytes = 3
    MaxRestarts = 1
    MaxResets = 1
INVARIANTS PendingIsUnderstood
PROPERTIES CollectingIsExact MetersBytes AcceptableIsSettled
CHECK_DEADLOCK FALSE
