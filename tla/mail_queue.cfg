SPECIFICATION FairSpec
CONSTANTS
    w1 = w1
    w2 = w2
    Workers <- TwoWorkers
    Thresholds = {50, 100}
    Limits = {0, 2}
    MaxUsed = 2
    MaxEpoch = 2
    MaxEdits = 1
    MaxFaults = 1
    AttemptLimit = 2
INVARIANTS DuplicatesAreFaults
PROPERTIES FinalIsFinal QueueDrains MostUrgentLast
CHECK_DEADLOCK FALSE
