SPECIFICATION FairRollupSpec
CONSTANTS
    n1 = n1
    n2 = n2
    w1 = w1
    w2 = w2
    Nodes <- TwoNodes
    Workers <- TwoWorkers
    Width = 2
    Hour = 2
    Day = 4
    Late = 2
    Keep <- Retention
    MaxClock = 9
    MaxIngests = 2
    Amounts = {3}
INVARIANTS AggregatesAgree QueryIsComplete AccountsAgree
PROPERTIES DirtyIsRecomputed
CHECK_DEADLOCK FALSE
