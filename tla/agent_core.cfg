SPECIFICATION FairSpec
CONSTANTS
    Version = {v1, v2}
    None = None
    Pending <- MCPending
    MaxMishaps = 1
INVARIANTS
    LastGoodIsReadable
    LastGoodHasRun
    ReportIsTrue
    AckMeansApplied
PROPERTIES
    LastGoodIsKept
    NoLateCommand
    Converges
