SPECIFICATION Spec
CONSTANTS
    t1 = t1
    t2 = t2
    Templates <- TwoTemplates
    Subs <- OneSub
    Keys <- OneKey
    NodeGroups <- OneNodeGroup
    ProxyGroups <- OneProxyGroup
    Formats <- TheFormats
    MaxTemplateRevision = 3
    MaxSubRevision = 3
    MaxRowRevision = 2
    MaxDefaultRevision = 2
    None = None
    Gone = Gone
SYMMETRY Interchangeable
INVARIANTS
    BoundIsAvailable
    RowsFitTheirDefinition
PROPERTIES
    PinnedStaysTheSame
    EditsAreInformed
CHECK_DEADLOCK FALSE
