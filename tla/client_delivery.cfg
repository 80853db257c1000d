SPECIFICATION Spec
CONSTANTS
    u1 = u1
    g1 = g1
    g2 = g2
    r1 = r1
    r2 = r2
    Users <- OneUser
    Groups <- TwoGroups
    Nodes <- OneNode
    Inbounds <- OneInbound
    Protocols <- TwoProtocols
    Requests <- TwoRequests
    NodeOf <- OnNode1
    OwnerOf <- SameOwner
    GroupOf <- SameGroup
    MaxSecrets = 2
    MaxChanges = 2
SYMMETRY Interchangeable
PROPERTIES NodeKnowsItsClients RevokedIsLeftOut
CHECK_DEADLOCK FALSE
