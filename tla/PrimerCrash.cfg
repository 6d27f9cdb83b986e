SPECIFICATION Spec
CONSTANTS
    Node <- MCNode2
    InitialClusters <- Clusters2
    Specs <- Primed
    NodeState <- MCNodeState
    Pools <- MCPools
    Absent = Absent
    NoSelector = NoSelector
    NoVersion = NoVersion
    UA = {ua}
    Version = {v1}
    Disruptions = {"crash"}
    MaxDisruptions = 1
    CacheLag = FALSE
INVARIANT PrimersFirst
