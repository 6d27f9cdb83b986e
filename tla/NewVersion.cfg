SPECIFICATION FairSpec
CONSTANTS
    Node <- MCNode2
    InitialClusters <- Clusters2
    Specs <- AllAtOnce
    NodeState <- MCNodeState
    Pools <- MCPools
    Absent = Absent
    NoSelector = NoSelector
    NoVersion = NoVersion
    UA = {ua}
    Version = {v1, v2}
    Disruptions = {"version"}
    MaxDisruptions = 1
    CacheLag = FALSE
INVARIANT PreheatedHaveTarget
