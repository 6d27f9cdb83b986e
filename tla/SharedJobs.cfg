SPECIFICATION FairSpec
CONSTANTS
    Node <- MCNode2
    InitialClusters <- Clusters2
    Specs <- Primed
    NodeState <- MCNodeState
    Pools <- MCPools
    Absent = Absent
    NoSelector = NoSelector
    NoVersion = NoVersion
    UA = {a, b}
    Version = {v1}
    Disruptions = {"ttl", "fail"}
    MaxDisruptions = 1
    CacheLag = FALSE
PROPERTY EventuallyCompleted
