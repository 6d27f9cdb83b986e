SPECIFICATION FairSpec
CONSTANTS
    Node <- MCNode3
    InitialClusters <- Clusters3
    Specs <- LargeBatch
    NodeState <- MCNodeState
    Pools <- MCPools
    Absent = Absent
    NoSelector = NoSelector
    NoVersion = NoVersion
    UA = {ua}
    Version = {v1}
    Disruptions = {}
    MaxDisruptions = 0
    CacheLag = FALSE
PROPERTY EventuallyPreheated
