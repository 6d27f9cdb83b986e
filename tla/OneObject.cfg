SPECIFICATION FairSpec
CONSTANTS
    Node <- MCNode4
    InitialClusters <- Clusters4
    Specs <- InBatches
    NodeState <- MCNodeState
    Pools <- MCPools
    Absent = Absent
    NoSelector = NoSelector
    NoVersion = NoVersion
    UA = {ua}
    Version = {v1}
    Disruptions = {"fail"}
    MaxDisruptions = 2
    CacheLag = FALSE
INVARIANTS
    TypeOK
    PrimersFirst
    CompletionSound
    ListsPartition
    NeverPanics
PROPERTY EventuallyPreheatedWithoutRest
