SPECIFICATION Spec
CONSTANTS
    Node <- MCNode2
    InitialClusters <- Clusters2
    Specs <- Editable
    NodeState <- MCNodeState
    Pools <- MCPools
    Absent = Absent
    NoSelector = NoSelector
    NoVersion = NoVersion
    UA = {ua}
    Version = {v1}
    Disruptions = {"crash", "apierror", "edit", "fail", "expire"}
    MaxDisruptions = 2
    CacheLag = TRUE
INVARIANTS
    PreheatedWasPulled
    CompletionSound
PROPERTIES
    NodesNeverForgotten
    ImplementsRollout
