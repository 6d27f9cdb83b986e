SPECIFICATION Spec
CONSTANTS
    Node <- MCNode2
    InitialClusters <- Clusters2
    Specs <- PrimedEast
    NodeState <- ChangingNodeState
    Pools <- MCPools
    Absent = Absent
    NoSelector = NoSelector
    NoVersion = NoVersion
    UA = {ua}
    Version = {v1, v2}
    Disruptions = {"version", "node"}
    MaxDisruptions = 2
    CacheLag = TRUE
SYMMETRY Symmetry
PROPERTIES
    NodesNeverForgotten
    JobsForReadVersion
