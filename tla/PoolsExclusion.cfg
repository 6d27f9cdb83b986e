SPECIFICATION Spec
CONSTANTS
    Node <- MCNode
    NodeState <- MCNodeState
    Pools <- MCPools
    Selectors <- MCSelectors
    Absent = Absent
    NoSelector = NoSelector
    NotYet = NotYet
INVARIANT ExclusionAlways
