SPECIFICATION FairSpec
CONSTANTS
    UA = {ua}
    Owned = {}
    Owner <- MCOwner
    ClusterVersion = ClusterVersion
    ClusterOperator = ClusterOperator
    Version = {v1, v2}
    NoVersion = NoVersion
    Absent = Absent
    None = None
    InitialObjects <- WithAll
    MaxChanges = 1
    MaxFeed = 1
    MaxRestarts = 0
PROPERTY VersionsTrigger
CHECK_DEADLOCK FALSE
