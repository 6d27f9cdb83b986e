SPECIFICATION FairSpec
CONSTANTS
    UA = {ua1, ua2}
    Owned = {job}
    Owner <- MCOwner
    ClusterVersion = ClusterVersion
    ClusterOperator = ClusterOperator
    Version = {v1, v2}
    NoVersion = NoVersion
    Absent = Absent
    None = None
    InitialObjects <- MCInitialObjects
    MaxChanges = 3
    MaxFeed = 2
    MaxRestarts = 1
INVARIANTS
    TypeOK
    KeysNeverLost
    EditsAreQueued
PROPERTY ChangesReachReconcile
CHECK_DEADLOCK FALSE
