SPECIFICATION FairSpec
CONSTANTS
    UA = {ua1, ua2}
    Configs <- MCConfigs
    FirstConfigs <- MCFirstConfigs
    Version <- MCVersion
    Image <- MCImage
    ClusterReleases <- MCClusterReleases
    FirstReleases <- MCFirstReleases
    VersionOf <- MCVersionOf
    ImageOf <- MCImageOf
    NamesOf <- MCNamesOf
    Mentions <- MCMentions
    Platforms <- MCPlatforms
    Absent = Absent
    Pending = Pending
    PullerScript = PullerScript
    MaxChanges = 2
INVARIANTS
    TypeOK
    JobsPullTheirRelease
PROPERTY EventuallyComplete
CHECK_DEADLOCK FALSE
