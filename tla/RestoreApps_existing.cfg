\* An application of the backup is already in the target; nothing fails.
SPECIFICATION Spec
CONSTANTS
    web = web  api = api  job = job  www = www  com = com  int = int  priv = priv  v1 = v1
    linux = linux  gone = gone  dev = dev  prod = prod
    NoApp = NoApp  NoRoute = NoRoute  NoPath = NoPath  NoBits = NoBits  NoSpace = NoSpace
    Names <- MCNames
    Domains <- MCDomains
    Paths <- MCPaths
    Stacks <- MCStacks
    Spaces <- MCSpaces
    Apps <- MCApps
    Zips <- MCZips
    TargetStacks = {linux}
    TargetShared = {com}
    TargetPrivate = {priv}
    SpaceGuid <- MCSpaceGuid
    InitialTargets <- UsedTarget
    MaxRuns = 1
    MaxTrouble = 0
INVARIANTS ExistingAppsUpdated
\* The command ends.
CHECK_DEADLOCK FALSE
