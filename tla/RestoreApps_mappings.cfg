\* Two applications share a host on two domains; nothing fails.
SPECIFICATION Spec
CONSTANTS
    web = web  api = api  job = job  www = www  com = com  int = int  priv = priv  v1 = v1
    linux = linux  gone = gone  dev = dev  prod = prod
    NoApp = NoApp  NoRoute = NoRoute  NoPath = NoPath  NoBits = NoBits  NoSpace = NoSpace
    Names <- MCNames
    Domains <- MCDomains
    Paths <- MCPaths
    Stacks <- MCStacks
    Spaces <- MCSpaces
    Apps <- TwinApps
    Zips <- TwinApps
    TargetStacks = {linux}
    TargetShared = {com, int}
    TargetPrivate = {priv}
    SpaceGuid <- MCSpaceGuid
    InitialTargets <- EmptyTarget
    MaxRuns = 1
    MaxTrouble = 0
INVARIANTS RoutesMapped
\* The command ends.
CHECK_DEADLOCK FALSE
