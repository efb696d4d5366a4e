\* Two failing requests in one run, or a run that may be interrupted and a rerun,
\* one of the two with a failure; the target has one of the applications, or a
\* stranger's route without an application is in the way.
SPECIFICATION FairSpec
CONSTANTS
    web = web  api = api  job = job  www = www  com = com  int = int  priv = priv  v1 = v1
    linux = linux  gone = gone  dev = dev  prod = prod
    NoApp = NoApp  NoRoute = NoRoute  NoPath = NoPath  NoBits = NoBits  NoSpace = NoSpace
    Names <- MCNames
    Domains <- MCDomains
    Paths <- MCPaths
    Stacks <- MCStacks
    Spaces <- MCSpaces
    Apps <- MCApps
    Zips <- MCZips
    TargetStacks = {linux}
    TargetShared = {com}
    TargetPrivate = {priv}
    SpaceGuid <- MCSpaceGuid
    InitialTargets <- Targets
    MaxRuns = 2
    MaxTrouble = 2
INVARIANTS TypeOK BitsBelong StateRestored GeneratedRouteAlone NewAppsReachable SoleHostRoutesMapped
PROPERTIES OthersUntouched KeepsPromise Terminates
\* The command ends.
CHECK_DEADLOCK FALSE
