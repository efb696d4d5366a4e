\* Two runs, cut off anywhere, with two failing requests.
SPECIFICATION FairSpec
CONSTANTS
    public = public  dns = dns  mail = mail  stranger = stranger
    dev = dev  prod = prod
    NoGroup = NoGroup
    Names <- MCNames
    Spaces <- MCSpaces
    Groups <- MCGroups
    SpaceGuid <- MCSpaceGuid
    InitialTargets <- Targets
    MaxFaults = 2
    MaxRuns = 2
INVARIANTS TypeOK GroupsRestored GroupLossBounded
PROPERTIES OthersUntouched Terminates
\* The command ends.
CHECK_DEADLOCK FALSE
