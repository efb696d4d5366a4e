\* Two runs, the first of which may be cut off, with two failing requests.
SPECIFICATION FairSpec
CONSTANTS
    ann = ann  bob = bob  eve = eve  red = red  blue = blue  dev = dev
    com = com  int = int  ssh = ssh  tasks = tasks
    Nameless = Nameless  NoPlace = NoPlace
    UserNames <- MCNames
    Accounts <- MCAccounts
    Orgs <- MCOrgs
    Spaces <- MCSpaces
    OrgOf <- MCOrgOf
    Holders <- MCHolders
    Shared = {com}
    Private = {int}
    OwnerOf <- MCOwnerOf
    Flags <- MCFlags
    Enabled <- MCEnabled
    InitialTargets <- Targets
    MaxFaults = 2
    MaxRuns = 2
INVARIANTS TypeOK RestoredSoFar
PROPERTIES OnlyTheBackupGranted Terminates
\* The command ends.
CHECK_DEADLOCK FALSE
