\* Two runs over a fresh and a used target; the first may be interrupted, two
\* requests fail.
SPECIFICATION FairSpec
CONSTANTS
    default = default  big = big  red = red  blue = blue  green = green
    dev = dev  small = small  other = other
    NoName = NoName
    Names <- MCNames
    DefaultQuota = default
    Quotas <- MCQuotas
    Orgs <- MCOrgs
    SpaceQuotas <- MCSpaceQuotas
    Spaces <- MCSpaces
    InitialTargets <- Targets
    MaxFaults = 2
    MaxRuns = 2
INVARIANTS TypeOK TranslationSound QuotaLossBounded CompleteWhenClean QuotasAssigned
PROPERTIES OnlyTheBackupChanges KeepsPromise Terminates
\* The command ends.
CHECK_DEADLOCK FALSE
