\* Two organisations with space quotas of one name, nothing fails.
SPECIFICATION Spec
CONSTANTS
    default = default  big = big  red = red  blue = blue  green = green
    dev = dev  small = small  other = other
    NoName = NoName
    Names <- MCNames
    DefaultQuota = default
    Quotas <- MCQuotas
    Orgs <- MCOrgs
    SpaceQuotas <- TwinSpaceQuotas
    Spaces <- TwinSpaces
    InitialTargets <- FreshTarget
    MaxFaults = 0
    MaxRuns = 1
INVARIANTS SpaceQuotasRestored
\* The command ends.
CHECK_DEADLOCK FALSE
