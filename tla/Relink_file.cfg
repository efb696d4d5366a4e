\* Others delete objects and modify one during the crawl; one request may fail.
SPECIFICATION RelinkSpec
CONSTANTS
    orgs = orgs  red = red  blue = blue  green = green  redSpaces = redSpaces
    blueSpaces = blueSpaces  greenDomains = greenDomains  prodDomains = prodDomains
    dev = dev  prod = prod  devApps = devApps  web = web  com = com  quota = quota
    Root = orgs
    Objects <- MCObjects
    Collections <- MCCollections
    Members <- MCMembers
    Links <- MCLinks
    Owner <- MCOwner
    Reads <- MCReads
    Modified <- MCModified
    PageSize = 1
    Depth = 3
    MaxDeletes = 3
    MaxEdits = 1
    MaxFaults = 1
INVARIANTS
    TypeOK Complete TwinsAgree MissedBounded
    RelinkTypeOK Unconfused AncestorsLinked ReadableWhenUndisturbed
PROPERTIES NeverBehind ReadingEnds
\* The reading ends.
CHECK_DEADLOCK FALSE
