\* One organisation is deleted during the crawl; no request fails.
SPECIFICATION RelinkSpec
CONSTANTS
    orgs = orgs  red = red  blue = blue  green = green  redSpaces = redSpaces
    blueSpaces = blueSpaces  greenDomains = greenDomains  prodDomains = prodDomains
    dev = dev  prod = prod  devApps = devApps  web = web  com = com  quota = quota
    Root = orgs
    Objects <- MCObjects
    Collections <- MCCollections
    Members <- MCMembers
    Links <- MCLinks
    Owner <- MCOwner
    Reads <- MCReads
    Modified <- MCModified
    PageSize = 1
    Depth = 3
    MaxDeletes = 1
    MaxEdits = 0
    MaxFaults = 0
INVARIANTS Readable
\* The reading ends.
CHECK_DEADLOCK FALSE
