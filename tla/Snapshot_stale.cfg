\* Two snapshots; one download fails.
SPECIFICATION Spec
CONSTANTS
    web = web  api = api  job = job
    NoFile = NoFile  Torn = Torn
    Apps <- MCApps
    Dockers = {job}
    MaxRuns = 2
    MaxFaults = 1
INVARIANTS NoStaleBits
