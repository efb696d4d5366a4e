\* Two snapshots in one directory, cut off anywhere, with two failures, and
\* restores in between.
SPECIFICATION Spec
CONSTANTS
    web = web  api = api  job = job
    NoFile = NoFile  Torn = Torn
    Apps <- MCApps
    Dockers = {job}
    MaxRuns = 2
    MaxFaults = 2
INVARIANTS TypeOK BitsOrReported RestorableWhenClean
