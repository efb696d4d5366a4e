\* One snapshot of a Cloud Controller that lacks objects of some kinds.
SPECIFICATION Spec
CONSTANTS
    web = web  api = api  job = job
    NoFile = NoFile  Torn = Torn
    Apps <- MCApps
    Dockers = {job}
    MaxRuns = 1
    MaxFaults = 0
INVARIANTS NoPanic
