\* Two runs, one with artifacts, through one slot.
CONSTANTS
    j1 = j1
    j2 = j2
    WithFiles = {j1}
    NoFiles = {j2}
    Jobs <- MCJobs
    Need <- MCNeed
    Usable = 1
    MaxInFlight = 1
    MaxQueue = 1
    Waits = TRUE
    OwnsRoot = TRUE
SPECIFICATION Spec
PROPERTIES Settles
