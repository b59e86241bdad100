\* Three processes share two PIDs; each supervisor has a job.
CONSTANTS
    Pids = {p1, p2}
    MaxStarts = 4
    MaxOwners = 1
    MaxJobs = 1
    CanFail = TRUE
SPECIFICATION Spec
CHECK_DEADLOCK FALSE
INVARIANTS RunningUndisturbed NothingStale ReportedIsClean
PROPERTIES ReconcileEnds
