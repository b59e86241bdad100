\* Three runs, two of them with artifacts that do not both fit; two slots.
CONSTANTS
    j1 = j1
    j2 = j2
    j3 = j3
    WithFiles = {j1, j2}
    NoFiles = {j3}
    Jobs <- MCJobs
    Need <- MCNeed
    Usable = 1
    MaxInFlight = 2
    MaxQueue = 1
    Waits = TRUE
    OwnsRoot = FALSE
SPECIFICATION Spec
SYMMETRY JobSymmetry
INVARIANTS Accounting WriterIsAwaited OneSupervisor ClosedIsGone
