\* Does a cancel carry the ID of its run?
CONSTANTS
    r1 = r1
    r2 = r2
    Runs = {r1, r2}
    MaxQueued = 2
    Garbles = FALSE
SPECIFICATION Spec
INVARIANT CancelReusesRunId
