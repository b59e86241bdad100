\* Two runs, a supervisor that may die, hang or send garbage.
CONSTANTS
    r1 = r1
    r2 = r2
    Runs = {r1, r2}
    MaxQueued = 2
    Garbles = TRUE
SPECIFICATION Spec
INVARIANTS Bookkeeping RejectedAfterExit
PROPERTIES LastResponseKept AbortSettles EndSettles
