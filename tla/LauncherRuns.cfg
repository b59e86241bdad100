\* Two streams that together exceed the budget; every error and kill.
CONSTANTS
    stdout = stdout
    stderr = stderr
    Streams = {stdout, stderr}
    Budget = 2
    MaxWritten = 2
    PipeCap = 2
    Workspace = TRUE
    IoErrors = TRUE
SPECIFICATION Spec
INVARIANTS ResultHonest NothingLeft GuestAttached
PROPERTIES LaunchEnds
