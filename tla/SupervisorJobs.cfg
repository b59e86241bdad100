SPECIFICATION Spec
CONSTANTS
    Ids = {i1, i2}
    Malformed = Malformed
    Payloads <- MCPayloads
    Sent = {"run", "cancel", "shutdown"}
    MaxFrames = 3
    MaxActive = 2
    Limit = 2
    WsUsable = 2
    Faults = {"leak"}
SYMMETRY IdSymmetry
INVARIANTS TypeOK AnsweredOnce AnsweredAfterTeardown NoStrayJob ReservationsMatch CapacityBound CancelJustified CleanEnd
PROPERTIES CancelWins
