SPECIFICATION Spec
CONSTANTS
    Ids = {i1, i2}
    Malformed = Malformed
    Payloads <- SmallPayload
    Sent = {"health", "run", "cancel", "shutdown", "unknown"}
    MaxFrames = 3
    MaxActive = 1
    Limit = 2
    WsUsable = 2
    Faults = {"crash", "pipe", "stall", "hostkill", "leak"}
SYMMETRY IdSymmetry
INVARIANTS Safety SlotBound
