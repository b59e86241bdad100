SPECIFICATION Spec
CONSTANTS
    Ids = {i1}
    Malformed = Malformed
    Payloads <- SmallPayload
    Sent = {"run", "shutdown"}
    MaxFrames = 3
    MaxActive = 1
    Limit = 2
    WsUsable = 2
    Faults = {"crash", "pipe", "stall"}
PROPERTIES ImplementsContract EndsWhenTold NoOrphans
