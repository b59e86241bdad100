SPECIFICATION Spec
CONSTANTS
    mem = mem
    cpu = cpu
    pids = pids
    Dims = {mem, cpu, pids}
    Metered = {mem, pids}
    Scanned = {pids}
    Width = 64
    MarginNum = 4
    MarginDen = 5
    Jobs = {j1, j2, j3}
    Demands <- MCDemands
    Depth = 3
    Files = {1, 2}
    Bound <- MCBound
    Outside <- MCOutside
    Host <- MCHost
SYMMETRY JobSymmetry
INVARIANTS WithinLimit ReservedIsHeld
PROPERTIES NoOvercommit
