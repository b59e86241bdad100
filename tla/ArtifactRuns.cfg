\* Requests of up to two inputs or two outputs; blocks of two bytes.
CONSTANTS
    Requests <- MCRequests
    Lengths = {0, 1, 2}
    Block = 2
    Units <- MCUnits
    Bytes <- MCBytes
    MaxPath = 4
    MaxArtifactFiles = 2
    MaxArtifactBytes = 3
    MinEntries = 2
    MaxArtifactEntries = 3
    MaxArtifactDepth = 1
    MaxMeddling = 1
SPECIFICATION Spec
INVARIANTS WithinBounds RefusalsJustified InputsWhole OutputsHonest FilterMeetsPolicy
