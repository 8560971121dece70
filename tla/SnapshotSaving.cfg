SPECIFICATION Spec
CONSTANTS
    Requesters = {r1, r2}
    MaxClients = 2
    MaxVersion = 1
    Autosave = TRUE
    None = None
SYMMETRY Symmetry
INVARIANTS AckIsDurable FinalCheckpoint
PROPERTY DurableSpec
