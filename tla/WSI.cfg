SPECIFICATION Spec
CONSTANTS
    Handles = {s1, s2, s3, s4, s5}
    None = None
    Frames = 2
    Images = {i1, i2}
    MaxCommands = 2
    MaxBatches = 1
    AcquireResults = {"success", "outOfDate", "error"}
    InitResults = {"none", "early", "noSurface", "create"}
SYMMETRY Symmetry
INVARIANTS
    WSIInv
    SemaphoresTruthful
    ImagesOwned
    AssertionsHold
