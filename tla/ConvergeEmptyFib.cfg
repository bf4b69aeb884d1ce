SPECIFICATION Spec
CONSTANTS
    StableSamples = 3
    SlowEvery = 5
    RequireQuiet = TRUE
    MaxEarly = 2
    MaxSamples = 7
    MaxUpsets = 1
INVARIANTS
    EmptyFibBlocks
CHECK_DEADLOCK FALSE
