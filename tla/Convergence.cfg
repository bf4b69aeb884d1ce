SPECIFICATION Spec
CONSTANTS
    StableSamples = 2
    SlowEvery = 3
    RequireQuiet = TRUE
    MaxEarly = 2
    MaxSamples = 6
    MaxUpsets = 2
INVARIANTS
    TypeOK
    TableHeldStill
    PromptVerdict
    FailureIsExplained
PROPERTY
    ImplementsGate
CHECK_DEADLOCK FALSE
