SPECIFICATION Spec
CONSTANTS
    Runs = {r1, r2}
    Source = "upload"
    Live = Live
    NoGen = NoGen
    MaxAttempts = 2
    MaxFaults = 0
SYMMETRY Symmetry
INVARIANT FinishedRunIsServed
PROPERTY ImplementsRecord
CHECK_DEADLOCK FALSE
