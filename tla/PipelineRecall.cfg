SPECIFICATION FairSpec
CONSTANTS
    Runs = {r1}
    Source = "bot"
    Live = Live
    NoGen = NoGen
    MaxAttempts = 3
    MaxFaults = 2
INVARIANTS TypeOK TranscriptIsWhole AnalyzedHasAnalysis StatusSettles
PROPERTY RunsEnd
CHECK_DEADLOCK FALSE
