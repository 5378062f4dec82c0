\* One session at a time, two overlapping attempts to start it, faults.
SPECIFICATION Spec
CONSTANTS
    Sessions = {s1}
    Meetings = {m1, m2}
    CalendarMeetings = {}
    Bots = {b1, b2}
    StartCalls = {c1, c2}
    StopCalls = {k1}
    Ticks = {}
    Emitted = {"in_call_recording", "call_ended", "fatal"}
    NoSession = NoSession
    NoMeeting = NoMeeting
    NoBot = NoBot
    MaxAttempts = 2
    MaxFaults = 2
    FanoutCap = 1
SYMMETRY Symmetry
INVARIANTS
    TypeOK
    BotMetadataAgrees
    LiveSessionIsBacked
    OneSessionPerBotMeeting
    RecordingWasReported
    PipelineAfterCall
PROPERTIES
    BindingsAreStable
CHECK_DEADLOCK FALSE
