\* Progress: starts are answered, the end of a call triggers the pipeline.
SPECIFICATION FairSpec
CONSTANTS
    Sessions = {s1}
    Meetings = {m1, m2}
    CalendarMeetings = {}
    Bots = {b1, b2}
    StartCalls = {c1, c2}
    StopCalls = {}
    Ticks = {}
    Emitted = {"in_call_recording", "call_ended", "done"}
    NoSession = NoSession
    NoMeeting = NoMeeting
    NoBot = NoBot
    MaxAttempts = 2
    MaxFaults = 1
    FanoutCap = 1
PROPERTIES
    StartIsAnswered
    CallEndTriggersPipeline
CHECK_DEADLOCK FALSE
