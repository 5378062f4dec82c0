\* More meetings due than one fan-out takes.
SPECIFICATION FairSpec
CONSTANTS
    Sessions = {s1, s2}
    Meetings = {m1, m2}
    CalendarMeetings = {m1, m2}
    Bots = {b1}
    StartCalls = {c1}
    StopCalls = {}
    Ticks = {t1}
    Emitted = {"call_ended"}
    NoSession = NoSession
    NoMeeting = NoMeeting
    NoBot = NoBot
    MaxAttempts = 1
    MaxFaults = 0
    FanoutCap = 1
PROPERTIES
    DeferredIsPickedUp
CHECK_DEADLOCK FALSE
