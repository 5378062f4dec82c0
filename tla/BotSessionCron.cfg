\* Two overlapping runs of auto-schedule, two sessions for one calendar meeting.
SPECIFICATION Spec
CONSTANTS
    Sessions = {s1, s2}
    Meetings = {m1}
    CalendarMeetings = {m1}
    Bots = {b1, b2}
    StartCalls = {c1}
    StopCalls = {}
    Ticks = {t1, t2}
    Emitted = {"call_ended"}
    NoSession = NoSession
    NoMeeting = NoMeeting
    NoBot = NoBot
    MaxAttempts = 1
    MaxFaults = 1
    FanoutCap = 1
SYMMETRY Symmetry
INVARIANTS
    BotIdOwned
PROPERTIES
    ImplementsBinding
CHECK_DEADLOCK FALSE
