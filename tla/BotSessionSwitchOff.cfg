\* The bot switch is turned off while a bot records.
SPECIFICATION FairSpec
CONSTANTS
    Sessions = {s1}
    Meetings = {m1}
    CalendarMeetings = {m1}
    Bots = {b1}
    StartCalls = {c1}
    StopCalls = {}
    Ticks = {t1}
    Emitted = {"in_call_recording", "call_ended"}
    NoSession = NoSession
    NoMeeting = NoMeeting
    NoBot = NoBot
    MaxAttempts = 1
    MaxFaults = 0
    FanoutCap = 1
PROPERTIES
    SwitchedOffBotLeaves
CHECK_DEADLOCK FALSE
