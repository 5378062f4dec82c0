-------------------------- MODULE BotSessionProofs --------------------------
(***************************************************************************)
(* Proofs about BotSession, for any number of sessions, meetings, bots,    *)
(* requests, attempts and faults: its type invariant, its inductive        *)
(* invariant IInv with the safety invariants it contains, the stability of *)
(* its bindings, and that it implements BotBinding.                        *)
(***************************************************************************)
EXTENDS BotSession, TLAPS

\* What _handle_status_change makes of a code (status_map): a session status that
\* is never `scheduled' by a report that the call is over or under way.
LEMMA StatusMapType ==
    ASSUME NEW code \in Codes
    PROVE  /\ StatusMap[code] \in SessionStatus
           /\ StatusMap[code] = "recording" <=> code \in RecordingCodes
           /\ StatusMap[code] = "completed" <=> code \in {"call_ended", "done"}
  BY DEF StatusMap, Codes, SessionStatus, RecordingCodes

\* A step of BotSession is a step of one of its actions, whose parameters have
\* their types.
LEMMA NextCases ==
    ASSUME Next
    PROVE  \/ \E s \in Sessions :
                CreateBotSession(s) \/ CancelBotSession(s) \/ DispatchByHand(s)
           \/ \E m \in CalendarMeetings :
                ToggleMeetingBot(m) \/ ListLiveSessions(m) \/ LeaveWindow(m)
           \/ \E t \in Ticks : \/ AutoScheduleRead(t) \/ AutoScheduleCommit(t)
                               \/ AutoScheduleReplyLost(t) \/ FanOut(t)
           \/ \E c \in Calls, s \in Sessions : StartBegin(c, s) \/ StopBegin(c, s)
           \/ \E c \in Calls, b \in Bots : RecallCreatesBot(c, b)
           \/ \E c \in Calls : \/ RecallRejectsBot(c) \/ RecallReplyLost(c)
                               \/ StartFinish(c) \/ StartFail(c)
                               \/ RecallLeaves(c) \/ StopFinish(c)
           \/ \E b \in Bots, code \in Codes : RecallEmits(b, code) \/ StatusChange(b, code)
           \/ \E h \in Bots \X Codes : HandlerFails(h) \/ ReplayBlocked(h) \/ ForgetSeen(h)
           \/ WorkerRestart
  <1>1. CASE User
    BY <1>1 DEF User
  <1>2. CASE \E t \in Ticks : AutoSchedule(t)
    BY <1>2 DEF AutoSchedule
  <1>3. CASE \E c \in StartCalls : StartBot(c)
    BY <1>3 DEF StartBot, Calls
  <1>4. CASE \E c \in StopCalls : StopBot(c)
    BY <1>4 DEF StopBot, Calls
  <1>5. CASE \E b \in Bots, code \in Emitted : Webhook(b, code)
    BY <1>5, ConstantsOK DEF Webhook
  <1>6. CASE WorkerRestart
    BY <1>6
  <1>7. QED
    BY <1>1, <1>2, <1>3, <1>4, <1>5, <1>6 DEF Next

-----------------------------------------------------------------------------
\* The initial states have their types.
LEMMA TypeInit == Init => TypeOK
  BY ConstantsOK DEF Init, TypeOK, Call, CallFields, Idle, Tick, IdleTick, MeetingStatus

\* Every step keeps the types.
LEMMA TypeStep == TypeOK /\ [Next]_vars => TypeOK'
  <1> SUFFICES ASSUME TypeOK, [Next]_vars
               PROVE  TypeOK'
    OBVIOUS
  <1> USE DEF TypeOK, sessionVars, meetingVars, recallVars, inngestVars, Fault, NoFault
  <1>1. ASSUME NEW s \in Sessions,
               CreateBotSession(s) \/ CancelBotSession(s) \/ DispatchByHand(s)
        PROVE  TypeOK'
    BY <1>1, ConstantsOK
    DEF CreateBotSession, CancelBotSession, DispatchByHand, SessionStatus
  <1>2. ASSUME NEW m \in CalendarMeetings,
               ToggleMeetingBot(m) \/ ListLiveSessions(m) \/ LeaveWindow(m)
        PROVE  TypeOK'
    BY <1>2, ConstantsOK DEF ToggleMeetingBot, ListLiveSessions, LeaveWindow
  <1>3. ASSUME NEW t \in Ticks, AutoScheduleRead(t)
        PROVE  TypeOK'
    BY <1>3 DEF AutoScheduleRead, Tick, DueMeetings
  <1>4. ASSUME NEW t \in Ticks, AutoScheduleCommit(t)
        PROVE  TypeOK'
    <2>1. PICK new \in SUBSET {s \in Sessions : status[s] = "none"} :
            \E g \in Bijection(new, tick[t].due) :
              /\ status' = [s \in Sessions |-> IF s \in new THEN "scheduled" ELSE status[s]]
              /\ meetingOf' = [s \in Sessions |-> IF s \in new THEN g[s] ELSE meetingOf[s]]
              /\ tick' = [tick EXCEPT ![t] = [pc |-> "scheduled", due |-> {}, ids |-> new]]
      BY <1>4 DEF AutoScheduleCommit
    <2>2. PICK g \in [new -> tick[t].due] :
            meetingOf' = [s \in Sessions |-> IF s \in new THEN g[s] ELSE meetingOf[s]]
      BY <2>1 DEF Bijection, Injection
    <2>3. tick[t].due \subseteq Meetings
      BY ConstantsOK DEF Tick
    <2>4. meetingOf' \in [Sessions -> Meetings \cup {NoMeeting}]
      BY <2>2, <2>3
    <2>5. status' \in [Sessions -> SessionStatus \cup {"none"}]
      BY <2>1 DEF SessionStatus
    <2>6. tick' \in [Ticks -> Tick]
      BY <2>1 DEF Tick
    <2>7. QED
      BY <1>4, <2>4, <2>5, <2>6 DEF AutoScheduleCommit
  <1>5. ASSUME NEW t \in Ticks, AutoScheduleReplyLost(t) \/ FanOut(t)
        PROVE  TypeOK'
    BY <1>5, ConstantsOK DEF AutoScheduleReplyLost, FanOut, Tick, IdleTick
  <1>6. ASSUME NEW c \in Calls, NEW s \in Sessions, StartBegin(c, s)
        PROVE  TypeOK'
    <2>1. PICK m \in Meetings :
            /\ EnsureMeeting(s, m)
            /\ call' = [call EXCEPT ![c] =
                  [pc |-> "creating", session |-> s, loaded |-> status[s],
                   meeting |-> m, bot |-> NoBot]]
      BY <1>6 DEF StartBegin
    <2>2. call' \in [Calls -> Call]
      <3>1. [pc |-> "creating", session |-> s, loaded |-> status[s],
             meeting |-> m, bot |-> NoBot] \in Call
        BY DEF Call, CallFields
      <3>2. QED
        BY <2>1, <3>1
    <2>3. /\ mstatus' \in [Meetings -> MeetingStatus \cup {"none"}]
          /\ meetingOf' \in [Sessions -> Meetings \cup {NoMeeting}]
      BY <2>1 DEF EnsureMeeting, MeetingStatus
    <2>4. attempts' \in [Sessions -> 0 .. MaxAttempts] /\ faults' \in Nat
      BY <1>6, ConstantsOK DEF StartBegin
    <2>5. QED
      BY <1>6, <2>2, <2>3, <2>4 DEF StartBegin
  <1>7. ASSUME NEW c \in Calls, NEW b \in Bots, RecallCreatesBot(c, b)
        PROVE  TypeOK'
    BY <1>7 DEF RecallCreatesBot, Call, CallFields, Advance
  <1>8. ASSUME NEW c \in Calls, RecallRejectsBot(c) \/ RecallReplyLost(c)
        PROVE  TypeOK'
    <2>1. Advance(call[c], "rejected", NoBot) \in Call
      BY <1>8 DEF RecallRejectsBot, RecallReplyLost, Call, CallFields, Advance
    <2>2. call' = [call EXCEPT ![c] = Advance(call[c], "rejected", NoBot)]
      BY <1>8 DEF RecallRejectsBot, RecallReplyLost
    <2>3. QED
      BY <1>8, <2>1, <2>2 DEF RecallRejectsBot, RecallReplyLost
  <1>9. ASSUME NEW c \in Calls, StartFinish(c)
        PROVE  TypeOK'
    <2> DEFINE s == call[c].session
    <2>1. s \in Sessions /\ call[c].bot \in Bots
      BY <1>9 DEF StartFinish, Call
    <2>2. status' \in [Sessions -> SessionStatus \cup {"none"}]
      BY <1>9, <2>1 DEF StartFinish, Flush, SessionStatus
    <2>3. botOf' \in [Sessions -> Bots \cup {NoBot}]
      BY <1>9, <2>1 DEF StartFinish, RecordBot
    <2>4. call' \in [Calls -> Call]
      BY <1>9 DEF StartFinish, Call, CallFields, Idle
    <2>5. attempts' \in [Sessions -> 0 .. MaxAttempts] /\ faults' \in Nat
      BY <1>9, <2>1, ConstantsOK DEF StartFinish
    <2>6. QED
      BY <1>9, <2>2, <2>3, <2>4, <2>5 DEF StartFinish
  <1>10. ASSUME NEW c \in Calls, StartFail(c)
         PROVE  TypeOK'
    BY <1>10 DEF StartFail, Flush, Call, CallFields, Idle, SessionStatus
  <1>11. ASSUME NEW c \in Calls, NEW s \in Sessions, StopBegin(c, s)
         PROVE  TypeOK'
    BY <1>11 DEF StopBegin, StopStatus, Call, CallFields, SessionStatus
  <1>12. ASSUME NEW c \in Calls, RecallLeaves(c)
         PROVE  TypeOK'
    BY <1>12 DEF RecallLeaves, Call, CallFields, Advance, Codes, Ended
  <1>13. ASSUME NEW c \in Calls, StopFinish(c)
         PROVE  TypeOK'
    BY <1>13 DEF StopFinish, StopStatus, Flush, Call, CallFields, Idle, SessionStatus
  <1>14. ASSUME NEW b \in Bots, NEW code \in Codes, RecallEmits(b, code)
         PROVE  TypeOK'
    BY <1>14 DEF RecallEmits
  <1>15. ASSUME NEW b \in Bots, NEW code \in Codes, StatusChange(b, code)
         PROVE  TypeOK'
    BY <1>15, StatusMapType
    DEF StatusChange, Acknowledge, SessionsForBot, MeetingStatus
  <1>16. ASSUME NEW h \in Bots \X Codes, HandlerFails(h) \/ ReplayBlocked(h) \/ ForgetSeen(h)
         PROVE  TypeOK'
    BY <1>16 DEF HandlerFails, ReplayBlocked, ForgetSeen
  <1>17. ASSUME WorkerRestart
         PROVE  TypeOK'
    BY <1>17 DEF WorkerRestart, Call, CallFields, Idle, Tick, IdleTick
  <1>18. ASSUME UNCHANGED vars
         PROVE  TypeOK'
    BY <1>18 DEF vars
  <1>19. QED
    BY <1>1, <1>2, <1>3, <1>4, <1>5, <1>6, <1>7, <1>8, <1>9, <1>10, <1>11, <1>12,
       <1>13, <1>14, <1>15, <1>16, <1>17, <1>18, NextCases

\* The type invariant holds in every reachable state: in particular the statuses
\* that bots.py, bot_sessions.py and recall_webhooks.py write between them never
\* leave the six values that the frontend distinguishes.
THEOREM TypeCorrect == Spec => []TypeOK
  BY TypeInit, TypeStep, PTL DEF Spec

-----------------------------------------------------------------------------
\* Which actions write which variables.
LEMMA Writers ==
    ASSUME [Next]_vars
    PROVE  /\ \/ UNCHANGED botOf
              \/ \E c \in Calls : StartFinish(c)
           /\ \/ UNCHANGED meetingOf
              \/ \E t \in Ticks : AutoScheduleCommit(t)
              \/ \E c \in Calls, s \in Sessions : StartBegin(c, s)
           /\ \/ UNCHANGED mstatus
              \/ \E c \in Calls, s \in Sessions : StartBegin(c, s)
              \/ \E b \in Bots, code \in Codes : StatusChange(b, code)
           /\ \/ UNCHANGED <<phase, botFor, botMeeting, recorded>> /\ hooks' \subseteq hooks
              \/ \E c \in Calls, b \in Bots : RecallCreatesBot(c, b)
              \/ \E c \in Calls : RecallLeaves(c)
              \/ \E b \in Bots, code \in Codes : RecallEmits(b, code)
           /\ \/ UNCHANGED events
              \/ \E b \in Bots, code \in Codes : StatusChange(b, code)
           /\ \/ UNCHANGED call
              \/ \E c \in Calls, s \in Sessions : StartBegin(c, s) \/ StopBegin(c, s)
              \/ \E c \in Calls, b \in Bots : RecallCreatesBot(c, b)
              \/ \E c \in Calls : RecallRejectsBot(c) \/ RecallReplyLost(c)
              \/ \E c \in Calls : StartFinish(c) \/ StartFail(c) \/ StopFinish(c)
              \/ \E c \in Calls : RecallLeaves(c)
              \/ WorkerRestart
  <1> USE DEF sessionVars, meetingVars, recallVars, inngestVars
  <1>1. CASE UNCHANGED vars
    BY <1>1 DEF vars
  <1>2. CASE \E s \in Sessions :
                CreateBotSession(s) \/ CancelBotSession(s) \/ DispatchByHand(s)
    BY <1>2 DEF CreateBotSession, CancelBotSession, DispatchByHand
  <1>3. CASE \E m \in CalendarMeetings :
                ToggleMeetingBot(m) \/ ListLiveSessions(m) \/ LeaveWindow(m)
    BY <1>3 DEF ToggleMeetingBot, ListLiveSessions, LeaveWindow
  <1>4. CASE \E t \in Ticks : \/ AutoScheduleRead(t) \/ AutoScheduleCommit(t)
                               \/ AutoScheduleReplyLost(t) \/ FanOut(t)
    BY <1>4 DEF AutoScheduleRead, AutoScheduleCommit, AutoScheduleReplyLost, FanOut
  <1>5. CASE \E c \in Calls, s \in Sessions : StartBegin(c, s) \/ StopBegin(c, s)
    BY <1>5 DEF StartBegin, StopBegin
  <1>6. CASE \E c \in Calls, b \in Bots : RecallCreatesBot(c, b)
    BY <1>6 DEF RecallCreatesBot
  <1>7. CASE \E c \in Calls : \/ RecallRejectsBot(c) \/ RecallReplyLost(c)
                               \/ StartFinish(c) \/ StartFail(c)
                               \/ RecallLeaves(c) \/ StopFinish(c)
    BY <1>7 DEF RecallRejectsBot, RecallReplyLost, StartFinish, StartFail, RecallLeaves,
                StopFinish
  <1>8. CASE \E b \in Bots, code \in Codes : RecallEmits(b, code)
    BY <1>8 DEF RecallEmits
  <1>9. CASE \E b \in Bots, code \in Codes : StatusChange(b, code)
    BY <1>9 DEF StatusChange, Acknowledge
  <1>10. CASE \E h \in Bots \X Codes : HandlerFails(h) \/ ReplayBlocked(h) \/ ForgetSeen(h)
    BY <1>10 DEF HandlerFails, ReplayBlocked, ForgetSeen
  <1>11. CASE WorkerRestart
    BY <1>11 DEF WorkerRestart
  <1>12. QED
    BY <1>1, <1>2, <1>3, <1>4, <1>5, <1>6, <1>7, <1>8, <1>9, <1>10, <1>11, NextCases

\* A bot keeps its identity, its end and its recording.
BotsPersist ==
    /\ \A b \in Bots : phase[b] # "none" =>
         /\ phase'[b] # "none"
         /\ botFor'[b] = botFor[b]
         /\ botMeeting'[b] = botMeeting[b]
         /\ phase[b] \in Ended => phase'[b] \in Ended
    /\ recorded \subseteq recorded'

\* What a request under way may rely on across its await: what is bound stays
\* bound, a bot persists, a meeting row stays.
Monotone ==
    /\ \A s \in Sessions : meetingOf[s] # NoMeeting => meetingOf'[s] = meetingOf[s]
    /\ \A s \in Sessions : botOf[s] # NoBot => botOf'[s] # NoBot
    /\ \A m \in Meetings : mstatus[m] # "none" => mstatus'[m] # "none"
    /\ BotsPersist

\* The meeting a run of auto-schedule gives to a session it creates, and that
\* nobody else has touched the session.
LEMMA CommitBinds ==
    ASSUME IInv, NEW t \in Ticks, AutoScheduleCommit(t), NEW s \in Sessions
    PROVE  \/ /\ meetingOf[s] = NoMeeting
              /\ status[s] = "none"
              /\ meetingOf'[s] \in CalendarMeetings
              /\ status'[s] = "scheduled"
           \/ meetingOf'[s] = meetingOf[s] /\ status'[s] = status[s]
  <1>1. PICK new \in SUBSET {r \in Sessions : status[r] = "none"} :
          \E g \in Bijection(new, tick[t].due) :
            /\ status' = [r \in Sessions |-> IF r \in new THEN "scheduled" ELSE status[r]]
            /\ meetingOf' = [r \in Sessions |-> IF r \in new THEN g[r] ELSE meetingOf[r]]
    BY DEF AutoScheduleCommit
  <1>2. PICK g \in [new -> tick[t].due] :
          meetingOf' = [r \in Sessions |-> IF r \in new THEN g[r] ELSE meetingOf[r]]
    BY <1>1 DEF Bijection, Injection
  <1>3. tick[t].due \subseteq CalendarMeetings
    BY DEF IInv, TypeOK, Tick
  <1>4. QED
    BY <1>1, <1>2, <1>3 DEF IInv, OnlyRowsAreUsed

\* The meeting bot_start gives to the session it starts.
LEMMA StartBinds ==
    ASSUME IInv, NEW c \in Calls, NEW s \in Sessions, StartBegin(c, s)
    PROVE  \E m \in Meetings :
             /\ meetingOf' = [meetingOf EXCEPT ![s] = m]
             /\ \/ meetingOf[s] = m /\ mstatus' = mstatus
                \/ /\ meetingOf[s] = NoMeeting
                   /\ mstatus[m] = "none"
                   /\ mstatus' = [mstatus EXCEPT ![m] = "scheduled"]
             /\ call' = [call EXCEPT ![c] =
                    [pc |-> "creating", session |-> s, loaded |-> status[s],
                     meeting |-> m, bot |-> NoBot]]
  <1>1. PICK m \in Meetings :
          /\ EnsureMeeting(s, m)
          /\ call' = [call EXCEPT ![c] =
                [pc |-> "creating", session |-> s, loaded |-> status[s],
                 meeting |-> m, bot |-> NoBot]]
    BY DEF StartBegin
  <1>2. meetingOf[s] # NoMeeting => meetingOf = [meetingOf EXCEPT ![s] = meetingOf[s]]
    BY DEF IInv, TypeOK
  <1>3. QED
    BY <1>1, <1>2 DEF EnsureMeeting

LEMMA MonotoneStep ==
    ASSUME IInv, [Next]_vars
    PROVE  Monotone
  <1> USE DEF IInv, TypeOK
  <1>1. \A s \in Sessions : meetingOf[s] # NoMeeting => meetingOf'[s] = meetingOf[s]
    <2>1. ASSUME NEW t \in Ticks, AutoScheduleCommit(t), NEW s \in Sessions
          PROVE  meetingOf[s] # NoMeeting => meetingOf'[s] = meetingOf[s]
      BY <2>1, CommitBinds
    <2>2. ASSUME NEW c \in Calls, NEW r \in Sessions, StartBegin(c, r), NEW s \in Sessions
          PROVE  meetingOf[s] # NoMeeting => meetingOf'[s] = meetingOf[s]
      BY <2>2, StartBinds
    <2>3. QED
      BY <2>1, <2>2, Writers
  <1>2. \A s \in Sessions : botOf[s] # NoBot => botOf'[s] # NoBot
    <2>1. ASSUME NEW c \in Calls, StartFinish(c), NEW s \in Sessions
          PROVE  botOf[s] # NoBot => botOf'[s] # NoBot
      BY <2>1, ConstantsOK DEF StartFinish, RecordBot, Call
    <2>2. QED
      BY <2>1, Writers
  <1>3. \A m \in Meetings : mstatus[m] # "none" => mstatus'[m] # "none"
    <2>1. ASSUME NEW c \in Calls, NEW s \in Sessions, StartBegin(c, s), NEW m \in Meetings
          PROVE  mstatus[m] # "none" => mstatus'[m] # "none"
      BY <2>1, StartBinds
    <2>2. ASSUME NEW b \in Bots, NEW code \in Codes, StatusChange(b, code), NEW m \in Meetings
          PROVE  mstatus[m] # "none" => mstatus'[m] # "none"
      BY <2>2 DEF StatusChange
    <2>3. QED
      BY <2>1, <2>2, Writers
  <1>4. BotsPersist
    <2>1. ASSUME NEW c \in Calls, NEW b \in Bots, RecallCreatesBot(c, b)
          PROVE  BotsPersist
      BY <2>1 DEF RecallCreatesBot, BotsPersist, Ended
    <2>2. ASSUME NEW c \in Calls, RecallLeaves(c)
          PROVE  BotsPersist
      BY <2>2 DEF RecallLeaves, BotsPersist, Ended
    <2>3. ASSUME NEW b \in Bots, NEW code \in Codes, RecallEmits(b, code)
          PROVE  BotsPersist
      BY <2>3 DEF RecallEmits, Follows, BotsPersist, Ended, Codes
    <2>4. QED
      BY <2>1, <2>2, <2>3, Writers DEF BotsPersist
  <1>5. QED
    BY <1>1, <1>2, <1>3, <1>4 DEF Monotone

-----------------------------------------------------------------------------
\* The initial states satisfy the inductive invariant.
LEMMA InvInit == Init => IInv
  <1> SUFFICES ASSUME Init
               PROVE  IInv
    OBVIOUS
  <1>1. TypeOK
    BY TypeInit
  <1>2. OnlyRowsAreUsed /\ MeetingRowExists /\ FreshBot /\ HooksSound
    BY ConstantsOK DEF Init, OnlyRowsAreUsed, MeetingRowExists, FreshBot, HooksSound, IdleTick
  <1>3. CallsBacked
    BY DEF Init, CallsBacked, CallBacked, Idle
  <1>4. BotMetadataAgrees /\ BotIdOwned /\ LiveSessionIsBacked
    BY DEF Init, BotMetadataAgrees, BotIdOwned, LiveSessionIsBacked
  <1>5. OneSessionPerBotMeeting /\ RecordingWasReported /\ PipelineAfterCall
    BY DEF Init, OneSessionPerBotMeeting, RecordingWasReported, PipelineAfterCall
  <1>6. QED
    BY <1>1, <1>2, <1>3, <1>4, <1>5 DEF IInv

\* The meeting rows that sessions name exist: an insert comes before the link, in
\* bot_start, and nothing deletes a meeting here.
LEMMA MeetingRowStep ==
    ASSUME IInv, [Next]_vars
    PROVE  MeetingRowExists'
  <1> USE ConstantsOK DEF IInv, TypeOK, MeetingRowExists
  <1>1. Monotone
    BY MonotoneStep
  <1>2. \A m \in CalendarMeetings : mstatus'[m] # "none"
    BY <1>1 DEF Monotone
  <1>3. \A s \in Sessions : meetingOf'[s] # NoMeeting => mstatus'[meetingOf'[s]] # "none"
    <2>1. ASSUME NEW t \in Ticks, AutoScheduleCommit(t), NEW s \in Sessions
          PROVE  meetingOf'[s] # NoMeeting => mstatus'[meetingOf'[s]] # "none"
      BY <2>1, <1>1, <1>2, CommitBinds DEF Monotone
    <2>2. ASSUME NEW c \in Calls, NEW r \in Sessions, StartBegin(c, r), NEW s \in Sessions
          PROVE  meetingOf'[s] # NoMeeting => mstatus'[meetingOf'[s]] # "none"
      BY <2>2, <1>1, StartBinds DEF Monotone
    <2>3. CASE UNCHANGED meetingOf
      BY <2>3, <1>1 DEF Monotone
    <2>4. QED
      BY <2>1, <2>2, <2>3, Writers
  <1>4. QED
    BY <1>2, <1>3

\* Recall's metadata is written once, by bot_start, with the meeting it has committed.
LEMMA BotsStep ==
    ASSUME IInv, [Next]_vars
    PROVE  FreshBot' /\ BotMetadataAgrees'
  <1> USE DEF IInv, TypeOK, FreshBot, BotMetadataAgrees
  <1>1. Monotone
    BY MonotoneStep
  <1>2. ASSUME NEW c \in Calls, NEW b \in Bots, RecallCreatesBot(c, b)
        PROVE  FreshBot' /\ BotMetadataAgrees'
    <2>1. /\ call[c].session \in Sessions
          /\ call[c].meeting = meetingOf[call[c].session]
          /\ call[c].meeting \in Meetings
      BY <1>2 DEF RecallCreatesBot, Call, CallsBacked, CallBacked
    <2>2. meetingOf' = meetingOf
      BY <1>2 DEF RecallCreatesBot, sessionVars
    <2>3. QED
      BY <1>2, <2>1, <2>2, ConstantsOK DEF RecallCreatesBot
  <1>3. ASSUME NEW c \in Calls, RecallLeaves(c)
        PROVE  FreshBot' /\ BotMetadataAgrees'
    <2>1. call[c].bot \in Bots /\ phase[call[c].bot] # "none"
      BY <1>3 DEF RecallLeaves, Call, CallsBacked, CallBacked
    <2>2. QED
      BY <1>3, <2>1 DEF RecallLeaves, sessionVars
  <1>4. ASSUME NEW b \in Bots, NEW code \in Codes, RecallEmits(b, code)
        PROVE  FreshBot' /\ BotMetadataAgrees'
    BY <1>4 DEF RecallEmits, sessionVars, Codes
  <1>5. CASE UNCHANGED <<phase, botFor, botMeeting>>
    BY <1>5, <1>1 DEF Monotone
  <1>6. QED
    BY <1>2, <1>3, <1>4, <1>5, Writers

\* A webhook in hand reports a code its bot has reached.
LEMMA HooksStep ==
    ASSUME IInv, [Next]_vars
    PROVE  HooksSound'
  <1> USE DEF IInv, TypeOK, HooksSound
  <1>1. Monotone
    BY MonotoneStep
  <1>2. ASSUME NEW c \in Calls, NEW b \in Bots, RecallCreatesBot(c, b)
        PROVE  HooksSound'
    BY <1>2, <1>1 DEF RecallCreatesBot, Monotone, BotsPersist, Ended
  <1>3. ASSUME NEW c \in Calls, RecallLeaves(c)
        PROVE  HooksSound'
    <2>1. ASSUME NEW b \in Bots, NEW code \in Codes, <<b, code>> \in hooks'
          PROVE  \/ <<b, code>> \in hooks
                 \/ code = "call_ended" /\ phase'[b] = "call_ended"
      <3>1. call[c].bot \in Bots
        BY <1>3 DEF RecallLeaves, Call
      <3>2. CASE /\ phase' = [phase EXCEPT ![call[c].bot] = "call_ended"]
                 /\ hooks' = hooks \cup {<<call[c].bot, "call_ended">>}
        BY <2>1, <3>1, <3>2
      <3>3. CASE UNCHANGED <<phase, hooks>>
        BY <2>1, <3>3
      <3>4. QED
        BY <1>3, <3>2, <3>3 DEF RecallLeaves
    <2>2. recorded' = recorded
      BY <1>3 DEF RecallLeaves
    <2>3. QED
      BY <1>1, <2>1, <2>2 DEF Monotone, BotsPersist, Ended, RecordingCodes
  <1>4. ASSUME NEW b \in Bots, NEW code \in Codes, RecallEmits(b, code)
        PROVE  HooksSound'
    BY <1>4, <1>1 DEF RecallEmits, Monotone, BotsPersist, Ended
  <1>5. CASE UNCHANGED <<phase, botFor, botMeeting, recorded>> /\ hooks' \subseteq hooks
    BY <1>5
  <1>6. QED
    BY <1>2, <1>3, <1>4, <1>5, Writers

\* recall_bot_id is written by bot_start alone, with the bot of its own session.
LEMMA BotIdStep ==
    ASSUME IInv, [Next]_vars
    PROVE  BotIdOwned'
  <1> USE DEF IInv, TypeOK, BotIdOwned
  <1>1. Monotone
    BY MonotoneStep
  <1>2. ASSUME NEW c \in Calls, StartFinish(c)
        PROVE  BotIdOwned'
    <2>1. /\ call[c].session \in Sessions /\ call[c].bot \in Bots
          /\ phase[call[c].bot] # "none" /\ botFor[call[c].bot] = call[c].session
      BY <1>2 DEF StartFinish, Call, CallsBacked, CallBacked
    <2>2. botOf' = [botOf EXCEPT ![call[c].session] = call[c].bot]
      BY <1>2 DEF StartFinish, RecordBot
    <2>3. UNCHANGED <<phase, botFor>>
      BY <1>2 DEF StartFinish, recallVars
    <2>4. QED
      BY <2>1, <2>2, <2>3
  <1>3. CASE UNCHANGED botOf
    BY <1>3, <1>1 DEF Monotone, BotsPersist
  <1>4. QED
    BY <1>2, <1>3, Writers

\* Which actions make a session joining or recording.
LEMMA StatusWriters ==
    ASSUME IInv, [Next]_vars, NEW s \in Sessions
    PROVE  \/ \E c \in Calls : StartFinish(c)
           \/ \E b \in Bots, code \in Codes : StatusChange(b, code)
           \/ status'[s] \notin {"joining", "recording"}
           \/ status'[s] = status[s]
  <1> USE DEF IInv, TypeOK, sessionVars
  <1>1. CASE UNCHANGED vars
    BY <1>1 DEF vars
  <1>2. CASE \E r \in Sessions :
                CreateBotSession(r) \/ CancelBotSession(r) \/ DispatchByHand(r)
    BY <1>2 DEF CreateBotSession, CancelBotSession, DispatchByHand
  <1>3. CASE \E m \in CalendarMeetings :
                ToggleMeetingBot(m) \/ ListLiveSessions(m) \/ LeaveWindow(m)
    BY <1>3 DEF ToggleMeetingBot, ListLiveSessions, LeaveWindow
  <1>4. CASE \E t \in Ticks : \/ AutoScheduleRead(t) \/ AutoScheduleReplyLost(t) \/ FanOut(t)
    BY <1>4 DEF AutoScheduleRead, AutoScheduleReplyLost, FanOut
  <1>5. CASE \E t \in Ticks : AutoScheduleCommit(t)
    BY <1>5, CommitBinds
  <1>6. CASE \E c \in Calls, r \in Sessions : StartBegin(c, r) \/ StopBegin(c, r)
    BY <1>6 DEF StartBegin, StopBegin, StopStatus
  <1>7. CASE \E c \in Calls, b \in Bots : RecallCreatesBot(c, b)
    BY <1>7 DEF RecallCreatesBot
  <1>8. CASE \E c \in Calls : RecallRejectsBot(c) \/ RecallReplyLost(c) \/ RecallLeaves(c)
    BY <1>8 DEF RecallRejectsBot, RecallReplyLost, RecallLeaves
  <1>9. CASE \E c \in Calls : StartFail(c) \/ StopFinish(c)
    BY <1>9 DEF StartFail, StopFinish, Flush, StopStatus
  <1>10. CASE \E b \in Bots, code \in Codes : RecallEmits(b, code)
    BY <1>10 DEF RecallEmits
  <1>11. CASE \E h \in Bots \X Codes : HandlerFails(h) \/ ReplayBlocked(h) \/ ForgetSeen(h)
    BY <1>11 DEF HandlerFails, ReplayBlocked, ForgetSeen
  <1>12. CASE WorkerRestart
    BY <1>12 DEF WorkerRestart
  <1>13. QED
    BY <1>1, <1>2, <1>3, <1>4, <1>5, <1>6, <1>7, <1>8, <1>9, <1>10, <1>11, <1>12, NextCases

\* What a session shows is covered by what it names: joining is written together
\* with recall_bot_id, and a webhook status only for a session that names the bot.
LEMMA LiveStep ==
    ASSUME IInv, [Next]_vars
    PROVE  LiveSessionIsBacked'
  <1> SUFFICES ASSUME NEW s \in Sessions, status'[s] \in {"joining", "recording"}
               PROVE  botOf'[s] # NoBot /\ meetingOf'[s] # NoMeeting
    BY DEF LiveSessionIsBacked
  <1> USE DEF IInv, TypeOK
  <1>1. Monotone
    BY MonotoneStep
  <1>2. CASE status[s] \in {"joining", "recording"}
    BY <1>1, <1>2 DEF LiveSessionIsBacked, Monotone
  <1>3. ASSUME NEW c \in Calls, StartFinish(c), status[s] \notin {"joining", "recording"}
        PROVE  botOf'[s] # NoBot /\ meetingOf'[s] # NoMeeting
    <2>1. /\ call[c].session \in Sessions /\ call[c].bot \in Bots
          /\ meetingOf[call[c].session] # NoMeeting
      BY <1>3, ConstantsOK DEF StartFinish, Call, CallsBacked, CallBacked
    <2>2. s = call[c].session
      BY <1>3 DEF StartFinish
    <2>3. botOf'[s] = call[c].bot /\ meetingOf' = meetingOf
      BY <1>3, <2>1, <2>2 DEF StartFinish, RecordBot
    <2>4. QED
      BY <2>1, <2>2, <2>3, ConstantsOK
  <1>4. ASSUME NEW b \in Bots, NEW code \in Codes, StatusChange(b, code),
               status[s] \notin {"joining", "recording"}
        PROVE  botOf'[s] # NoBot /\ meetingOf'[s] # NoMeeting
    <2>1. botOf[s] = b
      BY <1>4 DEF StatusChange, SessionsForBot
    <2>2. meetingOf[s] # NoMeeting
      BY <2>1, ConstantsOK DEF BotIdOwned, BotMetadataAgrees
    <2>3. QED
      BY <1>4, <2>1, <2>2, ConstantsOK DEF StatusChange
  <1>5. CASE \/ UNCHANGED status
             \/ \E c \in Calls : StartFinish(c)
             \/ \E b \in Bots, code \in Codes : StatusChange(b, code)
             \/ status'[s] \notin {"joining", "recording"}
             \/ status'[s] = status[s]
    BY <1>2, <1>3, <1>4, <1>5
  <1>6. \/ UNCHANGED status
        \/ \E c \in Calls : StartFinish(c)
        \/ \E b \in Bots, code \in Codes : StatusChange(b, code)
        \/ status'[s] \notin {"joining", "recording"}
        \/ status'[s] = status[s]
    BY StatusWriters
  <1>7. QED
    BY <1>5, <1>6

\* A meeting bot_start creates is one session's: the row is new, and a session that
\* has a meeting keeps it.
LEMMA OneSessionStep ==
    ASSUME IInv, [Next]_vars
    PROVE  OneSessionPerBotMeeting'
  <1> USE DEF IInv, TypeOK
  <1>1. Monotone
    BY MonotoneStep
  <1>2. SUFFICES ASSUME NEW m \in Meetings \ CalendarMeetings, mstatus'[m] # "none"
                 PROVE  \E s \in Sessions : /\ meetingOf'[s] = m
                                           /\ \A r \in Sessions : meetingOf'[r] = m => r = s
    BY DEF OneSessionPerBotMeeting
  <1>3. ASSUME mstatus[m] # "none",
               \A r \in Sessions : meetingOf'[r] = m => meetingOf[r] = m
        PROVE  \E s \in Sessions : /\ meetingOf'[s] = m
                                  /\ \A r \in Sessions : meetingOf'[r] = m => r = s
    BY <1>1, <1>3, ConstantsOK DEF OneSessionPerBotMeeting, Monotone
  <1>4. ASSUME NEW c \in Calls, NEW s \in Sessions, StartBegin(c, s)
        PROVE  \E q \in Sessions : /\ meetingOf'[q] = m
                                  /\ \A r \in Sessions : meetingOf'[r] = m => r = q
    <2>1. PICK n \in Meetings :
             /\ meetingOf' = [meetingOf EXCEPT ![s] = n]
             /\ \/ meetingOf[s] = n /\ mstatus' = mstatus
                \/ /\ meetingOf[s] = NoMeeting
                   /\ mstatus[n] = "none"
                   /\ mstatus' = [mstatus EXCEPT ![n] = "scheduled"]
      BY <1>4, StartBinds
    <2>2. CASE meetingOf[s] = n \/ n # m
      <3>1. mstatus[m] # "none"
        BY <1>2, <2>1, <2>2, ConstantsOK
      <3>2. \A r \in Sessions : meetingOf'[r] = m => meetingOf[r] = m
        BY <2>1, <2>2
      <3>3. QED
        BY <1>3, <3>1, <3>2
    <2>3. CASE meetingOf[s] = NoMeeting /\ mstatus[m] = "none" /\ n = m
      BY <2>1, <2>3, ConstantsOK DEF MeetingRowExists
    <2>4. QED
      BY <2>1, <2>2, <2>3
  <1>5. ASSUME NEW t \in Ticks, AutoScheduleCommit(t)
        PROVE  \E q \in Sessions : /\ meetingOf'[q] = m
                                  /\ \A r \in Sessions : meetingOf'[r] = m => r = q
    <2>1. mstatus' = mstatus
      BY <1>5 DEF AutoScheduleCommit, meetingVars
    <2>2. \A r \in Sessions : meetingOf'[r] = m => meetingOf[r] = m
      BY <1>5, CommitBinds
    <2>3. QED
      BY <1>2, <1>3, <2>1, <2>2
  <1>6. ASSUME NEW b \in Bots, NEW code \in Codes, StatusChange(b, code)
        PROVE  \E q \in Sessions : /\ meetingOf'[q] = m
                                  /\ \A r \in Sessions : meetingOf'[r] = m => r = q
    <2>1. meetingOf' = meetingOf
      BY <1>6 DEF StatusChange
    <2>2. mstatus[m] # "none"
      <3>1. CASE mstatus' = mstatus
        BY <1>2, <3>1
      <3>2. CASE \E s \in Sessions : /\ meetingOf[s] # NoMeeting
                                    /\ mstatus' = [mstatus EXCEPT ![meetingOf[s]] = "recording"]
        BY <1>2, <3>2 DEF MeetingRowExists
      <3>3. QED
        BY <1>6, <3>1, <3>2 DEF StatusChange, SessionsForBot
    <2>3. QED
      BY <1>3, <2>1, <2>2
  <1>7. CASE UNCHANGED <<meetingOf, mstatus>>
    BY <1>2, <1>3, <1>7
  <1>8. QED
    BY <1>4, <1>5, <1>6, <1>7, Writers

\* A meeting turns `recording' by a webhook of one of its own bots.
LEMMA RecordingStep ==
    ASSUME IInv, [Next]_vars
    PROVE  RecordingWasReported'
  <1> USE DEF IInv, TypeOK
  <1>1. Monotone
    BY MonotoneStep
  <1>2. SUFFICES ASSUME NEW m \in Meetings, mstatus'[m] = "recording"
                 PROVE  \E b \in recorded' : botMeeting'[b] = m
    BY DEF RecordingWasReported
  <1>3. ASSUME NEW b \in recorded, botMeeting[b] = m
        PROVE  \E a \in recorded' : botMeeting'[a] = m
    <2>1. phase[b] # "none"
      BY <1>3, ConstantsOK DEF FreshBot
    <2>2. QED
      BY <1>1, <1>3, <2>1 DEF Monotone, BotsPersist
  <1>4. CASE mstatus[m] = "recording"
    BY <1>3, <1>4 DEF RecordingWasReported
  <1>5. ASSUME NEW c \in Calls, NEW s \in Sessions, StartBegin(c, s)
        PROVE  mstatus[m] = "recording"
    BY <1>2, <1>5, StartBinds
  <1>6. ASSUME NEW b \in Bots, NEW code \in Codes, StatusChange(b, code),
               mstatus[m] # "recording"
        PROVE  \E a \in recorded' : botMeeting'[a] = m
    <2>1. PICK s \in SessionsForBot(b) :
             mstatus' = IF StatusMap[code] = "recording" /\ meetingOf[s] # NoMeeting
                          THEN [mstatus EXCEPT ![meetingOf[s]] = "recording"]
                          ELSE mstatus
      BY <1>2, <1>6 DEF StatusChange
    <2>2. StatusMap[code] = "recording" /\ meetingOf[s] = m
      BY <1>2, <1>6, <2>1
    <2>3. b \in recorded
      BY <1>6, <2>2, StatusMapType DEF StatusChange, HooksSound
    <2>4. botMeeting[b] = m
      BY <2>1, <2>2, ConstantsOK DEF SessionsForBot, BotIdOwned, BotMetadataAgrees
    <2>5. QED
      BY <1>3, <2>3, <2>4
  <1>7. QED
    BY <1>2, <1>4, <1>5, <1>6, Writers

\* meeting/bot-completed is sent on the report of a bot whose call is over.
LEMMA PipelineStep ==
    ASSUME IInv, [Next]_vars
    PROVE  PipelineAfterCall'
  <1> USE DEF IInv, TypeOK
  <1>1. Monotone
    BY MonotoneStep
  <1>2. SUFFICES ASSUME NEW s \in Sessions, events'[s] > 0
                 PROVE  \E b \in Bots : botFor'[b] = s /\ phase'[b] \in Ended
    BY DEF PipelineAfterCall
  <1>3. ASSUME NEW b \in Bots, botFor[b] = s, phase[b] \in Ended
        PROVE  botFor'[b] = s /\ phase'[b] \in Ended
    BY <1>1, <1>3 DEF Monotone, BotsPersist, Ended
  <1>4. CASE events[s] > 0
    BY <1>3, <1>4 DEF PipelineAfterCall
  <1>5. ASSUME NEW b \in Bots, NEW code \in Codes, StatusChange(b, code), ~(events[s] > 0)
        PROVE  \E a \in Bots : botFor'[a] = s /\ phase'[a] \in Ended
    <2>1. botOf[s] = b /\ StatusMap[code] = "completed" /\ <<b, code>> \in hooks
      <3>1. PICK r \in SessionsForBot(b) :
              events' = IF PipelineDue(r, code) THEN [events EXCEPT ![r] = @ + 1] ELSE events
        BY <1>2, <1>5 DEF StatusChange
      <3>2. r = s /\ PipelineDue(s, code)
        BY <1>2, <1>5, <3>1
      <3>3. QED
        BY <1>5, <3>1, <3>2 DEF PipelineDue, SessionsForBot, StatusChange
    <2>2. phase[b] \in Ended
      BY <2>1, StatusMapType DEF HooksSound, Ended
    <2>3. botFor[b] = s
      BY <2>1, ConstantsOK DEF BotIdOwned
    <2>4. QED
      BY <1>3, <2>2, <2>3
  <1>6. QED
    BY <1>2, <1>4, <1>5, Writers

\* What a request presumes of a row or bot it loaded before its await still holds
\* after it, whatever ran in between.
LEMMA CallPersists ==
    ASSUME IInv, Monotone, NEW c \in Calls, call'[c] = call[c] \/ call'[c] = Idle
    PROVE  CallBacked(call[c])'
  <1>1. CASE call'[c] = Idle
    BY <1>1 DEF CallBacked, Idle
  <1>2. CASE call'[c] = call[c]
    <2>1. call[c] \in Call /\ CallBacked(call[c])
      BY DEF IInv, TypeOK, CallsBacked
    <2>2. call[c].pc \in {"creating", "created", "rejected"} =>
            call[c].meeting = meetingOf'[call[c].session]
      BY <2>1, ConstantsOK DEF Call, CallBacked, Monotone
    <2>3. call[c].pc = "created" =>
            phase'[call[c].bot] # "none" /\ botFor'[call[c].bot] = call[c].session
      BY <2>1 DEF Call, CallBacked, Monotone, BotsPersist
    <2>4. call[c].pc \in {"leaving", "left"} => phase'[call[c].bot] # "none"
      BY <2>1 DEF Call, CallBacked, Monotone, BotsPersist
    <2>5. QED
      BY <1>2, <2>2, <2>3, <2>4 DEF CallBacked
  <1>3. QED
    BY <1>1, <1>2

LEMMA CallsStep ==
    ASSUME IInv, [Next]_vars
    PROVE  CallsBacked'
  <1> SUFFICES ASSUME NEW r \in Calls
               PROVE  CallBacked(call[r])'
    BY DEF CallsBacked
  <1> USE DEF IInv, TypeOK
  <1>1. Monotone
    BY MonotoneStep
  <1>2. CASE call'[r] = call[r] \/ call'[r] = Idle
    BY <1>1, <1>2, CallPersists
  <1>3. ASSUME NEW c \in Calls, NEW s \in Sessions, StartBegin(c, s)
        PROVE  CallBacked(call[r])'
    <2>1. PICK m \in Meetings :
            /\ meetingOf' = [meetingOf EXCEPT ![s] = m]
            /\ call' = [call EXCEPT ![c] =
                  [pc |-> "creating", session |-> s, loaded |-> status[s],
                   meeting |-> m, bot |-> NoBot]]
      BY <1>3, StartBinds
    <2>2. CASE r = c
      BY <2>1, <2>2 DEF CallBacked
    <2>3. CASE r # c
      BY <1>2, <2>1, <2>3
    <2>4. QED
      BY <2>2, <2>3
  <1>4. ASSUME NEW c \in Calls, NEW b \in Bots, RecallCreatesBot(c, b)
        PROVE  CallBacked(call[r])'
    <2>1. CASE r = c
      <3>1. /\ call[c].session \in Sessions
            /\ call[c].meeting = meetingOf[call[c].session]
        BY <1>4 DEF RecallCreatesBot, Call, CallsBacked, CallBacked
      <3>2. call'[c] = Advance(call[c], "created", b)
        BY <1>4 DEF RecallCreatesBot
      <3>3. phase'[b] = "created" /\ botFor'[b] = call[c].session /\ meetingOf' = meetingOf
        BY <1>4 DEF RecallCreatesBot, sessionVars
      <3>4. QED
        BY <2>1, <3>1, <3>2, <3>3 DEF CallBacked, Advance
    <2>2. CASE r # c
      BY <1>2, <1>4, <2>2 DEF RecallCreatesBot
    <2>3. QED
      BY <2>1, <2>2
  <1>5. ASSUME NEW c \in Calls, RecallRejectsBot(c) \/ RecallReplyLost(c)
        PROVE  CallBacked(call[r])'
    <2>1. CASE r = c
      <3>1. call[c].meeting = meetingOf[call[c].session]
        BY <1>5 DEF RecallRejectsBot, RecallReplyLost, CallsBacked, CallBacked
      <3>2. call'[c] = Advance(call[c], "rejected", NoBot) /\ meetingOf' = meetingOf
        BY <1>5 DEF RecallRejectsBot, RecallReplyLost, sessionVars
      <3>3. QED
        BY <2>1, <3>1, <3>2 DEF CallBacked, Advance
    <2>2. CASE r # c
      BY <1>2, <1>5, <2>2 DEF RecallRejectsBot, RecallReplyLost
    <2>3. QED
      BY <2>1, <2>2
  <1>6. ASSUME NEW c \in Calls, StartFinish(c) \/ StartFail(c) \/ StopFinish(c)
        PROVE  CallBacked(call[r])'
    BY <1>2, <1>6 DEF StartFinish, StartFail, StopFinish
  <1>7. ASSUME NEW c \in Calls, NEW s \in Sessions, StopBegin(c, s)
        PROVE  CallBacked(call[r])'
    <2>1. CASE call' = call
      BY <1>2, <2>1
    <2>2. CASE /\ botOf[s] # NoBot
               /\ call' = [call EXCEPT ![c] =
                     [pc |-> "leaving", session |-> s, loaded |-> status[s],
                      meeting |-> NoMeeting, bot |-> botOf[s]]]
      <3>1. phase[botOf[s]] # "none" /\ phase' = phase
        BY <1>7, <2>2 DEF BotIdOwned, StopBegin, recallVars
      <3>2. CASE r = c
        BY <2>2, <3>1, <3>2 DEF CallBacked
      <3>3. CASE r # c
        BY <1>2, <2>2, <3>3
      <3>4. QED
        BY <3>2, <3>3
    <2>3. QED
      BY <1>7, <2>1, <2>2 DEF StopBegin
  <1>8. ASSUME NEW c \in Calls, RecallLeaves(c)
        PROVE  CallBacked(call[r])'
    <2>1. CASE r = c
      <3>1. call[c].bot \in Bots /\ phase[call[c].bot] # "none"
        BY <1>8 DEF RecallLeaves, Call, CallsBacked, CallBacked
      <3>2. call'[c] = Advance(call[c], "left", call[c].bot)
        BY <1>8 DEF RecallLeaves
      <3>3. QED
        BY <1>1, <2>1, <3>1, <3>2 DEF CallBacked, Advance, Monotone, BotsPersist
    <2>2. CASE r # c
      BY <1>2, <1>8, <2>2 DEF RecallLeaves
    <2>3. QED
      BY <2>1, <2>2
  <1>9. CASE WorkerRestart
    BY <1>2, <1>9 DEF WorkerRestart
  <1>10. CASE call' = call
    BY <1>2, <1>10
  <1>11. QED
    BY <1>3, <1>4, <1>5, <1>6, <1>7, <1>8, <1>9, <1>10, Writers

-----------------------------------------------------------------------------
\* A row exists before anything refers to it.
LEMMA OnlyRowsStep ==
    ASSUME IInv, [Next]_vars
    PROVE  OnlyRowsAreUsed'
  <1> USE DEF IInv, TypeOK, OnlyRowsAreUsed, sessionVars, inngestVars
  <1>1. CASE UNCHANGED vars
    BY <1>1 DEF vars
  <1>2. ASSUME NEW s \in Sessions,
               CreateBotSession(s) \/ CancelBotSession(s) \/ DispatchByHand(s)
        PROVE  OnlyRowsAreUsed'
    BY <1>2 DEF CreateBotSession, CancelBotSession, DispatchByHand
  <1>3. ASSUME NEW m \in CalendarMeetings,
               ToggleMeetingBot(m) \/ ListLiveSessions(m) \/ LeaveWindow(m)
        PROVE  OnlyRowsAreUsed'
    BY <1>3 DEF ToggleMeetingBot, ListLiveSessions, LeaveWindow
  <1>4. ASSUME NEW t \in Ticks, AutoScheduleRead(t) \/ AutoScheduleReplyLost(t)
        PROVE  OnlyRowsAreUsed'
    BY <1>4 DEF AutoScheduleRead, AutoScheduleReplyLost, IdleTick
  <1>5. ASSUME NEW t \in Ticks, AutoScheduleCommit(t)
        PROVE  OnlyRowsAreUsed'
    <2>1. PICK new \in SUBSET {r \in Sessions : status[r] = "none"} :
            /\ status' = [r \in Sessions |-> IF r \in new THEN "scheduled" ELSE status[r]]
            /\ tick' = [tick EXCEPT ![t] = [pc |-> "scheduled", due |-> {}, ids |-> new]]
      BY <1>5 DEF AutoScheduleCommit
    <2>2. ASSUME NEW s \in Sessions, status'[s] = "none"
          PROVE  /\ meetingOf'[s] = NoMeeting
                 /\ attempts'[s] = 0
                 /\ \A u \in Ticks : s \notin tick'[u].ids
      <3>1. status[s] = "none" /\ s \notin new
        BY <2>1, <2>2
      <3>2. meetingOf'[s] = NoMeeting
        BY <1>5, <2>2, <3>1, CommitBinds
      <3>3. attempts'[s] = 0
        BY <1>5, <3>1 DEF AutoScheduleCommit
      <3>4. \A u \in Ticks : s \notin tick'[u].ids
        BY <2>1, <3>1
      <3>5. QED
        BY <3>2, <3>3, <3>4
    <2>3. QED
      BY <2>2
  <1>6. ASSUME NEW t \in Ticks, FanOut(t)
        PROVE  OnlyRowsAreUsed'
    BY <1>6 DEF FanOut, IdleTick
  <1>7. ASSUME NEW c \in Calls, NEW s \in Sessions, StartBegin(c, s)
        PROVE  OnlyRowsAreUsed'
    <2>1. PICK m \in Meetings : meetingOf' = [meetingOf EXCEPT ![s] = m]
      BY <1>7, StartBinds
    <2>2. status' = status /\ tick' = tick /\ attempts' = [attempts EXCEPT ![s] = @ - 1]
      BY <1>7 DEF StartBegin
    <2>3. status[s] # "none"
      BY <1>7 DEF StartBegin
    <2>4. QED
      BY <2>1, <2>2, <2>3
  <1>8. ASSUME NEW c \in Calls, NEW b \in Bots, RecallCreatesBot(c, b)
        PROVE  OnlyRowsAreUsed'
    BY <1>8 DEF RecallCreatesBot
  <1>9. ASSUME NEW c \in Calls, RecallRejectsBot(c) \/ RecallReplyLost(c) \/ RecallLeaves(c)
        PROVE  OnlyRowsAreUsed'
    BY <1>9 DEF RecallRejectsBot, RecallReplyLost, RecallLeaves
  <1>10. ASSUME NEW c \in Calls, StartFinish(c)
         PROVE  OnlyRowsAreUsed'
    BY <1>10 DEF StartFinish, Flush
  <1>11. ASSUME NEW c \in Calls, StartFail(c) \/ StopFinish(c)
         PROVE  OnlyRowsAreUsed'
    BY <1>11 DEF StartFail, StopFinish, Flush, StopStatus
  <1>12. ASSUME NEW c \in Calls, NEW s \in Sessions, StopBegin(c, s)
         PROVE  OnlyRowsAreUsed'
    BY <1>12 DEF StopBegin, StopStatus
  <1>13. ASSUME NEW b \in Bots, NEW code \in Codes, RecallEmits(b, code)
         PROVE  OnlyRowsAreUsed'
    BY <1>13 DEF RecallEmits
  <1>14. ASSUME NEW b \in Bots, NEW code \in Codes, StatusChange(b, code)
         PROVE  OnlyRowsAreUsed'
    <2>1. UNCHANGED <<meetingOf, attempts, tick>>
      BY <1>14 DEF StatusChange
    <2>2. \A s \in Sessions : status'[s] = "none" => status[s] = "none"
      BY <1>14, StatusMapType DEF StatusChange, SessionsForBot, SessionStatus
    <2>3. QED
      BY <2>1, <2>2
  <1>15. ASSUME NEW h \in Bots \X Codes, HandlerFails(h) \/ ReplayBlocked(h) \/ ForgetSeen(h)
         PROVE  OnlyRowsAreUsed'
    BY <1>15 DEF HandlerFails, ReplayBlocked, ForgetSeen
  <1>16. ASSUME WorkerRestart
         PROVE  OnlyRowsAreUsed'
    BY <1>16 DEF WorkerRestart, IdleTick
  <1>17. QED
    BY <1>1, <1>2, <1>3, <1>4, <1>5, <1>6, <1>7, <1>8, <1>9, <1>10, <1>11, <1>12,
       <1>13, <1>14, <1>15, <1>16, NextCases

\* Every step keeps the inductive invariant.
LEMMA InvStep == IInv /\ [Next]_vars => IInv'
  <1> SUFFICES ASSUME IInv, [Next]_vars
               PROVE  IInv'
    OBVIOUS
  <1>1. TypeOK'
    BY TypeStep DEF IInv
  <1>2. OnlyRowsAreUsed' /\ MeetingRowExists' /\ CallsBacked' /\ HooksSound'
    BY OnlyRowsStep, MeetingRowStep, CallsStep, HooksStep
  <1>3. FreshBot' /\ BotMetadataAgrees' /\ BotIdOwned'
    BY BotsStep, BotIdStep
  <1>4. LiveSessionIsBacked' /\ OneSessionPerBotMeeting'
    BY LiveStep, OneSessionStep
  <1>5. RecordingWasReported' /\ PipelineAfterCall'
    BY RecordingStep, PipelineStep
  <1>6. QED
    BY <1>1, <1>2, <1>3, <1>4, <1>5 DEF IInv

-----------------------------------------------------------------------------
\* The inductive invariant holds in every reachable state, with any number of
\* overlapping starts, stops, auto-schedule runs, redelivered webhooks and restarts.
THEOREM Invariance == Spec => []IInv
  BY InvInit, InvStep, PTL DEF Spec

\* The meeting in a Recall bot's metadata, which _handle_transcript writes rows to,
\* is always the meeting of the session that bot_start created the bot for.
THEOREM MetadataAgrees == Spec => []BotMetadataAgrees
  <1>1. IInv => BotMetadataAgrees
    BY DEF IInv
  <1>2. QED
    BY Invariance, <1>1, PTL

\* No two sessions name the same Recall bot, and each names one of its own, so the
\* webhook handlers' lookup by recall_bot_id (_session_for_bot) finds one row.
THEOREM BotIdIsUnambiguous ==
    Spec => [](BotIdOwned /\ \A r, s \in Sessions : botOf[r] = botOf[s] /\ botOf[r] # NoBot => r = s)
  <1>1. IInv => BotIdOwned /\ \A r, s \in Sessions : botOf[r] = botOf[s] /\ botOf[r] # NoBot => r = s
    BY DEF IInv, BotIdOwned
  <1>2. QED
    BY Invariance, <1>1, PTL

\* A session that shows a joining or recording bot names a bot and a meeting.
THEOREM LiveSessionsAreBacked == Spec => []LiveSessionIsBacked
  <1>1. IInv => LiveSessionIsBacked
    BY DEF IInv
  <1>2. QED
    BY Invariance, <1>1, PTL

\* However often Inngest calls bot_start, no session gets a second meeting row and
\* no two sessions share a row that bot_start created.
THEOREM MeetingsAreNotShared == Spec => []OneSessionPerBotMeeting
  <1>1. IInv => OneSessionPerBotMeeting
    BY DEF IInv
  <1>2. QED
    BY Invariance, <1>1, PTL

\* A meeting shows `recording' only after one of its own bots has been recording.
THEOREM RecordingIsTruthful == Spec => []RecordingWasReported
  <1>1. IInv => RecordingWasReported
    BY DEF IInv
  <1>2. QED
    BY Invariance, <1>1, PTL

\* The post-call pipeline is never triggered for a session while all of its bots
\* are still in the call.
THEOREM NoEarlyPipeline == Spec => []PipelineAfterCall
  <1>1. IInv => PipelineAfterCall
    BY DEF IInv
  <1>2. QED
    BY Invariance, <1>1, PTL

\* Meetings of sessions and identities of bots never change once they are set.
THEOREM StableBindings == Spec => BindingsAreStable
  <1>1. IInv /\ [Next]_vars =>
          [/\ \A s \in Sessions : meetingOf[s] # NoMeeting => meetingOf'[s] = meetingOf[s]
           /\ \A s \in Sessions : botOf[s] # NoBot => botOf'[s] # NoBot
           /\ \A b \in Bots : phase[b] # "none" =>
                botFor'[b] = botFor[b] /\ botMeeting'[b] = botMeeting[b]]_vars
    BY MonotoneStep DEF Monotone, BotsPersist
  <1>2. QED
    BY Invariance, <1>1, PTL DEF Spec, BindingsAreStable

-----------------------------------------------------------------------------
\* Refinement.  The variables of BotBinding under the mapping of BotSession.
LaunchedMap == [b \in Bots |-> <<botFor[b], botMeeting[b]>>]

\* The initial states of BotSession map to the initial state of BotBinding.
LEMMA BindingInitStep == Init => Binding!BindingInit
  BY DEF Init, Binding!BindingInit, Binding!NotLaunched

\* Every step of BotSession maps to a step of BotBinding or to a stutter.
LEMMA BindingStep ==
    ASSUME IInv, [Next]_vars
    PROVE  [Binding!BindingNext]_(Binding!bindingVars)
  <1> USE DEF IInv, TypeOK, sessionVars, recallVars, Binding!bindingVars
  <1>1. ASSUME NEW c \in Calls, NEW s \in Sessions, StartBegin(c, s)
        PROVE  Binding!Bind
    <2>1. PICK m \in Meetings :
            /\ meetingOf' = [meetingOf EXCEPT ![s] = m]
            /\ meetingOf[s] = m \/ meetingOf[s] = NoMeeting
      BY <1>1, StartBinds
    <2>2. UNCHANGED <<LaunchedMap, botOf>>
      BY <1>1 DEF StartBegin, LaunchedMap
    <2> DEFINE S == {r \in {s} : meetingOf[r] = NoMeeting}
               g == [r \in S |-> m]
    <2>3. S \in SUBSET Sessions /\ (\A r \in S : meetingOf[r] = NoMeeting) /\ g \in [S -> Meetings]
      OBVIOUS
    <2>4. meetingOf' = [r \in Sessions |-> IF r \in S THEN g[r] ELSE meetingOf[r]]
      BY <2>1
    <2> HIDE DEF S, g
    <2>5. QED
      BY <2>2, <2>3, <2>4 DEF Binding!Bind, LaunchedMap
  <1>2. ASSUME NEW t \in Ticks, AutoScheduleCommit(t)
        PROVE  Binding!Bind
    <2>1. PICK new \in SUBSET {r \in Sessions : status[r] = "none"} :
            \E g \in Bijection(new, tick[t].due) :
              meetingOf' = [r \in Sessions |-> IF r \in new THEN g[r] ELSE meetingOf[r]]
      BY <1>2 DEF AutoScheduleCommit
    <2>2. PICK g \in [new -> tick[t].due] :
            meetingOf' = [r \in Sessions |-> IF r \in new THEN g[r] ELSE meetingOf[r]]
      BY <2>1 DEF Bijection, Injection
    <2>3. g \in [new -> Meetings]
      BY <2>2, ConstantsOK DEF Tick
    <2>4. new \in SUBSET Sessions /\ \A r \in new : meetingOf[r] = NoMeeting
      BY DEF OnlyRowsAreUsed
    <2>5. UNCHANGED <<LaunchedMap, botOf>>
      BY <1>2 DEF AutoScheduleCommit, LaunchedMap
    <2>6. QED
      BY <2>2, <2>3, <2>4, <2>5 DEF Binding!Bind, LaunchedMap
  <1>3. ASSUME NEW c \in Calls, NEW b \in Bots, RecallCreatesBot(c, b)
        PROVE  Binding!Launch(b, call[c].session)
    <2>1. /\ call[c].session \in Sessions
          /\ call[c].meeting = meetingOf[call[c].session]
          /\ call[c].meeting # NoMeeting
      BY <1>3, ConstantsOK DEF RecallCreatesBot, Call, CallsBacked, CallBacked
    <2>2. LaunchedMap[b] = <<NoSession, NoMeeting>>
      BY <1>3 DEF RecallCreatesBot, FreshBot, LaunchedMap
    <2>3. LaunchedMap' = [LaunchedMap EXCEPT ![b] = <<call[c].session, call[c].meeting>>]
      BY <1>3 DEF RecallCreatesBot, LaunchedMap
    <2>4. UNCHANGED <<meetingOf, botOf>>
      BY <1>3 DEF RecallCreatesBot
    <2>5. QED
      BY <2>1, <2>2, <2>3, <2>4 DEF Binding!Launch, Binding!NotLaunched, LaunchedMap
  <1>4. ASSUME NEW c \in Calls, StartFinish(c)
        PROVE  Binding!Adopt(call[c].session, call[c].bot)
    <2>1. /\ call[c].bot \in Bots
          /\ phase[call[c].bot] # "none"
          /\ botFor[call[c].bot] = call[c].session
      BY <1>4 DEF StartFinish, Call, CallsBacked, CallBacked
    <2>2. LaunchedMap[call[c].bot] = <<call[c].session, meetingOf[call[c].session]>>
      BY <2>1 DEF BotMetadataAgrees, LaunchedMap
    <2>3. botOf' = [botOf EXCEPT ![call[c].session] = call[c].bot]
      BY <1>4 DEF StartFinish, RecordBot
    <2>4. UNCHANGED <<meetingOf, LaunchedMap>>
      BY <1>4 DEF StartFinish, LaunchedMap
    <2>5. QED
      BY <2>2, <2>3, <2>4 DEF Binding!Adopt, LaunchedMap
  <1>5. CASE UNCHANGED <<meetingOf, botFor, botMeeting, botOf>>
    BY <1>5
  <1>6. ASSUME NEW c \in Calls, RecallLeaves(c)
        PROVE  UNCHANGED <<meetingOf, botFor, botMeeting, botOf>>
    BY <1>6 DEF RecallLeaves
  <1>7. ASSUME NEW b \in Bots, NEW code \in Codes, RecallEmits(b, code)
        PROVE  UNCHANGED <<meetingOf, botFor, botMeeting, botOf>>
    BY <1>7 DEF RecallEmits
  <1>8. ASSUME NEW c \in Calls, StartFinish(c)
        PROVE  Binding!BindingNext
    <2>1. call[c].session \in Sessions /\ call[c].bot \in Bots
      BY <1>8 DEF StartFinish, Call
    <2>2. QED
      BY <1>4, <1>8, <2>1 DEF Binding!BindingNext
  <1>9. ASSUME NEW c \in Calls, NEW b \in Bots, RecallCreatesBot(c, b)
        PROVE  Binding!BindingNext
    <2>1. call[c].session \in Sessions
      BY <1>9 DEF RecallCreatesBot, Call
    <2>2. Binding!Launch(b, call[c].session)
      BY <1>3, <1>9
    <2>3. \E s \in Sessions : Binding!Launch(b, s)
      BY <2>1, <2>2 DEF Binding!Launch
    <2>4. QED
      BY <2>3 DEF Binding!BindingNext
  <1>10. (\E t \in Ticks : AutoScheduleCommit(t)) \/ (\E c \in Calls, s \in Sessions : StartBegin(c, s))
           => Binding!BindingNext
    BY <1>1, <1>2 DEF Binding!BindingNext
  <1>11. QED
    BY <1>5, <1>6, <1>7, <1>8, <1>9, <1>10, Writers

\* BotSession implements BotBinding: a session is bound once, before any bot of its
\* own is launched, and adopts only bots launched for it.
THEOREM Refinement == Spec => ImplementsBinding
  <1>1. Init => Binding!BindingInit
    BY BindingInitStep
  <1>2. IInv /\ [Next]_vars => [Binding!BindingNext]_(Binding!bindingVars)
    BY BindingStep
  <1>3. QED
    BY Invariance, <1>1, <1>2, PTL DEF Spec, ImplementsBinding, Binding!BindingSpec
=============================================================================
