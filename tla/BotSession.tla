----------------------------- MODULE BotSession -----------------------------
(***************************************************************************)
(* The lifecycle of a meeting bot: rows of meeting_bot_sessions and        *)
(* meetings in the worker's SQLite database, the worker endpoints that     *)
(* write them (backend/app/api/v1/internal/bots.py, recall_webhooks.py,    *)
(* store/bot_sessions.py), the Inngest functions that call those endpoints *)
(* (frontend/src/lib/inngest/functions.ts) and, as environment, Recall.ai. *)
(*                                                                         *)
(* The worker is one asyncio process.  A handler runs without interruption *)
(* up to its next await on the network, so a handler that awaits is split  *)
(* there, and what it read before the await is kept in its `call' record:  *)
(* sessions are created with expire_on_commit=False, so the row is not     *)
(* re-read afterwards, and an attribute assigned the value it was loaded   *)
(* with produces no UPDATE (operator Flush).                               *)
(*                                                                         *)
(* Faults (a lost reply, a timed-out attempt, a failed webhook handler, a  *)
(* failed Inngest send, a worker restart) draw on one budget, MaxFaults.   *)
(***************************************************************************)
EXTENDS Naturals, FiniteSets, Functions

CONSTANTS
    Sessions,           \* ids of meeting_bot_sessions rows
    Meetings,           \* ids of meetings rows
    CalendarMeetings,   \* the meetings a calendar sync has already created
    Bots,               \* ids Recall may give to bots
    StartCalls,         \* /bot/start requests that can be in flight at once
    StopCalls,          \* /bot/stop requests that can be in flight at once
    Ticks,              \* runs of the auto-schedule functions (cron, on demand)
    Emitted,            \* the lifecycle codes Recall reports
    NoSession, NoMeeting, NoBot,
    MaxAttempts,        \* attempts Inngest makes at a step
    MaxFaults,          \* bound on the number of faults
    FanoutCap           \* AUTO_SCHEDULE_FANOUT_CAP

Codes == {"ready", "joining_call", "in_waiting_room", "in_call_not_recording",
          "in_call_recording", "recording_permission_allowed", "call_ended",
          "done", "fatal"}

\* Mutant of StatusMap: Recall's code is stored as it is.
StatusMapRaw == [code \in Codes |-> code]

\* The session status _handle_status_change derives from each code.
StatusMap ==
    [ready                        |-> "scheduled",
     joining_call                 |-> "joining",
     in_waiting_room              |-> "joining",
     in_call_not_recording        |-> "joining",
     in_call_recording            |-> "recording",
     recording_permission_allowed |-> "recording",
     call_ended                   |-> "completed",
     done                         |-> "completed",
     fatal                        |-> "failed"]

ASSUME ConstantsOK ==
    /\ CalendarMeetings \subseteq Meetings
    /\ NoSession \notin Sessions
    /\ NoMeeting \notin Meetings
    /\ NoBot \notin Bots
    /\ Emitted \subseteq Codes /\ "call_ended" \in Emitted
    /\ MaxAttempts \in Nat \ {0}
    /\ MaxFaults \in Nat
    /\ FanoutCap \in Nat \ {0}
    /\ StartCalls \cap StopCalls = {}

VARIABLES
    \* meeting_bot_sessions: status ("none": no such row), meeting_id, recall_bot_id
    status, meetingOf, botOf,
    \* meetings: status ("none": no such row), bot_enabled, and the meetings
    \* whose start lies inside the auto-schedule window
    mstatus, enabled, inWindow,
    \* Recall: last lifecycle code of each bot ("none": no such bot), the session
    \* and meeting in its metadata, the bots that have ever been recording,
    \* and the webhooks it has not yet seen acknowledged
    phase, botFor, botMeeting, recorded, hooks,
    \* _SEEN_WEBHOOK_IDS, restricted to webhooks that may still be redelivered
    seen,
    \* requests in flight in the worker
    call,
    \* Inngest: attempts left for the start-bot run of a session, the runs of
    \* the auto-schedule functions, meeting/bot-completed events per session
    attempts, tick, events,
    \* sessions the frontend's bot switch still has to cancel
    toCancel,
    faults

sessionVars == <<status, meetingOf, botOf>>
meetingVars == <<mstatus, enabled, inWindow>>
recallVars  == <<phase, botFor, botMeeting, recorded, hooks>>
inngestVars == <<attempts, tick, events>>
vars == <<sessionVars, meetingVars, recallVars, seen, call, inngestVars, toCancel, faults>>

-----------------------------------------------------------------------------
SessionStatus == {"scheduled", "joining", "recording", "completed", "failed", "cancelled"}
MeetingStatus == {"scheduled", "uploading", "recording"}
Live    == {"scheduled", "joining", "recording"}
Active  == Live \cup {"completed"}
Ended   == {"call_ended", "done", "fatal"}
Calls   == StartCalls \cup StopCalls

\* A request in flight: what it serves, where it stands, what it has loaded.
CallFields == [pc      : {"idle", "creating", "created", "rejected", "leaving", "left"},
               session : Sessions \cup {NoSession},
               loaded  : SessionStatus \cup {"none"},
               meeting : Meetings \cup {NoMeeting},
               bot     : Bots \cup {NoBot}]

Call == {r \in CallFields :
           /\ r.pc # "idle" => r.session \in Sessions
           /\ r.pc \in {"creating", "created", "rejected"} => r.meeting \in Meetings
           /\ r.pc \in {"created", "leaving", "left"} => r.bot \in Bots}

Idle == [pc |-> "idle", session |-> NoSession, loaded |-> "none",
         meeting |-> NoMeeting, bot |-> NoBot]

\* The same request, further on.
Advance(r, pc, bot) ==
    [pc |-> pc, session |-> r.session, loaded |-> r.loaded, meeting |-> r.meeting, bot |-> bot]

\* A run of autoScheduleDueBots: idle, holding the candidates its worker call
\* has read, or holding the session ids the call returned.
Tick == [pc  : {"idle", "read", "scheduled"},
         due : SUBSET CalendarMeetings,
         ids : SUBSET Sessions]

IdleTick == [pc |-> "idle", due |-> {}, ids |-> {}]

\* SQLAlchemy emits an UPDATE only when an attribute differs from its loaded value.
Flush(loaded, new, stored) == IF new = loaded THEN stored ELSE new

Fault == /\ faults < MaxFaults
         /\ faults' = faults + 1

NoFault == UNCHANGED faults

-----------------------------------------------------------------------------
Init ==
    /\ status     = [s \in Sessions |-> "none"]
    /\ meetingOf  = [s \in Sessions |-> NoMeeting]
    /\ botOf      = [s \in Sessions |-> NoBot]
    /\ mstatus    = [m \in Meetings |-> IF m \in CalendarMeetings THEN "uploading" ELSE "none"]
    /\ enabled    = [m \in Meetings |-> TRUE]
    /\ inWindow   = CalendarMeetings
    /\ phase      = [b \in Bots |-> "none"]
    /\ botFor     = [b \in Bots |-> NoSession]
    /\ botMeeting = [b \in Bots |-> NoMeeting]
    /\ recorded   = {}
    /\ hooks      = {}
    /\ seen       = {}
    /\ call       = [c \in Calls |-> Idle]
    /\ attempts   = [s \in Sessions |-> 0]
    /\ tick       = [t \in Ticks |-> IdleTick]
    /\ events     = [s \in Sessions |-> 0]
    /\ toCancel   = {}
    /\ faults     = 0

-----------------------------------------------------------------------------
\* The store API and the frontend that calls it.

\* POST /bot-sessions: a row without a meeting; nothing else is notified.
CreateBotSession(s) ==
    /\ status[s] = "none"
    /\ status' = [status EXCEPT ![s] = "scheduled"]
    /\ UNCHANGED <<meetingOf, botOf, meetingVars, recallVars, seen, call,
                   inngestVars, toCancel, faults>>

\* POST /bot-sessions/{id}/cancel, by the user or by the bot switch.
CancelBotSession(s) ==
    /\ status[s] # "none"
    /\ status' = [status EXCEPT ![s] = "cancelled"]
    /\ toCancel' = toCancel \ {s}
    /\ UNCHANGED <<meetingOf, botOf, meetingVars, recallVars, seen, call,
                   inngestVars, faults>>

\* useToggleMeetingBot, for a synced meeting: PATCH /meetings/{id} {bot_enabled}.
ToggleMeetingBot(m) ==
    /\ enabled' = [enabled EXCEPT ![m] = ~@]
    /\ UNCHANGED <<sessionVars, mstatus, inWindow, recallVars, seen, call,
                   inngestVars, toCancel, faults>>

\* useToggleMeetingBot, after switching off: list the sessions, cancel the live ones.
ListLiveSessions(m) ==
    /\ ~enabled[m]
    /\ toCancel' = toCancel \cup {s \in Sessions : meetingOf[s] = m /\ status[s] \in Live}
    /\ UNCHANGED <<sessionVars, meetingVars, recallVars, seen, call,
                   inngestVars, faults>>

\* The meeting's start is more than fifteen minutes past.
LeaveWindow(m) ==
    /\ m \in inWindow
    /\ inWindow' = inWindow \ {m}
    /\ UNCHANGED <<sessionVars, mstatus, enabled, recallVars, seen, call,
                   inngestVars, toCancel, faults>>

-----------------------------------------------------------------------------
\* autoScheduleDueBots and its on-demand twin.

Due(m) ==
    /\ m \in inWindow
    /\ enabled[m]
    /\ mstatus[m] = "uploading"
    /\ ~\E s \in Sessions : meetingOf[s] = m /\ status[s] \in Active

DueMeetings == {m \in CalendarMeetings : Due(m)}

\* bot_auto_schedule_due up to its return.  The rows it adds are invisible to
\* other requests until get_db commits them, in the threadpool, after the handler
\* has returned; a second run that reads meanwhile only waits for the writer lock
\* when it inserts, after it has found the meeting due.
AutoScheduleRead(t) ==
    /\ tick[t].pc = "idle"
    /\ DueMeetings # {}
    /\ tick' = [tick EXCEPT ![t] = [pc |-> "read", due |-> DueMeetings, ids |-> {}]]
    /\ UNCHANGED <<sessionVars, meetingVars, recallVars, seen, call,
                   attempts, events, toCancel, faults>>

\* The commit: one scheduled session per meeting found due.  Session ids run
\* out only in the model.
AutoScheduleCommit(t) ==
    /\ tick[t].pc = "read"
    /\ \E new \in SUBSET {s \in Sessions : status[s] = "none"} :
         \E g \in Bijection(new, tick[t].due) :
           /\ status' = [s \in Sessions |-> IF s \in new THEN "scheduled" ELSE status[s]]
           /\ meetingOf' = [s \in Sessions |-> IF s \in new THEN g[s] ELSE meetingOf[s]]
           /\ tick' = [tick EXCEPT ![t] = [pc |-> "scheduled", due |-> {}, ids |-> new]]
    /\ UNCHANGED <<botOf, meetingVars, recallVars, seen, call,
                   attempts, events, toCancel, faults>>

\* The reply of /bot/auto-schedule-due is lost; Inngest calls it afresh.
AutoScheduleReplyLost(t) ==
    /\ tick[t].pc = "scheduled"
    /\ Fault
    /\ tick' = [tick EXCEPT ![t] = IdleTick]
    /\ UNCHANGED <<sessionVars, meetingVars, recallVars, seen, call,
                   attempts, events, toCancel>>

\* step.sendEvent: bot/scheduled for the first FanoutCap of the sessions returned.
FanOut(t) ==
    /\ tick[t].pc = "scheduled"
    /\ \E batch \in SUBSET tick[t].ids :
         /\ IF Cardinality(tick[t].ids) <= FanoutCap
              THEN batch = tick[t].ids
              ELSE Cardinality(batch) = FanoutCap
         /\ attempts' = [s \in Sessions |-> IF s \in batch THEN MaxAttempts ELSE attempts[s]]
    /\ tick' = [tick EXCEPT ![t] = IdleTick]
    /\ UNCHANGED <<sessionVars, meetingVars, recallVars, seen, call,
                   events, toCancel, faults>>

\* bot/scheduled for a session that has no bot yet.  Nothing in the repository
\* sends it; an operator can, by invoking start-bot from Inngest.
DispatchByHand(s) ==
    /\ status[s] = "scheduled" /\ botOf[s] = NoBot
    /\ attempts[s] = 0 /\ ~\E c \in StartCalls : call[c].session = s
    /\ attempts' = [attempts EXCEPT ![s] = MaxAttempts]
    /\ UNCHANGED <<sessionVars, meetingVars, recallVars, seen, call, tick,
                   events, toCancel, faults>>

-----------------------------------------------------------------------------
\* startBotSession and bot_start.

InFlight(s) == \E c \in StartCalls : call[c].session = s

\* Mutants of EnsureMeeting: the new row is lost because nothing commits it
\* before the await; a row is created even if there is one; the row is created
\* as if the bot were already in the call.
EnsureMeetingUncommitted(s, m) ==
    /\ IF meetingOf[s] = NoMeeting THEN mstatus[m] = "none" ELSE m = meetingOf[s]
    /\ UNCHANGED <<mstatus, meetingOf>>

EnsureMeetingAlways(s, m) ==
    /\ mstatus[m] = "none"
    /\ mstatus' = [mstatus EXCEPT ![m] = "scheduled"]
    /\ meetingOf' = [meetingOf EXCEPT ![s] = m]

EnsureMeetingRecording(s, m) ==
    IF meetingOf[s] = NoMeeting
      THEN /\ mstatus[m] = "none"
           /\ mstatus' = [mstatus EXCEPT ![m] = "recording"]
           /\ meetingOf' = [meetingOf EXCEPT ![s] = m]
      ELSE m = meetingOf[s] /\ UNCHANGED <<mstatus, meetingOf>>

\* The meeting row of a session: bot_start creates it if there is none, and
\* commits it before it awaits Recall.
EnsureMeeting(s, m) ==
    IF meetingOf[s] = NoMeeting
      THEN /\ mstatus[m] = "none"
           /\ mstatus' = [mstatus EXCEPT ![m] = "scheduled"]
           /\ meetingOf' = [meetingOf EXCEPT ![s] = m]
      ELSE m = meetingOf[s] /\ UNCHANGED <<mstatus, meetingOf>>

\* Inngest calls /bot/start.  A retry while an earlier attempt is still running
\* is the fault of a timed-out request.
StartBegin(c, s) ==
    /\ call[c].pc = "idle"
    /\ attempts[s] > 0
    /\ IF InFlight(s) THEN Fault ELSE NoFault
    /\ attempts' = [attempts EXCEPT ![s] = @ - 1]
    /\ \E m \in Meetings :
         /\ EnsureMeeting(s, m)
         /\ call' = [call EXCEPT ![c] =
                [pc |-> "creating", session |-> s, loaded |-> status[s],
                 meeting |-> m, bot |-> NoBot]]
    /\ UNCHANGED <<status, botOf, enabled, inWindow, recallVars, seen,
                   tick, events, toCancel>>

\* POST /bot succeeds at Recall: the bot carries the session and meeting id.
RecallCreatesBot(c, b) ==
    /\ call[c].pc = "creating"
    /\ phase[b] = "none"
    /\ phase' = [phase EXCEPT ![b] = "created"]
    /\ botFor' = [botFor EXCEPT ![b] = call[c].session]
    /\ botMeeting' = [botMeeting EXCEPT ![b] = call[c].meeting]
    /\ call' = [call EXCEPT ![c] = Advance(@, "created", b)]
    /\ UNCHANGED <<sessionVars, meetingVars, recorded, hooks, seen,
                   inngestVars, toCancel, faults>>

\* Recall answers with an error, or cannot be reached.
RecallRejectsBot(c) ==
    /\ call[c].pc = "creating"
    /\ call' = [call EXCEPT ![c] = Advance(@, "rejected", NoBot)]
    /\ UNCHANGED <<sessionVars, meetingVars, recallVars, seen, inngestVars,
                   toCancel, faults>>

\* The bot exists, but the reply does not reach the worker before its timeout.
RecallReplyLost(c) ==
    /\ call[c].pc = "created"
    /\ Fault
    /\ call' = [call EXCEPT ![c] = Advance(@, "rejected", NoBot)]
    /\ UNCHANGED <<sessionVars, meetingVars, recallVars, seen, inngestVars, toCancel>>

\* Mutants of RecordBot: recall_bot_id is not assigned; it is written to every
\* session of the meeting.
RecordBotDropped(s, b) == UNCHANGED botOf

RecordBotByMeeting(s, b) ==
    botOf' = [r \in Sessions |-> IF meetingOf[r] = meetingOf[s] THEN b ELSE botOf[r]]

\* The row names the newest bot, whatever it named before.
RecordBot(s, b) == botOf' = [botOf EXCEPT ![s] = b]

\* bot_start after a successful create; Inngest may fail to see the reply.
StartFinish(c) ==
    LET s == call[c].session IN
    /\ call[c].pc = "created"
    /\ status' = [status EXCEPT ![s] = Flush(call[c].loaded, "joining", @)]
    /\ RecordBot(s, call[c].bot)
    /\ call' = [call EXCEPT ![c] = Idle]
    /\ \/ attempts' = [attempts EXCEPT ![s] = 0] /\ NoFault
       \/ attempts[s] > 0 /\ Fault /\ UNCHANGED attempts
    /\ UNCHANGED <<meetingOf, meetingVars, recallVars, seen, tick, events, toCancel>>

\* Mutant of StartFail: without the commit, get_db rolls `failed' back.
StartFailRolledBack(c) ==
    /\ call[c].pc = "rejected"
    /\ call' = [call EXCEPT ![c] = Idle]
    /\ UNCHANGED <<sessionVars, meetingVars, recallVars, seen, inngestVars,
                   toCancel, faults>>

\* bot_start after a failed create: commit `failed', answer 502, be retried.
StartFail(c) ==
    LET s == call[c].session IN
    /\ call[c].pc = "rejected"
    /\ status' = [status EXCEPT ![s] = Flush(call[c].loaded, "failed", @)]
    /\ call' = [call EXCEPT ![c] = Idle]
    /\ UNCHANGED <<meetingOf, botOf, meetingVars, recallVars, seen, inngestVars,
                   toCancel, faults>>

-----------------------------------------------------------------------------
\* cancelBotSession and bot_stop.  Nothing in the repository sends the event
\* bot/cancelled, so the call comes from the environment.

StopStatus(loaded) ==
    IF loaded \in {"scheduled", "joining"} THEN "cancelled" ELSE "completed"

\* A session without a Recall bot is settled at once; otherwise Recall is asked first.
StopBegin(c, s) ==
    /\ call[c].pc = "idle"
    /\ status[s] # "none"
    /\ \/ /\ botOf[s] = NoBot
          /\ status' = [status EXCEPT ![s] = StopStatus(@)]
          /\ UNCHANGED call
       \/ /\ botOf[s] # NoBot
          /\ call' = [call EXCEPT ![c] =
                [pc |-> "leaving", session |-> s, loaded |-> status[s],
                 meeting |-> NoMeeting, bot |-> botOf[s]]]
          /\ UNCHANGED status
    /\ UNCHANGED <<meetingOf, botOf, meetingVars, recallVars, seen, inngestVars,
                   toCancel, faults>>

\* Recall carries out leave_call (a bot whose call is over answers 404, which
\* leave_bot accepts), or the request fails and the exception is swallowed.
RecallLeaves(c) ==
    /\ call[c].pc = "leaving"
    /\ call' = [call EXCEPT ![c] = Advance(@, "left", @.bot)]
    /\ \/ /\ phase[call[c].bot] \notin Ended
          /\ phase' = [phase EXCEPT ![call[c].bot] = "call_ended"]
          /\ hooks' = hooks \cup {<<call[c].bot, "call_ended">>}
       \/ UNCHANGED <<phase, hooks>>
    /\ UNCHANGED <<sessionVars, meetingVars, botFor, botMeeting, recorded, seen,
                   inngestVars, toCancel, faults>>

\* The rest of bot_stop: the new status follows from the status loaded before the await.
StopFinish(c) ==
    LET s == call[c].session IN
    /\ call[c].pc = "left"
    /\ status' = [status EXCEPT ![s] = Flush(call[c].loaded, StopStatus(call[c].loaded), @)]
    /\ call' = [call EXCEPT ![c] = Idle]
    /\ UNCHANGED <<meetingOf, botOf, meetingVars, recallVars, seen, inngestVars,
                   toCancel, faults>>

-----------------------------------------------------------------------------
\* Recall's bots and their webhooks.

\* Recall's order of the codes up to the end of the call.
Rank ==
    [created                      |-> 0,
     ready                        |-> 1,
     joining_call                 |-> 2,
     in_waiting_room              |-> 3,
     in_call_not_recording        |-> 4,
     recording_permission_allowed |-> 5,
     in_call_recording            |-> 6,
     call_ended                   |-> 7,
     done                         |-> 7,
     fatal                        |-> 7]

RecordingCodes == {"in_call_recording", "recording_permission_allowed"}

\* A bot may skip any code but call_ended before done; it dies only in a call.
Follows(old, new) ==
    \/ old \notin Ended /\ new # "done" /\ Rank[old] < Rank[new]
    \/ old = "call_ended" /\ new = "done"

\* A bot reaches its next lifecycle code and Recall emits the webhook.
RecallEmits(b, code) ==
    /\ phase[b] # "none"
    /\ Follows(phase[b], code)
    /\ phase' = [phase EXCEPT ![b] = code]
    /\ recorded' = IF code \in RecordingCodes THEN recorded \cup {b} ELSE recorded
    /\ hooks' = hooks \cup {<<b, code>>}
    /\ UNCHANGED <<sessionVars, meetingVars, botFor, botMeeting, seen, call,
                   inngestVars, toCancel, faults>>

\* recall_webhook acknowledges a webhook, or the acknowledgement is lost and
\* Recall will redeliver an id that is now in the replay cache.
Acknowledge(h) ==
    \/ hooks' = hooks \ {h} /\ UNCHANGED seen /\ NoFault
    \/ seen' = seen \cup {h} /\ UNCHANGED hooks /\ Fault

SessionsForBot(b) == {s \in Sessions : botOf[s] = b}

\* Mutants of PipelineDue: any in-call report fires the pipeline; it is fired
\* only for a session that was recording.
PipelineDueInCall(s, code) == StatusMap[code] \in {"recording", "completed"}

PipelineDueIfRecording(s, code) == StatusMap[code] = "completed" /\ status[s] = "recording"

\* meeting/bot-completed is sent for every report that the call is over.
PipelineDue(s, code) == StatusMap[code] = "completed" /\ meetingOf[s] # NoMeeting

\* recall_webhook and _handle_status_change for an id that is not a replay.
StatusChange(b, code) ==
    /\ <<b, code>> \in hooks \ seen
    /\ IF SessionsForBot(b) = {}
         THEN /\ UNCHANGED <<status, mstatus, events>>
              /\ Acknowledge(<<b, code>>)
         ELSE \E s \in SessionsForBot(b) :
              /\ status' = [status EXCEPT ![s] = StatusMap[code]]
              /\ mstatus' = IF StatusMap[code] = "recording" /\ meetingOf[s] # NoMeeting
                              THEN [mstatus EXCEPT ![meetingOf[s]] = "recording"]
                              ELSE mstatus
              /\ \/ /\ events' = IF PipelineDue(s, code)
                                   THEN [events EXCEPT ![s] = @ + 1] ELSE events
                    /\ Acknowledge(<<b, code>>)
                 \/ \* send_event logs the failure; the webhook is acknowledged
                    /\ PipelineDue(s, code)
                    /\ UNCHANGED <<events, seen>>
                    /\ hooks' = hooks \ {<<b, code>>}
                    /\ Fault
    /\ UNCHANGED <<meetingOf, botOf, enabled, inWindow, phase, botFor, botMeeting,
                   recorded, call, attempts, tick, toCancel>>

\* The handler raises (database locked, 5xx): rolled back, but _is_replay has
\* already remembered the id.
HandlerFails(h) ==
    /\ h \in hooks \ seen
    /\ Fault
    /\ seen' = seen \cup {h}
    /\ UNCHANGED <<sessionVars, meetingVars, recallVars, call, inngestVars, toCancel>>

\* A redelivery within the cache's lifetime is acknowledged and ignored.
ReplayBlocked(h) ==
    /\ h \in hooks \cap seen
    /\ hooks' = hooks \ {h}
    /\ seen' = seen \ {h}
    /\ UNCHANGED <<sessionVars, meetingVars, phase, botFor, botMeeting, recorded,
                   call, inngestVars, toCancel, faults>>

\* The id expires (_SEEN_TTL_SECONDS) or is evicted (_SEEN_MAX_SIZE).
ForgetSeen(h) ==
    /\ h \in seen
    /\ seen' = seen \ {h}
    /\ UNCHANGED <<sessionVars, meetingVars, recallVars, call, inngestVars,
                   toCancel, faults>>

-----------------------------------------------------------------------------
\* The worker restarts: requests in flight, uncommitted rows and the replay
\* cache are gone, the database stays.
WorkerRestart ==
    /\ Fault
    /\ call' = [c \in Calls |-> Idle]
    /\ tick' = [t \in Ticks |-> IF tick[t].pc = "read" THEN IdleTick ELSE tick[t]]
    /\ seen' = {}
    /\ UNCHANGED <<sessionVars, meetingVars, recallVars, attempts, events, toCancel>>

-----------------------------------------------------------------------------
User ==
    \/ \E s \in Sessions : CreateBotSession(s) \/ CancelBotSession(s) \/ DispatchByHand(s)
    \/ \E m \in CalendarMeetings : ToggleMeetingBot(m) \/ ListLiveSessions(m) \/ LeaveWindow(m)

AutoSchedule(t) ==
    AutoScheduleRead(t) \/ AutoScheduleCommit(t) \/ AutoScheduleReplyLost(t) \/ FanOut(t)

StartBot(c) ==
    \/ \E s \in Sessions : StartBegin(c, s)
    \/ \E b \in Bots : RecallCreatesBot(c, b)
    \/ RecallRejectsBot(c)
    \/ RecallReplyLost(c)
    \/ StartFinish(c)
    \/ StartFail(c)

StopBot(c) ==
    \/ \E s \in Sessions : StopBegin(c, s)
    \/ RecallLeaves(c)
    \/ StopFinish(c)

Webhook(b, code) ==
    \/ RecallEmits(b, code)
    \/ StatusChange(b, code)
    \/ HandlerFails(<<b, code>>)
    \/ ReplayBlocked(<<b, code>>)
    \/ ForgetSeen(<<b, code>>)

Next ==
    \/ User
    \/ \E t \in Ticks : AutoSchedule(t)
    \/ \E c \in StartCalls : StartBot(c)
    \/ \E c \in StopCalls : StopBot(c)
    \/ \E b \in Bots, code \in Emitted : Webhook(b, code)
    \/ WorkerRestart

Spec == Init /\ [][Next]_vars

\* Fairness.  The worker finishes the requests it has begun, Inngest dispatches
\* and retries the attempts it has left, Recall answers, delivers its webhooks
\* until they are acknowledged, and sends `done' once a call has ended.  Users
\* and the calls themselves promise nothing.
FairSpec ==
    /\ Spec
    /\ \A t \in Ticks : WF_vars(AutoScheduleRead(t)) /\ WF_vars(AutoScheduleCommit(t))
                       /\ WF_vars(FanOut(t))
    /\ \A s \in Sessions : WF_vars(\E c \in StartCalls : StartBegin(c, s))
                          /\ WF_vars(s \in toCancel /\ CancelBotSession(s))
    /\ \A c \in StartCalls : /\ WF_vars((\E b \in Bots : RecallCreatesBot(c, b)) \/ RecallRejectsBot(c))
                            /\ WF_vars(StartFinish(c))
                            /\ WF_vars(StartFail(c))
    /\ \A c \in StopCalls : WF_vars(RecallLeaves(c)) /\ WF_vars(StopFinish(c))
    /\ \A b \in Bots : WF_vars("done" \in Emitted /\ RecallEmits(b, "done"))
    /\ \A b \in Bots, code \in Emitted :
         WF_vars(StatusChange(b, code)) /\ WF_vars(ReplayBlocked(<<b, code>>))

-----------------------------------------------------------------------------
(***************************************************************************)
(* Properties                                                              *)
(***************************************************************************)

\* Every variable has its type; in particular a session row only ever holds one
\* of the six statuses the frontend knows (use-bot-sessions.ts).
TypeOK ==
    /\ status \in [Sessions -> SessionStatus \cup {"none"}]
    /\ meetingOf \in [Sessions -> Meetings \cup {NoMeeting}]
    /\ botOf \in [Sessions -> Bots \cup {NoBot}]
    /\ mstatus \in [Meetings -> MeetingStatus \cup {"none"}]
    /\ enabled \in [Meetings -> BOOLEAN]
    /\ inWindow \subseteq CalendarMeetings
    /\ phase \in [Bots -> Codes \cup {"none", "created"}]
    /\ botFor \in [Bots -> Sessions \cup {NoSession}]
    /\ botMeeting \in [Bots -> Meetings \cup {NoMeeting}]
    /\ recorded \subseteq Bots
    /\ hooks \subseteq Bots \X Codes
    /\ seen \subseteq Bots \X Codes
    /\ call \in [Calls -> Call]
    /\ attempts \in [Sessions -> 0 .. MaxAttempts]
    /\ tick \in [Ticks -> Tick]
    /\ events \in [Sessions -> Nat]
    /\ toCancel \subseteq Sessions
    /\ faults \in Nat

\* The meeting a bot carries in its metadata is the meeting of the session it
\* was created for, whatever retries, timeouts and restarts of bot_start came
\* between: live transcript rows land in the meeting the session shows.
BotMetadataAgrees ==
    \A b \in Bots : phase[b] # "none" =>
        /\ botFor[b] \in Sessions
        /\ botMeeting[b] = meetingOf[botFor[b]]
        /\ botMeeting[b] # NoMeeting

\* recall_bot_id names a bot Recall created for that very session, so that the
\* lookup by bot id in the webhook handlers (_session_for_bot) is unambiguous.
BotIdOwned ==
    \A s \in Sessions : botOf[s] # NoBot =>
        phase[botOf[s]] # "none" /\ botFor[botOf[s]] = s

\* A session that shows a bot joining or recording has a Recall bot that
\* /bot/stop can address and a meeting row that live transcripts can land in.
LiveSessionIsBacked ==
    \A s \in Sessions : status[s] \in {"joining", "recording"} =>
        botOf[s] # NoBot /\ meetingOf[s] # NoMeeting

\* bot_start never creates a second meeting row: a meeting that no calendar
\* sync created belongs to exactly one session.
OneSessionPerBotMeeting ==
    \A m \in Meetings \ CalendarMeetings : mstatus[m] # "none" =>
        \E s \in Sessions : /\ meetingOf[s] = m
                           /\ \A r \in Sessions : meetingOf[r] = m => r = s

\* The Live tab is truthful: a meeting turns `recording' only if one of its own
\* bots has been recording (bot_start leaves it at `scheduled' or `uploading').
RecordingWasReported ==
    \A m \in Meetings : mstatus[m] = "recording" =>
        \E b \in recorded : botMeeting[b] = m

\* The post-call pipeline (/bot/finalize and after) is triggered only for a
\* session one of whose bots Recall has reported to have left the call.
PipelineAfterCall ==
    \A s \in Sessions : events[s] > 0 =>
        \E b \in Bots : botFor[b] = s /\ phase[b] \in Ended

\* The meeting of a session and the identity of a Recall bot never change once
\* set, and a session never loses its bot id.
BindingsAreStable ==
    [][/\ \A s \in Sessions : meetingOf[s] # NoMeeting => meetingOf'[s] = meetingOf[s]
       /\ \A s \in Sessions : botOf[s] # NoBot => botOf'[s] # NoBot
       /\ \A b \in Bots : phase[b] # "none" =>
            botFor'[b] = botFor[b] /\ botMeeting'[b] = botMeeting[b]]_vars

\* A session handed to Inngest does not stay `scheduled' for ever, as long as
\* there are fewer faults than attempts: it joins, or it is marked failed
\* (bot_start commits `failed' before it raises).
StartIsAnswered ==
    \A s \in Sessions : attempts[s] > 0 ~> status[s] # "scheduled"

\* Without faults, a bot the worker knows of when its call ends gets its
\* post-call pipeline triggered, unless a second start has replaced it.
CallEndTriggersPipeline ==
    \A s \in Sessions, b \in Bots :
        [](/\ botOf[s] = b /\ phase[b] \notin Ended
           /\ <>(phase[b] \in {"call_ended", "done"})
           => <>(events[s] > 0 \/ botOf[s] # b \/ faults > 0))

\* What keeps these invariants inductive: what a row, a request in flight, a run of
\* auto-schedule and a webhook under way may presume.

\* Only rows that exist have a meeting, are returned by auto-schedule or dispatched.
OnlyRowsAreUsed ==
    \A s \in Sessions : status[s] = "none" =>
        /\ meetingOf[s] = NoMeeting
        /\ attempts[s] = 0
        /\ \A t \in Ticks : s \notin tick[t].ids

\* A session's meeting is a row that exists, and so is a synced meeting.
MeetingRowExists ==
    /\ \A m \in CalendarMeetings : mstatus[m] # "none"
    /\ \A s \in Sessions : meetingOf[s] # NoMeeting => mstatus[meetingOf[s]] # "none"

\* Recall knows nothing of a bot it has not created.
FreshBot ==
    \A b \in Bots : phase[b] = "none" => botFor[b] = NoSession /\ botMeeting[b] = NoMeeting

\* A request in flight still serves the session, meeting and bot it has loaded.
CallBacked(r) ==
    /\ r.pc \in {"creating", "created", "rejected"} => r.meeting = meetingOf[r.session]
    /\ r.pc = "created" => phase[r.bot] # "none" /\ botFor[r.bot] = r.session
    /\ r.pc \in {"leaving", "left"} => phase[r.bot] # "none"

CallsBacked == \A c \in Calls : CallBacked(call[c])

\* A webhook reports what its bot has been through.
HooksSound ==
    \A b \in Bots, code \in Codes : <<b, code>> \in hooks =>
        /\ code \in RecordingCodes => b \in recorded
        /\ code \in Ended => phase[b] \in Ended

\* The invariants together, which the steps of the worker, of Inngest and of Recall
\* preserve: meeting, session, bot and webhook stay consistent with one another.
IInv ==
    /\ TypeOK
    /\ OnlyRowsAreUsed
    /\ MeetingRowExists
    /\ FreshBot
    /\ CallsBacked
    /\ HooksSound
    /\ BotMetadataAgrees
    /\ BotIdOwned
    /\ LiveSessionIsBacked
    /\ OneSessionPerBotMeeting
    /\ RecordingWasReported
    /\ PipelineAfterCall

\* The abstract view: see BotBinding.
Binding == INSTANCE BotBinding
    WITH bound    <- meetingOf,
         launched <- [b \in Bots |-> <<botFor[b], botMeeting[b]>>],
         adopted  <- botOf

\* BotSession implements BotBinding: sessions are bound to a meeting once, and
\* before any bot of theirs is launched, and adopt only bots launched for them.
ImplementsBinding == Binding!BindingSpec

(***************************************************************************)
(* What comments of the repository say, and the code does not do           *)
(***************************************************************************)

\* functions.ts: "Anything beyond that is picked up by the next 5-min run": every
\* session the auto-schedule endpoint has created is eventually dispatched.
DeferredIsPickedUp ==
    \A s \in Sessions :
        (\E t \in Ticks : s \in tick[t].ids) ~> (attempts[s] > 0 \/ status[s] # "scheduled")

\* use-meetings.ts: "When turning the bot OFF, also cancel any in-flight bot
\* session for this meeting so a recording bot leaves the call."
SwitchedOffBotLeaves ==
    \A s \in Sessions, b \in Bots :
        (s \in toCancel /\ botOf[s] = b) ~> (phase[b] \in Ended)
=============================================================================
