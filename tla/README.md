# CogniSuite: TLA+ models, checks and proofs

CogniSuite records, transcribes and analyses the meetings of a deal team.  A
Next.js frontend (`frontend/`) talks to one Python worker (`backend/app`), which
owns a SQLite database; Inngest functions (`frontend/src/lib/inngest/functions.ts`)
orchestrate background work by calling the worker's internal endpoints; Recall.ai
runs the meeting bots and reports on them by webhook.  This directory holds
specifications of the parts of that system whose correctness depends on the order
in which things happen.

## 1. Inventory

The worker is a single asyncio process.  An `async def` handler runs without
interruption up to its next `await`; sync handlers run in a thread pool.  The
dependency `get_db` (`backend/app/db/engine.py:103-113`) commits after the handler
has returned, and rolls back if it raised; sessions do not expire their objects on
commit, so a row loaded before an `await` is not read again after it.  SQLite
serialises writers, with a 5 s busy timeout.  Every interleaving that matters
follows from these facts.

| Component | State | Operations | Talks to | What is hard |
|---|---|---|---|---|
| Meeting bots (`internal/bots.py`, `recall_webhooks.py`, `store/bot_sessions.py`, `integrations/recall`) | `meeting_bot_sessions`, `meetings.status`, replay cache | start, stop, auto-schedule, create, cancel, lifecycle webhooks | Recall (HTTP, webhooks), Inngest | stale rows after an await, retried starts, redelivered and reordered webhooks, lost sends, restarts |
| Orchestration (`functions.ts`, `integrations/inngest.py`, `api/inngest/send`) | Inngest runs, their memoised steps | one function per event, cron sweeps | the worker's `/internal/*` | at-least-once steps, two runs of one pipeline, no failure handler |
| Post-meeting pipeline (`internal/transcription.py`, `bot_finalize`, `services/analysis_service.py`, `db/vectors.py`) | transcripts, segments, embeddings, analyses, `meetings.status` | transcribe, finalize, embed, analyze, mark status | Deepgram, embedding and LLM providers | reads before an await and deletes after it, runs that overlap, partial failure |
| Live meeting (`recall_webhooks.py` transcript, participant and chat handlers, `realtime/`, `store/transcripts.py`, `use-live-transcript.ts`, `use-meeting-extras.ts`, the panels) | live segments, participants, chat, subscriber queues, the hooks' hubs in the browser | upsert, publish, subscribe, mount, first fetch, poll, reconnect, unmount | Recall, browser (SSE) | publish before commit, bounded queues that drop, late answers of a hub that is stopped, outages of the stream |
| VDR sharing (`api/v1/cognivault.py`, `partner/`, `use-cognivault.ts`, `cognivault-share-card.tsx`) | `deal_vdr_connections`, `deals.deleted_at`, what each tab's card shows, API keys | connect, callback, switch a category, disconnect, delete the deal, partner reads | CogniVault | handlers that read a row and write it later, stale cards, concurrent connects, revocation against later reads |
| OAuth credentials (`services/oauth_tokens.py`, `api/v1/integrations.py`) | `integration_credentials`, provider tokens | connect, refresh, disconnect | Google, Microsoft, Zoom, Slack | two refreshes with rotating tokens, a refresh racing a disconnect |
| Calendar sync (`internal/calendar.py`, `_common.py`) | synced meetings, Graph subscriptions | sync, dedupe, ensure subscription | Zoom, Google, Microsoft Graph | syncs of two calendars that overlap, stale rows behind the writer lock, a merge that deletes, subscription expiry |
| Provider webhooks and ingest (`webhooks.py`, `internal/ingest.py`) | replay memory, meetings | Zoom, Teams, Slack events | Zoom, Graph | two senders of `meeting/uploaded` |
| Uploads and files (`store/files.py`, `storage/local.py`, upload hooks) | object files, meeting status | ticket, upload, confirm | browser | confirm without upload |
| Deals, members, documents, organisations (`store/*.py`) | rows of the same names | CRUD, soft delete | - | cascade and scope rules |
| Authentication (`auth/`, `auth_native.py`) | profiles, sessions | sign-up, login, tokens | - | - |
| LLM layer (`llm/`, `qa_service.py`, `deliverable_service.py`) | none | routing, chunking, citations, guardrails | LLM providers | boundaries of chunking |
| User interface (`frontend/src/app`, `components`, `hooks`, `lib/query-client.ts`, `lib/worker-api.ts`) | React Query's cache, the screen, requests under way, the session | show, wait, poll, change, invalidate, tick optimistically, sign in and out | worker API | rows cached under several keys, changes and fetches that cross, rollback of overlapping guesses, retried POSTs, sessions that end with a full cache |
| Marketing pages (`app/page.tsx`, `app/cogniscribe`, `app/cognivault`, `components/cogniscribe`) | a colour theme | none | - | static |

For each component, what makes it correct:

* *Meeting bots*: a session, its meeting and its bot agree whatever request is
  retried; a shown status is backed by a bot; the post-call pipeline runs if and
  only if a call ended; no session waits for ever.
* *Orchestration*: what is scheduled is dispatched; a retried step does not repeat
  an effect that must happen once.
* *Pipeline*: a meeting shown as `analyzed` has a transcript and an analysis; after
  the last run, search finds each current segment once and nothing else.
* *Live meeting*: what is shown is in spoken order, each row once; a meeting that is
  viewed has one stream; the answers of a hub that is stopped reach nobody; the poll
  bridges an outage.
* *User interface*: the user sees his own changes; a guess does not stay unchecked; no
  spinner turns for ever; nobody sees what the former user of the tab fetched.
* *VDR sharing*: a partner reads exactly what the members' last choice shares; a
  disconnected deal is closed to it, whatever else was under way.
* *OAuth*: a disconnected credential does not come back; a refresh never replaces
  a valid token by a dead one.
* *Calendar*: one card for a call that is in two calendars, one for every upcoming
  event; a sync takes back nothing that the user has set.

`PROJECT.json` lists the components with their status and, under `hazards`, what in
this code is hard to test, each at its line with the properties that watch it.

## 2. Plan

Written, in this order: `BotSession` with its abstract specification `BotBinding`;
`MeetingPipeline` with `MeetingRecord`; `CalendarSync`; `LiveFeed`; `Screens` and `Workspace`; `VdrSharing` with
`DataRoom`.
Each has a module of proofs (`MeetingPipelineProofs` and so on).  They are separate
because they meet in few rows: the pipeline begins where `BotSession` emits
`meeting/bot-completed`, the cards of `CalendarSync` are meetings of `BotSession`
(`enabled`, `inWindow`), and `Workspace` sees all of them as versions of rows.

Left, in the order of their worth:

1. A composition of `BotSession` and `MeetingPipeline`: the runs that the first emits
   are the runs of the second.
2. `OAuthTokens`: two refreshes, rotation, disconnect.
3. `Ingest` of Teams recordings, `GraphSubscriptions`, `process_document`, and an analysis
   that a user requests.
4. `Chunker`: the windows of the chunking loop against a reference definition, as a
   recursive function; `ReplayGuard`: the bounded memory of webhook ids.

## 3. Bot sessions

`BotSession.tla` models the rows, the worker's handlers, the Inngest runs that call
them, and Recall as an environment.  A handler that awaits the network is split at
the await: what it loaded is kept in its `call` record.

| Variables | Code |
|---|---|
| `status`, `meetingOf`, `botOf` | `meeting_bot_sessions.status`, `meeting_id`, `recall_bot_id` |
| `mstatus`, `enabled`, `inWindow` | `meetings.status`, `bot_enabled`, `meeting_date` within the auto-schedule window |
| `phase`, `botFor`, `botMeeting`, `recorded`, `hooks` | Recall: what a bot has been through, its metadata, webhooks that wait for an acknowledgement |
| `seen` | `_SEEN_WEBHOOK_IDS` |
| `call`, `attempts`, `tick`, `events`, `toCancel` | requests in flight, attempts of start-bot, runs of auto-schedule, `meeting/bot-completed` events, the sessions the bot switch is about to cancel |

| Actions | Code |
|---|---|
| `CreateBotSession`, `CancelBotSession` | `store/bot_sessions.py` |
| `DispatchByHand` | an operator invokes start-bot for a session from Inngest (nothing in the repository sends the event) |
| `ToggleMeetingBot`, `ListLiveSessions` | `useToggleMeetingBot` in `use-meetings.ts` |
| `AutoScheduleRead`, `AutoScheduleCommit`, `AutoScheduleReplyLost`, `FanOut` | `bot_auto_schedule_due`, `get_db`, `autoScheduleDueBots` and its twin |
| `StartBegin`, `RecallCreatesBot`, `RecallRejectsBot`, `RecallReplyLost`, `StartFinish`, `StartFail` | `bot_start` up to the await, `create_bot`, the rest |
| `StopBegin`, `RecallLeaves`, `StopFinish` | `bot_stop`, `leave_bot` |
| `RecallEmits`, `StatusChange`, `HandlerFails`, `ReplayBlocked`, `ForgetSeen` | Recall, `recall_webhook`, `_handle_status_change`, `_is_replay` |
| `WorkerRestart` | process restart: requests and the replay memory are lost |

`BotBinding.tla` is what the component promises in the abstract: a session is bound
to a meeting once, a bot is launched only for a bound session and carries its
meeting, and a session only adopts a bot that was launched for it.

Abstractions.  `StatusChange` is one step, with its semaphore, its flush, its publication
and its commit: nothing it awaits in between changes what it writes.  The failure of the
database at the beginning of `bot_start` is not told apart from a request that never
arrived.  A restart between the commit of a status and the send that follows it is the
case `send fails` of `StatusChange`.  Participants, chat and segments are left out.

## 4. Post-meeting pipeline

`MeetingPipeline.tla` models the rows of one meeting, any number of runs of the
function that processes it (`process-meeting` if `Source` is "upload",
`process-bot-meeting` if it is "bot"), each step's attempts, and SQLite's writer
lock.  An attempt `<<run, step, number>>` is a request in the worker; the segments it
writes are a *generation* named by it.

| Variables | Code |
|---|---|
| `status` | `meetings.status` |
| `transcript`, `segs`, `partials` | the `transcripts` row, final and partial `transcript_segments` |
| `vecs` | `embeddings` and their vectors: who wrote them, for which generation |
| `analyses`, `newest` | completed `analyses` rows; the newest row, which `GET analyses/latest` returns |
| `done`, `tries` | Inngest: memoised steps, attempts made |
| `pc`, `view`, `prior`, `absent` | where a request stands; the segments it has read, the embeddings it has found to clear, whether it found no `transcripts` row |

| Actions | Code |
|---|---|
| `MarkBegin` | `setMeetingStatus` and `/internal/meeting-status` |
| `PullBegin`, `TranscribeAnswered` | `/internal/transcribe` around Deepgram |
| `PullBegin`, `FinalizeAnswered`, `FinalizeSaves`, `FinalizeNamed` | `/internal/bot/finalize` around Recall: recording, transcript, metadata |
| `EmbedBegin`, `EmbedAnswered` | `/internal/embed` around the embedding provider |
| `AnalyzeBegin`, `AnalyzeAnswered`, `AnalyzeFails` | `run_analysis` around the LLM, inside its transaction |
| `ProviderFails` | a provider's error before anything is written |
| `Flush`, `BusyTimeout` | a handler that blocks the event loop until it gets the writer lock, or `database is locked` |
| `Commit`, `Reply` | `get_db` commits in the thread pool after the reply was sent: either comes first |
| `LateWebhook` | a transcript webhook that is delivered after the call or again: it writes over what is stored of its segment, so that a partial one takes a final text away |
| `WorkerRestart` | requests fail; what was replied to and not committed is `lost` |

`MeetingRecord.tla` is what a reader of the meeting may rely on in the abstract, as if one
request at a time worked on it: a transcription replaces the text as a whole, once, by text
that was not stored before (segments streamed during the call alone come and go); the latest analysis was made from exactly the text that was
stored when it was committed; search finds stored texts only and never loses one; the
meeting is not shown as analyzed without an analysis unless an acknowledged write was lost.
`MeetingPipeline` maps to it by the generations in its rows (`text`, `index`), by what the newest
analysis has read (`report`) and by the attempts whose text has been stored (`used`).

Abstractions.  A meeting is recorded in one way (`Source`): an upload to a meeting that
also had a bot is not modelled.  A mark commits as it takes the lock.  The live segments
are one generation, whatever their text: `Live` is in `segs` as long as one of them is final.  The title that finalize may write counts only as a reason to take the
lock.  Every meeting has a deal (without one, `/internal/embed` answers 400).  Participants,
analysis versions, and limits on concurrency, which change no order that the model forbids,
are left out.  The step named `diarize` does no work and is left out; its mark is a step.

## 5. Calendar sync

`CalendarSync.tla` models the meeting rows that the calendars of one organisation keep.
Each event of a provider's calendar has at most one row (unique index); a Zoom room is
named by the event it was created for.  A sync awaits its provider and then runs in one
piece, except where its first write waits for the writer lock: there the event loop is
blocked, but a user's request in the thread pool may commit.

| Variables | Code |
|---|---|
| `cal` | what the providers' calendars show: of each event its date and link, or nothing |
| `row` | `meetings`: date, join link, `deal_id`, `bot_enabled`, status |
| `wish` | what the users of that row, or of one merged into it, last chose for its bot (history, read by properties only) |
| `sync` | the syncs under way: the provider's answer, the rows the session has loaded, whether it has the writer lock |
| `ingest` | how far the ingest of each Zoom recording is |

| Actions | Code |
|---|---|
| `SyncBegins` | the request, `get_valid_access_token` (which writes a refreshed token and so takes the lock), the provider's answer |
| `SyncLoads`, `SyncWrites`, `SyncTimesOut` | the lookup of the existing rows, the upsert's flush, `database is locked` |
| `SyncCommits` | `_dedupe_zoom_google_rows` and the commit of `get_db`: an UPDATE sets the columns the session has changed, no others |
| `SyncFails` | an error of the provider or a restart: rollback |
| `IngestMatches`, `IngestStores`, `IngestFails` | `zoom_ingest` up to its commit, and around the download |
| `ToggleBot`, `AssignMeeting` | PATCH `/meetings/{id}` from the bot switch and from the dialog, which sends both columns |
| `MeetingProceeds` | a bot or the pipeline moves the status of a meeting that has a deal |
| `EditCalendar` | external: the calendar changes, an event becomes past |

The merge is a set of operators on the rows found at the touched dates: `Canonical` (which
row may survive), `Shadows` (which rows are merged into it), `MergedDeals`, `MergedBot`.
`InheritsOptOut` moves the user's opt-out in `wish` from a shadow to the row that survives, which is
what `_common.py:80-81` promises.
The query has no order, so that any canonical row may be the survivor.

Abstractions.  A date is the string that the provider writes, and rows at equal strings are
merged, as the code compares (`_common.py:95-101`): one moment that is spelled with two
offsets is two dates.  A status is `uploading` or anything later.  All rows that a sync
reads are read at once.  A PATCH is one step, and does not move the date.  The events of a
recurring Zoom meeting, which share one id and hence one row, are one event.  A meeting
that comes from no calendar is left out, although one at the same date string would be
merged too.  An ingest that waits for the lock is not told apart from one that comes later.

## 6. Live feed

`LiveFeed.tla` models what the browser shows of a meeting while it is on.  Three hooks
(transcript, participants, chat) share one design: the first component that uses a hook
starts a *hub*, which fetches the rows stored so far and opens an event stream; while the
stream is down an interval fetches; the last component that leaves stops the hub.  A
behaviour follows one of the three feeds, which differ in `Listed`, `Event` and `Merge`.

| Variables | Code |
|---|---|
| `feed` | which of the hooks is followed |
| `stored`, `writing` | the rows committed; the row that a webhook has flushed and published and not committed |
| `queue` | `PubSub`'s queue of this subscriber |
| `viewers`, `hub`, `streams` | the mounted components, the hook's store (`Hub`), the `EventSource`s not closed |
| `asks` | fetches under way, answered or not, with the mount that asked |

| Actions | Code |
|---|---|
| `WebhookPublishes`, `WebhookCommits`, `WebhookRollsBack` | `_handle_transcript` and its siblings, `PubSub.publish`, `get_db` |
| `Mount`, `Unmount` (`StartHub`, `StopHub`) | `makeSubscribe`, `startHub`, `stopHub` |
| `StreamOpens`, `StreamBreaks`, `StreamDelivers` | `stream_meeting`, the `EventSource` callbacks, `mergeSegment` |
| `PollTick`, `Answers`, `Arrives`, `Refused`, `Unanswered` | the interval, the list endpoints, `fetchAll` |

The worker lists the stored rows in the order of time (`InOrder`), up to the page limit.  A row has
the key by which the browser knows it: `id` when it was fetched (`SegmentResponse` has no
`recall_segment_id`), `segment` when it is a streamed segment (the payload has no `id`), none when it is a
streamed participant or message.  So a streamed segment replaces the version of it that was streamed
before, or goes before the first later row (`MergeSegment`); the same segment, where a fetch brought
it, stays beside it until the next fetch.  A webhook that comes late or again overwrites a segment
(a late partial takes a final one off the endpoint's list) and is published like any other.

Abstractions.  An item's number is its place in time; texts are versions; one tab;
the stream's reconnection is one step; webhooks are applied one at a time, in any order of
the items; of a delivery that is late or repeated `faults` bounds the number, so that the rows come to
rest.  Polls overlap, up to `MaxAsks` fetches under way.  `StopHub` leaves at most one fetch to answer late, and none after the last mount.

## 7. Screens and the workspace

`Screens.tla` lists, as data, what each screen asks of the worker: the queries (cache key,
rows read, the statuses it polls at), the changes (rows written, key prefixes that `onSuccess` invalidates),
and for each component the queries it shows, those it waits for and the changes it offers.
It is translated from the hooks and from every signed-in page.  `Workspace.tla` runs it: the
cache keeps one entry per key and no action relates two entries, so that a behaviour follows
one query, its *focus*, and a screen counts by what it does to it (`Face`).

| Variables | Code |
|---|---|
| `focus`, `face` | the query followed; the screen, as the focus sees it |
| `who`, `alive` | the user who signed in at this tab; whether the worker still knows the session |
| `server`, `status` | the version of the rows, the status they show |
| `cache`, `fetch` | React Query's entry with the status it has read, and its fetch (`query-client.ts`) |
| `pending`, `mine` | the user's changes under way; the version of his last change that must be shown (history) |

| Actions | Code |
|---|---|
| `Navigate`, `GrowsOld`, `Forgotten`, `Polls` | pages and layouts, `staleTime`, `gcTime`, `refetchInterval` |
| `Answers`, `Arrives`, `Fails`, `Refused`, `GuardLeaves` | `worker-api.ts`: the answer, its retries, a 401, the session guard |
| `Expires`, `SignOut`, `SignIn`, `SwitchOrg` | the session, `use-auth`, the login page, the organisation menu |
| `Submit`, `Commits`, `SendAgain`, `Confirm`, `Reject` | a mutation: `mutationFn` and its retry, `onSuccess` with `invalidateQueries`, `onMutate` and `onError` of a tick |
| `OthersChange` | external: other users, Inngest and webhooks write rows |

What React Query itself does is modelled from how the hooks use it and marked external in
`PROJECT.json`.  Rows are told apart where answers tell them apart: `dealName` is what the calendar's
answer joins, `unassigned` the meetings without a deal, `newMeeting` one that no analysis knows of yet.
`Polling` is decided by the status the *cache* has read: by `ACTIVE_PIPELINE_STATUSES` and
`ANALYSIS_IN_FLIGHT` as the hooks list them, and, where a page passes `pollWhileActive`
(`Expecting`), by the absence of any analysis.

Abstractions.  Rows are versions and a status; a query that depends on another is asked as
if that one had been answered; layout, forms and wording are left out, and so is the removal of a query
that is on the screen (switching organisations).  `KnownLags` names the
changes that reach a query they write to only when it has grown stale; `OwnChangeShown` does
not hold them against the code.

## 8. Sharing with the data room

`VdrSharing.tla` models the connection of one deal.  A handler reads the row in one
statement and updates it in another, and the ORM writes the columns that differ from what
was read: each handler is two steps.

| Variables | Code |
|---|---|
| `conn`, `deleted` | the row of `deal_vdr_connections` (status, `share_scopes`), `deals.deleted_at` |
| `call` | connect flows under way and the row that `_upsert_connection` found |
| `card`, `patch`, `ending` | per tab: the connection last fetched, the update and the disconnection under way |
| `chosen`, `emptied`, `cut` | history, read by properties only |

| Actions | Code |
|---|---|
| `ConnectVdr`, `CallbackFinds`, `CallbackSaves`, `CallFails` | the authorize endpoint, the callback, `_upsert_connection` |
| `ShowCard`, `ToggleScope`, `Disconnect` | `use-cognivault.ts`, `cognivault-share-card.tsx` |
| `UpdateFinds`, `UpdateSaves`, `UpdateFails` | `update_share_scopes` |
| `DisconnectFinds`, `DisconnectFindsNone`, `DisconnectSaves`, `DisconnectFails` | `disconnect_vdr` |
| `DeleteDeal` | soft deletion of the deal |
| `ReadableByDeal`, `ReadableByMeeting` | the gate of the partner API: `partner/router.py` |

`DataRoom.tla` is what the members may rely on in the abstract: each request does its work at one
moment.  The door opens to the partner only through a connect flow, once for each, and is shut by a member
who asked for that; the list becomes only what a member asked for, or everything (at the first
connection, or where everything had been withheld); a switch does not move the door.

Abstractions.  Tokens, the data room's id and audit rows are left out; a list of categories is
a set (`Written` allows for its order); a repeated request counts as another tab's; the
partner's own writes and API keys are not modelled.

## 9. Runs

`MCBotSession` and `MCMeetingPipeline` extend the specifications by their symmetry sets.
Liveness is never checked under symmetry.

| Run | Bounds | Shows |
|---|---|---|
| `BotSessionStart` | 1 session, 2 meetings, 2 bots, 2 start and 1 stop requests, 2 attempts, 2 faults | With lost replies, overlapping retries, a stop in between, redelivered and reordered webhooks and restarts: the bot's metadata names the session's meeting, a live session has a bot, no meeting row is made twice, `recording` was reported, the pipeline follows the end of a call, bindings do not change |
| `BotSessionCron` | 2 sessions for 1 calendar meeting, 2 overlapping ticks, 1 fault | Two sessions for one meeting do occur; even so no session takes the other's bot, and every step implements `BotBinding` |
| `BotSessionProgress` | 1 session, 2 attempts, 1 fault, fair | A dispatched session leaves `scheduled`; the end of a call triggers the pipeline |
| `PipelineUpload` | 2 runs, 2 attempts | Overlapping runs replace the text as a whole, the latest analysis is of the stored text, search loses nothing (every step implements `MeetingRecord`); a finished run's transcript is found by search and analysed |
| `PipelineRecall` | 1 run, 3 attempts, 2 faults, fair | The segments are those of one transcription and the status ends as `analyzed`, with attempts that outlive their timeout, failures, restarts, late webhooks; `analyzed` is never shown without an analysis; the run ends, although embed may block the event loop that the holder of the lock needs |
| `CalendarSync` | 1 Zoom and 1 Google event, 1 sync of each at a time, 2 Zoom rooms, 2 dates, 1 deal, 1 change by a user, fair | Overlapping syncs of two calendars, token refreshes, ingests and a user: one card for a call, an assignment and a Zoom row stay, an opt-out stays and goes with its row into the survivor of a merge, and in the end every upcoming event is shown at its date |
| `LiveFeed` | 2 rows, page limit 1, queue of 1, 2 mounts, 2 fetches at once, 1 fault, fair | Components come and go while rows are published, committed, rolled back or sent again, the stream breaks, the queue overflows, polls overlap and answers are late: the transcript is in order, no row of it twice, a streamed segment takes its place in it and touches no other row, one stream is open, a stopped hub's answers are ignored, and the poll bridges an outage |
| `Workspace` | each of the 21 queries in turn, 2 users, 1 change under way, 2 versions, 2 statuses (`transcribing`, which the meeting page polls at, and `diarizing`, at which it does not), fair | On every screen: a confirmed change is shown, a tick is checked, no spinner turns for ever, a page follows the worker as long as it polls, and nobody sees a former user's rows |
| `VdrSharing` | 2 connect flows, 1 tab, 2 categories (one by meeting) | In any order of connecting, switching, disconnecting and deleting, in the middle of one another's handlers: the partner reads what the last choice shares (of a deleted deal, what of it goes by meeting), and nothing after a disconnection; every step implements `DataRoom` |

The bounds are the least at which each hazard happens.  Two of a kind (requests, bots, ticks,
runs, mounts, users, connect flows) make every overlap of two; two attempts make a retry, three a
retry that overlaps a retry; two faults make a fault during the recovery from another.  Each property's mutant
(`PROJECT.json`, `mutants`) is found within the same bounds.  `MaxFaults` bounds lost
replies, failures, timeouts and restarts together, `MaxAttempts` is Inngest's limit,
`FanoutCap` stands for 500.  Counters of events are bounded by what Recall emits.  For
the safety properties that section 12 names the proofs remove the bounds.

`CalendarSync` has one event in each calendar: a choice between several rows of one calendar at
one date is made in the proofs only, and two edits (2 million states without fairness, beyond a
short run) have been checked for safety and found to hold.  In `LiveFeed` a page limit and a queue of 1 with
2 rows make both overflow.  `Workspace` has one slot, so that two ticks that overlap are in the proofs
(`TicksAreChecked` holds for any `Slots`), as are more versions.  `TranscriptIsWhole` and
`StatusSettles` were also checked, without error, with two runs, `ImplementsRecord` with one run of a bot's
meeting, 3 attempts and 2 faults, and `VdrSharing` with 2 tabs (1 category: 1.6 million states; 1 flow: 10.2 million).

`CHECK_DEADLOCK FALSE` is said where the system may stop: in `LiveFeed` everybody has left and
all rows are stored, in `VdrSharing` the deal is deleted and no request is left.  The other
runs say it for their bounds: calls, attempts and edits come to an end.

Three runs show that the code does not do what a comment of the repository says.

| Run | Comment | What happens |
|---|---|---|
| `BotSessionDeferred` | `functions.ts`: what exceeds the cap "is picked up by the next 5-min run" | Its row exists, so the next run skips the meeting |
| `BotSessionSwitchOff` | `use-meetings.ts`: "so a recording bot leaves the call" | The row is cancelled, the bot stays |
| `LiveStreamed` | `use-meeting-extras.ts`: "Live updates arrive on the shared SSE stream" | Events of participants and messages carry no id, the browser takes any two rows without one for the same: the second participant replaces the first, the second message is dropped |

## 10. Other facts met while modelling

What follows has no run.  Each was read in the code, and the models do what the code does.

Comments that the code does not bear out:

* `schedule-bot-dialog.tsx` says that the worker "fires bot/scheduled".  Nothing sends that event; a row
  created by hand (`bot_sessions.py:87`) waits for ever unless somebody invokes the function.
* `recall_webhooks.py:255-258`, a replayed event without a message id "is effectively a no-op", as the
  segments are upserted.  A partial that is delivered again, or late, is written over the final text
  (`recall_webhooks.py:384-386`): the segment is partial again, and what reads the final segments (the
  transcript, embed and analyze) no longer has it.
* `_common.py:80-81`, a user's choice on either row "is preserved on the surviving Zoom row": an opt-out
  that is set while that very sync has the rows loaded and waits for the lock is lost with the shadow, as the merge takes
  the value it has read.  `OptOutStands` excludes it by `SetSince`, and TLC finds it without that.
* `use-meetings.ts:38-41`, "diarizing" was never a status, and `use-meetings.ts:57-59`, the poll is "the sole
  status-progression signal".  The upload pipeline writes `diarizing` (`functions.ts:84-86`) and finalize
  `uploaded`, and neither is in the list.  A page that has read one of them stops polling, and
  shows it until something else makes it fetch.  `PolledFollows` claims nothing at such a status.
* `transcription.py:213`, "Clear prior embeddings for this meeting's segments": they are looked
  up by the ids of the present segments, so those of segments a later transcription has replaced stay.
* `bots.py:431-432`, partials "get replaced by the upsert below": there is no upsert.
  Segments still partial when the call ends stay beside the transcript.
* `calendar.py:197-199` preserves `bot_enabled` against a re-sync.  The shadow of a Zoom meeting is created
  again by each sync of the other calendar, with its bot off if the event has no link; the merge takes that for an
  opt-out and turns off the bot the user has turned on.
* `cognivault.py:111-112`, a reconnect preserves the user's choices: an empty list is
  taken for a first connect, and everything is shared again.  `ChoicesSurvive` excludes it by `emptied`.

Bots and pipeline: a bot that dies leaves its meeting at `recording`.  A start dispatched before a
cancel revives the session (`bots.py:180`).  An Inngest send that fails after the status is
committed is never sent again (`recall_webhooks.py:503`).  A step that exhausts its attempts leaves
the meeting at its last mark.

Calendar: a sync sets a meeting that is already analyzed back to `uploading` as long as the
calendar shows it (`calendar.py:201-203`).  Two syncs of one calendar that overlap (the cron's and the
Refresh button's) while an event is edited twice may write the link that one has read beside the date
that the other has: the second has loaded the row before the first commits, and sets the columns that
differ from it.  Until the next sync there are two cards for the call.  TLC finds it in 19 steps with
`GoogleSyncs = {g1, g2}` and `MaxEdits = 2`.  `OneCardPerCall` is therefore claimed as long as of two
syncs of one calendar none goes on while the other waits for its commit (`NoOverlap`); the run has one
sync of each, the theorem assumes `[]NoOverlap`.  An upsert that changes nothing does not take the
lock, so that the merge after it judges rows as the session has loaded them: when the sync of another calendar
has moved one of them meanwhile, it may delete a card whose date is no longer that of the call.
The next sync of its calendar brings the card back; `OneCardPerCall` forbids two cards, not none.

Sharing: "a deal with no active connection / revoked / soft-deleted" is "404 (invisible)"
(`COGNIVAULT_INTEGRATION.md:115`).  Documents, search and the deal do so; the partner's reads by meeting do not
look at the deal's deletion (`partner/router.py:219-238`), and a deletion leaves the connection
active, so that transcripts and analyses of a deleted deal stay readable.  A switch sends the whole list from the card's last
fetch, so that a second tab, or a second switch before the next fetch, takes back the first.

Live transcript: a segment may show twice.  `mergeSegment` "replaces" a "segment with the same
recall_segment_id" (`use-live-transcript.ts:201-202`), but a fetched segment has only its `id` and a streamed
one only its `recall_segment_id`: when the first fetch, or a poll, brings a segment whose event is still to
come (a webhook publishes before it commits, a queue waits, a final text is delivered again), the event is
inserted beside the fetched row, and nothing removes either while the stream is up.
`SpokenOrder` and `SegmentTakesItsPlace` state what does hold: two rows of a segment at most, one
fetched and one streamed, and a streamed one replaces the streamed one.

Browser: a request without an answer is sent once more, a POST too, although the first may have
committed.  Pages that wait by `isLoading || !data` keep their spinner after a failed load.
Deliverables are kept in the cache alone.  Six pairs of a change and a query are not connected by an
invalidation, so that the change is seen only when the query has grown stale (`KnownLags`): renaming a deal and
confirming an upload do not reach the calendar, the calendar's bot switch does not reach the dashboard's list of
unassigned meetings, and an edit of a meeting, its assignment to a deal and an analysis do not reach the deal's
extractions, which show the titles of its meetings.  An event dropped by a full queue is missing until the next fetch.

## 11. Fairness

`Spec` has none.  `FairSpec` of `BotSession` assumes that Inngest goes on (fan-out, attempts
that are left, and the cancel request of a switch), that the worker finishes a request whose
answer is there, that Recall answers `create_bot` and `leave_bot`, delivers a webhook until it
is acknowledged, and sends `done` after a call has ended.  It does not assume that users act,
that calls begin or end, or that requests survive: faults are possible until their bound.
`FairSpec` of `MeetingPipeline` assumes that Inngest dispatches and retries within its
attempts, that a provider's answer or failure comes (every client has a timeout), that the
event loop runs handlers that may run, that the thread pool commits and that replies arrive.
All of it is weak fairness: nothing relies on winning a race again and again.

`FairSpec` of `CalendarSync` assumes that the cron (every 30 minutes) requests a sync of each
calendar again and again, that a sync which may go on does, and that some day providers and
worker stop failing (`<>[]` of no `SyncFails`).  `SyncLoads` is strongly fair at the moments
when no other sync holds the lock: a sync whose answer arrives while another holds it across
a token refresh fails with a timeout, but a sync lasts seconds and the event loop's queue is
first in, first out, so that it does not meet another's refresh every time.  That user edits
end is their bound.

`LiveFeed` assumes weak fairness of the interval and of the fetches under way: the worker answers, or
the browser handles an answer, of some one of them.  Nothing makes users, the provider or the stream act, and
`BridgeCatchesUp` speaks of the case that the stream never comes back.  `Workspace` assumes that a
fetch ends (the request has a time limit: weak fairness), that the poll's timer fires, and strong fairness of
`Answers`, `Arrives` and `Refused`: a worker that is asked again and again answers at some time.
`SpinnerEnds` needs the first alone.  `VdrSharing` states safety only.

## 12. Proofs

The modules of proofs prove what follows for every value of the constants that satisfies the
assumptions of the modules (distinct sentinels, positive bounds).

**Bot sessions.**  `IInv` is inductive.  To `TypeOK` and the safety properties it adds:
`OnlyRowsAreUsed` (what is dispatched or returned exists), `MeetingRowExists` (so a new meeting
row is nobody's), `FreshBot` (what Recall has not created has no metadata), `CallsBacked` (a
request in flight still serves the session, meeting and bot it has loaded: this carries the
invariant across the await, and holds because bindings never change once they are set) and
`HooksSound` (a webhook reports what its bot has been through).  From it follow
`MetadataAgrees`, `BotIdIsUnambiguous`, `LiveSessionsAreBacked`, `MeetingsAreNotShared`,
`RecordingIsTruthful`, `NoEarlyPipeline`, the action property `StableBindings`, and
`Refinement`: `Spec` implements `BotBinding`, each step being a bind, a launch, an adoption or a
stutter.

**Pipeline.**  The argument has five layers.

1. The writer lock.  `OneWriter`: at most one request holds uncommitted writes
   (`WritersAlternate`).  Hence `TranscriptIsWhole` (`OneTranscript`): the rows of one request
   are replaced by those of one other.
2. Replies before commits.  `StepsInOrder`, `AnswerStands` and `StepsFit` say what a memoised step
   tells about its request: it has committed, or it still holds the lock.  A mark needs the lock,
   so mark-analyzed waits for an analysis that was replied to and not committed
   (`AnalysesStored`, `AnalyzedHasAnalysis`): `AnalyzedIsTrue`.
3. Reads before awaits.  `MarksWait`: the second mark of a run cannot pass a transcription that
   is not committed, so embed and analyze, which come after it, begin after that commit.
   `PriorWasRead`: embed clears only embeddings of the segments it has read.
   `EmbedsCurrent`, `EmbedsStored`, `GenerationsStored`: what a finished run has embedded is in
   the index as long as its segments are current.  `AnalysisSeesAll`, `NewestCovers`: an analysis
   held the lock while it read, so the newest one covers each generation a finished run has
   stored.  Together: `FinishedIsServed`.

4. The status.  `MarkOwed`: as long as the meeting is not analyzed, some run has not made its last mark, or a
   request that its run had given up on wrote the status.  A mark is written before its step is
   memoised, hence before the last one; finalize's `uploaded` may be written after its step is
   memoised, but its analysis waits for the lock (`FinalizeWaits`).  Hence `StatusSettles`.

5. The refinement.  `ReadsFit` is the converse of `AnalysisSeesAll`: what an analysis that holds the lock
   has read is stored, so that together it has read exactly the text; and the newest analysis has ended, so that
   what it was made from stays.  With `IInv` each action is a step of `MeetingRecord` or a stutter: `Refinement`.

`AnalyzedHasAnalysis`, `FinishedRunIsServed` and `StatusSettles` are relative to `NothingLost`: a restart between
a reply and its commit loses rows that Inngest believes stored, and nothing repairs it.

**Calendar sync.**  The difficulty is the row that a session has loaded and writes back
later.  `OneHolder`: one sync at most holds the writer lock.  `WrittenFits`: a sync that has
written holds the lock, and its writes do not conflict with the committed rows, since nobody
else commits meanwhile.  With these, `FlushedFacts` shows that the upsert takes no choice
from a row (an UPDATE sets only what differs from the row as loaded, and the upsert leaves
`deal_id` and `bot_enabled` alone), `SurvivorFacts` that no row from Zoom is merged away (where
there is one the survivor is from Zoom, and rows of one calendar are not merged), and
`MergedFacts` that a survivor keeps its deal, that its bot does not come on, and that it is off if a shadow's was.
`OptedOutIsOff` is part of `IInv`: as what a session has loaded may be older than the opt-out, `InheritsFacts`
needs that neither row's bot was set since (`SetSince`).  `CommitPassesOn` shows that the commit which removes a
shadow hands its opt-out on, but for the exclusion that section 10 explains.  Hence
`OptOutKept`, `AssignmentKept` and `ZoomRowKept`, for any number of syncs, events and users.

`OneCardKept` proves `OneCardPerCall` under `[]NoOverlap`, whose need section 10 explains.  Its invariant
`CardInv` adds `LinksFit` (calendars, answers and rows from Zoom show links they may have), `RowsDated`
(only an ingest makes a row without a date) and `SeenFits` (what a sync has loaded of its own calendar is
what is committed, in the date and the link: nobody else writes those two columns).
`SeenFits` makes the columns that the upsert leaves alone agree with those it has read, so that each date
at which the commit changes a row is a date it merges (`CommitMergesAt`).

**Screens and workspace.**  `ScreensProofs` proves facts of the data of `Screens`: `EveryChangeCovered`,
each change that a screen offers reaches every query of the rows it writes except the six `KnownLags`.  With it
`WorkspaceProofs` proves an invariant for any users, slots and number of versions.  `NotAhead`: nothing in the
cache, a fetch or a change is newer than the rows.  `FitChanges`: a change under way is one that some
screen offers for the focus.  `LastsIsWhole`: the query that is kept in the cache alone is never marked, and
after a change has its entry.  `ShownOrMarked`: the entry shows the user's last change, is marked, or is being fetched.
`AnsweredInTime`: a fetch whose answer is older than that change was crossed by its confirmation, which the
history variable takes into account.  From them `OwnChangesAreShown`, `TicksAreChecked`, `NoForeignEntry`
and `TypeCorrect`.

**Live feed.**  `HubFits` (there is a hub exactly while somebody views it, mounts are numbered once),
`AsksFit` (each fetch was asked for by a mount there was) and `QueueFits` (without a stream the queue is empty)
give `StreamsFollowViewers` and `AnswersAreOwn`, for any limits and any number of fetches under way.

A second invariant, `DataInv`, is about the rows: what is queued, answered and shown are sequences of rows
of the feed, and those of the transcript are in order.  That a finite set of numbers can be enumerated
in order, which `InOrder` relies on, is an induction over its size; the library's induction theorems take an
operator as parameter and are of no use here, so it is made by the least counterexample, which `WFMin`
and `NatLessThanWellFounded` provide for a set.  From it follow `TypeCorrect`, `ReadsInOrder` and
`SegmentsFallIn`: no two rows of one segment have the same key, so that the first match of
`mergeSegment` is the only one, and a streamed segment replaces exactly the one streamed before.

**Sharing.**  `RowStays`: a handler that found a row will write to one that is still there.  `ChoiceKept`: until
everything is withheld the row holds the last choice, and no callback has read an empty list.
`CutHolds`: after a disconnection that nothing overlaps there is no callback left that could connect again.
From them `SharedAsChosen` and `DisconnectedIsShut`, for any flows, tabs and categories.  `Refinement` shows that
`Spec` implements `DataRoom`: the step that reads is a stutter, the one that writes acts as the whole
request does, because `RowStays` and because a handler writes the columns it means to change and no others.

**Only model-checked**: `StartIsAnswered`, `CallEndTriggersPipeline`, `RunsEnd`, `Settles`, `SpinnerEnds`,
`PolledFollows` and `BridgeCatchesUp`, as liveness under fairness and `ENABLED` are beyond the prover.
Every invariant, action property and refinement that the passing runs check is stated by a theorem,
`OneCardPerCall` under the assumption `[]NoOverlap`.

## 13. Not modelled

Section 2 lists what is worth modelling next.  What stays out: the OAuth credentials beyond the lock
that a refresh holds (what two refreshes do depends on whether the provider rotates tokens) and with
them the integrations page; the speech, language-model and calendar providers' clients, prompts and the
parsing of answers; password hashing, signatures and token signing; the bytes of uploads and the signed
ticket; the chunking of long texts; single-statement endpoints of the worker, which `Workspace` sees as one
commit on the rows they write; the marketing pages, layout, forms and wording; configuration, logging, error mapping,
build and deployment; and the superseded Supabase schema.  `PROJECT.json` gives each part's status and
reason, and under `hazards` why a hazard has no property.
