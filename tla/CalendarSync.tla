---------------------------- MODULE CalendarSync ----------------------------
(***************************************************************************)
(* The meetings of an organisation that calendar syncs keep: the endpoint  *)
(* /internal/calendar/sync (internal/calendar.py) with its merge of Zoom   *)
(* and Google rows (_dedupe_zoom_google_rows), the ingest of a Zoom        *)
(* recording (internal/ingest.py), and the user's choices (PATCH           *)
(* /meetings/{id}).  One sync per connected calendar is requested every 30 *)
(* minutes and by the Refresh button, so that syncs overlap.               *)
(*                                                                         *)
(* A sync awaits its provider, then runs without a further await: it loads *)
(* its rows, writes them, reads the other rows of the dates it has         *)
(* touched, merges, and returns; get_db commits in the thread pool.  Its   *)
(* first write waits for SQLite's writer lock and blocks the event loop    *)
(* meanwhile, but not the thread pool, where a user's request may commit   *)
(* first: of the row it has loaded the session keeps the old values, and   *)
(* it writes only the columns it has changed.  A sync whose access token   *)
(* has expired stores the refreshed one before it awaits the provider, and *)
(* so holds the writer lock during that await.                             *)
(*                                                                         *)
(* A Zoom room is named by the Zoom event it was created for.              *)
(***************************************************************************)
EXTENDS Naturals, FiniteSets

CONSTANTS
    ZoomEvents, GoogleEvents, MicrosoftEvents,  \* events of the connected calendars
    ZoomSyncs, GoogleSyncs, MicrosoftSyncs,     \* syncs that may be under way
    OtherRooms,                                 \* Zoom rooms of other hosts
    Dates, NoDate,                              \* as the providers write them
    Deals, NoDeal,
    Absent,        \* not among the provider's upcoming events
    NoRow,
    MaxEdits       \* bound on changes of the calendars and choices of users

Events == ZoomEvents \cup GoogleEvents \cup MicrosoftEvents
Syncs  == ZoomSyncs \cup GoogleSyncs \cup MicrosoftSyncs

VARIABLES
    cal,      \* what the providers' calendars show
    row,      \* the meetings row of each event, unique(org, provider, event id)
    wish,     \* what the users of the row last chose for its bot (history)
    sync,     \* the syncs
    ingest,   \* the ingest of the recording of each Zoom event
    edits

vars == <<cal, row, wish, sync, ingest, edits>>

-----------------------------------------------------------------------------
\* The rooms whose links extract_zoom_meeting_id recognises.
ZoomRooms == ZoomEvents \cup OtherRooms

\* The link an event shows: a Zoom room, another conference, the event's web
\* page, or (after the ingest of its recording) the address of the recording.
Links == ZoomRooms \cup {"conference", "page", "recording"}

CalendarLinks(e) ==
    IF e \in ZoomEvents THEN {e}
    ELSE IF e \in GoogleEvents THEN ZoomRooms \cup {"conference", "page"}
    ELSE {"conference", "page"}

Entry == [date : Dates, link : Links]

\* meetings.status: uploading, or anything that a bot, an ingest or the pipeline wrote.
Row == [date : Dates \cup {NoDate}, link : Links, deal : Deals \cup {NoDeal},
        bot : BOOLEAN, status : {"uploading", "recorded"}]

Rows == Row \cup {NoRow}

ASSUME ConstantsOK ==
    /\ MaxEdits \in Nat
    /\ ZoomEvents \cap (GoogleEvents \cup MicrosoftEvents) = {}
    /\ GoogleEvents \cap MicrosoftEvents = {}
    /\ OtherRooms \cap ZoomEvents = {}
    /\ {"conference", "page", "recording"} \cap ZoomRooms = {}
    /\ NoDate \notin Dates
    /\ NoDeal \notin Deals
    /\ Absent \notin Entry
    /\ NoRow \notin Row

\* A row with other values of what users set.
WithChoices(r, deal, bot) ==
    [date |-> r.date, link |-> r.link, deal |-> deal, bot |-> bot, status |-> r.status]

\* The events of the calendar a sync pulls.
Own(s) == IF s \in ZoomSyncs THEN ZoomEvents
          ELSE IF s \in GoogleSyncs THEN GoogleEvents ELSE MicrosoftEvents

SameProvider(e, o) == \E P \in {ZoomEvents, GoogleEvents, MicrosoftEvents} : {e, o} \subseteq P

IdleSync == [pc |-> "idle", lock |-> FALSE, answer |-> [e \in Events |-> Absent], seen |-> [e \in Events |-> NoRow]]

Sync == [pc : {"idle", "answered", "loaded", "written"}, lock : BOOLEAN,
         answer : [Events -> Entry \cup {Absent}], seen : [Events -> Rows]]

Ingest == {"none", "downloading", "stored"}

\* The calendars and the users change something.
Edit == /\ edits < MaxEdits
        /\ edits' = edits + 1

\* No handler blocks the event loop; nobody holds uncommitted writes.
LoopFree == \A s \in Syncs : sync[s].pc # "loaded"
LockFree == \A s \in Syncs : ~sync[s].lock
NoOtherHolds(s) == \A o \in Syncs \ {s} : ~sync[o].lock

Init ==
    /\ cal \in [Events -> Entry \cup {Absent}]
    /\ \A e \in Events : cal[e] # Absent => cal[e].link \in CalendarLinks(e)
    /\ row = [e \in Events |-> NoRow]
    /\ wish = [e \in Events |-> "none"]
    /\ sync = [s \in Syncs |-> IdleSync]
    /\ ingest = [z \in ZoomEvents |-> "none"]
    /\ edits = 0

-----------------------------------------------------------------------------
\* The upsert.  Each operator speaks of a sync s whose answer is there.

Answered(s) == {e \in Own(s) : sync[s].answer[e] # Absent}

\* Mutant of NewRow: the status that a bot session begins with.
NewRowScheduled(a) ==
    [date |-> a.date, link |-> a.link, deal |-> NoDeal, bot |-> a.link # "page", status |-> "scheduled"]

\* The row a new event gets: no deal, and a bot if there is a call to join.
NewRow(a) ==
    [date |-> a.date, link |-> a.link, deal |-> NoDeal, bot |-> a.link # "page", status |-> "uploading"]

\* Mutant of Refreshed: deal_id is refreshed as well.
RefreshedDeal(r, a) == WithChoices(NewRow(a), NoDeal, r.bot)

\* A row that is there takes everything from the provider but what users set.
Refreshed(r, a) == WithChoices(NewRow(a), r.deal, r.bot)

\* The session's copy of an event's row after the upsert.
Upserted(s, e) ==
    IF sync[s].seen[e] = NoRow THEN NewRow(sync[s].answer[e])
    ELSE Refreshed(sync[s].seen[e], sync[s].answer[e])

Changes(s) == {e \in Answered(s) : Upserted(s, e) # sync[s].seen[e]}

\* An UPDATE sets only the columns whose value differs from the one loaded.
Column(old, new, current) == IF new = old THEN current ELSE new

Updated(old, new, r) ==
    [date   |-> Column(old.date, new.date, r.date),
     link   |-> Column(old.link, new.link, r.link),
     deal   |-> Column(old.deal, new.deal, r.deal),
     bot    |-> Column(old.bot, new.bot, r.bot),
     status |-> Column(old.status, new.status, r.status)]

\* The rows after the upsert's flush.
Flushed(s) ==
    LET changes == Changes(s) IN
    [e \in Events |->
        IF e \notin changes THEN row[e]
        ELSE IF sync[s].seen[e] = NoRow THEN Upserted(s, e)
        ELSE Updated(sync[s].seen[e], Upserted(s, e), row[e])]

\* A row to insert is there already (unique index), one to update is gone.
Conflict(s) == \E e \in Changes(s) : (sync[s].seen[e] = NoRow) # (row[e] = NoRow)

-----------------------------------------------------------------------------
\* The merge.  Each operator speaks of `rows', the session's copy of the rows at the
\* dates the sync has touched: a function on the events whose rows were found.

Touched(s) == {sync[s].answer[e].date : e \in Answered(s)}

\* The rows are found as they are, if the upsert had to take the lock, else as they
\* were before.  The session keeps its own rows as it has upserted them.
RowsToMerge(s) ==
    LET found == IF Changes(s) # {} THEN Flushed(s) ELSE sync[s].seen IN
    [e \in {e \in Events : found[e] # NoRow /\ found[e].date \in Touched(s)} |->
        IF e \in Answered(s) THEN Upserted(s, e) ELSE found[e]]

At(rows, d) == {e \in DOMAIN rows : rows[e].date = d}

\* meetings.source is `zoom' for a row from Zoom, and for a row from Google with a Zoom link.
SourceIsZoom(e, r) == e \in ZoomEvents \/ r.link \in ZoomRooms

\* Mutant of Canonical: any row with a Zoom link may survive.
CanonicalAny(rows, d) == {e \in At(rows, d) : SourceIsZoom(e, rows[e])}

\* The row that may survive at a date: one from Zoom itself, else one with a Zoom
\* link.  The rows come in no particular order.
Canonical(rows, d) ==
    LET fromZoom == At(rows, d) \cap ZoomEvents IN
    IF fromZoom # {} THEN fromZoom ELSE {e \in At(rows, d) : SourceIsZoom(e, rows[e])}

\* Both rows show a Zoom room, and not the same.
OtherCall(rows, z, o) ==
    /\ {rows[z].link, rows[o].link} \subseteq ZoomRooms
    /\ rows[z].link # rows[o].link

\* Mutant of Shadows: only a row that shows the same Zoom room is merged.
ShadowsWithLink(rows, z) ==
    {o \in At(rows, rows[z].date) : ~SameProvider(z, o) /\ rows[o].link = rows[z].link}

\* The rows that are merged into z.
Shadows(rows, z) ==
    {o \in At(rows, rows[z].date) : ~SameProvider(z, o) /\ ~OtherCall(rows, z, o)}

\* One surviving row at each date, where there is one.
Survivors(rows) ==
    LET dates == {rows[e].date : e \in DOMAIN rows} IN
    {pick \in SUBSET UNION {Canonical(rows, d) : d \in dates} :
        \A d \in dates :
            Canonical(rows, d) # {} => \E z \in Canonical(rows, d) : pick \cap At(rows, d) = {z}}

\* The deals that a surviving row may get: its own, or one of its shadows' if it has none.
MergedDeals(rows, z) ==
    LET deals == {rows[o].deal : o \in Shadows(rows, z)} \ {NoDeal} IN
    IF rows[z].deal = NoDeal /\ deals # {} THEN deals ELSE {rows[z].deal}

\* Mutant of MergedBot: what the shadows say is ignored.
MergedBotOwn(rows, z) == rows[z].bot

\* An opt-out on either row is one.
MergedBot(rows, z) == rows[z].bot /\ \A o \in Shadows(rows, z) : rows[o].bot

\* The surviving rows with what they may have got from their shadows.
Merged(rows, pick) ==
    {[z \in pick |-> WithChoices(rows[z], deal[z], MergedBot(rows, z))] :
        deal \in {f \in [pick -> Deals \cup {NoDeal}] : \A z \in pick : f[z] \in MergedDeals(rows, z)}}

\* A user has set the bot of the row, and the session does not know it.
SetSince(rows, e) == row[e] # NoRow /\ rows[e].bot # row[e].bot

\* The opt-out on a row that is merged into z is from now on one on z, provided that the
\* session has read both rows as they are.
InheritsOptOut(rows, z) ==
    /\ ~SetSince(rows, z)
    /\ \E o \in Shadows(rows, z) : wish[o] = "off" /\ ~SetSince(rows, o)

-----------------------------------------------------------------------------
\* A sync.

\* It is requested, and the provider answers with what its calendar shows.  If the
\* access token had to be refreshed the session has written it, and has the lock.
SyncBegins(s) ==
    /\ sync[s].pc = "idle"
    /\ \E refreshed \in BOOLEAN :
         /\ refreshed => LoopFree /\ LockFree
         /\ sync' = [sync EXCEPT ![s] =
              [pc |-> "answered", lock |-> refreshed, seen |-> @.seen,
               answer |-> [e \in Events |-> IF e \in Own(s) THEN cal[e] ELSE Absent]]]
    /\ UNCHANGED <<cal, row, wish, ingest, edits>>

\* The handler goes on and loads its rows.
SyncLoads(s) ==
    /\ sync[s].pc = "answered" /\ LoopFree
    /\ sync' = [sync EXCEPT ![s] = [pc |-> "loaded", lock |-> @.lock, answer |-> @.answer, seen |-> row]]
    /\ UNCHANGED <<cal, row, wish, ingest, edits>>

\* It has the lock: its writes go through, or raise (and get_db rolls back).
SyncWrites(s) ==
    /\ sync[s].pc = "loaded"
    /\ NoOtherHolds(s)
    /\ sync' = [sync EXCEPT ![s] =
         IF Conflict(s) THEN IdleSync
         ELSE [pc |-> "written", lock |-> TRUE, answer |-> @.answer, seen |-> @.seen]]
    /\ UNCHANGED <<cal, row, wish, ingest, edits>>

\* get_db commits, unless a surviving row that the merge has changed is gone.
SyncCommits(s) ==
    /\ sync[s].pc = "written"
    /\ \E rows \in {RowsToMerge(s)}, flushed \in {Flushed(s)} :
         \E pick \in Survivors(rows) : \E new \in Merged(rows, pick) :
             LET gone == UNION {Shadows(rows, z) : z \in pick} IN
             IF \E z \in pick : new[z] # rows[z] /\ flushed[z] = NoRow
               THEN UNCHANGED <<row, wish>>
               ELSE /\ row' = [e \in Events |->
                               IF e \in gone THEN NoRow
                               ELSE IF e \in pick /\ flushed[e] # NoRow
                                 THEN Updated(rows[e], new[e], flushed[e])
                                 ELSE flushed[e]]
                    /\ wish' = [e \in Events |->
                                IF e \in gone THEN "none"
                                ELSE IF e \in pick /\ flushed[e] # NoRow /\ InheritsOptOut(rows, e)
                                  THEN "off"
                                  ELSE wish[e]]
    /\ sync' = [sync EXCEPT ![s] = IdleSync]
    /\ UNCHANGED <<cal, ingest, edits>>

\* Mutant of SyncTimesOut: no busy_timeout, it goes on waiting.
SyncTimesOutNever(s) ==
    /\ sync[s].pc = "loaded"
    /\ ~NoOtherHolds(s)
    /\ UNCHANGED vars

\* Its write waits for a lock that another sync holds, which may itself need the
\* event loop to go on: busy_timeout fails it.
SyncTimesOut(s) ==
    /\ sync[s].pc = "loaded"
    /\ ~NoOtherHolds(s)
    /\ sync' = [sync EXCEPT ![s] = IdleSync]
    /\ UNCHANGED <<cal, row, wish, ingest, edits>>

\* The provider fails, or the worker restarts.
SyncFails(s) ==
    /\ sync[s].pc # "idle"
    /\ sync' = [sync EXCEPT ![s] = IdleSync]
    /\ UNCHANGED <<cal, row, wish, ingest, edits>>

-----------------------------------------------------------------------------
\* The ingest of a Zoom recording.

\* The row of a meeting that has come further than `uploading'.
Recorded(r, link) ==
    [date |-> r.date, link |-> link, deal |-> r.deal, bot |-> r.bot, status |-> "recorded"]

\* zoom_ingest up to its commit: a recording of an unknown meeting gets a row.
IngestMatches(z) ==
    /\ ingest[z] = "none" /\ LoopFree /\ LockFree
    /\ row' = [row EXCEPT ![z] = IF @ # NoRow THEN @
                 ELSE [date |-> NoDate, link |-> "page", deal |-> NoDeal,
                       bot |-> TRUE, status |-> "uploading"]]
    /\ ingest' = [ingest EXCEPT ![z] = "downloading"]
    /\ UNCHANGED <<cal, wish, sync, edits>>

\* The download is stored.
IngestStores(z) ==
    /\ ingest[z] = "downloading" /\ LoopFree /\ LockFree
    /\ row[z] # NoRow
    /\ row' = [row EXCEPT ![z] = Recorded(@, "recording")]
    /\ ingest' = [ingest EXCEPT ![z] = "stored"]
    /\ UNCHANGED <<cal, wish, sync, edits>>

\* The download fails: the meeting is marked so, and the event will be delivered again.
IngestFails(z) ==
    /\ ingest[z] = "downloading" /\ LoopFree /\ LockFree
    /\ row[z] # NoRow
    /\ row' = [row EXCEPT ![z] = Recorded(@, @.link)]
    /\ ingest' = [ingest EXCEPT ![z] = "none"]
    /\ UNCHANGED <<cal, wish, sync, edits>>

-----------------------------------------------------------------------------
\* Users and the rest of the system.

\* The user, or an organiser, changes a calendar; a past event leaves it.
EditCalendar(e) ==
    /\ Edit
    /\ \E entry \in [date : Dates, link : CalendarLinks(e)] \cup {Absent} :
         entry # cal[e] /\ cal' = [cal EXCEPT ![e] = entry]
    /\ UNCHANGED <<row, wish, sync, ingest>>

\* PATCH /meetings/{id} from the bot switch.
ToggleBot(e, on) ==
    /\ row[e] # NoRow /\ LockFree
    /\ Edit
    /\ row' = [row EXCEPT ![e] = WithChoices(@, @.deal, on)]
    /\ wish' = [wish EXCEPT ![e] = IF on THEN "on" ELSE "off"]
    /\ UNCHANGED <<cal, sync, ingest>>

\* PATCH /meetings/{id} from the dialog that assigns a meeting to a deal.
AssignMeeting(e, d, on) ==
    /\ row[e] # NoRow /\ LockFree
    /\ Edit
    /\ row' = [row EXCEPT ![e] = WithChoices(@, d, on)]
    /\ wish' = [wish EXCEPT ![e] = IF on THEN "on" ELSE "off"]
    /\ UNCHANGED <<cal, sync, ingest>>

\* A bot records the meeting, or the pipeline works on it.
MeetingProceeds(e) ==
    /\ row[e] # NoRow /\ LockFree
    /\ row[e].status = "uploading" /\ row[e].bot /\ row[e].deal # NoDeal
    /\ row' = [row EXCEPT ![e] = Recorded(@, @.link)]
    /\ UNCHANGED <<cal, wish, sync, ingest, edits>>

-----------------------------------------------------------------------------
User ==
    \/ \E e \in Events : EditCalendar(e) \/ MeetingProceeds(e)
    \/ \E e \in Events, on \in BOOLEAN : ToggleBot(e, on)
    \/ \E e \in Events, d \in Deals, on \in BOOLEAN : AssignMeeting(e, d, on)

Next ==
    \/ User
    \/ \E s \in Syncs : SyncBegins(s) \/ SyncLoads(s) \/ SyncWrites(s) \/ SyncCommits(s)
                         \/ SyncTimesOut(s) \/ SyncFails(s)
    \/ \E z \in ZoomEvents : IngestMatches(z) \/ IngestStores(z) \/ IngestFails(z)

Spec == Init /\ [][Next]_vars

\* Fairness.  The cron requests a sync of each calendar again and again, and some day
\* providers and worker stop failing.  The event loop's queue is first in, first out,
\* and a sync lasts seconds: again and again one goes on when no other holds the lock.
FairSpec ==
    /\ Spec
    /\ <>[][\A s \in Syncs : ~SyncFails(s)]_vars
    /\ \A s \in Syncs :
         /\ WF_vars(SyncBegins(s) \/ SyncWrites(s) \/ SyncCommits(s) \/ SyncTimesOut(s))
         /\ SF_vars(NoOtherHolds(s) /\ SyncLoads(s))

-----------------------------------------------------------------------------
(***************************************************************************)
(* Properties                                                              *)
(***************************************************************************)

\* Every variable has its type.
TypeOK ==
    /\ cal \in [Events -> Entry \cup {Absent}]
    /\ row \in [Events -> Rows]
    /\ wish \in [Events -> {"none", "on", "off"}]
    /\ sync \in [Syncs -> Sync]
    /\ ingest \in [ZoomEvents -> Ingest]
    /\ edits \in 0 .. MaxEdits

\* The calendar shows one card for a call: beside a row from Zoom, no row of another
\* calendar stays at its date that does not show a Zoom room of its own, however the
\* syncs of different calendars overlap.  A row that shows the room of the very Zoom
\* row may stay only where a second Zoom meeting took the merge at that date.  (Two
\* syncs of one calendar, of which one loads its rows while the other has yet to
\* commit, may put an event's new link at a date that neither has merged.)
OneCardPerCall ==
    \A z \in ZoomEvents, o \in Events \ ZoomEvents :
        row[z] # NoRow /\ row[o] # NoRow /\ row[z].date = row[o].date
        => /\ row[o].link \in ZoomRooms
           /\ row[o].link = z => ZoomEvents # {z}

\* The bot is off where a user has taken it off, on the row itself or on one that has
\* been merged into it.
OptedOutIsOff == \A e \in Events : wish[e] = "off" => row[e] # NoRow /\ ~row[e].bot

\* The row o goes with its opt-out, and a row it is merged into inherits that.  It does
\* not where a user sets the bot of one of the two while the sync has them loaded: the
\* code takes the value it has read.  Nor where that row has been merged away meanwhile.
OptOutPassesOn(o) ==
    \E s \in Syncs : \E z \in DOMAIN RowsToMerge(s) :
        /\ sync[s].pc = "written" /\ o \in Shadows(RowsToMerge(s), z)
        /\ \/ wish'[z] = "off"
           \/ SetSince(RowsToMerge(s), o)
           \/ SetSince(RowsToMerge(s), z)
           \/ row'[z] = NoRow

\* A bot does not join a meeting that the user has taken it off: no sync and no merge
\* turns it on again, and a merge passes the opt-out on either row to the one that
\* survives, unless the user made it behind the back of that very sync.
OptOutStands ==
    [][/\ OptedOutIsOff'
       /\ \A o \in Events : wish[o] = "off" /\ row'[o] = NoRow => OptOutPassesOn(o)]_vars

\* A meeting that is assigned to a deal does not lose the assignment, as long as its
\* row is there.
AssignmentStands ==
    [][\A e \in Events :
        row[e] # NoRow /\ row'[e] # NoRow /\ row[e].deal # NoDeal => row'[e].deal # NoDeal]_vars

\* The merge never deletes a row from Zoom, to which recordings are matched.
ZoomRowStays == [][\A z \in ZoomEvents : row[z] # NoRow => row'[z] # NoRow]_vars

\* Every upcoming event gets its card, at its date: a row of its own, or a Zoom row
\* it was merged into.
Shown(e) ==
    \E o \in Events :
        /\ row[o] # NoRow
        /\ row[o].date = cal[e].date
        /\ o = e \/ SourceIsZoom(o, row[o])

Settles == <>[](\A e \in Events : cal[e] # Absent => Shown(e))
=============================================================================
