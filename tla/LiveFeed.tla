------------------------------ MODULE LiveFeed ------------------------------
(* What the browser shows of a meeting while it is on: the transcript, the   *)
(* participants and the chat.  Three hooks fetch the rows stored so far,     *)
(* hold an event stream open for the rows that follow, and poll while the    *)
(* stream is down (use-live-transcript.ts, use-meeting-extras.ts).  On the   *)
(* worker's side a webhook writes the row and publishes it to the            *)
(* subscribers' queues before its transaction commits (recall_webhooks.py,   *)
(* pubsub.py, sse.py).                                                       *)
(*                                                                           *)
(* The three feeds differ in their rows, in how a streamed row is merged and *)
(* in what a failed fetch does; a behaviour follows one of them.             *)
(*                                                                           *)
(* Simplifications: an item's number is its place in time; texts are         *)
(* versions; messages carry the provider's id; one browser tab; the stream's *)
(* reconnection is one step.                                                 *)
EXTENDS Integers, Sequences, FiniteSets

CONSTANTS
  Feeds,          \* which of "transcript", "participant", "chat" to follow
  Items,          \* segments, participants or messages: 1 .. how many
  PageLimit,      \* rows an endpoint returns at most: limit=500
  QueueMax,       \* events a subscriber's queue holds: DEFAULT_MAXSIZE = 1000
  Leaving,        \* bound: whether participants leave while we look
  MaxAsks,        \* bound: fetches under way when a poll adds its own
  MaxMounts,      \* bound: how often the first viewer appears
  MaxFaults       \* bound: stream outages, failed fetches, failed commits,
                  \*        webhooks delivered late or once more

AllFeeds == {"transcript", "participant", "chat"}
ASSUME FeedsAssumption == Feeds \subseteq AllFeeds
ASSUME BoundsAssumption ==
  /\ Items \in Nat \ {0} /\ PageLimit \in Nat \ {0} /\ QueueMax \in Nat \ {0}
  /\ Leaving \in BOOLEAN
  /\ MaxAsks \in Nat /\ MaxMounts \in Nat /\ MaxFaults \in Nat

VARIABLES
  feed,           \* the feed of this behaviour
  stored,         \* per item, the version committed: 0 when there is none
  writing,        \* the webhook's write that is published, not committed
  viewers,        \* the components that use the hook for this meeting
  hub,            \* the shared store of the hook, NoHub while nobody views
  streams,        \* the mounts whose EventSource is not closed
  queue,          \* events published to the stream and not yet received
  asks,           \* fetches under way
  mounts, faults   \* bounded counters

vars == <<feed, stored, writing, viewers, hub, streams, queue, asks,
          mounts, faults>>

NoHub   == [mount |-> 0, shown |-> <<>>, up |-> FALSE, loading |-> FALSE]
NoWrite == [item |-> 0, ver |-> 0]
Item    == 1 .. Items

(* A segment is heard in part, then in full; a participant joins, then       *)
(* leaves; a message is there at once.                                       *)
LastVersion ==
  IF feed = "transcript" \/ (feed = "participant" /\ Leaving) THEN 2 ELSE 1

(* The components that call the feed's hook: the live panel and the banner   *)
(* of the deal share one hub, the attendees panel has its own streams.       *)
Viewer == IF feed = "transcript" THEN {"panel", "banner"} ELSE {"attendees"}

-----------------------------------------------------------------------------
(* Rows *)

(* The key by which the browser knows a row: the id the database gave it, a  *)
(* segment's recall_segment_id, or none when the row carries neither.        *)
Key == {"id", "segment", "none"}

(* A row as a list endpoint returns it: with its id, and not with the        *)
(* recall_segment_id.  Of the transcript only finalised segments are         *)
(* returned.                                                                 *)
Row(i, v) == [item |-> i, ver |-> v, key |-> "id"]
Listed(r) == r.ver > 0 /\ (feed = "transcript" => r.ver = 2)

Limit == IF feed = "participant" THEN Items ELSE PageLimit

(* Numbers in their order, and the rows of an endpoint's answer in that of   *)
(* time.                                                                     *)
InOrder(S) ==
  CHOOSE order \in [1 .. Cardinality(S) -> S] :
    \A j, k \in DOMAIN order : j < k => order[j] < order[k]

FetchAll ==
  LET order == InOrder({i \in Item : Listed(Row(i, stored[i]))})
      rows  == [k \in DOMAIN order |-> Row(order[k], stored[order[k]])]
  IN  SubSeq(rows, 1, IF Len(rows) < Limit THEN Len(rows) ELSE Limit)

(* A row as the webhook publishes it: the columns it has just written.  The  *)
(* recall_segment_id of a segment is among them, the row's id never is: the  *)
(* database gives it.                                                        *)
Event(i, v) ==
  [item |-> i, ver |-> v, key |-> IF feed = "transcript" THEN "segment" ELSE "none"]

(* The browser takes two rows for the same one when their keys are equal,    *)
(* which they also are when both are undefined.  The keys of a segment that  *)
(* was fetched and of the same one streamed never are.                       *)
SameRow(a, b) == a.key = b.key /\ (a.key = "none" \/ a.item = b.item)

First(S) == CHOOSE k \in S : \A j \in S : k <= j
InsertBefore(rows, k, r) ==
  SubSeq(rows, 1, k - 1) \o <<r>> \o SubSeq(rows, k, Len(rows))

MergeSegmentAppends(rows, r) ==   \* mutant: a new segment goes to the end
  LET same == {k \in DOMAIN rows : SameRow(rows[k], r)}
  IN  IF same # {} THEN [rows EXCEPT ![First(same)] = r] ELSE Append(rows, r)

MergeSegmentKeeps(rows, r) ==   \* mutant: a segment that is shown stays as it is
  LET same  == {k \in DOMAIN rows : SameRow(rows[k], r)}
      later == {k \in DOMAIN rows : rows[k].item > r.item}
  IN  IF same # {} THEN rows
      ELSE IF later # {} THEN InsertBefore(rows, First(later), r)
      ELSE Append(rows, r)

MergeSegment(rows, r) ==
  LET same  == {k \in DOMAIN rows : SameRow(rows[k], r)}
      later == {k \in DOMAIN rows : rows[k].item > r.item}
  IN  IF same # {} THEN [rows EXCEPT ![First(same)] = r]
      ELSE IF later # {} THEN InsertBefore(rows, First(later), r)
      ELSE Append(rows, r)

MergeParticipant(rows, r) ==
  LET same == {k \in DOMAIN rows : SameRow(rows[k], r)}
  IN  IF same # {} THEN [rows EXCEPT ![First(same)] = r] ELSE Append(rows, r)

MergeMessage(rows, r) ==
  IF \E k \in DOMAIN rows : SameRow(rows[k], r) THEN rows ELSE Append(rows, r)

Merge(rows, r) ==
  CASE feed = "transcript"  -> MergeSegment(rows, r)
    [] feed = "participant" -> MergeParticipant(rows, r)
    [] feed = "chat"        -> MergeMessage(rows, r)

-----------------------------------------------------------------------------
(* The worker *)

PublishUnbounded(e) ==   \* mutant: a full queue takes one more
  queue' = IF hub.up /\ Len(queue) <= QueueMax THEN Append(queue, e) ELSE queue

(* An event goes to the stream's queue, and is dropped when that is full.    *)
Publish(e) ==
  queue' = IF hub.up /\ Len(queue) < QueueMax THEN Append(queue, e) ELSE queue

(* A webhook upserts the row, flushes and publishes.  It is one write at a   *)
(* time: the flush takes the database's only writer's lock.  The provider    *)
(* sends a segment's partial texts before the final one and may skip them;   *)
(* a delivery that comes late, or again, is handled like any other.          *)
WebhookPublishes(i, v) ==
  /\ writing = NoWrite /\ v <= LastVersion
  /\ \/ v > stored[i] /\ faults' = faults
     \/ v <= stored[i] /\ faults < MaxFaults /\ faults' = faults + 1
  /\ writing' = [item |-> i, ver |-> v]
  /\ Publish(Event(i, v))
  /\ UNCHANGED <<feed, stored, viewers, hub, streams, asks, mounts>>

(* A segment is overwritten whole: a late partial makes it partial again.  A *)
(* join sets one column of a participant and a leave another.                *)
WebhookCommits ==
  /\ writing # NoWrite
  /\ stored' = [stored EXCEPT ![writing.item] =
                  IF feed = "transcript" \/ @ < writing.ver THEN writing.ver ELSE @]
  /\ writing' = NoWrite
  /\ UNCHANGED <<feed, viewers, hub, streams, queue, asks, mounts, faults>>

(* The commit fails: the provider gets an error and sends the event again.   *)
WebhookRollsBack ==
  /\ writing # NoWrite /\ faults < MaxFaults
  /\ faults' = faults + 1
  /\ writing' = NoWrite
  /\ UNCHANGED <<feed, stored, viewers, hub, streams, queue, asks, mounts>>

(* A fetch is answered with what is committed then.                          *)
Answers(a) ==
  /\ ~a.done
  /\ asks' = (asks \ {a}) \cup {[a EXCEPT !.done = TRUE, !.rows = FetchAll]}
  /\ UNCHANGED <<feed, stored, writing, viewers, hub, streams, queue, mounts, faults>>

-----------------------------------------------------------------------------
(* The browser *)

(* What the components make of the hub: the panel waits for the first fetch, *)
(* the banner shows the last three segments, the attendees panel all rows.   *)
PanelRows     == IF hub.loading THEN <<>> ELSE hub.shown
BannerRows    == LET n == Len(hub.shown) IN SubSeq(hub.shown, IF n > 3 THEN n - 2 ELSE 1, n)
AttendeesRows == hub.shown

(* A fetch of the mount: the first one, 0, or the one of a poll.             *)
Ask(n, mount) == [nth |-> n, mount |-> mount, done |-> FALSE, rows |-> <<>>]
Polls == 1 .. MaxAsks

(* The first viewer makes the hub: it fetches once and opens the stream.     *)
(* Any further one only counts itself.                                       *)
StartHub ==
  /\ mounts < MaxMounts
  /\ mounts' = mounts + 1
  /\ hub' = [mount |-> mounts + 1, shown |-> <<>>, up |-> FALSE, loading |-> TRUE]
  /\ asks' = asks \cup {Ask(0, mounts + 1)}
  /\ streams' = streams \cup {mounts + 1}

Mount(w) ==
  /\ w \in Viewer \ viewers
  /\ viewers' = viewers \cup {w}
  /\ IF hub = NoHub THEN StartHub ELSE UNCHANGED <<hub, asks, mounts, streams>>
  /\ UNCHANGED <<feed, stored, writing, queue, faults>>

(* Mutant: the stream is not closed.                                         *)
StopHubLeavesStream ==
  hub' = NoHub /\ streams' = streams /\ queue' = <<>> /\ asks' = {}

(* The last one to go stops the poll and closes the stream.  Of the fetches  *)
(* under way the model keeps at most one to answer late: answers are         *)
(* independent of each other.                                                *)
StopHub ==
  /\ hub' = NoHub
  /\ streams' = streams \ {hub.mount}
  /\ queue' = <<>>
  /\ \E late \in SUBSET asks :
       /\ Cardinality(late) <= (IF mounts < MaxMounts THEN 1 ELSE 0)
       /\ asks' = late

Unmount(w) ==
  /\ w \in viewers
  /\ viewers' = viewers \ {w}
  /\ IF viewers' = {} THEN StopHub ELSE UNCHANGED <<hub, streams, queue, asks>>
  /\ UNCHANGED <<feed, stored, writing, mounts, faults>>

(* The worker subscribes the connection and its first comment opens it.      *)
StreamOpens ==
  /\ hub # NoHub /\ ~hub.up
  /\ hub' = [hub EXCEPT !.up = TRUE]
  /\ queue' = <<>>
  /\ UNCHANGED <<feed, stored, writing, viewers, streams, asks, mounts, faults>>

(* The connection breaks; what the queue held is gone with it.               *)
StreamBreaks ==
  /\ hub.up /\ faults < MaxFaults
  /\ faults' = faults + 1
  /\ hub' = [hub EXCEPT !.up = FALSE]
  /\ queue' = <<>>
  /\ UNCHANGED <<feed, stored, writing, viewers, streams, asks, mounts>>

StreamDelivers ==
  /\ hub.up /\ queue # <<>>
  /\ hub' = [hub EXCEPT !.shown = Merge(@, Head(queue))]
  /\ queue' = Tail(queue)
  /\ UNCHANGED <<feed, stored, writing, viewers, streams, asks, mounts, faults>>

(* The lowest number that no poll of this hub under way has.                 *)
NextPoll(n) ==
  /\ Cardinality(asks) < MaxAsks
  /\ \A a \in asks : a.mount = hub.mount => a.nth # n
  /\ \A m \in 1 .. n - 1 : \E a \in asks : a.mount = hub.mount /\ a.nth = m

PollTickWhenEmpty(n) ==   \* mutant: the poll only fills an empty list
  /\ hub # NoHub /\ ~hub.up /\ hub.shown = <<>> /\ NextPoll(n)
  /\ asks' = asks \cup {Ask(n, hub.mount)}
  /\ UNCHANGED <<feed, stored, writing, viewers, hub, streams, queue, mounts, faults>>

(* Each tick of the interval fetches unless the stream is up, whether or not *)
(* the fetch of an earlier tick has been answered.                           *)
PollTick(n) ==
  /\ hub # NoHub /\ ~hub.up /\ NextPoll(n)
  /\ asks' = asks \cup {Ask(n, hub.mount)}
  /\ UNCHANGED <<feed, stored, writing, viewers, hub, streams, queue, mounts, faults>>

(* The first fetch ends the loading, however it ends; a poll does not.       *)
LoadingAfter(a) == hub.loading /\ a.nth # 0

ArrivesAnyHub(a) ==   \* mutant: no look at whether the asking hub is stopped
  /\ a.done
  /\ asks' = asks \ {a}
  /\ hub' = IF hub # NoHub
            THEN [hub EXCEPT !.shown = a.rows, !.loading = LoadingAfter(a)] ELSE hub
  /\ UNCHANGED <<feed, stored, writing, viewers, streams, queue, mounts, faults>>

(* An answer replaces the rows, unless the hub that asked is stopped.        *)
Arrives(a) ==
  /\ a.done
  /\ asks' = asks \ {a}
  /\ hub' = IF a.mount = hub.mount
            THEN [hub EXCEPT !.shown = a.rows, !.loading = LoadingAfter(a)] ELSE hub
  /\ UNCHANGED <<feed, stored, writing, viewers, streams, queue, mounts, faults>>

(* An error status is an empty transcript, and leaves the other feeds as     *)
(* they are.                                                                 *)
Refused(a) ==
  /\ ~a.done /\ faults < MaxFaults
  /\ faults' = faults + 1
  /\ asks' = asks \ {a}
  /\ hub' = IF a.mount = hub.mount
            THEN [hub EXCEPT !.shown = IF feed = "transcript" THEN <<>> ELSE @,
                             !.loading = LoadingAfter(a)] ELSE hub
  /\ UNCHANGED <<feed, stored, writing, viewers, streams, queue, mounts>>

(* No answer at all: the rows stay.                                          *)
Unanswered(a) ==
  /\ ~a.done /\ faults < MaxFaults
  /\ faults' = faults + 1
  /\ asks' = asks \ {a}
  /\ hub' = IF a.mount = hub.mount THEN [hub EXCEPT !.loading = LoadingAfter(a)] ELSE hub
  /\ UNCHANGED <<feed, stored, writing, viewers, streams, queue, mounts>>

-----------------------------------------------------------------------------
Init ==
  /\ feed \in Feeds
  /\ stored = [i \in Item |-> 0]
  /\ writing = NoWrite /\ viewers = {} /\ hub = NoHub /\ streams = {}
  /\ queue = <<>> /\ asks = {} /\ mounts = 0 /\ faults = 0

Next ==
  \/ \E i \in Item, v \in 1 .. 2 : WebhookPublishes(i, v)
  \/ WebhookCommits \/ WebhookRollsBack
  \/ \E w \in Viewer : Mount(w) \/ Unmount(w)
  \/ StreamOpens \/ StreamBreaks \/ StreamDelivers
  \/ \E n \in Polls : PollTick(n)
  \/ \E a \in asks : Answers(a) \/ Arrives(a) \/ Refused(a) \/ Unanswered(a)

(* The interval ticks while the hub lives; some fetch under way is answered  *)
(* or its answer handled.  Users, the provider and the stream owe nothing.   *)
Fairness ==
  /\ WF_vars(\E n \in Polls : PollTick(n))
  /\ WF_vars(\E a \in asks : Answers(a) \/ Arrives(a))

Spec == Init /\ [][Next]_vars /\ Fairness

-----------------------------------------------------------------------------
(* Properties *)

RowType  == [item : Item, ver : 0 .. 2, key : Key]
AskType  == [nth : 0 .. MaxAsks, mount : 1 .. MaxMounts,
             done : BOOLEAN, rows : Seq(RowType)]

(* The variables keep their types, and a closed hub holds nothing.           *)
TypeOK ==
  /\ feed \in AllFeeds
  /\ stored \in [Item -> 0 .. 2]
  /\ writing \in [item : 0 .. Items, ver : 0 .. 2]
  /\ viewers \subseteq {"panel", "banner", "attendees"}
  /\ hub \in [mount : 0 .. MaxMounts, shown : Seq(RowType), up : BOOLEAN, loading : BOOLEAN]
  /\ streams \subseteq 1 .. MaxMounts
  /\ queue \in Seq(RowType) /\ Len(queue) <= QueueMax
  /\ \A a \in asks : a \in AskType
  /\ mounts \in 0 .. MaxMounts /\ faults \in 0 .. MaxFaults

(* The transcript reads in the order it was spoken, however the first fetch, *)
(* the polls, late answers and the stream mix.  A segment stands there twice *)
(* at most: as it was fetched, and as it was streamed since.                 *)
SpokenOrder ==
  feed = "transcript" =>
    \A rows \in {PanelRows, BannerRows} :
      \A j, k \in DOMAIN rows :
        j < k => /\ rows[j].item <= rows[k].item
                 /\ rows[j].item = rows[k].item =>
                      {rows[j].key, rows[k].key} = {"id", "segment"}

(* A streamed segment takes the place of the version of it that was streamed *)
(* before, partial or not; no other segment is lost, repeated or changed,    *)
(* and the same one, where it was fetched, stays beside it.                  *)
ShownRows == {hub.shown[k] : k \in DOMAIN hub.shown}
SegmentTakesItsPlace ==
  [][ feed = "transcript" /\ StreamDelivers =>
        LET e == Head(queue)
        IN  ShownRows' =
              {r \in ShownRows : r.item # e.item \/ r.key = "id"} \cup {e} ]_vars

(* However its viewers come and go, a meeting has one stream open while      *)
(* somebody views it and none otherwise, and events reach only that.         *)
OneStream ==
  /\ streams = IF viewers = {} THEN {} ELSE {hub.mount}
  /\ viewers = {} => hub = NoHub /\ queue = <<>>

(* What a stopped hub had asked for never changes what the next one shows:   *)
(* rows change by an event of the stream or by an answer to the hub's own    *)
(* fetch.                                                                    *)
OwnAnswersOnly ==
  [][ /\ hub'.mount = hub.mount
      /\ hub'.shown # hub.shown
      => Len(queue') < Len(queue) \/ \E a \in asks \ asks' : a.mount = hub.mount ]_vars

(* A viewer whose stream never comes back ends up with the rows the endpoint *)
(* returns: the poll bridges the outage.                                     *)
BridgeCatchesUp ==
  <>[](hub # NoHub /\ ~hub.up) => <>[](hub # NoHub /\ hub.shown = FetchAll)

(* "Live updates arrive on the shared SSE stream as `participant` / `chat`   *)
(* events" (use-meeting-extras.ts:4-6): a participant or message received    *)
(* is shown, and hides none that was.                                        *)
Attendees == {AttendeesRows[k].item : k \in DOMAIN AttendeesRows}
StreamedIsShown ==
  [][ StreamDelivers => Attendees' = Attendees \cup {Head(queue).item} ]_vars
=============================================================================
