---------------------------- MODULE LiveFeedProofs ----------------------------
(* Theorems of LiveFeed, for any number of rows, mounts and faults and any   *)
(* limits of page and queue: how the hooks' lifetime keeps streams and       *)
(* answers apart (IInv), and that a transcript stays in order (DataInv).     *)
EXTENDS LiveFeed, FiniteSetTheorems, SequenceTheorems, WellFoundedInduction, TLAPS

(* The rows a hub shows are whatever the feed makes of them. *)
Hub(mount, shown) == [mount : mount, shown : {shown}, up : BOOLEAN, loading : BOOLEAN]

(* A mount is numbered once, a hub is that of a mount, and there is a hub    *)
(* exactly while somebody views it.                                          *)
HubFits ==
  /\ mounts \in Nat /\ hub \in Hub(0 .. mounts, hub.shown)
  /\ hub.up => hub.mount # 0
  /\ (viewers = {}) <=> (hub.mount = 0)
  /\ viewers = {} => hub = NoHub

(* Every fetch under way was asked for by a hub there was. *)
Fetch(n, rows) == [nth : {n}, mount : Nat, done : BOOLEAN, rows : {rows}]
AsksFit ==
  \A a \in asks : a \in Fetch(a.nth, a.rows) /\ a.mount \in 1 .. mounts

(* The queue is that of the stream. *)
QueueFits == queue \in Seq(RowType) /\ (~hub.up => queue = <<>>)

IInv == HubFits /\ AsksFit /\ QueueFits /\ OneStream

-----------------------------------------------------------------------------
LEMMA InitIInv == Init => IInv
BY DEF Init, IInv, HubFits, Hub, AsksFit, QueueFits, OneStream, NoHub

LEMMA PublishFits ==
  ASSUME queue \in Seq(RowType), NEW i \in Item, NEW v \in 1 .. 2,
         Publish(Event(i, v))
  PROVE  queue' \in Seq(RowType) /\ (~hub.up => queue' = queue)
<1>1. Event(i, v) \in RowType
  BY DEF Event, RowType, Key
<1>. QED  BY <1>1 DEF Publish

\* A webhook touches neither hub nor fetches.
LEMMA WebhookKeeps ==
  ASSUME IInv,
         \/ \E i \in Item, v \in 1 .. 2 : WebhookPublishes(i, v)
         \/ WebhookCommits \/ WebhookRollsBack
  PROVE  IInv'
<1>1. UNCHANGED <<viewers, hub, streams, asks, mounts>>
  BY DEF WebhookPublishes, WebhookCommits, WebhookRollsBack
<1>2. queue' \in Seq(RowType) /\ (~hub.up => queue' = queue)
  <2>1. CASE \E i \in Item, v \in 1 .. 2 : WebhookPublishes(i, v)
    BY <2>1, PublishFits DEF WebhookPublishes, IInv, QueueFits
  <2>2. CASE WebhookCommits \/ WebhookRollsBack
    BY <2>2 DEF WebhookCommits, WebhookRollsBack, IInv, QueueFits
  <2>. QED  BY <2>1, <2>2
<1>3. viewers = {} => ~hub.up
  BY DEF IInv, HubFits, Hub
<1>. QED
  BY <1>1, <1>2, <1>3 DEF IInv, HubFits, Hub, AsksFit, QueueFits, OneStream

LEMMA MountKeeps ==
  ASSUME IInv, NEW w, Mount(w)
  PROVE  IInv'
<1>1. viewers' # {} /\ queue' = queue
  BY DEF Mount
<1>2. CASE hub = NoHub
  <2>1. StartHub /\ viewers = {} /\ streams = {}
    BY <1>2 DEF Mount, IInv, HubFits, Hub, NoHub, OneStream
  <2>2. /\ mounts' = mounts + 1 /\ streams' = {mounts + 1}
        /\ hub' = [mount |-> mounts + 1, shown |-> <<>>, up |-> FALSE, loading |-> TRUE]
        /\ asks' = asks \cup {Ask(0, mounts + 1)}
    BY <2>1 DEF StartHub
  <2>3. HubFits'
    BY <1>1, <2>2 DEF HubFits, Hub, IInv
  <2>4. AsksFit'
    <3>1. Ask(0, mounts + 1) \in Fetch(0, <<>>)
      BY DEF Ask, Fetch, IInv, HubFits
    <3>2. Ask(0, mounts + 1).mount \in 1 .. mounts + 1
      BY DEF Ask, IInv, HubFits
    <3>. QED  BY <2>2, <3>1, <3>2 DEF AsksFit, IInv, HubFits, Fetch
  <2>5. queue = <<>>
    BY <2>1 DEF IInv, OneStream
  <2>6. QueueFits' /\ OneStream'
    BY <1>1, <2>2, <2>5 DEF QueueFits, OneStream, IInv
  <2>. QED  BY <2>3, <2>4, <2>6 DEF IInv
<1>3. CASE hub # NoHub
  <2>1. UNCHANGED <<hub, asks, mounts, streams, queue>> /\ viewers # {}
    BY <1>3 DEF Mount, IInv, HubFits, Hub
  <2>. QED
    BY <1>1, <2>1 DEF IInv, HubFits, Hub, AsksFit, QueueFits, OneStream
<1>. QED  BY <1>2, <1>3

LEMMA UnmountKeeps ==
  ASSUME IInv, NEW w, Unmount(w)
  PROVE  IInv'
<1>1. viewers # {} /\ mounts' = mounts /\ hub.mount # 0
  BY DEF Unmount, IInv, HubFits, Hub
<1>2. CASE viewers' = {}
  <2>1. hub' = NoHub /\ streams' = {} /\ queue' = <<>> /\ asks' \subseteq asks
    BY <1>1, <1>2 DEF Unmount, StopHub, IInv, OneStream
  <2>. QED
    BY <1>1, <1>2, <2>1 DEF IInv, HubFits, Hub, AsksFit, QueueFits, OneStream, NoHub
<1>3. CASE viewers' # {}
  <2>1. UNCHANGED <<hub, streams, queue, asks>>
    BY <1>3 DEF Unmount
  <2>. QED
    BY <1>1, <1>3, <2>1 DEF IInv, HubFits, Hub, AsksFit, QueueFits, OneStream
<1>. QED  BY <1>2, <1>3

LEMMA StreamKeeps ==
  ASSUME IInv, StreamOpens \/ StreamBreaks \/ StreamDelivers
  PROVE  IInv'
<1>1. UNCHANGED <<viewers, streams, asks, mounts>> /\ hub # NoHub
  BY DEF StreamOpens, StreamBreaks, StreamDelivers, NoHub
<1>2. viewers # {} /\ hub.mount # 0
  BY <1>1 DEF IInv, HubFits, Hub
<1>3. hub' \in Hub({hub.mount}, hub'.shown)
  <2>. hub \in Hub({hub.mount}, hub.shown)
    BY DEF IInv, HubFits, Hub
  <2>1. CASE StreamOpens
    BY <2>1 DEF StreamOpens, Hub
  <2>2. CASE StreamBreaks
    BY <2>2 DEF StreamBreaks, Hub
  <2>3. CASE StreamDelivers
    BY <2>3 DEF StreamDelivers, Hub
  <2>. QED  BY <2>1, <2>2, <2>3
<1>4. queue' \in Seq(RowType) /\ (~hub'.up => queue' = <<>>)
  <2>1. CASE StreamOpens \/ StreamBreaks
    <3>. <<>> \in Seq(RowType)
      OBVIOUS
    <3>. QED  BY <2>1 DEF StreamOpens, StreamBreaks
  <2>2. CASE StreamDelivers
    <3>1. hub'.up
      BY <2>2 DEF StreamDelivers, IInv, HubFits, Hub
    <3>. QED  BY <2>2, <3>1 DEF StreamDelivers, IInv, QueueFits
  <2>. QED  BY <2>1, <2>2
<1>. QED
  BY <1>1, <1>2, <1>3, <1>4 DEF IInv, HubFits, Hub, AsksFit, QueueFits, OneStream

\* A hub without viewers is stopped: no answer is its own.
LEMMA AnswerKeeps ==
  ASSUME IInv, NEW a \in asks,
         Answers(a) \/ Arrives(a) \/ Refused(a) \/ Unanswered(a)
  PROVE  IInv'
<1>1. UNCHANGED <<viewers, streams, queue, mounts>>
  BY DEF Answers, Arrives, Refused, Unanswered
<1>2. viewers = {} => hub' = hub
  BY DEF Answers, Arrives, Refused, Unanswered, IInv, HubFits, Hub, AsksFit
<1>3. hub' \in Hub({hub.mount}, hub'.shown) /\ hub'.up = hub.up
  <2>. hub \in Hub({hub.mount}, hub.shown)
    BY DEF IInv, HubFits, Hub
  <2>1. CASE Answers(a)
    BY <2>1 DEF Answers, Hub
  <2>2. CASE Arrives(a)
    BY <2>2 DEF Arrives, Hub, LoadingAfter
  <2>3. CASE Refused(a)
    BY <2>3 DEF Refused, Hub, LoadingAfter
  <2>4. CASE Unanswered(a)
    BY <2>4 DEF Unanswered, Hub, LoadingAfter
  <2>. QED  BY <2>1, <2>2, <2>3, <2>4
<1>4. AsksFit'
  <2>1. CASE Answers(a)
    <3>. DEFINE b == [a EXCEPT !.done = TRUE, !.rows = FetchAll]
    <3>1. b \in Fetch(a.nth, FetchAll) /\ b.mount = a.mount
      BY DEF IInv, AsksFit, Fetch
    <3>2. asks' = (asks \ {a}) \cup {b}
      BY <2>1 DEF Answers
    <3>. HIDE DEF b
    <3>. QED  BY <1>1, <3>1, <3>2 DEF IInv, AsksFit, Fetch
  <2>2. CASE asks' = asks \ {a}
    BY <1>1, <2>2 DEF IInv, AsksFit
  <2>. QED  BY <2>1, <2>2 DEF Arrives, Refused, Unanswered
<1>. QED
  BY <1>1, <1>2, <1>3, <1>4 DEF IInv, HubFits, Hub, QueueFits, OneStream

LEMMA PollKeeps ==
  ASSUME IInv, NEW k \in Polls, PollTick(k)
  PROVE  IInv'
<1>1. UNCHANGED <<viewers, hub, streams, queue, mounts>> /\ hub # NoHub
  BY DEF PollTick
<1>2. asks' = asks \cup {Ask(k, hub.mount)} /\ hub.mount \in 1 .. mounts
  BY <1>1 DEF PollTick, IInv, HubFits, Hub
<1>3. AsksFit'
  <2>1. Ask(k, hub.mount) \in Fetch(k, <<>>) /\ Ask(k, hub.mount).mount \in 1 .. mounts
    BY <1>2 DEF Ask, Fetch, IInv, HubFits
  <2>. QED  BY <1>1, <1>2, <2>1 DEF IInv, AsksFit, Fetch
<1>. QED
  BY <1>1, <1>3 DEF IInv, HubFits, Hub, QueueFits, OneStream

LEMMA StepKeeps == IInv /\ [Next]_vars => IInv'
<1>. SUFFICES ASSUME IInv, [Next]_vars PROVE IInv'
  OBVIOUS
<1>1. CASE UNCHANGED vars
  BY <1>1 DEF vars, IInv, HubFits, Hub, AsksFit, QueueFits, OneStream
<1>2. CASE Next
  BY <1>2, WebhookKeeps, MountKeeps, UnmountKeeps, StreamKeeps, AnswerKeeps,
     PollKeeps DEF Next
<1>. QED  BY <1>1, <1>2

\* The stream shows an event it has received, an answer is one of the hub's.
LEMMA ShownChanges ==
  ASSUME IInv, [Next]_vars, hub'.mount = hub.mount, hub'.shown # hub.shown
  PROVE  Len(queue') < Len(queue) \/ \E a \in asks \ asks' : a.mount = hub.mount
<1>1. Next
  BY DEF vars
<1>2. CASE StreamDelivers
  BY <1>2 DEF StreamDelivers, IInv, QueueFits
<1>3. CASE \E a \in asks : Answers(a) \/ Arrives(a) \/ Refused(a) \/ Unanswered(a)
  BY <1>3 DEF Answers, Arrives, Refused, Unanswered, IInv, HubFits, Hub
<1>4. CASE \E w \in Viewer : Mount(w) \/ Unmount(w)
  <2>1. PICK w \in Viewer : Mount(w) \/ Unmount(w)
    BY <1>4
  <2>2. CASE Mount(w)
    BY <2>2 DEF Mount, StartHub, IInv, HubFits, Hub, NoHub
  <2>3. CASE Unmount(w)
    BY <2>3 DEF Unmount, StopHub, IInv, HubFits, Hub, NoHub
  <2>. QED  BY <2>1, <2>2, <2>3
<1>5. CASE StreamOpens \/ StreamBreaks
  BY <1>5 DEF StreamOpens, StreamBreaks, IInv, HubFits, Hub
<1>6. CASE \/ \E i \in Item, v \in 1 .. 2 : WebhookPublishes(i, v)
           \/ WebhookCommits \/ WebhookRollsBack
           \/ \E k \in Polls : PollTick(k)
  BY <1>6 DEF WebhookPublishes, WebhookCommits, WebhookRollsBack, PollTick
<1>. QED  BY <1>1, <1>2, <1>3, <1>4, <1>5, <1>6 DEF Next

-----------------------------------------------------------------------------
(* Numbers in order: the induction that FetchAll needs, as a least           *)
(* counterexample.                                                           *)

\* A set of numbers has a least one: induction as a fact about sets.
LEMMA LeastExists ==
  ASSUME NEW S \in SUBSET Nat, S # {}
  PROVE  \E k \in S : \A j \in S : k <= j
<1>1. PICK k \in S : \A j \in S : ~(<<j, k>> \in OpToRel(<, Nat))
  BY NatLessThanWellFounded, WFMin
<1>2. \A j \in S : ~(j < k)
  BY <1>1 DEF OpToRel
<1>. QED  BY <1>2

LEMMA FirstIsLeast ==
  ASSUME NEW S \in SUBSET Nat, S # {}
  PROVE  First(S) \in S /\ \A j \in S : First(S) <= j
BY LeastExists DEF First

LEMMA FiniteNumbers ==
  ASSUME NEW n \in Nat, NEW S \in SUBSET (1 .. n)
  PROVE  IsFiniteSet(S) /\ Cardinality(S) \in Nat
<1>1. IsFiniteSet(1 .. n)
  BY FS_Interval
<1>2. IsFiniteSet(S)
  BY <1>1, FS_Subset
<1>. QED  BY <1>2, FS_CardinalityType

Increasing(f) == \A j, k \in DOMAIN f : j < k => f[j] < f[k]
Enumerable(n) ==
  \A S \in SUBSET (1 .. n) : \E f \in [1 .. Cardinality(S) -> S] : Increasing(f)

LEMMA ExtendOrder ==
  ASSUME NEW n \in Nat, NEW c \in Nat, NEW T \in SUBSET (1 .. n),
         NEW f \in [1 .. c -> T], Increasing(f)
  PROVE  \E g \in [1 .. c + 1 -> T \cup {n + 1}] : Increasing(g)
<1>. DEFINE g == [i \in 1 .. c + 1 |-> IF i = c + 1 THEN n + 1 ELSE f[i]]
<1>1. \A i \in 1 .. c : f[i] \in T /\ f[i] \in 1 .. n
  OBVIOUS
<1>2. \A i \in 1 .. c + 1 : i = c + 1 \/ i \in 1 .. c
  OBVIOUS
<1>3. \A j, k \in 1 .. c : j < k => f[j] < f[k]
  BY DEF Increasing
<1>4. g \in [1 .. c + 1 -> T \cup {n + 1}]
  BY <1>1, <1>2
<1>5. \A j, k \in 1 .. c + 1 : j < k => g[j] < g[k]
  BY <1>1, <1>2, <1>3
<1>6. Increasing(g)
  BY <1>4, <1>5 DEF Increasing
<1>. QED  BY <1>4, <1>6

\* The numbers up to any n can be put in order: were there an n for which they
\* could not, there would be a least one.
LEMMA OrderExists == \A n \in Nat : Enumerable(n)
<1>1. Enumerable(0)
  <2>. SUFFICES ASSUME NEW S \in SUBSET (1 .. 0)
                PROVE  \E f \in [1 .. Cardinality(S) -> S] : Increasing(f)
    BY DEF Enumerable
  <2>1. Cardinality(S) = 0
    <3>1. S = {}
      OBVIOUS
    <3>. QED  BY <3>1, FS_EmptySet
  <2>2. [i \in 1 .. 0 |-> 0] \in [1 .. Cardinality(S) -> S]
    BY <2>1
  <2>3. Increasing([i \in 1 .. 0 |-> 0])
    BY DEF Increasing
  <2>. QED  BY <2>2, <2>3
<1>2. ASSUME NEW n \in Nat, Enumerable(n)
      PROVE  Enumerable(n + 1)
  <2>. SUFFICES ASSUME NEW S \in SUBSET (1 .. n + 1)
                PROVE  \E f \in [1 .. Cardinality(S) -> S] : Increasing(f)
    BY DEF Enumerable
  <2>. DEFINE T == S \ {n + 1}
              c == Cardinality(T)
  <2>1. T \in SUBSET (1 .. n)
    OBVIOUS
  <2>2. PICK f \in [1 .. c -> T] : Increasing(f)
    BY <1>2, <2>1 DEF Enumerable
  <2>3. IsFiniteSet(T) /\ c \in Nat
    BY <1>2, <2>1, FiniteNumbers
  <2>4. CASE n + 1 \notin S
    <3>1. T = S
      BY <2>4
    <3>. QED  BY <2>2, <3>1
  <2>5. CASE n + 1 \in S
    <3>1. S = T \cup {n + 1} /\ n + 1 \notin T
      BY <2>5
    <3>2. Cardinality(S) = c + 1
      BY <2>3, <3>1, FS_AddElement
    <3>3. \E g \in [1 .. c + 1 -> T \cup {n + 1}] : Increasing(g)
      BY <2>1, <2>2, <2>3, ExtendOrder
    <3>. QED  BY <3>1, <3>2, <3>3
  <2>. QED  BY <2>4, <2>5
<1>. DEFINE Bad == {n \in Nat : ~Enumerable(n)}
<1>3. CASE Bad # {}
  <2>1. PICK n \in Bad : \A m \in Bad : n <= m
    BY <1>3, LeastExists
  <2>2. n \in Nat /\ n # 0 /\ ~Enumerable(n)
    BY <1>1, <2>1
  <2>3. n - 1 \in Nat /\ n - 1 \notin Bad
    BY <2>1, <2>2
  <2>4. Enumerable(n - 1)
    BY <2>3
  <2>. QED  BY <1>2, <2>2, <2>3, <2>4
<1>. QED  BY <1>3

LEMMA InOrderIs ==
  ASSUME NEW n \in Nat, NEW S \in SUBSET (1 .. n)
  PROVE  /\ Cardinality(S) \in Nat
         /\ InOrder(S) \in [1 .. Cardinality(S) -> S]
         /\ Increasing(InOrder(S))
<1>1. \E f \in [1 .. Cardinality(S) -> S] : Increasing(f)
  BY OrderExists DEF Enumerable
<1>2. Cardinality(S) \in Nat
  BY FiniteNumbers
<1>. QED  BY <1>1, <1>2 DEF InOrder, Increasing
-----------------------------------------------------------------------------
(* The rows *)

InTime(rows) ==
  \A j, k \in DOMAIN rows :
    j < k => /\ rows[j].item <= rows[k].item
             /\ rows[j].item = rows[k].item => rows[j].key # rows[k].key

(* The rows of a transcript have a key, one of two, and stand in order.      *)
(* Nothing of the kind is true of the other feeds.                           *)
Keyed(r) == r.key \in {"id", "segment"}
Segments == {rows \in Seq(RowType) : (\A k \in DOMAIN rows : Keyed(rows[k])) /\ InTime(rows)}
RowsOf   == IF feed = "transcript" THEN Segments ELSE Seq(RowType)
EventOf  == {e \in RowType : feed = "transcript" => e.key = "segment"}

LEMMA PartFits ==
  ASSUME NEW rows \in Segments, NEW m \in Nat \ {0}, NEW n \in 0 .. Len(rows)
  PROVE  SubSeq(rows, m, n) \in Segments
<1>1. rows \in Seq(RowType) /\ Len(rows) \in Nat /\ DOMAIN rows = 1 .. Len(rows)
  BY DEF Segments
<1>. DEFINE part == SubSeq(rows, m, n)
            len  == IF m <= n THEN n - m + 1 ELSE 0
<1>2. part \in Seq(RowType) /\ DOMAIN part = 1 .. len
  BY <1>1
<1>3. \A k \in 1 .. len : part[k] = rows[m + k - 1] /\ m + k - 1 \in 1 .. Len(rows)
  BY <1>1
<1>4. \A k \in 1 .. len : Keyed(part[k])
  BY <1>1, <1>3 DEF Segments
<1>5. \A j, k \in 1 .. len :
        j < k => /\ part[j].item <= part[k].item
                 /\ part[j].item = part[k].item => part[j].key # part[k].key
  BY <1>1, <1>3 DEF Segments, InTime
<1>. QED  BY <1>2, <1>4, <1>5 DEF Segments, InTime
LEMMA FetchFits ==
  ASSUME feed \in AllFeeds, stored \in [Item -> 0 .. 2]
  PROVE  FetchAll \in RowsOf
<1>. DEFINE S     == {i \in Item : Listed(Row(i, stored[i]))}
            order == InOrder(S)
            rows  == [k \in DOMAIN order |-> Row(order[k], stored[order[k]])]
            last  == IF Len(rows) < Limit THEN Len(rows) ELSE Limit
<1>1. S \in SUBSET (1 .. Items) /\ Items \in Nat
  BY BoundsAssumption DEF Item
<1>2. PICK n \in Nat : order \in [1 .. n -> S] /\ Increasing(order)
  BY <1>1, InOrderIs
<1>3. \A i \in S : Row(i, stored[i]) \in RowType
  BY DEF Row, RowType, Key
<1>4. \A k \in 1 .. n : rows[k] \in RowType /\ Keyed(rows[k]) /\ rows[k].item = order[k]
  BY <1>2, <1>3 DEF Row, Keyed
<1>5. rows \in Seq(RowType) /\ Len(rows) = n
  <2>1. rows \in [1 .. n -> RowType]
    BY <1>2, <1>4
  <2>. HIDE DEF rows
  <2>. QED  BY <2>1
<1>6. InTime(rows)
  <2>1. \A k \in 1 .. n : order[k] \in Nat
    BY <1>1, <1>2
  <2>2. \A j, k \in 1 .. n : j < k => order[j] < order[k]
    BY <1>2 DEF Increasing
  <2>3. DOMAIN rows = 1 .. n
    BY <1>2
  <2>. HIDE DEF rows, order
  <2>4. \A j, k \in 1 .. n : j < k => rows[j].item < rows[k].item
    BY <1>4, <2>1, <2>2
  <2>5. \A k \in 1 .. n : rows[k].item \in Nat
    BY <1>4, <2>1
  <2>. QED  BY <2>3, <2>4, <2>5 DEF InTime
<1>7. rows \in Segments
  BY <1>2, <1>4, <1>5, <1>6 DEF Segments
<1>8. last \in 0 .. Len(rows)
  BY <1>5, BoundsAssumption DEF Limit
<1>9. FetchAll = SubSeq(rows, 1, last)
  BY DEF FetchAll
<1>. HIDE DEF rows, last
<1>10. SubSeq(rows, 1, last) \in Segments
  BY <1>7, <1>8, PartFits
<1>. QED  BY <1>9, <1>10 DEF RowsOf, Segments

\* The row e, put into rows before its f-th row.
IsInserted(new, rows, f, e) ==
  /\ new \in Seq(RowType)
  /\ DOMAIN new = 1 .. Len(rows) + 1
  /\ \A k \in 1 .. Len(rows) + 1 :
       /\ k < f => new[k] = rows[k]
       /\ k = f => new[k] = e
       /\ k > f => new[k] = rows[k - 1]

LEMMA InsertIs ==
  ASSUME NEW rows \in Seq(RowType), NEW f \in 1 .. Len(rows), NEW e \in RowType
  PROVE  IsInserted(InsertBefore(rows, f, e), rows, f, e)
<1>. DEFINE before == SubSeq(rows, 1, f - 1)
            after  == SubSeq(rows, f, Len(rows))
<1>1. before \in Seq(RowType) /\ Len(before) = f - 1 /\ \A k \in 1 .. f - 1 : before[k] = rows[k]
  OBVIOUS
<1>2. after \in Seq(RowType) /\ Len(after) = Len(rows) - f + 1
      /\ \A k \in 1 .. Len(rows) - f + 1 : after[k] = rows[f + k - 1]
  OBVIOUS
<1>. HIDE DEF before, after
<1>3. before \o <<e>> \in Seq(RowType) /\ Len(before \o <<e>>) = f
      /\ \A k \in 1 .. f : (before \o <<e>>)[k] = IF k < f THEN rows[k] ELSE e
  BY <1>1
<1>. DEFINE front == before \o <<e>>
<1>. HIDE DEF front
<1>4. front \in Seq(RowType) /\ Len(front) = f
      /\ \A k \in 1 .. f : front[k] = IF k < f THEN rows[k] ELSE e
  BY <1>3 DEF front
<1>5. InsertBefore(rows, f, e) = front \o after
  BY DEF InsertBefore, front, before, after
<1>6. /\ front \o after \in Seq(RowType)
      /\ Len(front \o after) = Len(front) + Len(after)
      /\ \A k \in 1 .. Len(front) + Len(after) :
           (front \o after)[k] = IF k <= Len(front) THEN front[k] ELSE after[k - Len(front)]
  BY <1>2, <1>4, ConcatProperties
<1>. DEFINE new == front \o after
<1>. HIDE DEF new
<1>7. /\ new \in Seq(RowType) /\ DOMAIN new = 1 .. Len(rows) + 1
      /\ \A k \in 1 .. Len(rows) + 1 : new[k] = IF k <= f THEN front[k] ELSE after[k - f]
  BY <1>2, <1>4, <1>6 DEF new
<1>8. ASSUME NEW k \in 1 .. Len(rows) + 1
      PROVE  /\ k < f => new[k] = rows[k]
             /\ k = f => new[k] = e
             /\ k > f => new[k] = rows[k - 1]
  <2>1. CASE k <= f
    BY <1>4, <1>7, <2>1
  <2>2. CASE k > f
    <3>1. k - f \in 1 .. Len(rows) - f + 1 /\ f + (k - f) - 1 = k - 1
      BY <2>2
    <3>2. new[k] = after[k - f]
      BY <1>7, <2>2
    <3>. QED  BY <1>2, <2>2, <3>1, <3>2
  <2>. QED  BY <2>1, <2>2
<1>9. IsInserted(new, rows, f, e)
  BY <1>7, <1>8 DEF IsInserted
<1>. QED  BY <1>5, <1>9 DEF new

(* A streamed segment takes the place of the version streamed before, or its *)
(* place in time.                                                            *)
RowsIn(rows) == {rows[k] : k \in DOMAIN rows}

LEMMA MergeSegmentFits ==
  ASSUME NEW rows \in Segments, NEW e \in RowType, e.key = "segment"
  PROVE  /\ MergeSegment(rows, e) \in Segments
         /\ RowsIn(MergeSegment(rows, e)) =
              {r \in RowsIn(rows) : r.item # e.item \/ r.key = "id"} \cup {e}
<1>. DEFINE Others == {r \in RowsIn(rows) : r.item # e.item \/ r.key = "id"}
            \* What may stand before what.
            Before(r, q) == r.item <= q.item /\ (r.item = q.item => r.key # q.key)
<1>. DEFINE same  == {k \in DOMAIN rows : SameRow(rows[k], e)}
            later == {k \in DOMAIN rows : rows[k].item > e.item}
<1>1. /\ rows \in Seq(RowType) /\ Len(rows) \in Nat /\ DOMAIN rows = 1 .. Len(rows)
      /\ \A k \in DOMAIN rows : rows[k] \in RowType /\ Keyed(rows[k])
      /\ InTime(rows)
  BY DEF Segments
<1>2. e.item \in Nat /\ \A k \in DOMAIN rows : rows[k].item \in Nat
  BY <1>1 DEF RowType, Item
<1>3. same = {k \in DOMAIN rows : rows[k].item = e.item /\ rows[k].key = e.key}
  BY <1>1 DEF SameRow
<1>4. same \in SUBSET Nat /\ later \in SUBSET Nat
  BY <1>1
<1>. HIDE DEF same, later
<1>5. CASE same # {}
  <2>1. First(same) \in same
    BY <1>4, <1>5, FirstIsLeast
  <2>2. PICK f \in DOMAIN rows : f = First(same) /\ rows[f].item = e.item /\ rows[f].key = e.key
    BY <1>3, <2>1
  <2>3. MergeSegment(rows, e) = [rows EXCEPT ![f] = e]
    BY <1>5, <2>2 DEF MergeSegment, same
  <2>. DEFINE new == [rows EXCEPT ![f] = e]
  <2>4. new \in Seq(RowType) /\ DOMAIN new = DOMAIN rows
    BY <1>1
  <2>5. \A k \in DOMAIN rows : new[k].item = rows[k].item /\ new[k].key = rows[k].key
    BY <1>1, <2>2
  <2>6. \A k \in DOMAIN rows : new[k] = IF k = f THEN e ELSE rows[k]
    BY <1>1
  <2>. HIDE DEF new
  <2>7. new \in Segments
    BY <1>1, <2>4, <2>5 DEF Segments, InTime, Keyed
  <2>8. \A k \in DOMAIN rows : (rows[k].item # e.item \/ rows[k].key = "id") <=> k # f
    BY <1>1, <1>2, <2>2 DEF InTime, Keyed
  <2>9. RowsIn(new) = Others \cup {e}
    BY <2>2, <2>4, <2>6, <2>8 DEF RowsIn
  <2>. QED  BY <2>3, <2>7, <2>9 DEF new
<1>6. CASE same = {} /\ later # {}
  <2>1. PICK f \in DOMAIN rows :
          f = First(later) /\ rows[f].item > e.item /\ \A j \in later : f <= j
    <3>1. First(later) \in later /\ \A j \in later : First(later) <= j
      BY <1>4, <1>6, FirstIsLeast
    <3>. QED  BY <3>1 DEF later
  <2>2. MergeSegment(rows, e) = InsertBefore(rows, f, e)
    BY <1>6, <2>1 DEF MergeSegment, same, later
  <2>3. ASSUME NEW k \in DOMAIN rows, k < f
        PROVE  Before(rows[k], e)
    <3>1. k \notin later
      BY <1>1, <2>1, <2>3
    <3>2. ~(rows[k].item > e.item) /\ ~(rows[k].item = e.item /\ rows[k].key = e.key)
      BY <1>3, <1>6, <3>1 DEF later
    <3>. QED  BY <1>2, <3>2
  <2>4. \A k \in DOMAIN rows : k >= f => rows[k].item > e.item
    BY <1>1, <1>2, <2>1 DEF InTime
  <2>. DEFINE new == InsertBefore(rows, f, e)
  <2>5. /\ new \in Seq(RowType) /\ DOMAIN new = 1 .. Len(rows) + 1
        /\ \A k \in 1 .. Len(rows) + 1 :
             /\ k < f => new[k] = rows[k]
             /\ k = f => new[k] = e
             /\ k > f => new[k] = rows[k - 1]
    <3>1. f \in 1 .. Len(rows)
      BY <1>1, <2>1
    <3>2. rows \in Seq(RowType)
      BY <1>1
    <3>3. IsInserted(new, rows, f, e)
      BY <3>1, <3>2, InsertIs
    <3>. HIDE DEF new
    <3>. QED  BY <3>3 DEF IsInserted
  <2>. HIDE DEF new
  <2>6. ASSUME NEW k \in 1 .. Len(rows) + 1
        PROVE  \/ k = f /\ new[k] = e
               \/ k \in DOMAIN rows /\ new[k] = rows[k]
               \/ k - 1 \in DOMAIN rows /\ new[k] = rows[k - 1]
    <3>1. k < f => k \in DOMAIN rows
      BY <1>1, <2>1
    <3>2. k > f => k - 1 \in DOMAIN rows
      BY <1>1, <2>1
    <3>3. k < f \/ k = f \/ k > f
      BY <1>1, <2>1
    <3>. QED  BY <2>5, <3>1, <3>2, <3>3
  <2>7. ASSUME NEW j \in 1 .. Len(rows) + 1, NEW k \in 1 .. Len(rows) + 1, j < k
        PROVE  Before(new[j], new[k])
    <3>. Len(rows) \in Nat /\ f \in 1 .. Len(rows)
      BY <1>1, <2>1
    <3>1. CASE k < f
      <4>1. j \in DOMAIN rows /\ k \in DOMAIN rows /\ j < f
        BY <1>1, <2>7, <3>1
      <4>2. new[j] = rows[j] /\ new[k] = rows[k]
        BY <2>5, <3>1, <4>1
      <4>. QED  BY <1>1, <2>7, <4>1, <4>2 DEF InTime
    <3>2. CASE j > f
      <4>1. /\ j - 1 \in DOMAIN rows /\ k - 1 \in DOMAIN rows /\ j - 1 < k - 1
            /\ j > f /\ k > f
        BY <1>1, <2>7, <3>2
      <4>2. new[j] = rows[j - 1] /\ new[k] = rows[k - 1]
        BY <2>5, <4>1
      <4>. QED  BY <1>1, <4>1, <4>2 DEF InTime
    <3>3. CASE j <= f /\ f <= k
      <4>1. j < f => j \in DOMAIN rows /\ new[j] = rows[j] /\ Before(rows[j], e)
        BY <1>1, <2>3, <2>5
      <4>2. CASE k > f
        <5>1. k - 1 \in DOMAIN rows /\ k - 1 >= f /\ k > f
          BY <1>1, <4>2
        <5>2. new[k] = rows[k - 1] /\ rows[k - 1].item > e.item
          BY <2>4, <2>5, <5>1
        <5>3. new[j] = e \/ (j \in DOMAIN rows /\ new[j] = rows[j] /\ Before(rows[j], e))
          BY <2>5, <3>3, <4>1
        <5>. QED  BY <1>2, <5>1, <5>2, <5>3, <4>1
      <4>3. CASE k = f
        BY <2>5, <2>7, <4>1, <4>3
      <4>. QED  BY <3>3, <4>2, <4>3
    <3>. QED  BY <2>7, <3>1, <3>2, <3>3
  <2>8. new \in Segments
    <3>1. \A k \in 1 .. Len(rows) + 1 : Keyed(new[k])
      BY <1>1, <2>6 DEF Keyed
    <3>. QED  BY <2>5, <2>7, <3>1 DEF Segments, InTime
  <2>9. RowsIn(new) = RowsIn(rows) \cup {e}
    <3>1. ASSUME NEW k \in 1 .. Len(rows) + 1
          PROVE  new[k] \in RowsIn(rows) \cup {e}
      BY <2>6 DEF RowsIn
    <3>2. ASSUME NEW k \in DOMAIN rows
          PROVE  \E j \in 1 .. Len(rows) + 1 : new[j] = rows[k]
      <4>1. CASE k < f
        <5>1. k \in 1 .. Len(rows) + 1
          BY <1>1
        <5>. QED  BY <2>5, <4>1, <5>1
      <4>2. CASE k >= f
        <5>1. k + 1 \in 1 .. Len(rows) + 1 /\ k + 1 > f /\ k + 1 - 1 = k
          BY <1>1, <2>1, <4>2
        <5>2. new[k + 1] = rows[(k + 1) - 1]
          BY <2>5, <5>1
        <5>3. (k + 1) - 1 = k
          BY <1>1
        <5>. QED  BY <5>1, <5>2, <5>3
      <4>. QED  BY <1>1, <2>1, <4>1, <4>2
    <3>3. f \in 1 .. Len(rows) + 1 /\ new[f] = e
      BY <1>1, <2>1, <2>5
    <3>4. RowsIn(new) = {new[k] : k \in 1 .. Len(rows) + 1}
      BY <2>5 DEF RowsIn
    <3>5. RowsIn(rows) \subseteq RowsIn(new)
      BY <3>2, <3>4 DEF RowsIn
    <3>. QED  BY <3>1, <3>3, <3>4, <3>5
  <2>10. RowsIn(rows) = Others
    BY <1>1, <1>3, <1>6 DEF RowsIn, Keyed
  <2>. QED  BY <2>2, <2>8, <2>9, <2>10 DEF new
<1>7. CASE same = {} /\ later = {}
  <2>1. MergeSegment(rows, e) = Append(rows, e)
    BY <1>7 DEF MergeSegment, same, later
  <2>2. \A k \in DOMAIN rows : Before(rows[k], e)
    BY <1>2, <1>3, <1>7 DEF later
  <2>. DEFINE new == Append(rows, e)
  <2>3. /\ new \in Seq(RowType) /\ DOMAIN new = 1 .. Len(rows) + 1
        /\ \A k \in 1 .. Len(rows) + 1 : new[k] = IF k = Len(rows) + 1 THEN e ELSE rows[k]
    BY <1>1
  <2>. HIDE DEF new
  <2>4. new \in Segments
    BY <1>1, <2>2, <2>3 DEF Segments, InTime, Keyed
  <2>5. RowsIn(new) = RowsIn(rows) \cup {e}
    <3>1. \A k \in DOMAIN rows : k \in DOMAIN new /\ new[k] = rows[k]
      BY <1>1, <2>3
    <3>2. \A k \in DOMAIN new : k \in DOMAIN rows \/ k = Len(rows) + 1
      BY <1>1, <2>3
    <3>3. Len(rows) + 1 \in DOMAIN new /\ new[Len(rows) + 1] = e
      BY <1>1, <2>3
    <3>. QED  BY <3>1, <3>2, <3>3 DEF RowsIn
  <2>6. RowsIn(rows) = Others
    BY <1>1, <1>3, <1>7 DEF RowsIn, Keyed
  <2>. QED  BY <2>1, <2>4, <2>5, <2>6 DEF new
<1>. QED  BY <1>5, <1>6, <1>7

LEMMA MergeFits ==
  ASSUME feed \in AllFeeds, NEW rows \in RowsOf, NEW e \in EventOf
  PROVE  Merge(rows, e) \in RowsOf
<1>1. CASE feed = "transcript"
  BY <1>1, MergeSegmentFits DEF Merge, RowsOf, EventOf
<1>2. CASE feed # "transcript"
  <2>1. rows \in Seq(RowType) /\ Append(rows, e) \in Seq(RowType)
    BY <1>2 DEF RowsOf, EventOf
  <2>2. ASSUME NEW k
        PROVE  [rows EXCEPT ![k] = e] \in Seq(RowType)
    <3>1. CASE k \in 1 .. Len(rows)
      BY <2>1, <3>1, ExceptSeq DEF EventOf
    <3>2. CASE k \notin 1 .. Len(rows)
      <4>1. DOMAIN rows = 1 .. Len(rows) /\ rows \in [1 .. Len(rows) -> RowType]
        BY <2>1
      <4>2. [rows EXCEPT ![k] = e] = rows
        BY <3>2, <4>1
      <4>. QED  BY <2>1, <4>2
    <3>. QED  BY <3>1, <3>2
  <2>3. MergeParticipant(rows, e) \in Seq(RowType) /\ MergeMessage(rows, e) \in Seq(RowType)
    BY <2>1, <2>2 DEF MergeParticipant, MergeMessage
  <2>. QED  BY <1>2, <2>3 DEF AllFeeds, Merge, RowsOf
<1>. QED  BY <1>1, <1>2
-----------------------------------------------------------------------------
(* What is fetched, queued and shown.  IInv gives the numbers of mounts.     *)

DataInv ==
  /\ TypeOK
  /\ hub.shown \in RowsOf
  /\ \A a \in asks : a.rows \in RowsOf
  /\ queue \in Seq(EventOf)

LEMMA NoRows == <<>> \in RowsOf
BY DEF RowsOf, Segments, InTime

LEMMA RowsAreTyped == RowsOf \subseteq Seq(RowType)
BY DEF RowsOf, Segments

LEMMA EmptyQueue ==
  <<>> \in Seq(RowType) /\ Len(<<>>) <= QueueMax /\ <<>> \in Seq(EventOf)
<1>1. <<>> \in Seq(RowType) /\ Len(<<>>) = 0
  OBVIOUS
<1>2. <<>> \in Seq(EventOf)
  OBVIOUS
<1>. QED  BY <1>1, <1>2, BoundsAssumption

LEMMA InitData == Init => DataInv
<1>. SUFFICES ASSUME Init PROVE DataInv
  OBVIOUS
<1>1. hub \in [mount : 0 .. MaxMounts, shown : Seq(RowType), up : BOOLEAN, loading : BOOLEAN]
  BY BoundsAssumption DEF Init, NoHub
<1>2. TypeOK
  BY <1>1, FeedsAssumption, BoundsAssumption DEF Init, TypeOK, NoWrite
<1>3. hub.shown \in RowsOf /\ queue \in Seq(EventOf)
  BY NoRows DEF Init, NoHub
<1>. QED  BY <1>2, <1>3 DEF DataInv, Init

LEMMA WebhookKeepsData ==
  ASSUME IInv, DataInv,
         \/ \E i \in Item, v \in 1 .. 2 : WebhookPublishes(i, v)
         \/ WebhookCommits \/ WebhookRollsBack
  PROVE  DataInv'
<1>1. UNCHANGED <<feed, viewers, hub, streams, asks, mounts>>
  BY DEF WebhookPublishes, WebhookCommits, WebhookRollsBack
<1>. DEFINE Written == /\ stored' \in [Item -> 0 .. 2]
                       /\ writing' \in [item : 0 .. Items, ver : 0 .. 2]
                       /\ faults' \in 0 .. MaxFaults
            Queued  == /\ queue' \in Seq(RowType) /\ Len(queue') <= QueueMax
                       /\ queue' \in Seq(EventOf)
<1>2. NoWrite \in [item : 0 .. Items, ver : 0 .. 2]
  BY BoundsAssumption DEF NoWrite
<1>3. Written
  <2>. USE BoundsAssumption DEF DataInv, TypeOK
  <2>1. CASE \E i \in Item, v \in 1 .. 2 : WebhookPublishes(i, v)
    BY <2>1 DEF WebhookPublishes, Item
  <2>2. CASE WebhookCommits
    BY <1>2, <2>2 DEF WebhookCommits
  <2>3. CASE WebhookRollsBack
    BY <1>2, <2>3 DEF WebhookRollsBack
  <2>. QED  BY <2>1, <2>2, <2>3
<1>4. Queued
  <2>. USE DEF DataInv, TypeOK
  <2>1. ASSUME NEW i \in Item, NEW v \in 1 .. 2, WebhookPublishes(i, v)
        PROVE  Queued
    <3>1. Event(i, v) \in RowType
      BY DEF Event, RowType, Key
    <3>2. Event(i, v) \in EventOf
      BY <3>1 DEF Event, EventOf
    <3>3. CASE queue' = Append(queue, Event(i, v)) /\ Len(queue) < QueueMax
      <4>1. Append(queue, Event(i, v)) \in Seq(EventOf)
        BY <3>2
      <4>2. Append(queue, Event(i, v)) \in Seq(RowType) /\ Len(queue') = Len(queue) + 1
        BY <3>1, <3>3
      <4>. QED  BY <3>3, <4>1, <4>2, BoundsAssumption
    <3>4. CASE queue' = queue
      BY <3>4
    <3>. QED  BY <2>1, <3>3, <3>4 DEF WebhookPublishes, Publish
  <2>2. CASE WebhookCommits \/ WebhookRollsBack
    BY <2>2 DEF WebhookCommits, WebhookRollsBack
  <2>. QED  BY <2>1, <2>2
<1>5. TypeOK'
  BY <1>1, <1>3, <1>4 DEF DataInv, TypeOK
<1>6. RowsOf' = RowsOf /\ EventOf' = EventOf
  BY <1>1 DEF RowsOf, EventOf
<1>. QED  BY <1>1, <1>4, <1>5, <1>6 DEF DataInv

LEMMA MountKeepsData ==
  ASSUME IInv, DataInv, NEW w \in Viewer, Mount(w)
  PROVE  DataInv'
<1>1. UNCHANGED <<feed, stored, writing, queue, faults>>
  BY DEF Mount
<1>2. RowsOf' = RowsOf /\ EventOf' = EventOf
  BY <1>1 DEF RowsOf, EventOf
<1>3. viewers' \subseteq {"panel", "banner", "attendees"}
  BY DEF Mount, Viewer, DataInv, TypeOK
<1>4. CASE hub # NoHub
  <2>1. UNCHANGED <<hub, asks, mounts, streams>>
    BY <1>4 DEF Mount
  <2>. QED  BY <1>1, <1>2, <1>3, <2>1 DEF DataInv, TypeOK
<1>5. CASE hub = NoHub
  <2>1. /\ mounts' \in 0 .. MaxMounts /\ mounts + 1 \in 1 .. MaxMounts
        /\ hub' = [mount |-> mounts + 1, shown |-> <<>>, up |-> FALSE, loading |-> TRUE]
        /\ asks' = asks \cup {Ask(0, mounts + 1)}
        /\ streams' = streams \cup {mounts + 1}
    BY <1>5, BoundsAssumption DEF Mount, StartHub, DataInv, TypeOK
  <2>2. <<>> \in Seq(RowType) /\ <<>> \in RowsOf
    BY NoRows
  <2>3. Ask(0, mounts + 1) \in AskType /\ Ask(0, mounts + 1).rows \in RowsOf
    BY <2>1, <2>2, BoundsAssumption DEF Ask, AskType
  <2>4. /\ hub' \in [mount : 0 .. MaxMounts, shown : Seq(RowType), up : BOOLEAN, loading : BOOLEAN]
        /\ hub'.shown \in RowsOf
    BY <2>1, <2>2
  <2>5. TypeOK'
    BY <1>1, <1>3, <2>1, <2>3, <2>4 DEF DataInv, TypeOK
  <2>. QED  BY <1>1, <1>2, <2>1, <2>3, <2>4, <2>5 DEF DataInv
<1>. QED  BY <1>4, <1>5

LEMMA UnmountKeepsData ==
  ASSUME IInv, DataInv, NEW w \in Viewer, Unmount(w)
  PROVE  DataInv'
<1>1. UNCHANGED <<feed, stored, writing, mounts, faults>>
  BY DEF Unmount
<1>2. RowsOf' = RowsOf /\ EventOf' = EventOf
  BY <1>1 DEF RowsOf, EventOf
<1>3. viewers' \subseteq viewers /\ streams' \subseteq streams /\ asks' \subseteq asks
  BY DEF Unmount, StopHub
<1>4. (hub' = hub /\ queue' = queue) \/ (hub' = NoHub /\ queue' = <<>>)
  BY DEF Unmount, StopHub
<1>5. /\ hub' \in [mount : 0 .. MaxMounts, shown : Seq(RowType), up : BOOLEAN, loading : BOOLEAN]
      /\ hub'.shown \in RowsOf
  <2>1. /\ NoHub \in [mount : 0 .. MaxMounts, shown : Seq(RowType), up : BOOLEAN, loading : BOOLEAN]
        /\ NoHub.shown \in RowsOf
    BY NoRows, EmptyQueue, BoundsAssumption DEF NoHub
  <2>. QED  BY <1>4, <2>1 DEF DataInv, TypeOK
<1>6. queue' \in Seq(RowType) /\ Len(queue') <= QueueMax /\ queue' \in Seq(EventOf)
  BY <1>4, EmptyQueue DEF DataInv, TypeOK
<1>7. TypeOK'
  BY <1>1, <1>3, <1>5, <1>6 DEF DataInv, TypeOK
<1>. QED  BY <1>2, <1>3, <1>5, <1>6, <1>7 DEF DataInv

LEMMA StreamKeepsData ==
  ASSUME IInv, DataInv, StreamOpens \/ StreamBreaks \/ StreamDelivers
  PROVE  DataInv'
<1>1. UNCHANGED <<feed, stored, writing, viewers, streams, asks, mounts>>
  BY DEF StreamOpens, StreamBreaks, StreamDelivers
<1>2. RowsOf' = RowsOf /\ EventOf' = EventOf
  BY <1>1 DEF RowsOf, EventOf
<1>3. faults' \in 0 .. MaxFaults
  BY BoundsAssumption DEF StreamOpens, StreamBreaks, StreamDelivers, DataInv, TypeOK
<1>4. queue' = <<>> \/ (queue # <<>> /\ queue' = Tail(queue))
  BY DEF StreamOpens, StreamBreaks, StreamDelivers
<1>5. queue' \in Seq(RowType) /\ Len(queue') <= QueueMax /\ queue' \in Seq(EventOf)
  <2>1. CASE queue' = <<>>
    BY <2>1, EmptyQueue
  <2>2. CASE queue # <<>> /\ queue' = Tail(queue)
    <3>1. /\ Tail(queue) \in Seq(RowType) /\ Tail(queue) \in Seq(EventOf)
          /\ Len(Tail(queue)) = Len(queue) - 1
      BY <2>2, HeadTailProperties DEF DataInv, TypeOK
    <3>2. Len(queue) \in Nat /\ Len(queue) <= QueueMax
      BY DEF DataInv, TypeOK
    <3>. QED  BY <2>2, <3>1, <3>2, BoundsAssumption
  <2>. QED  BY <1>4, <2>1, <2>2
<1>6. hub'.shown \in RowsOf
  <2>1. CASE StreamDelivers
    <3>1. Head(queue) \in EventOf /\ feed \in AllFeeds
      BY <2>1 DEF StreamDelivers, DataInv, TypeOK
    <3>2. Merge(hub.shown, Head(queue)) \in RowsOf
      BY <3>1, MergeFits DEF DataInv
    <3>. QED  BY <2>1, <3>2 DEF StreamDelivers, DataInv, TypeOK
  <2>2. CASE StreamOpens \/ StreamBreaks
    BY <2>2 DEF StreamOpens, StreamBreaks, DataInv, TypeOK
  <2>. QED  BY <2>1, <2>2
<1>7. hub' \in [mount : 0 .. MaxMounts, shown : Seq(RowType), up : BOOLEAN, loading : BOOLEAN]
  <2>1. hub'.shown \in Seq(RowType)
    BY <1>6, RowsAreTyped
  <2>. QED  BY <2>1 DEF StreamOpens, StreamBreaks, StreamDelivers, DataInv, TypeOK
<1>8. TypeOK'
  BY <1>1, <1>3, <1>5, <1>7 DEF DataInv, TypeOK
<1>. QED  BY <1>1, <1>2, <1>5, <1>6, <1>8 DEF DataInv

LEMMA AnswerKeepsData ==
  ASSUME IInv, DataInv, NEW a \in asks,
         Answers(a) \/ Arrives(a) \/ Refused(a) \/ Unanswered(a)
  PROVE  DataInv'
<1>1. UNCHANGED <<feed, stored, writing, viewers, streams, queue, mounts>>
  BY DEF Answers, Arrives, Refused, Unanswered
<1>2. RowsOf' = RowsOf /\ EventOf' = EventOf
  BY <1>1 DEF RowsOf, EventOf
<1>3. faults' \in 0 .. MaxFaults
  BY BoundsAssumption DEF Answers, Arrives, Refused, Unanswered, DataInv, TypeOK
<1>4. hub'.shown \in RowsOf
  BY NoRows DEF Answers, Arrives, Refused, Unanswered, DataInv, TypeOK
<1>5. hub' \in [mount : 0 .. MaxMounts, shown : Seq(RowType), up : BOOLEAN, loading : BOOLEAN]
  <2>1. hub'.shown \in Seq(RowType)
    BY <1>4, RowsAreTyped
  <2>2. LoadingAfter(a) \in BOOLEAN
    BY DEF LoadingAfter
  <2>. QED  BY <2>1, <2>2 DEF Answers, Arrives, Refused, Unanswered, DataInv, TypeOK
<1>6. \A b \in asks' : b \in AskType /\ b.rows \in RowsOf
  <2>1. CASE Answers(a)
    <3>. DEFINE b == [a EXCEPT !.done = TRUE, !.rows = FetchAll]
    <3>1. FetchAll \in RowsOf /\ FetchAll \in Seq(RowType)
      BY FetchFits, RowsAreTyped DEF DataInv, TypeOK
    <3>2. b \in AskType /\ b.rows = FetchAll
      BY <3>1 DEF DataInv, TypeOK, AskType
    <3>3. asks' = (asks \ {a}) \cup {b}
      BY <2>1 DEF Answers
    <3>. HIDE DEF b
    <3>. QED  BY <3>1, <3>2, <3>3 DEF DataInv, TypeOK
  <2>2. CASE asks' = asks \ {a}
    BY <2>2 DEF DataInv, TypeOK
  <2>. QED  BY <2>1, <2>2 DEF Arrives, Refused, Unanswered
<1>7. TypeOK'
  BY <1>1, <1>3, <1>5, <1>6 DEF DataInv, TypeOK
<1>. QED  BY <1>1, <1>2, <1>4, <1>6, <1>7 DEF DataInv

LEMMA PollKeepsData ==
  ASSUME IInv, DataInv, NEW k \in Polls, PollTick(k)
  PROVE  DataInv'
<1>1. UNCHANGED <<feed, stored, writing, viewers, hub, streams, queue, mounts, faults>>
  BY DEF PollTick
<1>2. asks' = asks \cup {Ask(k, hub.mount)} /\ hub.mount \in 1 .. MaxMounts
  BY DEF PollTick, IInv, HubFits, Hub, DataInv, TypeOK
<1>3. Ask(k, hub.mount) \in AskType /\ Ask(k, hub.mount).rows \in RowsOf
  <2>1. <<>> \in Seq(RowType)
    OBVIOUS
  <2>. QED  BY <1>2, <2>1, NoRows, BoundsAssumption DEF Ask, AskType, Polls
<1>4. TypeOK'
  BY <1>1, <1>2, <1>3 DEF DataInv, TypeOK
<1>5. RowsOf' = RowsOf /\ EventOf' = EventOf
  BY <1>1 DEF RowsOf, EventOf
<1>. QED  BY <1>1, <1>2, <1>3, <1>4, <1>5 DEF DataInv

LEMMA StepKeepsData == IInv /\ DataInv /\ [Next]_vars => DataInv'
<1>. SUFFICES ASSUME IInv, DataInv, [Next]_vars PROVE DataInv'
  OBVIOUS
<1>1. CASE UNCHANGED vars
  BY <1>1 DEF vars, DataInv, TypeOK, RowsOf, EventOf
<1>2. CASE Next
  BY <1>2, WebhookKeepsData, MountKeepsData, UnmountKeepsData, StreamKeepsData,
     AnswerKeepsData, PollKeepsData DEF Next
<1>. QED  BY <1>1, <1>2

-----------------------------------------------------------------------------
LEMMA Invariance == Spec => []IInv
<1>. QED  BY InitIInv, StepKeeps, PTL DEF Spec

LEMMA DataInvariance == Spec => []DataInv
<1>. QED  BY InitData, StepKeepsData, Invariance, PTL DEF Spec

(* Every variable keeps its type: what a hub shows, what is fetched and what *)
(* is queued are sequences of rows, and a queue holds no more than it may    *)
(* (use-live-transcript.ts, use-meeting-extras.ts, pubsub.py).               *)
THEOREM TypeCorrect == Spec => []TypeOK
<1>1. DataInv => TypeOK
  BY DEF DataInv
<1>. QED  BY <1>1, DataInvariance, PTL

(* The panel and the banner read in the order in which things were said,     *)
(* whatever mix of the first fetch, polls, answers that come late and        *)
(* streamed segments has put the rows there, and of a segment that shows     *)
(* twice one row was fetched and the other streamed: the fetched row lacks   *)
(* the recall_segment_id that mergeSegment compares                          *)
(* (use-live-transcript.ts; SegmentResponse in store/transcripts.py).        *)
THEOREM ReadsInOrder == Spec => []SpokenOrder
<1>1. DataInv => SpokenOrder
  <2>. SUFFICES ASSUME DataInv, feed = "transcript",
                       NEW rows \in {PanelRows, BannerRows}
                PROVE  rows \in Segments
    BY DEF SpokenOrder, Segments, InTime, Keyed
  <2>1. hub.shown \in Segments
    BY DEF DataInv, RowsOf
  <2>2. PanelRows \in Segments
    BY <2>1, NoRows DEF PanelRows, RowsOf
  <2>3. BannerRows \in Segments
    <3>1. PICK n \in Nat : n = Len(hub.shown)
      BY <2>1 DEF Segments
    <3>. DEFINE m == IF n > 3 THEN n - 2 ELSE 1
    <3>2. m \in Nat \ {0}
      OBVIOUS
    <3>3. BannerRows = SubSeq(hub.shown, m, n) /\ n \in 0 .. Len(hub.shown)
      BY <3>1 DEF BannerRows
    <3>. HIDE DEF m
    <3>. QED  BY <2>1, <3>2, <3>3, PartFits
  <2>. QED  BY <2>2, <2>3
<1>. QED  BY <1>1, DataInvariance, PTL

(* One stream is open while a meeting is viewed and none otherwise, however  *)
(* the components that share the hook are mounted and unmounted              *)
(* (use-live-transcript.ts: startHub, stopHub, makeSubscribe).               *)
THEOREM StreamsFollowViewers == Spec => []OneStream
<1>1. IInv => OneStream
  BY DEF IInv
<1>. QED  BY <1>1, Invariance, PTL

(* What a stopped hub had asked for never reaches the next one: the flag     *)
(* that its fetches look at (use-live-transcript.ts, use-meeting-extras.ts). *)
THEOREM AnswersAreOwn == Spec => OwnAnswersOnly
<1>1. IInv /\ [Next]_vars =>
        [ /\ hub'.mount = hub.mount
          /\ hub'.shown # hub.shown
          => Len(queue') < Len(queue)
             \/ \E a \in asks \ asks' : a.mount = hub.mount ]_vars
  BY ShownChanges
<1>. QED  BY <1>1, Invariance, PTL DEF Spec, OwnAnswersOnly

(* A streamed segment replaces the version streamed before and disturbs no   *)
(* other row: that the merge looks only at the first row with its key is     *)
(* enough, because no mix of answers and events ever shows two rows of one   *)
(* key.  A fetched row of the same segment has another key and stays         *)
(* (mergeSegment).                                                           *)
THEOREM SegmentsFallIn == Spec => SegmentTakesItsPlace
<1>1. ASSUME DataInv, feed = "transcript", StreamDelivers
      PROVE  ShownRows' = {r \in ShownRows : r.item # Head(queue).item \/ r.key = "id"}
                           \cup {Head(queue)}
  <2>1. Head(queue) \in RowType /\ Head(queue).key = "segment"
    BY <1>1 DEF StreamDelivers, DataInv, EventOf
  <2>2. hub.shown \in Segments
    BY <1>1 DEF DataInv, RowsOf
  <2>3. hub'.shown = MergeSegment(hub.shown, Head(queue))
    BY <1>1 DEF StreamDelivers, Merge, DataInv, TypeOK
  <2>4. RowsIn(hub'.shown) =
          {r \in RowsIn(hub.shown) : r.item # Head(queue).item \/ r.key = "id"}
            \cup {Head(queue)}
    BY <2>1, <2>2, <2>3, MergeSegmentFits
  <2>. QED  BY <2>4 DEF ShownRows, RowsIn
<1>2. DataInv /\ [Next]_vars =>
        [ feed = "transcript" /\ StreamDelivers =>
            LET e == Head(queue)
            IN  ShownRows' =
                  {r \in ShownRows : r.item # e.item \/ r.key = "id"} \cup {e} ]_vars
  BY <1>1
<1>. QED  BY <1>2, DataInvariance, PTL DEF Spec, SegmentTakesItsPlace
=============================================================================
