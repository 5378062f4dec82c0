------------------------- MODULE CalendarSyncProofs -------------------------
(***************************************************************************)
(* Proofs about CalendarSync, for any number of calendars' events, of      *)
(* overlapping syncs, of rooms, dates, deals and edits: the type           *)
(* invariant, that the writer lock has one holder whose writes cannot      *)
(* conflict, that no sync loses an opt-out, an assignment or a row from    *)
(* Zoom, and, as long as the syncs of one calendar do not overlap, that    *)
(* one card shows a call.                                                  *)
(***************************************************************************)
EXTENDS CalendarSync, TLAPS

\* What a sync has written cannot conflict with what is committed meanwhile.
WrittenFits == \A s \in Syncs : sync[s].pc = "written" => sync[s].lock /\ ~Conflict(s)

\* The writer lock has one holder at most.
OneHolder == \A s \in Syncs : sync[s].lock => NoOtherHolds(s)

IInv == TypeOK /\ WrittenFits /\ OneHolder /\ OptedOutIsOff

-----------------------------------------------------------------------------
\* Operators on rows.

\* A calendar's entry gives a row that is up to date.
LEMMA NewRowType ==
    ASSUME NEW a \in Entry
    PROVE  NewRow(a) \in Row
  BY DEF Entry, NewRow, Row

\* A row with other choices is a row.
LEMMA WithChoicesType ==
    ASSUME NEW r \in Row, NEW deal \in Deals \cup {NoDeal}, NEW bot \in BOOLEAN
    PROVE  /\ WithChoices(r, deal, bot) \in Row
           /\ WithChoices(r, deal, bot).deal = deal
           /\ WithChoices(r, deal, bot).bot = bot
  BY DEF WithChoices, Row

\* A row that has come further is a row with the same choices.
LEMMA RecordedType ==
    ASSUME NEW r \in Row, NEW link \in Links
    PROVE  /\ Recorded(r, link) \in Row
           /\ Recorded(r, link).deal = r.deal
           /\ Recorded(r, link).bot = r.bot
  BY DEF Recorded, Row

\* An UPDATE of a row gives a row, and keeps a choice the session has not changed.
LEMMA UpdatedType ==
    ASSUME NEW old \in Row, NEW new \in Row, NEW r \in Row
    PROVE  /\ Updated(old, new, r) \in Row
           /\ Updated(old, new, r).deal = IF new.deal = old.deal THEN r.deal ELSE new.deal
           /\ Updated(old, new, r).bot = IF new.bot = old.bot THEN r.bot ELSE new.bot
  <1>1. /\ Column(old.date, new.date, r.date) \in Dates \cup {NoDate}
        /\ Column(old.link, new.link, r.link) \in Links
        /\ Column(old.deal, new.deal, r.deal) \in Deals \cup {NoDeal}
        /\ Column(old.bot, new.bot, r.bot) \in BOOLEAN
        /\ Column(old.status, new.status, r.status) \in {"uploading", "recorded"}
    BY DEF Column, Row
  <1>2. QED
    BY <1>1 DEF Updated, Row, Column

\* The session's copy of an event that the provider has answered with.
LEMMA UpsertedType ==
    ASSUME TypeOK, NEW s \in Syncs, NEW e \in Answered(s)
    PROVE  /\ e \in Events
           /\ Upserted(s, e) \in Row
           /\ sync[s].seen[e] # NoRow =>
                /\ sync[s].seen[e] \in Row
                /\ Upserted(s, e).deal = sync[s].seen[e].deal
                /\ Upserted(s, e).bot = sync[s].seen[e].bot
  <1>1. e \in Events /\ sync[s].answer[e] # Absent
    BY DEF Answered, Own, Events
  <1>2. /\ sync[s].answer[e] \in Entry
        /\ sync[s].seen[e] \in Rows
    BY <1>1 DEF TypeOK, Sync
  <1>3. NewRow(sync[s].answer[e]) \in Row
    BY <1>2, NewRowType
  <1>4. CASE sync[s].seen[e] = NoRow
    BY <1>1, <1>3, <1>4 DEF Upserted
  <1>5. CASE sync[s].seen[e] # NoRow
    <2>1. sync[s].seen[e] \in Row
      BY <1>2, <1>5 DEF Rows
    <2>2. sync[s].seen[e].deal \in Deals \cup {NoDeal} /\ sync[s].seen[e].bot \in BOOLEAN
      BY <2>1 DEF Row
    <2>3. QED
      BY <1>1, <1>3, <1>5, <2>1, <2>2, WithChoicesType DEF Upserted, Refreshed
  <1>6. QED
    BY <1>4, <1>5

\* The flush leaves rows, and takes no choice away from a row that is there.
LEMMA FlushedFacts ==
    ASSUME TypeOK, NEW s \in Syncs, ~Conflict(s)
    PROVE  /\ Flushed(s) \in [Events -> Rows]
           /\ \A e \in Events : row[e] # NoRow =>
                /\ Flushed(s)[e] # NoRow
                /\ Flushed(s)[e].deal = row[e].deal
                /\ Flushed(s)[e].bot = row[e].bot
  <1>1. ASSUME NEW e \in Events
        PROVE  /\ Flushed(s)[e] \in Rows
               /\ row[e] # NoRow =>
                    /\ Flushed(s)[e] # NoRow
                    /\ Flushed(s)[e].deal = row[e].deal
                    /\ Flushed(s)[e].bot = row[e].bot
    <2>1. row[e] \in Rows
      BY DEF TypeOK
    <2>2. CASE e \notin Changes(s)
      <3>1. Flushed(s)[e] = row[e]
        BY <2>2 DEF Flushed
      <3>2. QED
        BY <2>1, <3>1
    <2>3. CASE e \in Changes(s)
      <3>1. e \in Answered(s)
        BY <2>3 DEF Changes
      <3>2. (sync[s].seen[e] = NoRow) = (row[e] = NoRow)
        BY <2>3 DEF Conflict
      <3>3. CASE row[e] = NoRow
        <4>1. Flushed(s)[e] = Upserted(s, e)
          BY <2>3, <3>2, <3>3 DEF Flushed
        <4>2. QED
          BY <3>1, <3>3, <4>1, UpsertedType DEF Rows
      <3>4. CASE row[e] # NoRow
        <4>1. Flushed(s)[e] = Updated(sync[s].seen[e], Upserted(s, e), row[e])
          BY <2>3, <3>2, <3>4 DEF Flushed
        <4>2. row[e] \in Row
          BY <2>1, <3>4 DEF Rows
        <4>3. /\ sync[s].seen[e] \in Row /\ Upserted(s, e) \in Row
              /\ Upserted(s, e).deal = sync[s].seen[e].deal
              /\ Upserted(s, e).bot = sync[s].seen[e].bot
          BY <3>1, <3>2, <3>4, UpsertedType
        <4>4. /\ Flushed(s)[e] \in Row
              /\ Flushed(s)[e].deal = row[e].deal
              /\ Flushed(s)[e].bot = row[e].bot
          BY <4>1, <4>2, <4>3, UpdatedType
        <4>5. QED
          BY <4>4, ConstantsOK DEF Rows
      <3>5. QED
        BY <3>3, <3>4
    <2>4. QED
      BY <2>2, <2>3
  <1>2. Flushed(s) = [e \in Events |-> Flushed(s)[e]]
    BY DEF Flushed
  <1>3. QED
    BY <1>1, <1>2

-----------------------------------------------------------------------------
\* The merge.

\* What is merged are rows.
LEMMA RowsToMergeType ==
    ASSUME TypeOK, NEW s \in Syncs, ~Conflict(s)
    PROVE  /\ DOMAIN RowsToMerge(s) \subseteq Events
           /\ \A e \in DOMAIN RowsToMerge(s) : RowsToMerge(s)[e] \in Row
  <1> DEFINE found == IF Changes(s) # {} THEN Flushed(s) ELSE sync[s].seen
             there == {e \in Events : found[e] # NoRow /\ found[e].date \in Touched(s)}
  <1>1. RowsToMerge(s) = [e \in there |-> IF e \in Answered(s) THEN Upserted(s, e) ELSE found[e]]
    BY DEF RowsToMerge
  <1>2. \A e \in Events : found[e] \in Rows
    BY FlushedFacts DEF TypeOK, Sync
  <1>3. ASSUME NEW e \in there
        PROVE  RowsToMerge(s)[e] \in Row
    <2>1. e \in Events /\ found[e] \in Row
      BY <1>2 DEF Rows
    <2>2. RowsToMerge(s)[e] = IF e \in Answered(s) THEN Upserted(s, e) ELSE found[e]
      BY <1>1
    <2>3. e \in Answered(s) => Upserted(s, e) \in Row
      BY UpsertedType
    <2>4. QED
      BY <2>1, <2>2, <2>3
  <1> HIDE DEF found
  <1>4. QED
    BY <1>1, <1>3

\* A surviving row is one of those merged, and no row from Zoom is merged into it.
LEMMA SurvivorFacts ==
    ASSUME NEW rows, NEW pick \in Survivors(rows)
    PROVE  /\ pick \subseteq DOMAIN rows
           /\ \A z \in pick : Shadows(rows, z) \cap ZoomEvents = {}
  <1> DEFINE dates == {rows[e].date : e \in DOMAIN rows}
  <1>1. \A d \in dates : Canonical(rows, d) \subseteq At(rows, d)
    BY DEF Canonical
  <1>2. pick \subseteq UNION {Canonical(rows, d) : d \in dates}
    BY DEF Survivors
  <1>3. \A d \in dates :
          Canonical(rows, d) # {} => \E z \in Canonical(rows, d) : pick \cap At(rows, d) = {z}
    BY DEF Survivors
  <1>4. pick \subseteq DOMAIN rows
    BY <1>1, <1>2 DEF At
  <1>5. ASSUME NEW z \in pick, NEW o \in Shadows(rows, z), o \in ZoomEvents
        PROVE  FALSE
    <2> DEFINE d == rows[z].date
    <2>1. z \in DOMAIN rows /\ d \in dates /\ z \in At(rows, d)
      BY <1>4 DEF At
    <2>2. o \in At(rows, d) /\ ~SameProvider(z, o)
      BY DEF Shadows
    <2>3. Canonical(rows, d) = At(rows, d) \cap ZoomEvents /\ Canonical(rows, d) # {}
      BY <1>5, <2>2 DEF Canonical
    <2>4. PICK y \in Canonical(rows, d) : pick \cap At(rows, d) = {y}
      BY <1>3, <2>1, <2>3
    <2>5. z \in ZoomEvents
      BY <2>1, <2>3, <2>4
    <2>6. QED
      BY <1>5, <2>2, <2>5 DEF SameProvider
  <1>6. QED
    BY <1>4, <1>5

\* A surviving row keeps its assignment, and its bot is on if no row says otherwise.
LEMMA MergedFacts ==
    ASSUME NEW rows, NEW pick, NEW new \in Merged(rows, pick),
           \A z \in pick : rows[z] \in Row
    PROVE  \A z \in pick :
              /\ new[z] \in Row
              /\ new[z].bot => rows[z].bot
              /\ new[z].bot => MergedBot(rows, z)
              /\ new[z].deal = rows[z].deal \/ new[z].deal # NoDeal
  <1>1. PICK deal \in [pick -> Deals \cup {NoDeal}] :
          /\ \A z \in pick : deal[z] \in MergedDeals(rows, z)
          /\ new = [z \in pick |-> WithChoices(rows[z], deal[z], MergedBot(rows, z))]
    BY DEF Merged
  <1>2. ASSUME NEW z \in pick
        PROVE  /\ new[z] \in Row
               /\ new[z].bot => rows[z].bot
               /\ new[z].bot => MergedBot(rows, z)
               /\ new[z].deal = rows[z].deal \/ new[z].deal # NoDeal
    <2>1. /\ rows[z] \in Row
          /\ deal[z] \in Deals \cup {NoDeal}
          /\ deal[z] = rows[z].deal \/ deal[z] # NoDeal
      BY <1>1 DEF MergedDeals
    <2>2. MergedBot(rows, z) \in BOOLEAN /\ (MergedBot(rows, z) => rows[z].bot)
      BY DEF MergedBot
    <2>3. PICK bot \in BOOLEAN : bot = MergedBot(rows, z)
      BY <2>2
    <2>4. new[z] = WithChoices(rows[z], deal[z], bot)
      BY <1>1, <2>3
    <2>5. new[z] \in Row /\ new[z].deal = deal[z] /\ new[z].bot = bot
      <3>1. /\ WithChoices(rows[z], deal[z], bot) \in Row
            /\ WithChoices(rows[z], deal[z], bot).deal = deal[z]
            /\ WithChoices(rows[z], deal[z], bot).bot = bot
        BY <2>1, WithChoicesType, Zenon
      <3>2. QED
        BY <2>4, <3>1, Zenon
    <2>6. bot => rows[z].bot
      BY <2>2, <2>3
    <2>7. QED
      BY <2>1, <2>3, <2>5, <2>6
  <1>3. QED
    BY <1>2

\* What the commit of sync s writes if the rows of pick survive as new.
CommitWrites(s, pick, new) ==
    LET rows    == RowsToMerge(s)
        flushed == Flushed(s)
        gone    == UNION {Shadows(rows, z) : z \in pick}
    IN  /\ row' = [e \in Events |->
                     IF e \in gone THEN NoRow
                     ELSE IF e \in pick /\ flushed[e] # NoRow
                       THEN Updated(rows[e], new[e], flushed[e])
                       ELSE flushed[e]]
        /\ wish' = [e \in Events |->
                     IF e \in gone THEN "none"
                     ELSE IF e \in pick /\ flushed[e] # NoRow /\ InheritsOptOut(rows, e)
                       THEN "off"
                       ELSE wish[e]]

\* A commit goes through, or fails.
LEMMA CommitCases ==
    ASSUME NEW s \in Syncs, SyncCommits(s)
    PROVE  \/ UNCHANGED <<row, wish>>
           \/ \E pick \in Survivors(RowsToMerge(s)) : \E new \in Merged(RowsToMerge(s), pick) :
                CommitWrites(s, pick, new)
  BY DEF SyncCommits, CommitWrites

\* A row that inherits an opt-out gets it: it is merged with a row whose bot is off, and
\* the session has its own bot as it is.
LEMMA InheritsFacts ==
    ASSUME TypeOK, OptedOutIsOff, NEW s \in Syncs, ~Conflict(s),
           NEW z \in DOMAIN RowsToMerge(s), Flushed(s)[z] # NoRow,
           InheritsOptOut(RowsToMerge(s), z)
    PROVE  /\ ~MergedBot(RowsToMerge(s), z)
           /\ RowsToMerge(s)[z].bot = Flushed(s)[z].bot
  <1>1. PICK o \in Shadows(RowsToMerge(s), z) : wish[o] = "off" /\ ~SetSince(RowsToMerge(s), o)
    BY DEF InheritsOptOut
  <1>2. o \in DOMAIN RowsToMerge(s) /\ DOMAIN RowsToMerge(s) \subseteq Events
    BY RowsToMergeType DEF Shadows, At
  <1>3. row[o] # NoRow /\ ~row[o].bot
    BY <1>1, <1>2 DEF OptedOutIsOff
  <1>4. RowsToMerge(s)[o].bot = row[o].bot
    BY <1>1, <1>3 DEF SetSince
  <1>5. ~MergedBot(RowsToMerge(s), z)
    BY <1>3, <1>4 DEF MergedBot
  <1>6. CASE row[z] # NoRow
    <2>1. RowsToMerge(s)[z].bot = row[z].bot
      BY <1>6 DEF InheritsOptOut, SetSince
    <2>2. Flushed(s)[z].bot = row[z].bot
      BY <1>2, <1>6, FlushedFacts
    <2>3. QED
      BY <1>5, <2>1, <2>2
  <1>7. CASE row[z] = NoRow
    <2>1. z \in Changes(s)
      BY <1>2, <1>7 DEF Flushed
    <2>2. sync[s].seen[z] = NoRow
      BY <1>7, <2>1 DEF Conflict
    <2>3. Flushed(s)[z] = Upserted(s, z)
      BY <1>2, <2>1, <2>2 DEF Flushed
    <2>4. RowsToMerge(s)[z] = Upserted(s, z)
      BY <2>1 DEF RowsToMerge, Changes
    <2>5. QED
      BY <1>5, <2>3, <2>4
  <1>8. QED
    BY <1>6, <1>7

\* What a commit does to the rows and to what users have chosen.
CommitKeeps(e) ==
    /\ wish'[e] = wish[e] \/ (wish'[e] = "off" /\ row'[e] # NoRow /\ ~row'[e].bot)
    /\ row[e] # NoRow => /\ row'[e] # NoRow
                         /\ ~row[e].bot => ~row'[e].bot
                         /\ row[e].deal # NoDeal => row'[e].deal # NoDeal

CommitMerges(e) == e \notin ZoomEvents /\ row'[e] = NoRow /\ wish'[e] = "none"

LEMMA CommitEffect ==
    ASSUME TypeOK, WrittenFits, OptedOutIsOff, NEW s \in Syncs, SyncCommits(s)
    PROVE  /\ row' \in [Events -> Rows]
           /\ wish' \in [Events -> {"none", "on", "off"}]
           /\ \A e \in Events : CommitKeeps(e) \/ CommitMerges(e)
  <1> DEFINE rows    == RowsToMerge(s)
             flushed == Flushed(s)
  <1>1. ~Conflict(s)
    BY DEF WrittenFits, SyncCommits
  <1>2. CASE UNCHANGED <<row, wish>>
    BY <1>2 DEF TypeOK, CommitKeeps
  <1>3. ASSUME NEW pick \in Survivors(rows), NEW new \in Merged(rows, pick),
               CommitWrites(s, pick, new)
        PROVE  /\ row' \in [Events -> Rows]
               /\ wish' \in [Events -> {"none", "on", "off"}]
               /\ \A e \in Events : CommitKeeps(e) \/ CommitMerges(e)
    <2> DEFINE gone == UNION {Shadows(rows, z) : z \in pick}
    <2>1. /\ row' = [e \in Events |->
                      IF e \in gone THEN NoRow
                      ELSE IF e \in pick /\ flushed[e] # NoRow
                        THEN Updated(rows[e], new[e], flushed[e])
                        ELSE flushed[e]]
          /\ wish' = [e \in Events |->
                      IF e \in gone THEN "none"
                      ELSE IF e \in pick /\ flushed[e] # NoRow /\ InheritsOptOut(rows, e)
                        THEN "off"
                        ELSE wish[e]]
      BY <1>3 DEF CommitWrites
    <2>2. /\ flushed \in [Events -> Rows]
          /\ \A e \in Events : row[e] # NoRow =>
               /\ flushed[e] # NoRow
               /\ flushed[e].deal = row[e].deal
               /\ flushed[e].bot = row[e].bot
      BY <1>1, FlushedFacts
    <2>3. pick \subseteq DOMAIN rows /\ \A z \in pick : rows[z] \in Row
      BY <1>1, RowsToMergeType, SurvivorFacts
    <2>4. \A z \in pick : /\ new[z] \in Row
                          /\ new[z].bot => rows[z].bot
                          /\ new[z].bot => MergedBot(rows, z)
                          /\ new[z].deal = rows[z].deal \/ new[z].deal # NoDeal
      BY <2>3, MergedFacts
    <2>5. gone \cap ZoomEvents = {}
      BY SurvivorFacts
    <2>6. ASSUME NEW z \in pick, flushed[z] # NoRow, InheritsOptOut(rows, z)
          PROVE  ~new[z].bot /\ rows[z].bot = flushed[z].bot
      BY <1>1, <2>3, <2>4, <2>6, InheritsFacts
    <2> HIDE DEF rows, flushed, gone
    <2>7. wish' \in [Events -> {"none", "on", "off"}]
      BY <2>1 DEF TypeOK
    <2>8. ASSUME NEW e \in Events
          PROVE  row'[e] \in Rows /\ (CommitKeeps(e) \/ CommitMerges(e))
      <3>1. CASE e \in gone
        BY <2>1, <2>5, <3>1 DEF CommitMerges, Rows
      <3>2. CASE e \notin gone /\ e \in pick /\ flushed[e] # NoRow
        <4>1. /\ row'[e] = Updated(rows[e], new[e], flushed[e])
              /\ InheritsOptOut(rows, e) => wish'[e] = "off"
              /\ ~InheritsOptOut(rows, e) => wish'[e] = wish[e]
          BY <2>1, <3>2
        <4>2. flushed[e] \in Row /\ rows[e] \in Row /\ new[e] \in Row
          BY <2>2, <2>3, <2>4, <3>2 DEF Rows
        <4>3. /\ row'[e] \in Row
              /\ row'[e].deal = IF new[e].deal = rows[e].deal THEN flushed[e].deal ELSE new[e].deal
              /\ row'[e].bot = IF new[e].bot = rows[e].bot THEN flushed[e].bot ELSE new[e].bot
          BY <4>1, <4>2, UpdatedType
        <4>4. new[e].bot \in BOOLEAN /\ rows[e].bot \in BOOLEAN
          BY <4>2 DEF Row
        <4>5. row'[e] \in Rows /\ row'[e] # NoRow
          BY <4>3, ConstantsOK DEF Rows
        <4>6. row[e] # NoRow => /\ ~row[e].bot => ~row'[e].bot
                                /\ row[e].deal # NoDeal => row'[e].deal # NoDeal
          BY <2>2, <2>4, <3>2, <4>3, <4>4
        <4>7. InheritsOptOut(rows, e) => ~row'[e].bot
          BY <2>6, <3>2, <4>3
        <4>8. QED
          BY <4>1, <4>5, <4>6, <4>7 DEF CommitKeeps
      <3>3. CASE e \notin gone /\ ~(e \in pick /\ flushed[e] # NoRow)
        <4>1. row'[e] = flushed[e] /\ wish'[e] = wish[e]
          BY <2>1, <3>3
        <4>2. QED
          BY <2>2, <4>1 DEF CommitKeeps
      <3>4. QED
        BY <3>1, <3>2, <3>3
    <2>9. row' \in [Events -> Rows]
      BY <2>1, <2>8
    <2>10. QED
      BY <2>7, <2>8, <2>9
  <1>4. QED
    BY <1>2, <1>3, CommitCases

\* A row that a commit deletes is merged into one that inherits its opt-out, unless a
\* user has set the bot of one of the two since the session read it.
LEMMA CommitPassesOn ==
    ASSUME TypeOK, WrittenFits, OptedOutIsOff, NEW s \in Syncs, SyncCommits(s),
           NEW o \in Events, wish[o] = "off", row'[o] = NoRow
    PROVE  OptOutPassesOn(o)
  <1> DEFINE rows == RowsToMerge(s)
  <1>1. ~Conflict(s) /\ sync[s].pc = "written"
    BY DEF WrittenFits, SyncCommits
  <1>2. row[o] # NoRow /\ Flushed(s)[o] # NoRow
    BY <1>1, FlushedFacts DEF OptedOutIsOff
  <1>3. PICK pick \in Survivors(rows) : \E new \in Merged(rows, pick) : CommitWrites(s, pick, new)
    BY <1>2, CommitCases
  <1>4. PICK new \in Merged(rows, pick) : CommitWrites(s, pick, new)
    BY <1>3
  <1>5. pick \subseteq DOMAIN rows /\ DOMAIN rows \subseteq Events
    BY <1>1, SurvivorFacts, RowsToMergeType
  <1>6. PICK z \in pick : o \in Shadows(rows, z)
    <2>1. ASSUME \A z \in pick : o \notin Shadows(rows, z)
          PROVE  row'[o] # NoRow
      <3>1. CASE o \in pick
        <4>1. row'[o] = Updated(rows[o], new[o], Flushed(s)[o])
          BY <1>2, <1>4, <2>1, <3>1 DEF CommitWrites
        <4>2. /\ Flushed(s)[o] \in Row /\ rows[o] \in Row /\ new[o] \in Row
          <5>1. \A z \in pick : rows[z] \in Row
            BY <1>1, <1>5, RowsToMergeType
          <5>2. QED
            BY <1>1, <1>2, <3>1, <5>1, FlushedFacts, MergedFacts DEF Rows
        <4>3. QED
          BY <4>1, <4>2, UpdatedType, ConstantsOK
      <3>2. CASE o \notin pick
        BY <1>2, <1>4, <2>1, <3>2 DEF CommitWrites
      <3>3. QED
        BY <3>1, <3>2
    <2>2. QED
      BY <2>1
  <1>7. ASSUME row'[z] # NoRow, ~SetSince(rows, o), ~SetSince(rows, z)
        PROVE  wish'[z] = "off"
    <2>1. InheritsOptOut(rows, z)
      BY <1>6, <1>7 DEF InheritsOptOut
    <2>2. z \in Events /\ \A y \in pick : z \notin Shadows(rows, y)
      BY <1>4, <1>5, <1>7 DEF CommitWrites
    <2>3. Flushed(s)[z] # NoRow
      BY <1>4, <1>7, <2>2 DEF CommitWrites
    <2>4. QED
      BY <1>4, <2>1, <2>2, <2>3 DEF CommitWrites
  <1>8. QED
    BY <1>1, <1>5, <1>6, <1>7 DEF OptOutPassesOn

-----------------------------------------------------------------------------
\* The steps.

\* The actions of a sync that write no row.
SyncMoves(s) ==
    SyncBegins(s) \/ SyncLoads(s) \/ SyncWrites(s) \/ SyncTimesOut(s) \/ SyncFails(s)

\* The actions that write a row in a transaction of their own.
RowWrites ==
    \/ \E z \in ZoomEvents : IngestMatches(z) \/ IngestStores(z) \/ IngestFails(z)
    \/ \E e \in Events : MeetingProceeds(e)
    \/ \E e \in Events, on \in BOOLEAN : ToggleBot(e, on)
    \/ \E e \in Events, d \in Deals, on \in BOOLEAN : AssignMeeting(e, d, on)

\* A step of CalendarSync is one of these.
LEMMA NextCases ==
    ASSUME Next
    PROVE  \/ \E s \in Syncs : SyncMoves(s) \/ SyncCommits(s)
           \/ RowWrites
           \/ \E e \in Events : EditCalendar(e)
  BY DEF Next, User, SyncMoves, RowWrites

\* An idle sync is a sync, and holds no lock.
LEMMA IdleType == IdleSync \in Sync /\ IdleSync.pc = "idle" /\ ~IdleSync.lock
  BY DEF IdleSync, Sync, Rows

\* Whether a sync's writes conflict depends on what it has read and on the rows.
LEMMA ConflictSame ==
    ASSUME NEW s \in Syncs, row' = row,
           sync'[s].answer = sync[s].answer, sync'[s].seen = sync[s].seen
    PROVE  Conflict(s)' <=> Conflict(s)
  <1>1. Answered(s)' = Answered(s)
    BY DEF Answered, Own
  <1>2. \A e \in Answered(s) : Upserted(s, e)' = Upserted(s, e)
    BY DEF Upserted, Refreshed, NewRow, WithChoices
  <1>3. Changes(s)' = Changes(s)
    BY <1>1, <1>2 DEF Changes
  <1>4. QED
    BY <1>3 DEF Conflict

\* A sync that writes no row: what becomes of it and of the lock.
LEMMA SyncMovesEffect ==
    ASSUME TypeOK, WrittenFits, OneHolder, NEW s \in Syncs, SyncMoves(s)
    PROVE  /\ sync' \in [Syncs -> Sync]
           /\ UNCHANGED <<cal, row, wish, ingest, edits>>
           /\ \A t \in Syncs \ {s} : sync'[t] = sync[t]
           /\ sync'[s].pc = "written" => sync'[s].lock /\ ~Conflict(s)'
           /\ sync'[s].lock => NoOtherHolds(s)
  <1>1. UNCHANGED <<cal, row, wish, ingest, edits>>
    BY DEF SyncMoves, SyncBegins, SyncLoads, SyncWrites, SyncTimesOut, SyncFails
  <1>2. sync[s] \in Sync /\ sync \in [Syncs -> Sync]
    BY DEF TypeOK
  <1>3. CASE SyncBegins(s)
    <2>1. PICK refreshed \in BOOLEAN :
            /\ refreshed => LoopFree /\ LockFree
            /\ sync' = [sync EXCEPT ![s] =
                 [pc |-> "answered", lock |-> refreshed, seen |-> sync[s].seen,
                  answer |-> [e \in Events |-> IF e \in Own(s) THEN cal[e] ELSE Absent]]]
      BY <1>3 DEF SyncBegins
    <2>2. [e \in Events |-> IF e \in Own(s) THEN cal[e] ELSE Absent] \in [Events -> Entry \cup {Absent}]
      BY DEF TypeOK
    <2>3. [pc |-> "answered", lock |-> refreshed, seen |-> sync[s].seen,
           answer |-> [e \in Events |-> IF e \in Own(s) THEN cal[e] ELSE Absent]] \in Sync
      BY <1>2, <2>2 DEF Sync
    <2>4. sync' \in [Syncs -> Sync] /\ \A t \in Syncs \ {s} : sync'[t] = sync[t]
      BY <1>2, <2>1, <2>3
    <2>5. sync'[s].pc = "answered" /\ (sync'[s].lock => LockFree)
      BY <1>2, <2>1
    <2>6. QED
      BY <1>1, <2>4, <2>5 DEF LockFree, NoOtherHolds
  <1>4. CASE SyncLoads(s)
    <2>1. sync' = [sync EXCEPT ![s] =
            [pc |-> "loaded", lock |-> sync[s].lock, answer |-> sync[s].answer, seen |-> row]]
      BY <1>4 DEF SyncLoads
    <2>2. [pc |-> "loaded", lock |-> sync[s].lock, answer |-> sync[s].answer, seen |-> row] \in Sync
      BY <1>2 DEF Sync, TypeOK
    <2>3. sync' \in [Syncs -> Sync] /\ \A t \in Syncs \ {s} : sync'[t] = sync[t]
      BY <1>2, <2>1, <2>2
    <2>4. sync'[s].pc = "loaded" /\ (sync'[s].lock => sync[s].lock)
      BY <1>2, <2>1
    <2>5. QED
      BY <1>1, <2>3, <2>4 DEF OneHolder
  <1>5. CASE SyncWrites(s)
    <2>1. NoOtherHolds(s)
      BY <1>5 DEF SyncWrites
    <2>2. CASE Conflict(s)
      <3>1. sync' = [sync EXCEPT ![s] = IdleSync]
        BY <1>5, <2>2 DEF SyncWrites
      <3>2. QED
        BY <1>1, <1>2, <2>1, <3>1, IdleType
    <2>3. CASE ~Conflict(s)
      <3>1. sync' = [sync EXCEPT ![s] =
              [pc |-> "written", lock |-> TRUE, answer |-> sync[s].answer, seen |-> sync[s].seen]]
        BY <1>5, <2>3 DEF SyncWrites
      <3>2. [pc |-> "written", lock |-> TRUE, answer |-> sync[s].answer, seen |-> sync[s].seen] \in Sync
        BY <1>2 DEF Sync
      <3>3. sync' \in [Syncs -> Sync] /\ \A t \in Syncs \ {s} : sync'[t] = sync[t]
        BY <1>2, <3>1, <3>2
      <3>4. /\ sync'[s].answer = sync[s].answer /\ sync'[s].seen = sync[s].seen
            /\ sync'[s].lock
        BY <1>2, <3>1
      <3>5. ~Conflict(s)'
        BY <1>1, <2>3, <3>4, ConflictSame
      <3>6. QED
        BY <1>1, <2>1, <3>3, <3>4, <3>5
    <2>4. QED
      BY <2>2, <2>3
  <1>6. CASE SyncTimesOut(s) \/ SyncFails(s)
    <2>1. sync' = [sync EXCEPT ![s] = IdleSync]
      BY <1>6 DEF SyncTimesOut, SyncFails
    <2>2. QED
      BY <1>1, <1>2, <2>1, IdleType
  <1>7. QED
    BY <1>3, <1>4, <1>5, <1>6 DEF SyncMoves

\* A write of one row leaves a row, and takes nothing from the user's choices but
\* what the user changes.
RowWritten(e) ==
    /\ row'[e] \in Row
    /\ wish'[e] \in {"none", "on", "off"}
    /\ row[e] # NoRow => (row[e].deal # NoDeal => row'[e].deal # NoDeal)
    /\ wish'[e] = "off" => ~row'[e].bot \/ (wish[e] = "off" /\ row'[e].bot = row[e].bot)

LEMMA RowWritesEffect ==
    ASSUME TypeOK, OptedOutIsOff, RowWrites
    PROVE  /\ LockFree
           /\ sync' = sync /\ cal' = cal
           /\ ingest' \in [ZoomEvents -> Ingest] /\ edits' \in 0 .. MaxEdits
           /\ \E e \in Events :
                /\ RowWritten(e)
                /\ \E r, w : row' = [row EXCEPT ![e] = r] /\ wish' = [wish EXCEPT ![e] = w]
  <1>1. wish \in [Events -> {"none", "on", "off"}] /\ row \in [Events -> Rows]
    BY DEF TypeOK
  <1>2. \A e \in Events : row[e] # NoRow => row[e] \in Row
    BY <1>1 DEF Rows
  <1>3. ASSUME NEW z \in ZoomEvents, IngestMatches(z)
        PROVE  /\ LockFree /\ sync' = sync /\ cal' = cal
               /\ ingest' \in [ZoomEvents -> Ingest] /\ edits' \in 0 .. MaxEdits
               /\ \E e \in Events :
                    /\ RowWritten(e)
                    /\ \E r, w : row' = [row EXCEPT ![e] = r] /\ wish' = [wish EXCEPT ![e] = w]
    <2> DEFINE unassigned == [date |-> NoDate, link |-> "page", deal |-> NoDeal,
                              bot |-> TRUE, status |-> "uploading"]
    <2>1. z \in Events
      BY DEF Events
    <2>2. /\ row' = [row EXCEPT ![z] = IF row[z] # NoRow THEN row[z] ELSE unassigned]
          /\ wish' = [wish EXCEPT ![z] = wish[z]]
      BY <1>1, <1>3, <2>1 DEF IngestMatches
    <2>3. unassigned \in Row
      BY DEF Row, Links
    <2>4. wish[z] = "off" => row[z] # NoRow
      BY <2>1 DEF OptedOutIsOff
    <2>5. RowWritten(z)
      <3>1. CASE row[z] # NoRow
        BY <1>1, <1>2, <2>1, <2>2, <3>1 DEF RowWritten
      <3>2. CASE row[z] = NoRow
        <4>1. row'[z] = unassigned /\ wish'[z] = wish[z]
          BY <1>1, <2>1, <2>2, <3>2
        <4>2. QED
          BY <1>1, <2>1, <2>3, <2>4, <3>2, <4>1 DEF RowWritten
      <3>3. QED
        BY <3>1, <3>2
    <2>6. ingest' \in [ZoomEvents -> Ingest]
      BY <1>3 DEF IngestMatches, TypeOK, Ingest
    <2>7. QED
      BY <1>3, <2>1, <2>2, <2>5, <2>6 DEF IngestMatches, TypeOK
  <1>4. ASSUME NEW e \in Events, row[e] # NoRow, LockFree, sync' = sync, cal' = cal,
               ingest' \in [ZoomEvents -> Ingest], edits' \in 0 .. MaxEdits,
               NEW link \in Links, row' = [row EXCEPT ![e] = Recorded(row[e], link)], wish' = wish
        PROVE  /\ RowWritten(e)
               /\ \E r, w : row' = [row EXCEPT ![e] = r] /\ wish' = [wish EXCEPT ![e] = w]
    <2>1. row'[e] = Recorded(row[e], link) /\ wish' = [wish EXCEPT ![e] = wish[e]]
      BY <1>1, <1>4
    <2>2. row'[e] \in Row /\ row'[e].deal = row[e].deal /\ row'[e].bot = row[e].bot
      BY <1>2, <1>4, <2>1, RecordedType
    <2>3. QED
      BY <1>1, <1>4, <2>1, <2>2 DEF RowWritten
  <1>5. ASSUME NEW z \in ZoomEvents, IngestStores(z) \/ IngestFails(z)
        PROVE  /\ LockFree /\ sync' = sync /\ cal' = cal
               /\ ingest' \in [ZoomEvents -> Ingest] /\ edits' \in 0 .. MaxEdits
               /\ \E e \in Events :
                    /\ RowWritten(e)
                    /\ \E r, w : row' = [row EXCEPT ![e] = r] /\ wish' = [wish EXCEPT ![e] = w]
    <2>1. z \in Events /\ row[z] # NoRow
      BY <1>5 DEF Events, IngestStores, IngestFails
    <2>2. row[z].link \in Links /\ "recording" \in Links
      BY <1>2, <2>1 DEF Row, Links
    <2>3. \E link \in Links : row' = [row EXCEPT ![z] = Recorded(row[z], link)]
      BY <1>5, <2>2 DEF IngestStores, IngestFails
    <2>4. /\ LockFree /\ sync' = sync /\ cal' = cal /\ wish' = wish
          /\ ingest' \in [ZoomEvents -> Ingest] /\ edits' \in 0 .. MaxEdits
      BY <1>5 DEF IngestStores, IngestFails, TypeOK, Ingest
    <2>5. QED
      BY <1>4, <2>1, <2>3, <2>4
  <1>6. ASSUME NEW e \in Events, MeetingProceeds(e)
        PROVE  /\ LockFree /\ sync' = sync /\ cal' = cal
               /\ ingest' \in [ZoomEvents -> Ingest] /\ edits' \in 0 .. MaxEdits
               /\ RowWritten(e)
               /\ \E r, w : row' = [row EXCEPT ![e] = r] /\ wish' = [wish EXCEPT ![e] = w]
    <2>1. row[e] # NoRow /\ row' = [row EXCEPT ![e] = Recorded(row[e], row[e].link)]
      BY <1>6 DEF MeetingProceeds
    <2>2. row[e].link \in Links
      BY <1>2, <2>1 DEF Row
    <2>3. /\ LockFree /\ sync' = sync /\ cal' = cal /\ wish' = wish
          /\ ingest' \in [ZoomEvents -> Ingest] /\ edits' \in 0 .. MaxEdits
      BY <1>6 DEF MeetingProceeds, TypeOK
    <2>4. QED
      BY <1>4, <2>1, <2>2, <2>3
  <1>7. ASSUME NEW e \in Events, NEW on \in BOOLEAN, NEW deal \in Deals \cup {NoDeal},
               row[e] # NoRow, row[e].deal # NoDeal => deal # NoDeal,
               row' = [row EXCEPT ![e] = WithChoices(row[e], deal, on)],
               wish' = [wish EXCEPT ![e] = IF on THEN "on" ELSE "off"]
        PROVE  /\ RowWritten(e)
               /\ \E r, w : row' = [row EXCEPT ![e] = r] /\ wish' = [wish EXCEPT ![e] = w]
    <2>1. row[e] \in Row
      BY <1>2, <1>7
    <2>2. row'[e] \in Row /\ row'[e].deal = deal /\ row'[e].bot = on
      BY <1>1, <1>7, <2>1, WithChoicesType
    <2>3. QED
      BY <1>1, <1>7, <2>2 DEF RowWritten
  <1>8. ASSUME NEW e \in Events, NEW on \in BOOLEAN,
               ToggleBot(e, on) \/ \E d \in Deals : AssignMeeting(e, d, on)
        PROVE  /\ LockFree /\ sync' = sync /\ cal' = cal
               /\ ingest' \in [ZoomEvents -> Ingest] /\ edits' \in 0 .. MaxEdits
               /\ RowWritten(e)
               /\ \E r, w : row' = [row EXCEPT ![e] = r] /\ wish' = [wish EXCEPT ![e] = w]
    <2>1. row[e] # NoRow /\ wish' = [wish EXCEPT ![e] = IF on THEN "on" ELSE "off"]
      BY <1>8 DEF ToggleBot, AssignMeeting
    <2>2. row[e].deal \in Deals \cup {NoDeal}
      BY <1>2, <2>1 DEF Row
    <2>3. PICK deal \in Deals \cup {NoDeal} :
            /\ row[e].deal # NoDeal => deal # NoDeal
            /\ row' = [row EXCEPT ![e] = WithChoices(row[e], deal, on)]
      BY <1>8, <2>2, ConstantsOK DEF ToggleBot, AssignMeeting
    <2>4. /\ LockFree /\ sync' = sync /\ cal' = cal
          /\ ingest' \in [ZoomEvents -> Ingest] /\ edits' \in 0 .. MaxEdits
      BY <1>8, ConstantsOK DEF ToggleBot, AssignMeeting, TypeOK, Edit
    <2>5. QED
      BY <1>7, <2>1, <2>3, <2>4
  <1>9. QED
    <2>1. CASE \E z \in ZoomEvents : IngestMatches(z)
      BY <1>3, <2>1
    <2>2. CASE \E z \in ZoomEvents : IngestStores(z) \/ IngestFails(z)
      BY <1>5, <2>2
    <2>3. CASE \E e \in Events : MeetingProceeds(e)
      BY <1>6, <2>3
    <2>4. CASE \E e \in Events, on \in BOOLEAN :
                 ToggleBot(e, on) \/ \E d \in Deals : AssignMeeting(e, d, on)
      BY <1>8, <2>4
    <2>5. QED
      BY <2>1, <2>2, <2>3, <2>4 DEF RowWrites

-----------------------------------------------------------------------------
\* The inductive invariant.

\* What the events' rows are after a write of one row.
LEMMA OneRowWritten ==
    ASSUME TypeOK, OptedOutIsOff, RowWrites
    PROVE  /\ row' \in [Events -> Rows]
           /\ wish' \in [Events -> {"none", "on", "off"}]
           /\ OptedOutIsOff'
           /\ \A e \in Events : row[e] # NoRow =>
                /\ row'[e] # NoRow
                /\ row[e].deal # NoDeal => row'[e].deal # NoDeal
  <1>1. row \in [Events -> Rows] /\ wish \in [Events -> {"none", "on", "off"}]
    BY DEF TypeOK
  <1>2. PICK e \in Events :
          /\ RowWritten(e)
          /\ \E r, w : row' = [row EXCEPT ![e] = r] /\ wish' = [wish EXCEPT ![e] = w]
    BY RowWritesEffect
  <1>3. row'[e] \in Rows /\ row'[e] # NoRow /\ wish'[e] \in {"none", "on", "off"}
    BY <1>2, ConstantsOK DEF RowWritten, Rows
  <1>4. \A o \in Events \ {e} : row'[o] = row[o] /\ wish'[o] = wish[o]
    BY <1>1, <1>2
  <1>5. row' \in [Events -> Rows]
    BY <1>1, <1>2, <1>3
  <1>6. wish' \in [Events -> {"none", "on", "off"}]
    BY <1>1, <1>2, <1>3
  <1>7. OptedOutIsOff'
    BY <1>2, <1>3, <1>4 DEF OptedOutIsOff, RowWritten
  <1>8. QED
    BY <1>2, <1>3, <1>4, <1>5, <1>6, <1>7 DEF RowWritten

\* Initially no sync is under way and nobody has chosen anything.
LEMMA InitIInv == Init => IInv
  <1> SUFFICES ASSUME Init PROVE IInv
    OBVIOUS
  <1>1. \A s \in Syncs : sync[s] = IdleSync
    BY DEF Init
  <1>2. TypeOK
    BY <1>1, IdleType, ConstantsOK DEF Init, TypeOK, Rows, Ingest
  <1>3. WrittenFits
    BY <1>1, IdleType DEF WrittenFits
  <1>4. OneHolder
    BY <1>1, IdleType DEF OneHolder
  <1>5. OptedOutIsOff
    BY DEF Init, OptedOutIsOff
  <1>6. QED
    BY <1>2, <1>3, <1>4, <1>5 DEF IInv

\* Every step keeps the invariant.
LEMMA NextIInv == IInv /\ [Next]_vars => IInv'
  <1> SUFFICES ASSUME IInv, [Next]_vars PROVE IInv'
    OBVIOUS
  <1> USE DEF IInv
  <1>1. ASSUME NEW s \in Syncs, SyncMoves(s)
        PROVE  IInv'
    <2>1. /\ sync' \in [Syncs -> Sync]
          /\ UNCHANGED <<cal, row, wish, ingest, edits>>
          /\ \A t \in Syncs \ {s} : sync'[t] = sync[t]
          /\ sync'[s].pc = "written" => sync'[s].lock /\ ~Conflict(s)'
          /\ sync'[s].lock => NoOtherHolds(s)
      BY <1>1, SyncMovesEffect
    <2>2. TypeOK'
      BY <2>1 DEF TypeOK
    <2>3. WrittenFits'
      <3>1. ASSUME NEW t \in Syncs \ {s}
            PROVE  Conflict(t)' <=> Conflict(t)
        BY <2>1, ConflictSame
      <3>2. QED
        BY <2>1, <3>1 DEF WrittenFits
    <2>4. OneHolder'
      BY <2>1 DEF OneHolder, NoOtherHolds
    <2>5. OptedOutIsOff'
      BY <2>1 DEF OptedOutIsOff
    <2>6. QED
      BY <2>2, <2>3, <2>4, <2>5
  <1>2. ASSUME NEW s \in Syncs, SyncCommits(s)
        PROVE  IInv'
    <2>1. /\ row' \in [Events -> Rows]
          /\ wish' \in [Events -> {"none", "on", "off"}]
          /\ \A e \in Events : CommitKeeps(e) \/ CommitMerges(e)
      BY <1>2, CommitEffect
    <2>2. sync' = [sync EXCEPT ![s] = IdleSync] /\ UNCHANGED <<cal, ingest, edits>>
      BY <1>2 DEF SyncCommits
    <2>3. TypeOK'
      BY <2>1, <2>2, IdleType DEF TypeOK
    <2>4. \A t \in Syncs : ~sync'[t].lock /\ sync'[t].pc # "written"
      <3>1. sync[s].lock
        BY <1>2 DEF SyncCommits, WrittenFits
      <3>2. \A t \in Syncs \ {s} : ~sync[t].lock /\ sync[t].pc # "written"
        BY <3>1 DEF OneHolder, NoOtherHolds, WrittenFits
      <3>3. QED
        BY <2>2, <3>2, IdleType DEF TypeOK
    <2>5. WrittenFits' /\ OneHolder'
      BY <2>4 DEF WrittenFits, OneHolder
    <2>6. OptedOutIsOff'
      <3>1. ASSUME NEW e \in Events, wish'[e] = "off"
            PROVE  row'[e] # NoRow /\ ~row'[e].bot
        <4>1. CommitKeeps(e)
          BY <2>1, <3>1 DEF CommitMerges
        <4>2. QED
          BY <3>1, <4>1 DEF CommitKeeps, OptedOutIsOff
      <3>2. QED
        BY <3>1 DEF OptedOutIsOff
    <2>7. QED
      BY <2>3, <2>5, <2>6
  <1>3. ASSUME RowWrites
        PROVE  IInv'
    <2>1. /\ LockFree /\ sync' = sync /\ cal' = cal
          /\ ingest' \in [ZoomEvents -> Ingest] /\ edits' \in 0 .. MaxEdits
      BY <1>3, RowWritesEffect
    <2>2. /\ row' \in [Events -> Rows]
          /\ wish' \in [Events -> {"none", "on", "off"}]
          /\ OptedOutIsOff'
      BY <1>3, OneRowWritten
    <2>3. TypeOK'
      BY <2>1, <2>2 DEF TypeOK
    <2>4. WrittenFits' /\ OneHolder'
      BY <2>1 DEF LockFree, WrittenFits, OneHolder
    <2>5. QED
      BY <2>2, <2>3, <2>4
  <1>4. ASSUME NEW e \in Events, EditCalendar(e)
        PROVE  IInv'
    <2>1. UNCHANGED <<row, wish, sync, ingest>>
      BY <1>4 DEF EditCalendar
    <2>2. cal' \in [Events -> Entry \cup {Absent}]
      <3>1. CalendarLinks(e) \subseteq Links
        BY DEF CalendarLinks, Links, ZoomRooms
      <3>2. QED
        BY <1>4, <3>1 DEF EditCalendar, TypeOK, Entry
    <2>3. edits' \in 0 .. MaxEdits
      BY <1>4, ConstantsOK DEF EditCalendar, Edit, TypeOK
    <2>4. TypeOK'
      BY <2>1, <2>2, <2>3 DEF TypeOK
    <2>5. \A s \in Syncs : Conflict(s)' <=> Conflict(s)
      BY <2>1, ConflictSame
    <2>6. WrittenFits' /\ OneHolder' /\ OptedOutIsOff'
      BY <2>1, <2>5 DEF WrittenFits, OneHolder, NoOtherHolds, OptedOutIsOff
    <2>7. QED
      BY <2>4, <2>6
  <1>5. ASSUME UNCHANGED vars
        PROVE  IInv'
    <2>1. UNCHANGED <<cal, row, wish, sync, ingest, edits>>
      BY <1>5 DEF vars
    <2>2. \A s \in Syncs : Conflict(s)' <=> Conflict(s)
      BY <2>1, ConflictSame
    <2>3. QED
      BY <2>1, <2>2 DEF TypeOK, WrittenFits, OneHolder, NoOtherHolds, OptedOutIsOff
  <1>6. QED
    BY <1>1, <1>2, <1>3, <1>4, <1>5, NextCases

\* The invariant holds of every behaviour.
THEOREM Invariance == Spec => []IInv
  <1>1. QED
    BY InitIInv, NextIInv, PTL DEF Spec

-----------------------------------------------------------------------------
\* The properties.

\* Every variable has its type, whatever the calendars show and however syncs,
\* ingests and users interleave.
THEOREM TypeCorrect == Spec => []TypeOK
  <1>1. IInv => TypeOK
    BY DEF IInv
  <1>2. QED
    BY <1>1, Invariance, PTL

\* A bot that the user has switched off for a meeting is not switched on again by a
\* sync, a merge or an ingest, and where its row is merged into another, of any number of
\* calendars, the opt-out goes with it, but for one made while that sync had it loaded.
THEOREM OptOutKept == Spec => OptOutStands
  <1> DEFINE PassesOn == \A o \in Events : wish[o] = "off" /\ row'[o] = NoRow => OptOutPassesOn(o)
  <1>1. IInv' => OptedOutIsOff'
    BY DEF IInv
  <1>2. IInv /\ [Next]_vars => [PassesOn]_vars
    <2> SUFFICES ASSUME IInv, Next, NEW o \in Events, wish[o] = "off", row'[o] = NoRow
                 PROVE  OptOutPassesOn(o)
      BY Zenon
    <2>1. row[o] # NoRow
      BY DEF IInv, OptedOutIsOff
    <2>2. ASSUME NEW s \in Syncs, SyncMoves(s) PROVE FALSE
      BY <2>1, <2>2, SyncMovesEffect DEF IInv
    <2>3. ASSUME NEW s \in Syncs, SyncCommits(s) PROVE OptOutPassesOn(o)
      BY <2>3, CommitPassesOn DEF IInv
    <2>4. ASSUME RowWrites PROVE FALSE
      BY <2>1, <2>4, OneRowWritten DEF IInv
    <2>5. ASSUME NEW e \in Events, EditCalendar(e) PROVE FALSE
      BY <2>1, <2>5 DEF EditCalendar
    <2>6. QED
      BY <2>2, <2>3, <2>4, <2>5, NextCases
  <1>3. QED
    BY <1>1, <1>2, Invariance, PTL DEF Spec, OptOutStands

\* A sync, a merge or an ingest takes no meeting out of its deal.
THEOREM AssignmentKept == Spec => AssignmentStands
  <1> DEFINE Keeps == \A e \in Events :
        row[e] # NoRow /\ row'[e] # NoRow /\ row[e].deal # NoDeal => row'[e].deal # NoDeal
  <1>1. IInv /\ [Next]_vars => [Keeps]_vars
    <2> SUFFICES ASSUME IInv, Next PROVE Keeps
      OBVIOUS
    <2>1. ASSUME NEW s \in Syncs, SyncMoves(s) PROVE Keeps
      BY <2>1, SyncMovesEffect DEF IInv
    <2>2. ASSUME NEW s \in Syncs, SyncCommits(s) PROVE Keeps
      BY <2>2, CommitEffect DEF IInv, CommitKeeps, CommitMerges
    <2>3. ASSUME RowWrites PROVE Keeps
      BY <2>3, OneRowWritten DEF IInv
    <2>4. ASSUME NEW e \in Events, EditCalendar(e) PROVE Keeps
      BY <2>4 DEF EditCalendar
    <2>5. QED
      BY <2>1, <2>2, <2>3, <2>4, NextCases
  <1>2. QED
    BY <1>1, Invariance, PTL DEF Spec, AssignmentStands

\* No merge deletes a row that came from Zoom: the row that survives where there is
\* one is from Zoom, and nothing of its own calendar is merged into it.
THEOREM ZoomRowKept == Spec => ZoomRowStays
  <1> DEFINE Stays == \A z \in ZoomEvents : row[z] # NoRow => row'[z] # NoRow
  <1>1. IInv /\ [Next]_vars => [Stays]_vars
    <2> SUFFICES ASSUME IInv, Next PROVE Stays
      OBVIOUS
    <2>0. ZoomEvents \subseteq Events
      BY DEF Events
    <2>1. ASSUME NEW s \in Syncs, SyncMoves(s) PROVE Stays
      BY <2>1, SyncMovesEffect DEF IInv
    <2>2. ASSUME NEW s \in Syncs, SyncCommits(s) PROVE Stays
      BY <2>0, <2>2, CommitEffect DEF IInv, CommitKeeps, CommitMerges
    <2>3. ASSUME RowWrites PROVE Stays
      BY <2>0, <2>3, OneRowWritten DEF IInv
    <2>4. ASSUME NEW e \in Events, EditCalendar(e) PROVE Stays
      BY <2>4 DEF EditCalendar
    <2>5. QED
      BY <2>1, <2>2, <2>3, <2>4, NextCases
  <1>2. QED
    BY <1>1, Invariance, PTL DEF Spec, ZoomRowStays

-----------------------------------------------------------------------------
\* One card for a call.

\* A sync goes on only when no other sync of its calendar waits for its commit.
NoOverlap ==
    \A s, t \in Syncs :
        s # t /\ Own(s) = Own(t) /\ sync[s].pc = "loaded" => sync[t].pc # "written"

\* Both show the same time and the same link.
Alike(p, q) == p.date = q.date /\ p.link = q.link

\* The calendars, the answers and the rows from Zoom show links they may have.
LinksFit ==
    /\ \A e \in Events : cal[e] # Absent => cal[e].link \in CalendarLinks(e)
    /\ \A s \in Syncs : \A e \in Own(s) :
         sync[s].answer[e] # Absent => sync[s].answer[e].link \in CalendarLinks(e)
    /\ \A z \in ZoomEvents : row[z] # NoRow => row[z].link \in {z, "page", "recording"}

\* Only an ingest makes a row without a date.
RowsDated == \A o \in Events \ ZoomEvents : row[o] # NoRow => row[o].date \in Dates

\* Until a sync commits, its own rows show what it has loaded.
SeenFits ==
    \A s \in Syncs : sync[s].pc \in {"loaded", "written"} =>
        \A e \in Own(s) :
            row[e] # NoRow /\ sync[s].seen[e] # NoRow => Alike(row[e], sync[s].seen[e])

CardInv == LinksFit /\ RowsDated /\ SeenFits /\ OneCardPerCall

\* The calendars have no event in common.
LEMMA OwnDisjoint ==
    ASSUME NEW s \in Syncs, NEW t \in Syncs, Own(s) # Own(t)
    PROVE  Own(s) \cap Own(t) = {} /\ Own(s) \subseteq Events
  BY ConstantsOK DEF Own, Events

\* An event is in the calendar of a Zoom event only if it is one.
LEMMA ZoomProvider ==
    ASSUME NEW z \in ZoomEvents, NEW o \in Events \ ZoomEvents
    PROVE  ~SameProvider(z, o)
  BY ConstantsOK DEF SameProvider, Events

\* An UPDATE shows what the session shows, if the row shows what the session loaded;
\* and what the row shows, if the session has changed neither time nor link.
LEMMA UpdatedAlike ==
    ASSUME NEW old, NEW new, NEW r
    PROVE  /\ Alike(r, old) => Alike(Updated(old, new, r), new)
           /\ Alike(new, old) => Alike(Updated(old, new, r), r)
  BY DEF Alike, Updated, Column

\* The session's copy of an event's row shows what the provider has answered.
LEMMA UpsertedAlike ==
    ASSUME TypeOK, NEW s \in Syncs, NEW e \in Answered(s)
    PROVE  /\ Alike(Upserted(s, e), sync[s].answer[e])
           /\ sync[s].answer[e] \in Entry
           /\ sync[s].answer[e].date \in Touched(s)
  <1>1. e \in Events /\ sync[s].answer[e] # Absent
    BY DEF Answered, Own, Events
  <1>2. sync[s].answer[e] \in Entry
    BY <1>1 DEF TypeOK, Sync
  <1>3. Alike(Upserted(s, e), sync[s].answer[e])
    BY DEF Alike, Upserted, Refreshed, NewRow, WithChoices
  <1>4. QED
    BY <1>2, <1>3 DEF Touched

\* After the flush a row that the sync has not changed is as it was, and one that it
\* has changed shows what the provider has answered.
LEMMA FlushedAlike ==
    ASSUME TypeOK, NEW s \in Syncs, ~Conflict(s), SeenFits, sync[s].pc = "written", NEW e \in Events
    PROVE  /\ e \notin Changes(s) => Flushed(s)[e] = row[e]
           /\ e \in Changes(s) => Alike(Flushed(s)[e], Upserted(s, e)) /\ e \in Answered(s)
  <1>1. CASE e \notin Changes(s)
    BY <1>1 DEF Flushed
  <1>2. CASE e \in Changes(s)
    <2>1. e \in Answered(s) /\ e \in Own(s)
      BY <1>2 DEF Changes, Answered
    <2>2. CASE sync[s].seen[e] = NoRow
      <3>1. Flushed(s)[e] = Upserted(s, e)
        BY <1>2, <2>2 DEF Flushed
      <3>2. QED
        BY <1>2, <2>1, <3>1 DEF Alike
    <2>3. CASE sync[s].seen[e] # NoRow
      <3>1. row[e] # NoRow
        BY <1>2, <2>3 DEF Conflict
      <3>2. Alike(row[e], sync[s].seen[e])
        BY <2>1, <2>3, <3>1 DEF SeenFits
      <3>3. Flushed(s)[e] = Updated(sync[s].seen[e], Upserted(s, e), row[e])
        BY <1>2, <2>3 DEF Flushed
      <3>4. QED
        BY <1>2, <2>1, <3>2, <3>3, UpdatedAlike
    <2>4. QED
      BY <2>2, <2>3
  <1>3. QED
    BY <1>1, <1>2

\* If the upsert changes anything, the rows to merge are those that the flush has left
\* at the dates touched, and they show the same.
LEMMA RowsToMergeAlike ==
    ASSUME TypeOK, NEW s \in Syncs, ~Conflict(s), SeenFits, sync[s].pc = "written",
           Changes(s) # {}
    PROVE  /\ DOMAIN RowsToMerge(s) =
                {e \in Events : Flushed(s)[e] # NoRow /\ Flushed(s)[e].date \in Touched(s)}
           /\ \A e \in DOMAIN RowsToMerge(s) : Alike(RowsToMerge(s)[e], Flushed(s)[e])
  <1> DEFINE there == {e \in Events : Flushed(s)[e] # NoRow /\ Flushed(s)[e].date \in Touched(s)}
  <1>1. RowsToMerge(s) = [e \in there |-> IF e \in Answered(s) THEN Upserted(s, e) ELSE Flushed(s)[e]]
    BY DEF RowsToMerge
  <1>2. ASSUME NEW e \in there
        PROVE  Alike(RowsToMerge(s)[e], Flushed(s)[e])
    <2>1. e \in Events /\ Flushed(s)[e] # NoRow
      OBVIOUS
    <2>2. RowsToMerge(s)[e] = IF e \in Answered(s) THEN Upserted(s, e) ELSE Flushed(s)[e]
      BY <1>1
    <2>3. CASE e \notin Answered(s)
      BY <2>2, <2>3 DEF Alike
    <2>4. CASE e \in Changes(s)
      BY <2>1, <2>2, <2>4, FlushedAlike DEF Alike
    <2>5. CASE e \in Answered(s) \ Changes(s)
      <3>1. Flushed(s)[e] = row[e] /\ row[e] # NoRow
        BY <2>1, <2>5, FlushedAlike
      <3>2. Upserted(s, e) = sync[s].seen[e] /\ Upserted(s, e) # NoRow
        BY <2>5, UpsertedType, ConstantsOK DEF Changes
      <3>3. e \in Own(s)
        BY <2>5 DEF Answered
      <3>4. Alike(row[e], Upserted(s, e))
        BY <3>1, <3>2, <3>3 DEF SeenFits
      <3>5. QED
        BY <2>2, <2>5, <3>1, <3>4 DEF Alike
    <2>6. QED
      BY <2>3, <2>4, <2>5
  <1>3. QED
    BY <1>1, <1>2

\* The merge into a surviving row changes neither its time nor its link.
LEMMA MergedAlike ==
    ASSUME NEW rows, NEW pick, NEW new \in Merged(rows, pick), NEW z \in pick
    PROVE  Alike(new[z], rows[z])
  BY DEF Merged, Alike, WithChoices

\* What the commit of a sync leaves: rows as the flush has left them, and where it
\* has touched a date that has a row from Zoom, beside it no row of another calendar
\* without a Zoom room of its own.
CommitShows(s) ==
    \A e \in Events : row'[e] # NoRow => Flushed(s)[e] # NoRow /\ Alike(row'[e], Flushed(s)[e])

CommitMergesAt(s) ==
    \A z \in ZoomEvents, o \in Events \ ZoomEvents :
        /\ row'[z] # NoRow /\ row'[o] # NoRow
        /\ row'[z].date \in Touched(s) /\ row'[o].date = row'[z].date
        => \E y \in ZoomEvents :
             /\ Flushed(s)[y] # NoRow
             /\ {Flushed(s)[y].link, row'[o].link} \subseteq ZoomRooms
             /\ Flushed(s)[y].link # row'[o].link

LEMMA CommitCards ==
    ASSUME TypeOK, WrittenFits, SeenFits, NEW s \in Syncs, SyncCommits(s)
    PROVE  \/ row' = row
           \/ CommitShows(s) /\ (Changes(s) # {} => CommitMergesAt(s))
  <1> DEFINE rows    == RowsToMerge(s)
             flushed == Flushed(s)
  <1>1. ~Conflict(s) /\ sync[s].pc = "written"
    BY DEF WrittenFits, SyncCommits
  <1>2. SUFFICES ASSUME NEW pick \in Survivors(rows), NEW new \in Merged(rows, pick),
                        CommitWrites(s, pick, new)
                 PROVE  CommitShows(s) /\ (Changes(s) # {} => CommitMergesAt(s))
    BY CommitCases
  <1> DEFINE gone == UNION {Shadows(rows, z) : z \in pick}
  <1>4. \A z \in pick : Alike(new[z], rows[z])
    BY MergedAlike
  <1>5. row' = [e \in Events |->
                  IF e \in gone THEN NoRow
                  ELSE IF e \in pick /\ flushed[e] # NoRow
                    THEN Updated(rows[e], new[e], flushed[e])
                    ELSE flushed[e]]
    BY <1>2 DEF CommitWrites
  <1>6. ASSUME NEW e \in Events, row'[e] # NoRow
        PROVE  e \notin gone /\ flushed[e] # NoRow /\ Alike(row'[e], flushed[e])
    <2> HIDE DEF rows, flushed, gone
    <2>1. e \notin gone
      BY <1>5, <1>6
    <2>2. CASE e \in pick /\ flushed[e] # NoRow
      <3>1. row'[e] = Updated(rows[e], new[e], flushed[e])
        BY <1>5, <2>1, <2>2
      <3>2. QED
        BY <1>4, <2>1, <2>2, <3>1, UpdatedAlike
    <2>3. CASE ~(e \in pick /\ flushed[e] # NoRow)
      <3>1. row'[e] = flushed[e]
        BY <1>5, <2>1, <2>3
      <3>2. QED
        BY <1>6, <2>1, <3>1 DEF Alike
    <2>4. QED
      BY <2>2, <2>3
  <1>7. CommitShows(s)
    BY <1>6 DEF CommitShows
  <1>8. ASSUME Changes(s) # {}, NEW z \in ZoomEvents, NEW o \in Events \ ZoomEvents,
               row'[z] # NoRow, row'[o] # NoRow,
               row'[z].date \in Touched(s), row'[o].date = row'[z].date
        PROVE  \E y \in ZoomEvents :
                 /\ flushed[y] # NoRow
                 /\ {flushed[y].link, row'[o].link} \subseteq ZoomRooms
                 /\ flushed[y].link # row'[o].link
    <2> DEFINE d == row'[z].date
    <2>1. z \in Events
      BY DEF Events
    <2>2. /\ flushed[z] # NoRow /\ flushed[z].date = d
          /\ flushed[o] # NoRow /\ flushed[o].date = d /\ flushed[o].link = row'[o].link
          /\ o \notin gone
      BY <1>6, <1>8, <2>1 DEF Alike
    <2>3. /\ DOMAIN rows = {e \in Events : flushed[e] # NoRow /\ flushed[e].date \in Touched(s)}
          /\ \A e \in DOMAIN rows : Alike(rows[e], flushed[e])
      BY <1>1, <1>8, RowsToMergeAlike
    <2>4. /\ z \in DOMAIN rows /\ rows[z].date = d
          /\ o \in DOMAIN rows /\ rows[o].date = d /\ rows[o].link = row'[o].link
      BY <1>8, <2>1, <2>2, <2>3 DEF Alike
    <2> HIDE DEF rows, flushed
    <2>5. z \in At(rows, d) /\ o \in At(rows, d)
      BY <2>4 DEF At
    <2>6. Canonical(rows, d) = At(rows, d) \cap ZoomEvents /\ Canonical(rows, d) # {}
      BY <2>5 DEF Canonical
    <2>7. PICK y \in Canonical(rows, d) : pick \cap At(rows, d) = {y}
      BY <2>4, <2>6 DEF Survivors
    <2>8. y \in pick /\ y \in ZoomEvents /\ y \in DOMAIN rows /\ rows[y].date = d
      BY <2>6, <2>7 DEF At
    <2>9. OtherCall(rows, y, o)
      BY <2>2, <2>5, <2>8, ZoomProvider DEF Shadows
    <2>10. flushed[y] # NoRow /\ flushed[y].link = rows[y].link
      BY <2>3, <2>8 DEF Alike
    <2>11. QED
      BY <2>4, <2>8, <2>9, <2>10 DEF OtherCall
  <1>9. QED
    BY <1>7, <1>8 DEF CommitMergesAt

\* What a sync that writes no row has read: the calendar, then the rows.
LEMMA SyncMovesRead ==
    ASSUME TypeOK, NEW s \in Syncs, SyncMoves(s)
    PROVE  /\ \A e \in Own(s) : sync'[s].answer[e] \in {Absent, sync[s].answer[e], cal[e]}
           /\ sync'[s].pc \in {"loaded", "written"} =>
                \/ sync'[s].seen = row
                \/ sync[s].pc = "loaded" /\ sync'[s].seen = sync[s].seen
  <1>0. sync \in [Syncs -> Sync] /\ Own(s) \subseteq Events
    BY DEF TypeOK, Own, Events
  <1>1. CASE SyncBegins(s)
    <2>1. /\ sync'[s].pc = "answered"
          /\ sync'[s].answer = [e \in Events |-> IF e \in Own(s) THEN cal[e] ELSE Absent]
      BY <1>0, <1>1 DEF SyncBegins
    <2>2. QED
      BY <1>0, <2>1
  <1>2. CASE SyncLoads(s)
    <2>1. sync'[s].answer = sync[s].answer /\ sync'[s].seen = row
      BY <1>0, <1>2 DEF SyncLoads
    <2>2. QED
      BY <2>1
  <1>3. ASSUME sync' = [sync EXCEPT ![s] = IdleSync]
        PROVE  /\ \A e \in Own(s) : sync'[s].answer[e] = Absent
               /\ sync'[s].pc = "idle"
    BY <1>0, <1>3 DEF IdleSync
  <1>4. CASE SyncWrites(s)
    <2>1. CASE Conflict(s)
      BY <1>3, <1>4, <2>1 DEF SyncWrites
    <2>2. CASE ~Conflict(s)
      <3>1. /\ sync[s].pc = "loaded"
            /\ sync'[s].answer = sync[s].answer /\ sync'[s].seen = sync[s].seen
        BY <1>0, <1>4, <2>2 DEF SyncWrites
      <3>2. QED
        BY <3>1
    <2>3. QED
      BY <2>1, <2>2
  <1>5. CASE SyncTimesOut(s) \/ SyncFails(s)
    BY <1>3, <1>5 DEF SyncTimesOut, SyncFails
  <1>6. QED
    BY <1>1, <1>2, <1>4, <1>5 DEF SyncMoves

\* A write of one row changes what it shows only if an ingest makes it or stores its
\* recording.
RowWriteShows(e) ==
    row'[e] # NoRow =>
        \/ row[e] # NoRow /\ Alike(row'[e], row[e])
        \/ /\ e \in ZoomEvents /\ LoopFree
           /\ row'[e].link \in {"page", "recording"}
           /\ row'[e].date = NoDate \/ (row[e] # NoRow /\ row'[e].date = row[e].date)

LEMMA RowWritesShow ==
    ASSUME TypeOK, RowWrites, NEW e \in Events
    PROVE  RowWriteShows(e)
  <1>0. row \in [Events -> Rows] /\ ZoomEvents \subseteq Events
    BY DEF TypeOK, Events
  <1>1. ASSUME row'[e] = row[e]
        PROVE  RowWriteShows(e)
    BY <1>1 DEF RowWriteShows, Alike
  <1>2. ASSUME NEW z \in ZoomEvents, IngestMatches(z)
        PROVE  RowWriteShows(e)
    <2>1. CASE e = z /\ row[e] = NoRow
      <3>1. row'[e].date = NoDate /\ row'[e].link = "page" /\ LoopFree
        BY <1>0, <1>2, <2>1 DEF IngestMatches
      <3>2. QED
        BY <2>1, <3>1 DEF RowWriteShows
    <2>2. CASE ~(e = z /\ row[e] = NoRow)
      <3>1. row'[e] = row[e]
        BY <1>0, <1>2, <2>2 DEF IngestMatches
      <3>2. QED
        BY <1>1, <3>1
    <2>3. QED
      BY <2>1, <2>2
  <1>3. ASSUME NEW z \in ZoomEvents, IngestStores(z)
        PROVE  RowWriteShows(e)
    <2>1. CASE e = z
      BY <1>0, <1>3, <2>1 DEF IngestStores, RowWriteShows, Recorded
    <2>2. CASE e # z
      BY <1>0, <1>1, <1>3, <2>2 DEF IngestStores
    <2>3. QED
      BY <2>1, <2>2
  <1>4. ASSUME NEW o \in Events, row[o] # NoRow, NEW r,
               row' = [row EXCEPT ![o] = r], Alike(r, row[o])
        PROVE  RowWriteShows(e)
    BY <1>0, <1>4 DEF RowWriteShows, Alike
  <1>5. ASSUME NEW o \in Events,
               (o \in ZoomEvents /\ IngestFails(o)) \/ MeetingProceeds(o)
        PROVE  RowWriteShows(e)
    <2>1. row[o] # NoRow /\ row' = [row EXCEPT ![o] = Recorded(row[o], row[o].link)]
      BY <1>5 DEF IngestFails, MeetingProceeds
    <2>2. Alike(Recorded(row[o], row[o].link), row[o])
      BY DEF Recorded, Alike
    <2>3. QED
      BY <1>4, <2>1, <2>2
  <1>6. ASSUME NEW o \in Events, NEW on \in BOOLEAN,
               ToggleBot(o, on) \/ \E d \in Deals : AssignMeeting(o, d, on)
        PROVE  RowWriteShows(e)
    <2>1. row[o] # NoRow /\ \E d : row' = [row EXCEPT ![o] = WithChoices(row[o], d, on)]
      BY <1>6 DEF ToggleBot, AssignMeeting
    <2>2. \A d : Alike(WithChoices(row[o], d, on), row[o])
      BY DEF WithChoices, Alike
    <2>3. QED
      BY <1>4, <2>1, <2>2
  <1>7. QED
    BY <1>0, <1>2, <1>3, <1>5, <1>6 DEF RowWrites

\* Initially there is no row.
LEMMA InitCardInv == Init => CardInv
  <1> SUFFICES ASSUME Init PROVE CardInv
    OBVIOUS
  <1>0. ZoomEvents \subseteq Events /\ \A s \in Syncs : Own(s) \subseteq Events
    BY DEF Events, Own
  <1>1. \A e \in Events : row[e] = NoRow
    BY DEF Init
  <1>2. LinksFit
    BY <1>0, <1>1 DEF Init, LinksFit, IdleSync
  <1>3. SeenFits
    BY DEF Init, SeenFits, IdleSync
  <1>4. QED
    BY <1>0, <1>1, <1>2, <1>3 DEF CardInv, RowsDated, OneCardPerCall

\* The commit of a sync keeps the invariant.
LEMMA CommitCardInv ==
    ASSUME IInv, CardInv, NoOverlap, NEW s \in Syncs, SyncCommits(s)
    PROVE  CardInv'
  <1> USE DEF IInv, CardInv
  <1>0. ZoomEvents \subseteq Events
    BY DEF Events
  <1>1. /\ ~Conflict(s) /\ sync[s].pc = "written" /\ sync[s].lock
        /\ UNCHANGED cal
        /\ sync' = [sync EXCEPT ![s] = IdleSync]
    BY DEF WrittenFits, SyncCommits
  <1>2. row' = row \/ (CommitShows(s) /\ (Changes(s) # {} => CommitMergesAt(s)))
    BY CommitCards
  <1>3. sync'[s] = IdleSync /\ \A t \in Syncs \ {s} : sync'[t] = sync[t]
    BY <1>1 DEF TypeOK
  <1>4. \A t \in Syncs \ {s} : sync[t].pc = "loaded" => Own(t) # Own(s)
    BY <1>1 DEF NoOverlap
  <1>5. \A t \in Syncs \ {s} : sync[t].pc # "written"
    BY <1>1 DEF OneHolder, NoOtherHolds, WrittenFits
  \* What a row shows after the commit.
  <1>6. ASSUME NEW e \in Events, row'[e] # NoRow
        PROVE  \/ row[e] # NoRow /\ Alike(row'[e], row[e])
               \/ /\ e \in Changes(s) /\ e \in Answered(s)
                  /\ Alike(row'[e], sync[s].answer[e])
                  /\ row'[e].date \in Touched(s)
                  /\ CommitMergesAt(s)
    <2>1. CASE row' = row
      BY <1>6, <2>1 DEF Alike
    <2>2. CASE CommitShows(s) /\ (Changes(s) # {} => CommitMergesAt(s))
      <3>1. Flushed(s)[e] # NoRow /\ Alike(row'[e], Flushed(s)[e])
        BY <1>6, <2>2 DEF CommitShows
      <3>2. CASE e \notin Changes(s)
        BY <1>1, <3>1, <3>2, FlushedAlike
      <3>3. CASE e \in Changes(s)
        <4>1. e \in Answered(s) /\ Alike(Flushed(s)[e], Upserted(s, e))
          BY <1>1, <3>3, FlushedAlike
        <4>2. /\ Alike(Upserted(s, e), sync[s].answer[e])
              /\ sync[s].answer[e].date \in Touched(s)
          BY <4>1, UpsertedAlike
        <4>3. QED
          BY <2>2, <3>1, <3>3, <4>1, <4>2 DEF Alike
      <3>4. QED
        BY <3>2, <3>3
    <2>3. QED
      BY <1>2, <2>1, <2>2
  <1>7. LinksFit'
    <2>1. ASSUME NEW z \in ZoomEvents, row'[z] # NoRow
          PROVE  row'[z].link \in {z, "page", "recording"}
      <3>1. CASE row[z] # NoRow /\ Alike(row'[z], row[z])
        BY <3>1 DEF LinksFit, Alike
      <3>2. CASE z \in Answered(s) /\ Alike(row'[z], sync[s].answer[z])
        <4>1. z \in Own(s) /\ sync[s].answer[z] # Absent
          BY <3>2 DEF Answered
        <4>2. sync[s].answer[z].link \in CalendarLinks(z)
          BY <4>1 DEF LinksFit
        <4>3. QED
          BY <3>2, <4>2 DEF Alike, CalendarLinks
      <3>3. QED
        BY <1>0, <1>6, <2>1, <3>1, <3>2
    <2>2. ASSUME NEW t \in Syncs, NEW e \in Own(t), sync'[t].answer[e] # Absent
          PROVE  sync'[t].answer[e].link \in CalendarLinks(e)
      <3>1. CASE t = s
        BY <1>3, <2>2, <3>1 DEF IdleSync, Own, Events
      <3>2. CASE t # s
        BY <1>3, <2>2, <3>2 DEF LinksFit
      <3>3. QED
        BY <3>1, <3>2
    <2>3. \A t \in Syncs : Own(t)' = Own(t)
      BY DEF Own
    <2>4. QED
      BY <1>1, <2>1, <2>2, <2>3 DEF LinksFit
  <1>8. RowsDated'
    <2>1. ASSUME NEW o \in Events \ ZoomEvents, row'[o] # NoRow
          PROVE  row'[o].date \in Dates
      <3>1. CASE row[o] # NoRow /\ Alike(row'[o], row[o])
        BY <3>1 DEF RowsDated, Alike
      <3>2. CASE o \in Answered(s) /\ Alike(row'[o], sync[s].answer[o])
        BY <3>2, UpsertedAlike DEF Alike, Entry
      <3>3. QED
        BY <1>6, <2>1, <3>1, <3>2
    <2>2. QED
      BY <2>1 DEF RowsDated
  <1>9. SeenFits'
    <2>1. ASSUME NEW t \in Syncs, sync'[t].pc \in {"loaded", "written"},
                 NEW e \in Own(t), row'[e] # NoRow, sync'[t].seen[e] # NoRow
          PROVE  Alike(row'[e], sync'[t].seen[e])
      <3>1. t # s /\ sync'[t] = sync[t] /\ sync[t].pc = "loaded"
        BY <1>3, <1>5, <2>1, IdleType
      <3>2. e \in Events /\ e \notin Own(s)
        BY <1>4, <3>1, OwnDisjoint
      <3>3. row[e] # NoRow /\ Alike(row'[e], row[e])
        BY <1>6, <2>1, <3>2 DEF Answered
      <3>4. Alike(row[e], sync[t].seen[e])
        BY <2>1, <3>1, <3>3 DEF SeenFits
      <3>5. QED
        BY <3>1, <3>3, <3>4 DEF Alike
    <2>2. \A t \in Syncs : Own(t)' = Own(t)
      BY DEF Own
    <2>3. QED
      BY <2>1, <2>2 DEF SeenFits, Alike
  <1>10. OneCardPerCall'
    <2>1. ASSUME NEW z \in ZoomEvents, NEW o \in Events \ ZoomEvents,
                 row'[z] # NoRow, row'[o] # NoRow, row'[z].date = row'[o].date
          PROVE  row'[o].link \in ZoomRooms /\ (row'[o].link = z => ZoomEvents # {z})
      <3>1. CASE /\ row[z] # NoRow /\ Alike(row'[z], row[z])
                 /\ row[o] # NoRow /\ Alike(row'[o], row[o])
        BY <2>1, <3>1 DEF OneCardPerCall, Alike
      <3>2. CASE row'[z].date \in Touched(s) /\ CommitMergesAt(s) /\ Changes(s) # {}
        <4>1. PICK y \in ZoomEvents :
                /\ Flushed(s)[y] # NoRow
                /\ {Flushed(s)[y].link, row'[o].link} \subseteq ZoomRooms
                /\ Flushed(s)[y].link # row'[o].link
          BY <2>1, <3>2 DEF CommitMergesAt
        <4>2. Flushed(s)[y].link \in {y, "page", "recording"}
          <5>1. CASE y \notin Changes(s)
            BY <1>0, <1>1, <4>1, <5>1, FlushedAlike DEF LinksFit
          <5>2. CASE y \in Changes(s)
            <6>1. y \in Answered(s) /\ Alike(Flushed(s)[y], sync[s].answer[y])
              BY <1>0, <1>1, <5>2, FlushedAlike, UpsertedAlike DEF Alike
            <6>2. y \in Own(s) /\ sync[s].answer[y] # Absent
              BY <6>1 DEF Answered
            <6>3. sync[s].answer[y].link \in CalendarLinks(y)
              BY <6>2 DEF LinksFit
            <6>4. QED
              BY <6>1, <6>3 DEF Alike, CalendarLinks
          <5>3. QED
            BY <5>1, <5>2
        <4>3. Flushed(s)[y].link = y
          BY <4>1, <4>2, ConstantsOK
        <4>4. QED
          BY <4>1, <4>3
      <3>3. QED
        BY <1>0, <1>6, <2>1, <3>1, <3>2
    <2>2. QED
      BY <2>1 DEF OneCardPerCall, ZoomRooms
  <1>11. QED
    BY <1>7, <1>8, <1>9, <1>10

\* Every step keeps the invariant, as long as no sync overtakes one of its calendar.
LEMMA NextCardInv == IInv /\ CardInv /\ NoOverlap /\ [Next]_vars => CardInv'
  <1> SUFFICES ASSUME IInv, CardInv, NoOverlap, [Next]_vars PROVE CardInv'
    OBVIOUS
  <1> USE DEF CardInv
  <1>0. /\ ZoomEvents \subseteq Events
        /\ \A s \in Syncs : Own(s)' = Own(s) /\ Own(s) \subseteq Events
    BY DEF Events, Own
  <1>1. ASSUME NEW s \in Syncs, SyncMoves(s)
        PROVE  CardInv'
    <2>1. /\ UNCHANGED <<cal, row, wish, ingest, edits>>
          /\ \A t \in Syncs \ {s} : sync'[t] = sync[t]
      BY <1>1, SyncMovesEffect DEF IInv
    <2>2. /\ \A e \in Own(s) : sync'[s].answer[e] \in {Absent, sync[s].answer[e], cal[e]}
          /\ sync'[s].pc \in {"loaded", "written"} =>
               \/ sync'[s].seen = row
               \/ sync[s].pc = "loaded" /\ sync'[s].seen = sync[s].seen
      BY <1>1, SyncMovesRead DEF IInv
    <2>3. LinksFit'
      <3>1. ASSUME NEW t \in Syncs, NEW e \in Own(t), sync'[t].answer[e] # Absent
            PROVE  sync'[t].answer[e].link \in CalendarLinks(e)
        <4>1. CASE t = s
          BY <1>0, <2>2, <3>1, <4>1 DEF LinksFit
        <4>2. CASE t # s
          BY <2>1, <3>1, <4>2 DEF LinksFit
        <4>3. QED
          BY <4>1, <4>2
      <3>2. QED
        BY <1>0, <2>1, <3>1 DEF LinksFit
    <2>4. SeenFits'
      <3>1. ASSUME NEW t \in Syncs, sync'[t].pc \in {"loaded", "written"},
                   NEW e \in Own(t), row[e] # NoRow, sync'[t].seen[e] # NoRow
            PROVE  Alike(row[e], sync'[t].seen[e])
        <4>1. CASE t = s
          <5>1. CASE sync'[s].seen = row
            BY <4>1, <5>1 DEF Alike
          <5>2. CASE sync[s].pc = "loaded" /\ sync'[s].seen = sync[s].seen
            BY <3>1, <4>1, <5>2 DEF SeenFits
          <5>3. QED
            BY <2>2, <3>1, <4>1, <5>1, <5>2
        <4>2. CASE t # s
          BY <2>1, <3>1, <4>2 DEF SeenFits
        <4>3. QED
          BY <4>1, <4>2
      <3>2. QED
        BY <1>0, <2>1, <3>1 DEF SeenFits, Alike
    <2>5. RowsDated' /\ OneCardPerCall'
      BY <2>1 DEF RowsDated, OneCardPerCall
    <2>6. QED
      BY <2>3, <2>4, <2>5
  <1>2. ASSUME NEW s \in Syncs, SyncCommits(s)
        PROVE  CardInv'
    BY <1>2, CommitCardInv
  <1>3. ASSUME RowWrites
        PROVE  CardInv'
    <2>1. LockFree /\ sync' = sync /\ cal' = cal
      BY <1>3, RowWritesEffect DEF IInv
    <2>2. \A e \in Events : RowWriteShows(e)
      BY <1>3, RowWritesShow DEF IInv
    <2>3. \A s \in Syncs : sync[s].pc # "written"
      BY <2>1 DEF IInv, WrittenFits, LockFree
    <2>4. LinksFit'
      BY <1>0, <2>1, <2>2 DEF LinksFit, RowWriteShows, Alike
    <2>5. \A o \in Events \ ZoomEvents :
             row'[o] # NoRow => row[o] # NoRow /\ Alike(row'[o], row[o])
      BY <2>2 DEF RowWriteShows
    <2>6. RowsDated'
      BY <2>5 DEF RowsDated, Alike
    <2>7. SeenFits'
      <3>1. ASSUME NEW s \in Syncs, sync[s].pc = "loaded",
                   NEW e \in Own(s), row'[e] # NoRow, sync[s].seen[e] # NoRow
            PROVE  Alike(row'[e], sync[s].seen[e])
        <4>1. ~LoopFree
          BY <3>1 DEF LoopFree
        <4>2. row[e] # NoRow /\ Alike(row'[e], row[e])
          BY <1>0, <2>2, <3>1, <4>1 DEF RowWriteShows
        <4>3. Alike(row[e], sync[s].seen[e])
          BY <3>1, <4>2 DEF SeenFits
        <4>4. QED
          BY <4>2, <4>3 DEF Alike
      <3>2. QED
        BY <1>0, <2>1, <2>3, <3>1 DEF SeenFits, Alike
    <2>8. OneCardPerCall'
      <3>1. ASSUME NEW z \in ZoomEvents, NEW o \in Events \ ZoomEvents,
                   row'[z] # NoRow, row'[o] # NoRow, row'[z].date = row'[o].date
            PROVE  row'[o].link \in ZoomRooms /\ (row'[o].link = z => ZoomEvents # {z})
        <4>1. row[o] # NoRow /\ Alike(row'[o], row[o]) /\ row[o].date \in Dates
          BY <2>5, <3>1 DEF RowsDated
        <4>2. row[z] # NoRow /\ row[z].date = row'[z].date
          BY <1>0, <2>2, <3>1, <4>1, ConstantsOK DEF RowWriteShows, Alike
        <4>3. QED
          BY <3>1, <4>1, <4>2 DEF OneCardPerCall, Alike
      <3>2. QED
        BY <3>1 DEF OneCardPerCall, ZoomRooms
    <2>9. QED
      BY <2>4, <2>6, <2>7, <2>8
  <1>4. ASSUME NEW e \in Events, EditCalendar(e)
        PROVE  CardInv'
    <2>1. UNCHANGED <<row, wish, sync, ingest>>
      BY <1>4 DEF EditCalendar
    <2>2. \A o \in Events : cal'[o] # Absent => cal'[o].link \in CalendarLinks(o)
      BY <1>4 DEF EditCalendar, LinksFit, IInv, TypeOK
    <2>3. LinksFit'
      BY <2>1, <2>2 DEF LinksFit, Own, CalendarLinks
    <2>4. QED
      BY <2>1, <2>3 DEF RowsDated, SeenFits, OneCardPerCall, Own, Alike
  <1>5. ASSUME UNCHANGED vars
        PROVE  CardInv'
    <2>1. UNCHANGED <<cal, row, wish, sync, ingest, edits>>
      BY <1>5 DEF vars
    <2>2. QED
      BY <2>1 DEF LinksFit, RowsDated, SeenFits, OneCardPerCall, Own, Alike
  <1>6. QED
    BY <1>1, <1>2, <1>3, <1>4, <1>5, NextCases

\* Beside a row from Zoom no row of another calendar stays at its date without a Zoom
\* room of its own, however the syncs of different calendars overlap with each other,
\* with ingests and with users; of the syncs of one calendar each commits before the
\* next loads its rows.
THEOREM OneCardKept == Spec /\ []NoOverlap => []OneCardPerCall
  <1>1. CardInv => OneCardPerCall
    BY DEF CardInv
  <1>2. QED
    BY <1>1, InitCardInv, NextCardInv, Invariance, PTL DEF Spec
=============================================================================
