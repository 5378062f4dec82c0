-------------------------- MODULE VdrSharingProofs --------------------------
(* Theorems of VdrSharing, for any number of connect flows and tabs and any  *)
(* set of categories.  The properties are not inductive: what a handler has  *)
(* read and not yet written must be known to fit what it will write over.    *)
(* And VdrSharing implements DataRoom: each handler acts as if at once.      *)
EXTENDS VdrSharing, TLAPS

(* A handler that has found a row writes to a row that is still there. *)
RowStays ==
  /\ \A t \in Tabs :
       (patch[t].at = "found" \/ ending[t] = "found") => conn.status # "none"
  /\ \A c \in Calls :
       call[c].at = "found" /\ call[c].row.status # "none"
       => conn.status # "none"

(* Nobody withheld everything: the row holds the last choice, which is not   *)
(* empty, and no callback has read an empty list.                            *)
ChoiceKept ==
  ~emptied =>
    /\ conn.status # "none" => conn.scopes = chosen
    /\ conn.status = "none" => chosen = Cats
    /\ chosen = {} => Cats = {}
    /\ \A c \in Calls :
         /\ call[c].at = "found" /\ call[c].row.status # "none"
         /\ call[c].row.scopes = {}
         => Cats = {}

(* After a disconnection that nothing followed, no callback is left.         *)
CutHolds == cut => conn.status # "active" /\ NoCallUnderWay

IInv == TypeOK /\ RowStays /\ ChoiceKept /\ CutHolds

-----------------------------------------------------------------------------
(* The operators *)

\* A callback that found no row inserts one, or another has done so.
LEMMA UpsertInserts ==
  ASSUME conn \in Row, NEW row \in Row, row.status = "none"
  PROVE  /\ Upsert(row) \in Row /\ Upsert(row).status # "none"
         /\ conn.status = "none" => Upsert(row).scopes = Cats
         /\ conn.status # "none" => Upsert(row) = conn
<1>1. CASE conn.status = "none"
  BY <1>1 DEF Upsert, Row
<1>2. CASE conn.status # "none"
  BY <1>2 DEF Upsert
<1>. QED  BY <1>1, <1>2

\* A callback that found a row writes its status, and the list only when the
\* one it found was empty.
LEMMA UpsertReconnects ==
  ASSUME conn \in Row, NEW row \in Row, row.status # "none",
         conn.status # "none"
  PROVE  /\ Upsert(row) \in Row /\ Upsert(row).status # "none"
         /\ \/ Upsert(row).scopes = conn.scopes
            \/ Upsert(row).scopes = Cats /\ row.scopes = {}
<1>1. CASE row.scopes = {}
  BY <1>1 DEF Upsert, Row
<1>2. CASE row.scopes # {}
  BY <1>2 DEF Upsert, Row
<1>. QED  BY <1>1, <1>2

\* An update writes the list and leaves the status.
LEMMA WrittenKeepsStatus ==
  ASSUME conn \in Row, NEW p, p.scopes \in SUBSET Cats, NEW r \in Written(p)
  PROVE  r \in Row /\ r.status = conn.status
<1>1. CASE r = conn
  BY <1>1
<1>2. CASE r = [conn EXCEPT !.scopes = p.scopes]
  BY <1>2 DEF Row
<1>. QED  BY <1>1, <1>2 DEF Written

-----------------------------------------------------------------------------
(* The invariant *)

LEMMA RowOfNone == NoRow \in Row
BY DEF NoRow, Row

LEMMA InitIInv == Init => IInv
<1>. SUFFICES ASSUME Init PROVE IInv
  OBVIOUS
<1>1. TypeOK
  BY RowOfNone DEF Init, TypeOK, NoCall, NoPatch, NoRow
<1>2. RowStays /\ ChoiceKept /\ CutHolds
  BY DEF Init, RowStays, ChoiceKept, CutHolds, NoCall, NoPatch, NoRow
<1>. QED  BY <1>1, <1>2 DEF IInv

\* The connect flow touches the calls, the row and what a new flow forgets.
CallStep(c) ==
  \/ ConnectVdr(c) \/ CallFails(c) \/ CallbackFinds(c) \/ CallbackSaves(c)

LEMMA CallKeeps ==
  ASSUME IInv, NEW c \in Calls, CallStep(c)
  PROVE  IInv'
<1>. USE DEF IInv
<1>1. CASE ConnectVdr(c)
  <2>1. TypeOK'
    BY <1>1 DEF ConnectVdr, TypeOK
  <2>2. RowStays' /\ ChoiceKept' /\ CutHolds'
    BY <1>1 DEF ConnectVdr, TypeOK, RowStays, ChoiceKept, CutHolds
  <2>. QED  BY <2>1, <2>2
<1>2. CASE CallFails(c)
  <2>1. TypeOK'
    BY <1>2, RowOfNone DEF CallFails, TypeOK, NoCall
  <2>2. RowStays' /\ ChoiceKept'
    BY <1>2 DEF CallFails, TypeOK, RowStays, ChoiceKept, NoCall
  <2>3. CutHolds'
    BY <1>2 DEF CallFails, TypeOK, CutHolds, NoCallUnderWay, NoCall
  <2>. QED  BY <2>1, <2>2, <2>3
<1>3. CASE CallbackFinds(c)
  <2>1. TypeOK'
    BY <1>3 DEF CallbackFinds, TypeOK
  <2>2. RowStays' /\ ChoiceKept'
    BY <1>3 DEF CallbackFinds, TypeOK, RowStays, ChoiceKept
  <2>3. CutHolds'
    BY <1>3 DEF CallbackFinds, TypeOK, CutHolds, NoCallUnderWay
  <2>. QED  BY <2>1, <2>2, <2>3
<1>4. CASE CallbackSaves(c)
  <2>. DEFINE row == call[c].row
  <2>1. conn \in Row /\ row \in Row /\ call[c].at = "found"
    BY <1>4 DEF CallbackSaves, TypeOK
  <2>2. /\ conn' = Upsert(row) /\ call' = [call EXCEPT ![c] = NoCall]
        /\ UNCHANGED <<deleted, card, patch, ending, chosen, emptied, cut>>
    BY <1>4 DEF CallbackSaves
  <2>3. row.status # "none" => conn.status # "none"
    BY <2>1 DEF RowStays
  <2>4. conn' \in Row /\ conn'.status # "none"
    <3>1. CASE row.status = "none"
      BY <3>1, <2>1, <2>2, UpsertInserts
    <3>2. CASE row.status # "none"
      BY <3>2, <2>1, <2>2, <2>3, UpsertReconnects
    <3>. QED  BY <3>1, <3>2
  <2>5. TypeOK'
    BY <2>2, <2>4, RowOfNone DEF TypeOK, NoCall
  <2>6. RowStays'
    BY <2>2, <2>4 DEF RowStays
  <2>7. ~emptied => conn'.scopes = chosen
    <3>. SUFFICES ASSUME ~emptied PROVE conn'.scopes = chosen
      OBVIOUS
    <3>1. CASE row.status = "none"
      BY <3>1, <2>1, <2>2, UpsertInserts DEF ChoiceKept
    <3>2. CASE row.status # "none"
      <4>1. conn.scopes = chosen
        BY <3>2, <2>3 DEF ChoiceKept
      <4>2. CASE conn'.scopes = conn.scopes
        BY <4>1, <4>2
      <4>3. CASE conn'.scopes = Cats /\ row.scopes = {}
        <5>1. Cats = {}
          BY <4>3, <3>2, <2>1 DEF ChoiceKept
        <5>. QED  BY <5>1, <4>1, <4>3, <2>1 DEF Row
      <4>. QED  BY <4>2, <4>3, <3>2, <2>1, <2>2, <2>3, UpsertReconnects
    <3>. QED  BY <3>1, <3>2
  <2>8. ChoiceKept'
    BY <2>2, <2>4, <2>7 DEF ChoiceKept, TypeOK, NoCall
  <2>9. CutHolds'
    BY <2>1, <2>2 DEF CutHolds, NoCallUnderWay
  <2>. QED  BY <2>5, <2>6, <2>8, <2>9
<1>. QED  BY <1>1, <1>2, <1>3, <1>4 DEF CallStep

\* Of the share card's steps two write the row.
CardStep(t) ==
  \/ ShowCard(t) \/ (\E cat \in Cats : ToggleScope(t, cat))
  \/ UpdateFinds(t) \/ UpdateFails(t)
  \/ Disconnect(t) \/ DisconnectFinds(t)
  \/ DisconnectFindsNone(t) \/ DisconnectFails(t)

LEMMA CardEffect ==
  ASSUME IInv, NEW t \in Tabs, CardStep(t)
  PROVE  /\ UNCHANGED <<deleted, conn, call, chosen, emptied>>
         /\ TypeOK'
         /\ cut' => cut \/ (~ActiveConnection /\ NoCallUnderWay)
         /\ \A u \in Tabs :
              /\ patch'[u].at = "found" =>
                   patch[u].at = "found" \/ ActiveConnection
              /\ ending'[u] = "found" =>
                   ending[u] = "found" \/ ActiveConnection
<1>. USE DEF IInv
<1>1. CASE ShowCard(t)
  BY <1>1, RowOfNone DEF ShowCard, TypeOK, ActiveConnection, NoRow
<1>2. ASSUME NEW cat \in Cats, ToggleScope(t, cat)
      PROVE  /\ patch' \in [Tabs -> [at : {"idle", "sent", "found"},
                                     scopes : SUBSET Cats, row : Row]]
             /\ patch'[t].at = "sent"
             /\ \A u \in Tabs \ {t} : patch'[u] = patch[u]
             /\ UNCHANGED <<deleted, conn, call, card, ending, chosen, emptied,
                           cut>>
  <2>1. card[t].scopes \in SUBSET Cats
    BY DEF TypeOK, Row
  <2>. QED  BY <1>2, <2>1, RowOfNone DEF ToggleScope, TypeOK, NoPatch
<1>3. CASE UpdateFinds(t)
  BY <1>3 DEF UpdateFinds, TypeOK, ActiveConnection
<1>4. CASE UpdateFails(t)
  BY <1>4, RowOfNone DEF UpdateFails, TypeOK, NoPatch
<1>5. CASE Disconnect(t) \/ DisconnectFinds(t) \/ DisconnectFails(t)
  BY <1>5 DEF Disconnect, DisconnectFinds, DisconnectFails, TypeOK
<1>6. CASE DisconnectFindsNone(t)
  BY <1>6 DEF DisconnectFindsNone, TypeOK
<1>7. CASE \E cat \in Cats : ToggleScope(t, cat)
  BY <1>2, <1>7 DEF TypeOK
<1>. QED  BY <1>1, <1>3, <1>4, <1>5, <1>6, <1>7 DEF CardStep

LEMMA CardKeeps ==
  ASSUME IInv, NEW t \in Tabs, CardStep(t)
  PROVE  IInv'
<1>. USE DEF IInv
<1>1. RowStays'
  BY CardEffect DEF RowStays, ActiveConnection
<1>2. ChoiceKept'
  BY CardEffect DEF ChoiceKept
<1>3. CutHolds'
  BY CardEffect DEF CutHolds, ActiveConnection, NoCallUnderWay
<1>. QED  BY <1>1, <1>2, <1>3, CardEffect

LEMMA UpdateSavesKeeps ==
  ASSUME IInv, NEW t \in Tabs, UpdateSaves(t)
  PROVE  IInv'
<1>. USE DEF IInv
<1>1. /\ patch[t].at = "found" /\ patch' = [patch EXCEPT ![t] = NoPatch]
      /\ conn' \in Written(patch[t])
      /\ chosen' = conn'.scopes /\ emptied' = (emptied \/ conn'.scopes = {})
      /\ UNCHANGED <<deleted, call, card, ending, cut>>
  BY DEF UpdateSaves
<1>2. conn' \in Row /\ conn'.status = conn.status
  BY <1>1, WrittenKeepsStatus DEF TypeOK
<1>3. conn.status # "none"
  BY <1>1 DEF RowStays
<1>4. TypeOK'
  BY <1>1, <1>2, <1>3, RowOfNone DEF TypeOK, NoPatch, Row
<1>5. RowStays'
  BY <1>1, <1>2, <1>3 DEF RowStays
<1>6. ChoiceKept'
  BY <1>1, <1>2, <1>3 DEF ChoiceKept
<1>7. CutHolds'
  BY <1>1, <1>2 DEF CutHolds, NoCallUnderWay
<1>. QED  BY <1>4, <1>5, <1>6, <1>7

LEMMA DisconnectSavesKeeps ==
  ASSUME IInv, NEW t \in Tabs, DisconnectSaves(t)
  PROVE  IInv'
<1>. USE DEF IInv
<1>1. /\ ending[t] = "found" /\ ending' = [ending EXCEPT ![t] = "idle"]
      /\ conn' = [conn EXCEPT !.status = "revoked"]
      /\ cut' = (cut \/ NoCallUnderWay)
      /\ UNCHANGED <<deleted, call, card, patch, chosen, emptied>>
  BY DEF DisconnectSaves
<1>2. /\ conn' \in Row /\ conn'.status = "revoked"
      /\ conn'.scopes = conn.scopes
  BY <1>1 DEF TypeOK, Row
<1>3. conn.status # "none"
  BY <1>1 DEF RowStays
<1>4. TypeOK'
  BY <1>1, <1>2 DEF TypeOK
<1>5. RowStays' /\ ChoiceKept'
  BY <1>1, <1>2, <1>3 DEF RowStays, ChoiceKept
<1>6. CutHolds'
  BY <1>1, <1>2 DEF CutHolds, NoCallUnderWay
<1>. QED  BY <1>4, <1>5, <1>6

\* Deleting the deal, or doing nothing, leaves all the invariant speaks of.
LEMMA DeleteKeeps ==
  ASSUME IInv, DeleteDeal \/ UNCHANGED vars
  PROVE  IInv'
<1>1. /\ UNCHANGED <<conn, call, card, patch, ending, chosen, emptied, cut>>
      /\ deleted' \in BOOLEAN
  BY DEF IInv, DeleteDeal, vars, TypeOK
<1>2. TypeOK'
  BY <1>1 DEF IInv, TypeOK
<1>3. RowStays' /\ ChoiceKept' /\ CutHolds'
  BY <1>1 DEF IInv, RowStays, ChoiceKept, CutHolds, NoCallUnderWay
<1>. QED  BY <1>2, <1>3 DEF IInv

\* The invariant holds of every behaviour.
THEOREM Invariance == Spec => []IInv
<1>1. IInv /\ [Next]_vars => IInv'
  <2>. SUFFICES ASSUME IInv, [Next]_vars PROVE IInv'
    OBVIOUS
  <2>1. ASSUME NEW c \in Calls, CallStep(c) PROVE IInv'
    BY <2>1, CallKeeps
  <2>2. ASSUME NEW t \in Tabs, CardStep(t) PROVE IInv'
    BY <2>2, CardKeeps
  <2>3. ASSUME NEW t \in Tabs, UpdateSaves(t) \/ DisconnectSaves(t) PROVE IInv'
    BY <2>3, UpdateSavesKeeps, DisconnectSavesKeeps
  <2>4. CASE DeleteDeal \/ UNCHANGED vars
    BY <2>4, DeleteKeeps
  <2>. QED  BY <2>1, <2>2, <2>3, <2>4 DEF Next, CallStep, CardStep
<1>. QED  BY <1>1, InitIInv, PTL DEF Spec

-----------------------------------------------------------------------------
(* The theorems *)

\* Every variable has its type, a card shows no revoked connection and an
\* update goes on only from an active one.
THEOREM TypeCorrect == Spec => []TypeOK
<1>1. IInv => TypeOK
  BY DEF IInv
<1>. QED  BY <1>1, Invariance, PTL

\* Until somebody withholds every category, what CogniVault may read of a
\* shared deal is what the switches last left shared; of a deleted deal, what
\* of that is read by meeting.
THEOREM SharedAsChosen == Spec => []ChoicesSurvive
<1>1. IInv => ChoicesSurvive
  <2>. SUFFICES ASSUME IInv, ~emptied, ActiveConnection
                PROVE  {cat \in Cats : PartnerMay(cat)} =
                         {cat \in chosen : deleted => cat \in MeetingCats}
    BY DEF ChoicesSurvive
  <2>1. conn.scopes = chosen /\ chosen \in SUBSET Cats
    BY DEF IInv, ChoiceKept, ActiveConnection, TypeOK
  <2>2. \A cat \in Cats :
          PartnerMay(cat) <=> cat \in conn.scopes /\ (deleted => cat \in MeetingCats)
    BY DEF PartnerMay, ReadableByDeal, ReadableByMeeting, RequireShareScope
  <2>. QED  BY <2>1, <2>2
<1>. QED  BY <1>1, Invariance, PTL

\* A disconnection that no connect flow overlaps or follows shuts the
\* partner out.
THEOREM DisconnectedIsShut == Spec => []DisconnectCuts
<1>1. IInv => DisconnectCuts
  BY DEF IInv, CutHolds, DisconnectCuts, PartnerMay, ReadableByDeal,
         ReadableByMeeting, ActiveConnection
<1>. QED  BY <1>1, Invariance, PTL

-----------------------------------------------------------------------------
(* The refinement of DataRoom.  A handler's first step is a stutter of it,   *)
(* its second acts as one moment does.                                       *)

(* A card shows a connection only where there is a row. *)
CardSeen == \A t \in Tabs : card[t].status = "active" => conn.status # "none"

\* A row that is there stays.
LEMMA RowNeverGoes ==
  ASSUME IInv, [Next]_vars, conn.status # "none"
  PROVE  conn'.status # "none"
<1>1. ASSUME NEW c \in Calls, CallbackSaves(c) PROVE conn'.status # "none"
  <2>1. conn \in Row /\ call[c].row \in Row
    BY <1>1 DEF IInv, TypeOK
  <2>2. conn' = Upsert(call[c].row)
    BY <1>1 DEF CallbackSaves
  <2>. QED  BY <2>1, <2>2, UpsertInserts, UpsertReconnects
<1>2. ASSUME NEW t \in Tabs, UpdateSaves(t) PROVE conn'.status # "none"
  BY <1>2, WrittenKeepsStatus DEF UpdateSaves, IInv, TypeOK
<1>3. ASSUME NEW t \in Tabs, DisconnectSaves(t) PROVE conn'.status # "none"
  BY <1>3 DEF DisconnectSaves, IInv, TypeOK, Row
<1>. QED  BY <1>1, <1>2, <1>3
          DEF Next, vars, ConnectVdr, CallFails, CallbackFinds, ShowCard,
              ToggleScope, UpdateFinds, UpdateFails, Disconnect, DisconnectFinds,
              DisconnectFindsNone, DisconnectFails, DeleteDeal

LEMMA CardSeenStep == IInv /\ CardSeen /\ [Next]_vars => CardSeen'
<1>. SUFFICES ASSUME IInv, CardSeen, [Next]_vars PROVE CardSeen'
  OBVIOUS
<1>1. ASSUME UNCHANGED card PROVE CardSeen'
  BY <1>1, RowNeverGoes DEF CardSeen
<1>2. ASSUME NEW t \in Tabs, ShowCard(t) PROVE CardSeen'
  <2>1. \A u \in Tabs : card'[u].status = "active" =>
                          card[u].status = "active" \/ conn.status # "none"
    BY <1>2 DEF ShowCard, ActiveConnection, NoRow, IInv, TypeOK
  <2>. QED  BY <1>2, <2>1 DEF ShowCard, CardSeen
<1>. QED  BY <1>1, <1>2
          DEF Next, vars, ConnectVdr, CallFails, CallbackFinds, CallbackSaves,
              ToggleScope, UpdateFinds, UpdateFails, UpdateSaves, Disconnect,
              DisconnectFinds, DisconnectFindsNone, DisconnectFails,
              DisconnectSaves, DeleteDeal

LEMMA CardSeenInv == Spec => []CardSeen
<1>1. Init => CardSeen
  BY DEF Init, CardSeen, NoRow
<1>. QED  BY <1>1, CardSeenStep, Invariance, PTL DEF Spec

(* What DataRoom sees of the calls, the updates and the disconnections. *)
FlowsSeen   == {c \in Calls : call[c].at # "idle"}
AskedSeen   == [t \in Tabs |-> IF patch[t].at = "idle" THEN {} ELSE {patch[t].scopes}]
LeavingSeen == {t \in Tabs : ending[t] # "idle"}

\* Everything is every category.
LEMMA AllCats == UNION SUBSET Cats = Cats
OBVIOUS

\* A flow that ends is not seen any more.
LEMMA FlowEnds ==
  ASSUME TypeOK, NEW c \in Calls, call' = [call EXCEPT ![c] = NoCall]
  PROVE  FlowsSeen' = FlowsSeen \ {c}
BY DEF TypeOK, FlowsSeen, NoCall

\* An update that ends is not seen any more.
LEMMA UpdateEnds ==
  ASSUME TypeOK, NEW t \in Tabs, patch' = [patch EXCEPT ![t] = NoPatch]
  PROVE  AskedSeen' = [AskedSeen EXCEPT ![t] = {}]
BY DEF TypeOK, AskedSeen, NoPatch

\* Nor is a disconnection.
LEMMA LeavingEnds ==
  ASSUME TypeOK, NEW t \in Tabs, ending' = [ending EXCEPT ![t] = "idle"]
  PROVE  LeavingSeen' = LeavingSeen \ {t}
BY DEF TypeOK, LeavingSeen

\* The callback opens the door, shares everything where everything had been
\* withheld, or comes after another.
LEMMA CallbackActs ==
  ASSUME IInv, NEW c \in Calls, CallbackSaves(c)
  PROVE  Room!Open(c) \/ Room!ShareAll(c) \/ Room!GiveUp(c)
<1>. DEFINE row == call[c].row
<1>1. /\ conn \in Row /\ row \in Row /\ call[c].at = "found"
      /\ conn' = Upsert(row) /\ UNCHANGED <<deleted, patch, ending, emptied>>
      /\ c \in FlowsSeen /\ FlowsSeen' = FlowsSeen \ {c}
  BY FlowEnds DEF CallbackSaves, IInv, TypeOK, FlowsSeen
<1>2. UNCHANGED <<AskedSeen, LeavingSeen>>
  BY <1>1 DEF AskedSeen, LeavingSeen
<1>3. CASE row.status = "none" /\ conn.status = "none"
  <2>1. conn'.status = "active" /\ conn'.scopes = Cats
    BY <1>1, <1>3 DEF Upsert
  <2>. QED  BY <1>1, <1>2, <1>3, <2>1, AllCats
            DEF Room!Open, Room!Everything, FlowsSeen, AskedSeen, LeavingSeen
<1>4. CASE row.status = "none" /\ conn.status # "none"
  <2>1. conn' = conn
    BY <1>1, <1>4 DEF Upsert
  <2>. QED  BY <1>1, <1>2, <2>1
            DEF Room!GiveUp, FlowsSeen, AskedSeen, LeavingSeen
<1>5. CASE row.status # "none"
  <2>1. conn.status # "none"
    BY <1>1, <1>5 DEF IInv, RowStays
  <2>2. /\ conn'.status \in {conn.status, "active"}
        /\ conn'.scopes = IF row.scopes = {} THEN Cats ELSE conn.scopes
    BY <1>1, <1>5 DEF Upsert
  <2>3. CASE row.scopes = {} /\ emptied
    BY <1>1, <1>2, <2>1, <2>2, <2>3, AllCats
       DEF Room!ShareAll, Room!Everything, FlowsSeen, AskedSeen, LeavingSeen
  <2>4. CASE ~(row.scopes = {} /\ emptied)
    <3>1. row.scopes = {} => Cats = {}
      BY <1>1, <1>5, <2>4 DEF IInv, ChoiceKept
    <3>2. conn'.scopes = conn.scopes
      BY <1>1, <2>2, <3>1 DEF Row
    <3>3. CASE conn'.status = conn.status
      BY <1>1, <1>2, <3>2, <3>3 DEF Room!GiveUp, FlowsSeen, AskedSeen, LeavingSeen
    <3>4. CASE conn'.status = "active"
      BY <1>1, <1>2, <2>1, <3>2, <3>4
         DEF Room!Open, FlowsSeen, AskedSeen, LeavingSeen
    <3>. QED  BY <2>2, <3>3, <3>4
  <2>. QED  BY <2>3, <2>4
<1>. QED  BY <1>3, <1>4, <1>5

\* The connect flow.
LEMMA CallActs ==
  ASSUME IInv, NEW c \in Calls, CallStep(c)
  PROVE  [Room!RoomNext]_(Room!roomVars)
<1>1. CASE ConnectVdr(c)
  <2>1. c \notin FlowsSeen /\ FlowsSeen' = FlowsSeen \union {c}
    BY <1>1 DEF ConnectVdr, FlowsSeen, IInv, TypeOK
  <2>2. Room!Leave(c)
    BY <1>1, <2>1 DEF ConnectVdr, Room!Leave, FlowsSeen
  <2>. QED  BY <2>2 DEF Room!RoomNext
<1>2. CASE CallFails(c)
  <2>1. c \in FlowsSeen /\ FlowsSeen' = FlowsSeen \ {c}
    BY <1>2, FlowEnds DEF CallFails, FlowsSeen, IInv
  <2>2. Room!GiveUp(c)
    BY <1>2, <2>1 DEF CallFails, Room!GiveUp, FlowsSeen
  <2>. QED  BY <2>2 DEF Room!RoomNext
<1>3. CASE CallbackFinds(c)
  <2>1. FlowsSeen' = FlowsSeen
    BY <1>3 DEF CallbackFinds, FlowsSeen, IInv, TypeOK
  <2>. QED  BY <1>3, <2>1 DEF CallbackFinds, Room!roomVars, FlowsSeen
<1>4. CASE CallbackSaves(c)
  BY <1>4, CallbackActs DEF Room!RoomNext
<1>. QED  BY <1>1, <1>2, <1>3, <1>4 DEF CallStep

\* The switches.
LEMMA UpdateActs ==
  ASSUME IInv, CardSeen, NEW t \in Tabs,
         \/ \E cat \in Cats : ToggleScope(t, cat)
         \/ UpdateFinds(t) \/ UpdateFails(t) \/ UpdateSaves(t)
  PROVE  [Room!RoomNext]_(Room!roomVars)
<1>1. ASSUME NEW cat \in Cats, ToggleScope(t, cat)
      PROVE  Room!RoomNext
  <2>1. PICK l \in SUBSET Cats :
          l = IF cat \in card[t].scopes THEN card[t].scopes \ {cat}
              ELSE card[t].scopes \union {cat}
    BY DEF IInv, TypeOK, Row
  <2>2. conn.status # "none"
    BY <1>1 DEF ToggleScope, CardSeen
  <2>3. AskedSeen[t] = {} /\ AskedSeen' = [AskedSeen EXCEPT ![t] = {l}]
    BY <1>1, <2>1 DEF ToggleScope, AskedSeen, NoPatch, IInv, TypeOK
  <2>4. Room!Ask(t, l)
    BY <1>1, <2>2, <2>3 DEF ToggleScope, Room!Ask, AskedSeen
  <2>. QED  BY <2>4 DEF Room!RoomNext
<1>2. CASE UpdateFinds(t)
  <2>1. AskedSeen' = AskedSeen
    BY <1>2 DEF UpdateFinds, AskedSeen, IInv, TypeOK
  <2>. QED  BY <1>2, <2>1 DEF UpdateFinds, Room!roomVars, AskedSeen
<1>3. CASE UpdateFails(t)
  <2>1. AskedSeen' = [AskedSeen EXCEPT ![t] = {}]
    BY <1>3, UpdateEnds DEF UpdateFails, IInv
  <2>2. Room!TakeBack(t)
    BY <1>3, <2>1 DEF UpdateFails, Room!TakeBack, AskedSeen
  <2>. QED  BY <2>2 DEF Room!RoomNext
<1>4. CASE UpdateSaves(t)
  <2>1. AskedSeen[t] = {patch[t].scopes} /\ AskedSeen' = [AskedSeen EXCEPT ![t] = {}]
    BY <1>4, UpdateEnds DEF UpdateSaves, AskedSeen, IInv
  <2>2. conn.status # "none"
    BY <1>4 DEF UpdateSaves, IInv, RowStays
  <2>3. conn' \in Written(patch[t]) /\ conn \in Row /\ patch[t].scopes \in SUBSET Cats
    BY <1>4 DEF UpdateSaves, IInv, TypeOK
  <2>4. conn'.status = conn.status /\ conn'.scopes \in {conn.scopes, patch[t].scopes}
    BY <2>3 DEF Written, Row
  <2>5. Room!Choose(t)
    BY <1>4, <2>1, <2>2, <2>4 DEF UpdateSaves, Room!Choose, AskedSeen
  <2>. QED  BY <2>5 DEF Room!RoomNext
<1>. QED  BY <1>1, <1>2, <1>3, <1>4

\* Disconnecting.
LEMMA DisconnectActs ==
  ASSUME IInv, CardSeen, NEW t \in Tabs,
         \/ Disconnect(t) \/ DisconnectFinds(t) \/ DisconnectFindsNone(t)
         \/ DisconnectFails(t) \/ DisconnectSaves(t)
  PROVE  [Room!RoomNext]_(Room!roomVars)
<1>1. CASE Disconnect(t)
  <2>1. LeavingSeen' = LeavingSeen \union {t}
    BY <1>1 DEF Disconnect, LeavingSeen, IInv, TypeOK
  <2>2. Room!WantOut(t)
    BY <1>1, <2>1 DEF Disconnect, CardSeen, Room!WantOut, LeavingSeen
  <2>. QED  BY <2>2 DEF Room!RoomNext
<1>2. CASE DisconnectFinds(t)
  <2>1. LeavingSeen' = LeavingSeen
    BY <1>2 DEF DisconnectFinds, LeavingSeen, IInv, TypeOK
  <2>. QED  BY <1>2, <2>1 DEF DisconnectFinds, Room!roomVars, LeavingSeen
<1>3. CASE DisconnectFindsNone(t) \/ DisconnectFails(t)
  <2>1. /\ ending' = [ending EXCEPT ![t] = "idle"]
        /\ UNCHANGED <<deleted, conn, call, patch, emptied>>
    BY <1>3 DEF DisconnectFindsNone, DisconnectFails
  <2>2. LeavingSeen' = LeavingSeen \ {t}
    BY <2>1, LeavingEnds DEF IInv
  <2>3. Room!Stay(t)
    BY <2>1, <2>2 DEF Room!Stay, LeavingSeen
  <2>. QED  BY <2>3 DEF Room!RoomNext
<1>4. CASE DisconnectSaves(t)
  <2>1. t \in LeavingSeen /\ LeavingSeen' = LeavingSeen \ {t}
    BY <1>4, LeavingEnds DEF DisconnectSaves, LeavingSeen, IInv
  <2>2. conn.status # "none"
    BY <1>4 DEF DisconnectSaves, IInv, RowStays
  <2>3. conn'.status = "revoked" /\ conn'.scopes = conn.scopes
    BY <1>4 DEF DisconnectSaves, IInv, TypeOK, Row
  <2>4. Room!Shut(t)
    BY <1>4, <2>1, <2>2, <2>3 DEF DisconnectSaves, Room!Shut, LeavingSeen
  <2>. QED  BY <2>4 DEF Room!RoomNext
<1>. QED  BY <1>1, <1>2, <1>3, <1>4

\* The handlers, though each reads in one step and writes in another and others
\* come in between, act on the connection as DataRoom says.
THEOREM Refinement == Spec => ImplementsRoom
<1>1. Init => Room!RoomInit
  BY DEF Init, Room!RoomInit, NoRow, NoCall, NoPatch
<1>2. IInv /\ CardSeen /\ [Next]_vars => [Room!RoomNext]_(Room!roomVars)
  <2>. SUFFICES ASSUME IInv, CardSeen, [Next]_vars
                PROVE  [Room!RoomNext]_(Room!roomVars)
    OBVIOUS
  <2>1. CASE DeleteDeal
    BY <2>1 DEF DeleteDeal, Room!RoomNext, Room!Delete
  <2>2. CASE UNCHANGED vars \/ \E t \in Tabs : ShowCard(t)
    BY <2>2 DEF vars, ShowCard, Room!roomVars
  <2>. QED  BY <2>1, <2>2, CallActs, UpdateActs, DisconnectActs DEF Next, CallStep
<1>. QED  BY <1>1, <1>2, Invariance, CardSeenInv, PTL DEF Spec, ImplementsRoom, Room!RoomSpec
=============================================================================
