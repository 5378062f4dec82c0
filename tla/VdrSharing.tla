----------------------------- MODULE VdrSharing -----------------------------
(* Sharing one deal into a CogniVault data room: the connect flow, the       *)
(* switches of the share card, disconnecting, deleting the deal, and what    *)
(* the partner API then lets CogniVault read (cognivault.py,                 *)
(* partner/router.py, cognivault-share-card.tsx).                            *)
(*                                                                           *)
(* A handler reads the row in one statement and updates it in another; the   *)
(* database serialises the updates, not the handlers, so each is two steps   *)
(* here.  The ORM updates the columns whose value differs from what it read. *)
(*                                                                           *)
(* Simplifications: the data room's id, its tokens and the audit rows are    *)
(* left out; the lists of categories are sets; a request that the browser    *)
(* gives up or repeats counts as another tab's; the partner's own writes and *)
(* its API keys are not modelled.                                            *)
EXTENDS FiniteSets

CONSTANTS
  Calls,    \* connect flows that may be under way at once
  Tabs,     \* browser tabs that show the deal
  Cats,     \* the categories: SHAREABLE_SCOPES
  MeetingCats  \* those of them read by meeting: transcripts and analyses

ASSUME CatsAssumption == MeetingCats \subseteq Cats

VARIABLES
  deleted,  \* whether the deal's deleted_at is set
  conn,     \* the deal's row of deal_vdr_connections
  call,     \* per connect flow, how far it is and the row it read
  card,     \* per tab, the connection as last fetched
  patch,    \* per tab, the update of the categories under way
  ending,   \* per tab, the disconnection under way
  chosen,   \* history: the categories the last update committed
  emptied,  \* history: an update committed the empty list
  cut       \* history: a disconnection ended, with no flow under way since

vars == <<deleted, conn, call, card, patch, ending, chosen, emptied, cut>>

Row      == [status : {"none", "active", "revoked"}, scopes : SUBSET Cats]
NoRow    == [status |-> "none", scopes |-> {}]
NoCall   == [at |-> "idle", row |-> NoRow]
NoPatch  == [at |-> "idle", scopes |-> {}, row |-> NoRow]

TypeOK ==
  /\ deleted \in BOOLEAN
  /\ conn \in Row
  /\ call \in [Calls -> [at : {"idle", "asked", "found"}, row : Row]]
  /\ card \in [Tabs -> Row]
  /\ patch \in [Tabs -> [at : {"idle", "sent", "found"},
                         scopes : SUBSET Cats, row : Row]]
  /\ ending \in [Tabs -> {"idle", "sent", "found"}]
  /\ chosen \in SUBSET Cats
  /\ emptied \in BOOLEAN /\ cut \in BOOLEAN
  /\ conn.status = "none" => conn.scopes = {}
  /\ \A t \in Tabs : /\ card[t].status # "revoked"
                     /\ patch[t].at = "found" => patch[t].row.status = "active"

-----------------------------------------------------------------------------
(* What the partner may read *)

ActiveConnection == conn.status = "active"
RequireShareScope(cat) == cat \in conn.scopes

(* Documents, search and the deal itself are reached through the deal.       *)
ReadableByDeal(cat) == ~deleted /\ ActiveConnection /\ RequireShareScope(cat)

(* Transcripts and analyses are reached through a meeting of the deal: the   *)
(* deal's row is not looked at.                                              *)
ReadableByMeeting(cat) == ActiveConnection /\ RequireShareScope(cat)

(* Each category has one endpoint, which goes one of the two ways.           *)
PartnerMay(cat) ==
  IF cat \in MeetingCats THEN ReadableByMeeting(cat) ELSE ReadableByDeal(cat)

-----------------------------------------------------------------------------
(* The connect flow *)

Init ==
  /\ deleted = FALSE
  /\ conn = NoRow
  /\ call = [c \in Calls |-> NoCall]
  /\ card = [t \in Tabs |-> NoRow]
  /\ patch = [t \in Tabs |-> NoPatch]
  /\ ending = [t \in Tabs |-> "idle"]
  /\ chosen = Cats
  /\ emptied = FALSE
  /\ cut = FALSE

(* A tab that shows no connection offers to connect; the browser then leaves *)
(* for the consent screen.                                                   *)
ConnectVdr(c) ==
  /\ \E t \in Tabs : card[t].status = "none"
  /\ ~deleted
  /\ call[c].at = "idle"
  /\ call' = [call EXCEPT ![c].at = "asked"]
  /\ cut' = FALSE
  /\ UNCHANGED <<deleted, conn, card, patch, ending, chosen, emptied>>

(* Consent is refused, the exchange of the code fails or names no data room, *)
(* or the update fails: the flow ends and nothing is stored.                 *)
CallFails(c) ==
  /\ call[c].at # "idle"
  /\ call' = [call EXCEPT ![c] = NoCall]
  /\ UNCHANGED <<deleted, conn, card, patch, ending, chosen, emptied, cut>>

(* The callback: the deal must still be there, which a deleted deal's row    *)
(* is; the code is exchanged and the deal's connection is read.              *)
CallbackFinds(c) ==
  /\ call[c].at = "asked"
  /\ call' = [call EXCEPT ![c] = [at |-> "found", row |-> conn]]
  /\ UNCHANGED <<deleted, conn, card, patch, ending, chosen, emptied, cut>>

UpsertSharesAll(row) ==   \* mutant: reconnecting shares everything again
  IF row.status = "none"
  THEN IF conn.status = "none" THEN [status |-> "active", scopes |-> Cats]
       ELSE conn
  ELSE [status |-> IF row.status = "active" THEN conn.status ELSE "active",
        scopes |-> Cats]

(* No row was found: one is inserted, with every category, unless another    *)
(* callback was first (the deal is unique).  A row was found: it is made     *)
(* active, and shares everything when it shared nothing.                     *)
Upsert(row) ==
  IF row.status = "none"
  THEN IF conn.status = "none" THEN [status |-> "active", scopes |-> Cats]
       ELSE conn
  ELSE [status |-> IF row.status = "active" THEN conn.status ELSE "active",
        scopes |-> IF row.scopes = {} THEN Cats ELSE conn.scopes]

CallbackSaves(c) ==
  /\ call[c].at = "found"
  /\ conn' = Upsert(call[c].row)
  /\ call' = [call EXCEPT ![c] = NoCall]
  /\ UNCHANGED <<deleted, card, patch, ending, chosen, emptied, cut>>

-----------------------------------------------------------------------------
(* The share card *)

ShowCardAnyStatus(t) ==   \* mutant: a revoked connection is shown as well
  /\ ~deleted
  /\ card' = [card EXCEPT ![t] = conn]
  /\ UNCHANGED <<deleted, conn, call, patch, ending, chosen, emptied, cut>>

(* The card is fetched: when it appears, when its window is looked at again, *)
(* and some time after an update or a disconnection of its own succeeded.    *)
ShowCard(t) ==
  /\ ~deleted
  /\ card' = [card EXCEPT ![t] = IF ActiveConnection THEN conn ELSE NoRow]
  /\ UNCHANGED <<deleted, conn, call, patch, ending, chosen, emptied, cut>>

(* A switch sends the whole list, from the connection as the tab last saw    *)
(* it; the switches wait for the answer.                                     *)
ToggleScope(t, cat) ==
  /\ card[t].status = "active"
  /\ patch[t].at = "idle"
  /\ patch' = [patch EXCEPT ![t] =
       [NoPatch EXCEPT
          !.at = "sent",
          !.scopes = IF cat \in card[t].scopes THEN card[t].scopes \ {cat}
                     ELSE card[t].scopes \union {cat}]]
  /\ UNCHANGED <<deleted, conn, call, card, ending, chosen, emptied, cut>>

(* The update finds an active connection of a deal that is not deleted.      *)
UpdateFinds(t) ==
  /\ patch[t].at = "sent"
  /\ ~deleted /\ ActiveConnection
  /\ patch' = [patch EXCEPT ![t].at = "found", ![t].row = conn]
  /\ UNCHANGED <<deleted, conn, call, card, ending, chosen, emptied, cut>>

(* Nothing is found, the update fails, or its answer is lost.                *)
UpdateFails(t) ==
  /\ patch[t].at # "idle"
  /\ patch' = [patch EXCEPT ![t] = NoPatch]
  /\ UNCHANGED <<deleted, conn, call, card, ending, chosen, emptied, cut>>

WrittenWithRow(p) ==   \* mutant: the whole row is written as it was read
  {[status |-> p.row.status, scopes |-> p.scopes]}

(* The list is written when it differs from the one read.  The order of the  *)
(* categories may make the difference, so a list equal as a set is written   *)
(* or not.                                                                   *)
Written(p) ==
  {[conn EXCEPT !.scopes = p.scopes]} \union
    (IF p.scopes = p.row.scopes THEN {conn} ELSE {})

UpdateSaves(t) ==
  /\ patch[t].at = "found"
  /\ conn' \in Written(patch[t])
  /\ patch' = [patch EXCEPT ![t] = NoPatch]
  /\ chosen' = conn'.scopes
  /\ emptied' = (emptied \/ conn'.scopes = {})
  /\ UNCHANGED <<deleted, call, card, ending, cut>>

(* Disconnecting does not wait for the switches, nor they for it.            *)
Disconnect(t) ==
  /\ card[t].status = "active"
  /\ ending[t] = "idle"
  /\ ending' = [ending EXCEPT ![t] = "sent"]
  /\ UNCHANGED <<deleted, conn, call, card, patch, chosen, emptied, cut>>

NoCallUnderWay == \A c \in Calls : call[c].at = "idle"

DisconnectFinds(t) ==
  /\ ending[t] = "sent"
  /\ ~deleted /\ ActiveConnection
  /\ ending' = [ending EXCEPT ![t] = "found"]
  /\ UNCHANGED <<deleted, conn, call, card, patch, chosen, emptied, cut>>

(* There is no active connection: disconnected already.                      *)
DisconnectFindsNone(t) ==
  /\ ending[t] = "sent"
  /\ ~deleted /\ ~ActiveConnection
  /\ ending' = [ending EXCEPT ![t] = "idle"]
  /\ cut' = (cut \/ NoCallUnderWay)
  /\ UNCHANGED <<deleted, conn, call, card, patch, chosen, emptied>>

DisconnectFails(t) ==
  /\ ending[t] # "idle"
  /\ ending' = [ending EXCEPT ![t] = "idle"]
  /\ UNCHANGED <<deleted, conn, call, card, patch, chosen, emptied, cut>>

DisconnectSaves(t) ==
  /\ ending[t] = "found"
  /\ conn' = [conn EXCEPT !.status = "revoked"]
  /\ ending' = [ending EXCEPT ![t] = "idle"]
  /\ cut' = (cut \/ NoCallUnderWay)
  /\ UNCHANGED <<deleted, call, card, patch, chosen, emptied>>

(* The deal is marked deleted.  Its connection is left as it is.             *)
DeleteDeal ==
  /\ ~deleted
  /\ deleted' = TRUE
  /\ UNCHANGED <<conn, call, card, patch, ending, chosen, emptied, cut>>

-----------------------------------------------------------------------------

Next ==
  \/ \E c \in Calls : \/ ConnectVdr(c)
                      \/ CallFails(c)
                      \/ CallbackFinds(c)
                      \/ CallbackSaves(c)
  \/ \E t \in Tabs : \/ ShowCard(t)
                     \/ \E cat \in Cats : ToggleScope(t, cat)
                     \/ UpdateFinds(t)
                     \/ UpdateFails(t)
                     \/ UpdateSaves(t)
                     \/ Disconnect(t)
                     \/ DisconnectFinds(t)
                     \/ DisconnectFindsNone(t)
                     \/ DisconnectFails(t)
                     \/ DisconnectSaves(t)
  \/ DeleteDeal

Spec == Init /\ [][Next]_vars

-----------------------------------------------------------------------------
(* Properties *)

(* As long as nobody withheld every category, CogniVault may read exactly    *)
(* what the last committed update of the switches left shared, through       *)
(* whatever disconnections, reconnections and concurrent callbacks           *)
(* (_upsert_connection keeps the list of a row it finds).  An empty list is  *)
(* taken for a first connect: reconnecting then shares everything.  Once the *)
(* deal is deleted what goes by the deal is shut; what goes by a meeting is  *)
(* not, and is still what the switches left.                                 *)
ChoicesSurvive ==
  ~emptied /\ ActiveConnection =>
    {cat \in Cats : PartnerMay(cat)} =
      {cat \in chosen : deleted => cat \in MeetingCats}

(* When a disconnection has ended and no connect flow is under way or has    *)
(* begun since, CogniVault can read nothing, even if an update of the        *)
(* switches was in the middle of its handler (update_share_scopes writes the *)
(* list alone, disconnect_vdr the status).                                   *)
DisconnectCuts ==
  cut => \A cat \in Cats : ~PartnerMay(cat)

Room == INSTANCE DataRoom WITH
  Flows   <- Calls,
  Members <- Tabs,
  Lists   <- SUBSET Cats,
  door    <- conn.status,
  list    <- conn.scopes,
  flows   <- {c \in Calls : call[c].at # "idle"},
  asked   <- [t \in Tabs |-> IF patch[t].at = "idle" THEN {} ELSE {patch[t].scopes}],
  leaving <- {t \in Tabs : ending[t] # "idle"},
  dropped <- emptied,
  gone    <- deleted

(* Each request works as if at one moment, though its handler reads the row  *)
(* and writes it later, when others may have written it in between           *)
(* (_upsert_connection, update_share_scopes, disconnect_vdr): nobody reopens *)
(* what another has shut, and no list comes back that nobody asked for.      *)
ImplementsRoom == Room!RoomSpec
=============================================================================
