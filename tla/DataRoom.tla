------------------------------ MODULE DataRoom ------------------------------
(* What the members of a deal may rely on when they share it with the data   *)
(* room, as if each request did all its work at one moment.                  *)
(*                                                                           *)
(* The door opens to the partner only through a connect flow, and each flow  *)
(* opens it once; it is shut only by a member who asked for that.  The list  *)
(* of what is shared becomes only what a member asked for, or everything: at *)
(* the first connection, or where everything had been withheld.  VdrSharing  *)
(* implements this specification, although its handlers read the row in one  *)
(* step and write it in another.                                             *)
CONSTANTS
  Flows,    \* connect flows
  Members,  \* those who may use the switches
  Lists     \* the lists of categories; the union of all is everything

VARIABLES
  door,     \* "none" until the first connection, then "active" or "revoked"
  list,     \* what the open door shares
  flows,    \* connect flows under way
  asked,    \* per member, the list asked for, if there is one
  leaving,  \* the members who have asked to disconnect
  dropped,  \* everything has been withheld at some time
  gone      \* the deal is deleted

roomVars == <<door, list, flows, asked, leaving, dropped, gone>>

Everything == UNION Lists

RoomInit ==
  /\ door = "none" /\ list = {}
  /\ flows = {} /\ leaving = {}
  /\ asked = [m \in Members |-> {}]
  /\ dropped = FALSE /\ gone = FALSE

Leave(f) ==
  /\ ~gone
  /\ f \notin flows
  /\ flows' = flows \union {f}
  /\ UNCHANGED <<door, list, asked, leaving, dropped, gone>>

(* A flow ends without any effect: it failed, or another came first.         *)
GiveUp(f) ==
  /\ f \in flows
  /\ flows' = flows \ {f}
  /\ UNCHANGED <<door, list, asked, leaving, dropped, gone>>

(* A flow opens the door.  A list that there is already stays.               *)
Open(f) ==
  /\ f \in flows
  /\ flows' = flows \ {f}
  /\ door' = "active"
  /\ list' = IF door = "none" THEN Everything ELSE list
  /\ UNCHANGED <<asked, leaving, dropped, gone>>

(* An empty list was taken for none, once there was one.                     *)
ShareAll(f) ==
  /\ f \in flows
  /\ dropped /\ door # "none"
  /\ flows' = flows \ {f}
  /\ door' \in {door, "active"}
  /\ list' = Everything
  /\ UNCHANGED <<asked, leaving, dropped, gone>>

Ask(m, l) ==
  /\ door # "none"
  /\ asked[m] = {}
  /\ asked' = [asked EXCEPT ![m] = {l}]
  /\ UNCHANGED <<door, list, flows, leaving, dropped, gone>>

(* The list becomes what was asked for, or is left as it is; the door is     *)
(* left as it is.                                                            *)
Choose(m) ==
  /\ asked[m] # {}
  /\ door # "none"
  /\ list' \in {list} \union asked[m]
  /\ dropped' = (dropped \/ list' = {})
  /\ asked' = [asked EXCEPT ![m] = {}]
  /\ UNCHANGED <<door, flows, leaving, gone>>

TakeBack(m) ==
  /\ asked' = [asked EXCEPT ![m] = {}]
  /\ UNCHANGED <<door, list, flows, leaving, dropped, gone>>

WantOut(m) ==
  /\ door # "none"
  /\ leaving' = leaving \union {m}
  /\ UNCHANGED <<door, list, flows, asked, dropped, gone>>

Shut(m) ==
  /\ m \in leaving
  /\ door # "none"
  /\ door' = "revoked"
  /\ leaving' = leaving \ {m}
  /\ UNCHANGED <<list, flows, asked, dropped, gone>>

(* The disconnection fails, or the door is shut already.                     *)
Stay(m) ==
  /\ leaving' = leaving \ {m}
  /\ UNCHANGED <<door, list, flows, asked, dropped, gone>>

Delete ==
  /\ ~gone
  /\ gone' = TRUE
  /\ UNCHANGED <<door, list, flows, asked, leaving, dropped>>

RoomNext ==
  \/ \E f \in Flows : Leave(f) \/ GiveUp(f) \/ Open(f) \/ ShareAll(f)
  \/ \E m \in Members : \/ \E l \in Lists : Ask(m, l)
                        \/ Choose(m) \/ TakeBack(m)
                        \/ WantOut(m) \/ Shut(m) \/ Stay(m)
  \/ Delete

RoomSpec == RoomInit /\ [][RoomNext]_roomVars
=============================================================================
