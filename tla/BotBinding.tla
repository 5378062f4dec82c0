----------------------------- MODULE BotBinding -----------------------------
(***************************************************************************)
(* What the rest of the system may rely on about bot sessions, whatever    *)
(* happens to individual requests: a session is bound to at most one       *)
(* meeting, for good; a Recall bot is launched for a session that is       *)
(* already bound, carries that meeting, and keeps it; and a session adopts *)
(* (records as recall_bot_id) only bots that were launched for it.         *)
(* BotSession implements this specification.                               *)
(***************************************************************************)
EXTENDS Naturals

CONSTANTS Sessions, Meetings, Bots, NoSession, NoMeeting, NoBot

VARIABLES
    bound,      \* the meeting of each session
    launched,   \* the session and meeting of each Recall bot
    adopted     \* the bot each session names

bindingVars == <<bound, launched, adopted>>

NotLaunched == <<NoSession, NoMeeting>>

BindingInit ==
    /\ bound = [s \in Sessions |-> NoMeeting]
    /\ launched = [b \in Bots |-> NotLaunched]
    /\ adopted = [s \in Sessions |-> NoBot]

\* Sessions that have no meeting get one each.
Bind ==
    /\ \E S \in SUBSET Sessions :
         /\ \A s \in S : bound[s] = NoMeeting
         /\ \E g \in [S -> Meetings] :
              bound' = [s \in Sessions |-> IF s \in S THEN g[s] ELSE bound[s]]
    /\ UNCHANGED <<launched, adopted>>

\* Recall launches a fresh bot for a session, with the session's meeting.
Launch(b, s) ==
    /\ launched[b] = NotLaunched
    /\ bound[s] # NoMeeting
    /\ launched' = [launched EXCEPT ![b] = <<s, bound[s]>>]
    /\ UNCHANGED <<bound, adopted>>

\* The worker records a bot, possibly in place of an earlier one.
Adopt(s, b) ==
    /\ launched[b] = <<s, bound[s]>>
    /\ adopted' = [adopted EXCEPT ![s] = b]
    /\ UNCHANGED <<bound, launched>>

BindingNext ==
    \/ Bind
    \/ \E b \in Bots, s \in Sessions : Launch(b, s) \/ Adopt(s, b)

BindingSpec == BindingInit /\ [][BindingNext]_bindingVars
=============================================================================
