---------------------------- MODULE MCBotSession ----------------------------
(***************************************************************************)
(* BotSession for TLC.  Sessions, bots, requests, ticks and the meetings   *)
(* of either kind are interchangeable, so runs that check safety only may  *)
(* use Symmetry.                                                           *)
(***************************************************************************)
EXTENDS BotSession, TLC

Symmetry == Permutations(Sessions) \cup Permutations(Bots)
              \cup Permutations(StartCalls) \cup Permutations(StopCalls)
              \cup Permutations(Ticks) \cup Permutations(CalendarMeetings)
              \cup Permutations(Meetings \ CalendarMeetings)
=============================================================================
