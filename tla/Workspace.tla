----------------------------- MODULE Workspace -----------------------------
(* One tab of the browser at work: the user moves between the screens of     *)
(* Screens, their queries fetch, grow stale, poll and fail, the user's       *)
(* changes are sent, confirmed or refused and invalidate what they touch,    *)
(* others change rows meanwhile, and sessions end and begin.                 *)
(*                                                                           *)
(* The cache keeps one entry per key and no action relates two entries, so a *)
(* behaviour follows one query, its focus: a screen counts by what it does   *)
(* to the focus.  What React Query does is modelled from its use here        *)
(* (query-client.ts and the hooks) and marked external.                      *)
(*                                                                           *)
(* Simplifications: rows are versions and a status; a query that depends on  *)
(* another one is asked as if that one had been answered; left out is a      *)
(* removed query that is still on the screen (switching organisations).      *)
EXTENDS Integers, Sequences, Screens

CONSTANTS
  Users,          \* who may sign in at this browser
  Slots,          \* bound: how many changes are under way at once
  MaxVersion,     \* bound: how often the rows of the focus change, plus one
  Statuses        \* bound: the statuses that a meeting goes through

ASSUME BoundsAssumption ==
  /\ Users # {} /\ Slots # {} /\ MaxVersion \in Nat \ {0} /\ Statuses # {}

VARIABLES
  focus,          \* the query of this behaviour
  face,           \* what the screen does to the focus
  who, alive,     \* who signed in here, and whether the worker still agrees
  server, status, \* the version of the rows and the status they show
  cache,          \* the entry of the focus
  fetch,          \* the fetch of the focus
  pending,        \* the user's changes under way, by slot
  mine            \* the version of the last own change the cache must show

vars == <<focus, face, who, alive, server, status, cache, fetch, pending, mine>>

-----------------------------------------------------------------------------
(* Screens and changes, as the focus sees them *)

(* The changes that touch the rows of a query and do not reach it: it shows  *)
(* them after it has grown stale.                                            *)
KnownLags ==
  {<<useUpdateDeal, useCalendarMeetings>>,
   <<useConfirmMeetingUpload, useCalendarMeetings>>,
   <<useToggleMeetingBot(NoDeal), useUpcomingUnassigned>>} \cup
  {<<c, useDealExtractions>> :
     c \in {useUpdateMeetingOf(D), AssignMeeting, useRunAnalysis}}

Prefix(p, k) == Len(p) <= Len(k) /\ \A i \in DOMAIN p : p[i] = k[i]

(* What a change does to a query: writes its rows, invalidates it, puts its  *)
(* result into it, shows it before it is sent, adds a finished analysis.     *)
Effect(c, q) ==
  [writes  |-> c.writes \cap q.of # {},
   reaches |-> \E p \in c.invalidates : Prefix(p, q.key),
   lags    |-> <<c, q>> \in KnownLags,
   puts    |-> c = useGenerateDeliverable /\ q = useDeliverables,
   guesses |-> c = useToggleActionItem /\ q = useActionItemCompletions,
   analyzes |-> c = useRunAnalysis /\ q = useAnalyses]
NoEffect   == Effect(useMeetingAskQuestion, useSession)
Touches(e) == e.writes \/ e.reaches

Face(s, q) == [shown |-> q \in s.uses, waits |-> q \in s.waits,
               needs |-> q \in s.needs, login |-> FALSE,
               expects |-> q = useAnalyses /\ s.expects,
               offers |-> {e \in {Effect(c, q) : c \in s.offers} : Touches(e)}]
FacesOf   == [q \in Queries |-> {Face(s, q) : s \in AllScreens}]
Faces     == FacesOf[focus]
LoginPage == [shown |-> FALSE, waits |-> FALSE, needs |-> FALSE, login |-> TRUE,
              expects |-> FALSE, offers |-> {}]

-----------------------------------------------------------------------------
(* The entry and its fetch *)

NoStatus == "none"      \* no rows, or rows without a status

Empty   == [ver |-> 0, status |-> NoStatus, whose |-> who, guess |-> FALSE,
            invalid |-> FALSE, old |-> FALSE]
NoFetch == [on |-> FALSE, ver |-> 0, status |-> NoStatus, tries |-> 0,
            crossed |-> FALSE]
Asked   == [NoFetch EXCEPT !.on = TRUE]
Idle    == [at |-> "idle", change |-> NoEffect, ver |-> 0,
            before |-> [ver |-> 0, guess |-> FALSE], again |-> FALSE]

Has     == cache.ver > 0 \/ cache.guess
Stale   == ~Has \/ cache.old \/ cache.invalid
Loading == ~Has /\ fetch.on
AtLogin == face.login

(* refetchInterval: an entry without data has no status either.              *)
Polling == \/ focus.follows
           \/ cache.status \in focus.active
           \/ face.expects /\ cache.status = NoStatus
Retries == IF focus = useSession THEN 0 ELSE 1

(* A new page: nothing is left of the tab's memory.                          *)
Fresh(f, u) ==
  /\ face' = f
  /\ cache' = [Empty EXCEPT !.whose = u]
  /\ fetch' = IF f.shown THEN Asked ELSE NoFetch
  /\ pending' = [k \in Slots |-> Idle]
  /\ mine' = 0

-----------------------------------------------------------------------------
(* Screens come and go *)

(* A component that appears asks when the entry is missing, stale or         *)
(* invalid, unless a fetch is under way.  What stays on the screen, as the   *)
(* surrounding layout does, does not appear again.                           *)
Navigate(f) ==
  /\ ~AtLogin
  /\ face' = f
  /\ \/ fetch' = IF f.shown /\ Stale /\ ~fetch.on THEN Asked ELSE fetch
     \/ face.shown /\ f.shown /\ UNCHANGED fetch
  /\ UNCHANGED <<focus, who, alive, server, status, cache, pending, mine>>

(* staleTime *)
GrowsOld ==
  /\ Has /\ ~cache.old /\ ~focus.lasts
  /\ cache' = [cache EXCEPT !.old = TRUE]
  /\ UNCHANGED <<focus, face, who, alive, server, status, fetch, pending, mine>>

(* gcTime *)
Forgotten ==
  /\ Has /\ ~face.shown /\ ~fetch.on /\ ~focus.lasts
  /\ cache' = Empty /\ mine' = 0
  /\ UNCHANGED <<focus, face, who, alive, server, status, fetch, pending>>

PollsWhenOld ==   \* mutant: only what has grown stale is asked for again
  /\ face.shown /\ Polling /\ cache.old /\ ~fetch.on
  /\ fetch' = Asked
  /\ UNCHANGED <<focus, face, who, alive, server, status, cache, pending, mine>>

Polls ==
  /\ face.shown /\ Polling /\ ~fetch.on
  /\ fetch' = Asked
  /\ UNCHANGED <<focus, face, who, alive, server, status, cache, pending, mine>>

-----------------------------------------------------------------------------
(* Fetches *)

(* A query that lasts is answered by the browser itself.                     *)
Answers ==
  /\ fetch.on /\ fetch.ver = 0 /\ (alive \/ focus.lasts)
  /\ fetch' = [fetch EXCEPT !.ver = IF focus.lasts THEN 1 ELSE server,
                            !.status = status]
  /\ UNCHANGED <<focus, face, who, alive, server, status, cache, pending, mine>>

(* The answer replaces the entry, and with it the invalid mark that a change *)
(* may have left while the fetch was under way.                              *)
Arrives ==
  /\ fetch.on /\ fetch.ver > 0
  /\ cache' = [Empty EXCEPT !.ver = fetch.ver, !.status = fetch.status]
  /\ fetch' = NoFetch
  /\ mine' = IF fetch.crossed THEN 0 ELSE mine
  /\ UNCHANGED <<focus, face, who, alive, server, status, pending>>

FailsAndRetries ==   \* mutant: every failure is tried again
  /\ fetch.on /\ ~focus.lasts
  /\ fetch' = [Asked EXCEPT !.crossed = fetch.crossed]
  /\ UNCHANGED <<focus, face, who, alive, server, status, cache, pending, mine>>

FailsOnceMore ==   \* mutant: off by one
  /\ fetch.on /\ ~focus.lasts
  /\ IF fetch.tries <= Retries
     THEN /\ fetch' = [Asked EXCEPT !.tries = fetch.tries + 1,
                                    !.crossed = fetch.crossed]
          /\ UNCHANGED cache
     ELSE fetch' = NoFetch /\ cache' = [cache EXCEPT !.invalid = TRUE]
  /\ UNCHANGED <<focus, face, who, alive, server, status, pending, mine>>

(* An error, no connection, or no answer within the time limit.              *)
Fails ==
  /\ fetch.on /\ ~focus.lasts
  /\ IF fetch.tries < Retries
     THEN /\ fetch' = [Asked EXCEPT !.tries = fetch.tries + 1,
                                    !.crossed = fetch.crossed]
          /\ UNCHANGED cache
     ELSE fetch' = NoFetch /\ cache' = [cache EXCEPT !.invalid = TRUE]
  /\ UNCHANGED <<focus, face, who, alive, server, status, pending, mine>>

(* The worker does not know the session any more: a new page, the login.     *)
Refused ==
  /\ ~alive /\ ~AtLogin
  /\ \/ fetch.on /\ fetch.ver = 0 /\ focus # useSession /\ ~focus.lasts
     \/ \E k \in Slots : pending[k].at = "sent"
  /\ Fresh(LoginPage, who)
  /\ UNCHANGED <<focus, who, alive, server, status>>

(* The session's own query learns the same and only leaves for the login,    *)
(* within the page: the entries stay.                                        *)
GuardLeaves ==
  /\ ~alive /\ ~AtLogin
  /\ face' = LoginPage
  /\ UNCHANGED <<focus, who, alive, server, status, cache, fetch, pending, mine>>

-----------------------------------------------------------------------------
(* Sessions and organisations *)

Expires ==
  /\ alive /\ alive' = FALSE
  /\ UNCHANGED <<focus, face, who, server, status, cache, fetch, pending, mine>>

(* Whether or not the worker hears of it, everything cached is dropped.      *)
SignOut ==
  /\ ~AtLogin
  /\ alive' \in {alive, FALSE}
  /\ face' = LoginPage /\ cache' = Empty /\ fetch' = NoFetch /\ mine' = 0
  /\ UNCHANGED <<focus, who, server, status, pending>>

SignInSoftly(u, f) ==   \* mutant: goes on without a new page
  /\ AtLogin
  /\ who' = u /\ alive' = TRUE /\ face' = f
  /\ fetch' = IF f.shown /\ Stale /\ ~fetch.on THEN Asked ELSE fetch
  /\ UNCHANGED <<focus, server, status, cache, pending, mine>>

SignIn(u, f) ==
  /\ AtLogin
  /\ who' = u /\ alive' = TRUE
  /\ Fresh(f, u)
  /\ UNCHANGED <<focus, server, status>>

SwitchOrg ==
  /\ ~AtLogin /\ ~face.shown /\ focus \notin {useOrgs, useSession}
  /\ cache' = Empty /\ fetch' = NoFetch /\ mine' = 0
  /\ UNCHANGED <<focus, face, who, alive, server, status, pending>>

-----------------------------------------------------------------------------
(* Changes *)

(* What others write: the pipeline its statuses, among them 'diarizing', and *)
(* the rows of finished analyses.  An analysis is run within one             *)
(* transaction, and nobody sees it 'running'.                                *)
Written == IF focus = useMeeting THEN Statuses
           ELSE IF focus = useAnalyses THEN {"completed"} ELSE {NoStatus}

OthersChange ==
  /\ server < MaxVersion /\ server' = server + 1
  /\ status' \in Written
  /\ UNCHANGED <<focus, face, who, alive, cache, fetch, pending, mine>>

(* A change is offered once the screen shows its content.  That a button is  *)
(* disabled while its change is under way is left out: it is enabled again   *)
(* when its component appears anew.  A tick is shown before it is sent: the  *)
(* fetch is given up, the entry is a guess.                                  *)
Submit(k, e) ==
  /\ e \in face.offers /\ pending[k].at = "idle"
  /\ ~(face.waits /\ Loading) /\ ~(face.needs /\ ~Has)
  /\ pending' = [pending EXCEPT ![k] =
       [Idle EXCEPT !.at = "sent", !.change = e,
                    !.before = IF e.guesses THEN [ver |-> cache.ver, guess |-> cache.guess]
                               ELSE @]]
  /\ IF e.guesses
     THEN /\ fetch' = NoFetch
          /\ cache' = [cache EXCEPT !.guess = TRUE, !.invalid = FALSE, !.old = FALSE]
     ELSE UNCHANGED <<cache, fetch>>
  /\ UNCHANGED <<focus, face, who, alive, server, status, mine>>

Commits(k) ==
  LET e == pending[k].change
  IN  /\ pending[k].at = "sent" /\ alive
      /\ server' = IF e.writes THEN server + 1 ELSE server
      /\ server' <= MaxVersion
      /\ pending' = [pending EXCEPT ![k].at = "done",
                                    ![k].ver = IF e.writes THEN server' ELSE 0]
      /\ status' = IF e.analyzes THEN "completed" ELSE status
      /\ UNCHANGED <<focus, face, who, alive, cache, fetch, mine>>

(* No answer came: the request is sent once more, although it may have       *)
(* committed.                                                                *)
SendAgain(k) ==
  /\ pending[k].at \in {"sent", "done"} /\ ~pending[k].again
  /\ pending' = [pending EXCEPT ![k].at = "sent", ![k].again = TRUE]
  /\ UNCHANGED <<focus, face, who, alive, server, status, cache, fetch, mine>>

(* invalidateQueries: the entry is marked, and asked for if it is shown.  A  *)
(* fetch that is under way goes on when nobody looks or when it is the first *)
(* one, and its answer will clear the mark.                                  *)
Invalidate(entry) ==
  /\ cache' = [entry EXCEPT !.invalid = TRUE]
  /\ fetch' = IF fetch.on /\ ~(face.shown /\ Has) THEN [fetch EXCEPT !.crossed = TRUE]
              ELSE IF face.shown THEN Asked ELSE fetch

(* onSuccess *)
Confirm(k) ==
  LET e == pending[k].change
  IN  /\ pending[k].at = "done"
      /\ pending' = [pending EXCEPT ![k] = Idle]
      /\ mine' = IF e.writes /\ ~e.lags /\ pending[k].ver > mine
                 THEN pending[k].ver ELSE mine
      /\ \/ e.reaches /\ Invalidate(cache)
         \/ /\ e.puts
            /\ cache' = [Empty EXCEPT !.ver = IF pending[k].ver > cache.ver
                                              THEN pending[k].ver ELSE cache.ver]
            /\ fetch' = [fetch EXCEPT !.crossed = fetch.on]
         \/ ~e.reaches /\ ~e.puts /\ UNCHANGED <<cache, fetch>>
      /\ UNCHANGED <<focus, face, who, alive, server, status>>

RejectKeepsGuess(k) ==   \* mutant: only a success asks again for the ticks
  /\ pending[k].at \in {"sent", "done"}
  /\ pending' = [pending EXCEPT ![k] = Idle]
  /\ UNCHANGED <<focus, face, who, alive, server, status, cache, fetch, mine>>

(* onError: a message is shown.  A tick is taken back to what was there when *)
(* it was made, and asked for again.                                         *)
Reject(k) ==
  LET e == pending[k].change
      b == pending[k].before
  IN  /\ pending[k].at \in {"sent", "done"}
      /\ pending' = [pending EXCEPT ![k] = Idle]
      /\ IF e.guesses
         THEN Invalidate(IF b.ver > 0 \/ b.guess
                         THEN [cache EXCEPT !.ver = b.ver, !.guess = b.guess, !.old = FALSE]
                         ELSE cache)
         ELSE UNCHANGED <<cache, fetch>>
      /\ UNCHANGED <<focus, face, who, alive, server, status, mine>>

-----------------------------------------------------------------------------
Init ==
  /\ focus \in Queries
  /\ face \in Faces
  /\ who \in Users /\ alive = TRUE
  /\ server = 1
  /\ status \in IF focus = useMeeting THEN Statuses ELSE {NoStatus}
  /\ cache = Empty
  /\ fetch = IF face.shown THEN Asked ELSE NoFetch
  /\ pending = [k \in Slots |-> Idle]
  /\ mine = 0

Next ==
  \/ \E f \in Faces : Navigate(f)
  \/ GrowsOld \/ Forgotten \/ Polls
  \/ Answers \/ Arrives \/ Fails \/ Refused \/ GuardLeaves
  \/ Expires \/ SignOut \/ SwitchOrg
  \/ \E u \in Users, f \in Faces : SignIn(u, f)
  \/ OthersChange
  \/ \E k \in Slots : \/ \E e \in face.offers : Submit(k, e)
                      \/ Commits(k) \/ SendAgain(k) \/ Confirm(k) \/ Reject(k)

(* A fetch ends: the request has a time limit.  Polls run on a timer.  A     *)
(* worker that is asked again and again answers at some time, and the answer *)
(* gets through.  Nothing is assumed of the user.                            *)
Fairness ==
  /\ WF_vars(Arrives \/ Fails \/ Refused)
  /\ WF_vars(Polls)
  /\ SF_vars(Answers) /\ SF_vars(Arrives) /\ SF_vars(Refused)

Spec == Init /\ [][Next]_vars /\ Fairness

-----------------------------------------------------------------------------
(* Properties *)

Versions == 0 .. MaxVersion
Effects  == [writes : BOOLEAN, reaches : BOOLEAN, lags : BOOLEAN,
             puts : BOOLEAN, guesses : BOOLEAN, analyzes : BOOLEAN]
FaceType == [shown : BOOLEAN, waits : BOOLEAN, needs : BOOLEAN, login : BOOLEAN,
             expects : BOOLEAN, offers : SUBSET Effects]
Shown    == Statuses \cup {"completed", NoStatus}
Entries  == [ver : Versions, status : Shown, whose : Users, guess : BOOLEAN,
             invalid : BOOLEAN, old : BOOLEAN]
Fetches  == [on : BOOLEAN, ver : Versions, status : Shown, tries : 0 .. Retries,
             crossed : BOOLEAN]
Requests == [at : {"idle", "sent", "done"}, change : Effects, ver : Versions,
             before : [ver : Versions, guess : BOOLEAN], again : BOOLEAN]

(* Every variable keeps to its type; in particular a fetch is tried as often *)
(* as the client allows, and nothing is guessed but ticks.                   *)
TypeOK ==
  /\ focus \in Queries /\ face \in Faces \cup {LoginPage}
  /\ who \in Users /\ alive \in BOOLEAN
  /\ server \in Versions \ {0} /\ status \in Shown
  /\ cache \in Entries /\ (cache.guess => focus = useActionItemCompletions)
  /\ fetch \in Fetches /\ (~fetch.on => fetch = NoFetch)
  /\ pending \in [Slots -> Requests]
  /\ mine \in Versions

(* What the user changed is on the screen once the change is confirmed and   *)
(* nothing is under way or marked to be asked for again: every onSuccess     *)
(* reaches every query of the rows it wrote, on any screen and in any order  *)
(* of answers, but for KnownLags and for the fetch that a change crossed.    *)
OwnChangeShown ==
  /\ Has /\ ~cache.guess /\ ~cache.invalid /\ ~fetch.on
  /\ (\A k \in Slots : pending[k].at = "idle")
  => cache.ver >= mine

(* A tick that was shown before it was sent is not left unchecked: when      *)
(* nothing is under way, the ticks shown are the worker's or are to be asked *)
(* for again, whichever of several ticks failed (useToggleActionItem).       *)
GuessIsChecked ==
  cache.guess /\ (\A k \in Slots : pending[k].at = "idle")
    => cache.invalid \/ fetch.on

(* Nobody sees what the former user of the tab fetched: every way to sign in *)
(* starts with an empty cache, also when the session ended by itself and the *)
(* entries stayed.                                                           *)
OwnSessionOnly == Has => cache.whose = who

(* No spinner of a query that loads turns for ever: the time limit and the   *)
(* bounded retries end the load, whatever the worker does.                   *)
SpinnerEnds == (face.waits /\ Loading) ~> ~(face.waits /\ Loading)

(* A screen that stays open follows the worker as long as it polls: it never *)
(* rests on out-of-date rows at a status that ACTIVE_PIPELINE_STATUSES or    *)
(* ANALYSIS_IN_FLIGHT lists, nor on no analysis while one is expected, and   *)
(* the bot sessions it shows are the last.  Nothing is said of a status that *)
(* is in no list: a page that has read 'diarizing' or 'uploaded' rests there *)
(* although the pipeline goes on.                                            *)
StaysOpen ==
  <>[](face.shown /\ face.expects) \/ <>[](face.shown /\ ~face.expects)
PolledFollows == StaysOpen => <>[](Polling => cache.ver = server)
=============================================================================
