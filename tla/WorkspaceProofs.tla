-------------------------- MODULE WorkspaceProofs --------------------------
(* Theorems of Workspace, for any number of users, of changes under way at   *)
(* once and of versions.  What a screen may do to the focus is read from     *)
(* Screens; the lemmas of the first part say what of it the rest relies on.  *)
EXTENDS ScreensProofs

-----------------------------------------------------------------------------
(* Screens *)

(* An effect is a record of Booleans. *)
LEMMA EffectType == ASSUME NEW c, NEW q PROVE Effect(c, q) \in Effects
BY DEF Effect, Effects

(* A face is a record with a set of effects. *)
LEMMA FaceTyped == ASSUME NEW s, NEW q PROVE Face(s, q) \in FaceType
BY EffectType DEF Face, FaceType

LEMMA NoEffectType == NoEffect \in Effects /\ ~NoEffect.guesses
<1>1. useMeetingAskQuestion # useToggleActionItem
  BY DEF useMeetingAskQuestion, useToggleActionItem, Change
<1>. QED  BY <1>1, EffectType DEF NoEffect, Effect

LEMMA NoEffectPlain ==
  ~NoEffect.writes /\ ~NoEffect.reaches /\ ~NoEffect.puts /\ ~NoEffect.guesses
<1>1. useMeetingAskQuestion.writes = {} /\ useMeetingAskQuestion.invalidates = {}
  BY DEF useMeetingAskQuestion, Change
<1>2. useMeetingAskQuestion # useGenerateDeliverable
  BY DEF useMeetingAskQuestion, useGenerateDeliverable, Change
<1>. QED  BY <1>1, <1>2, NoEffectType DEF NoEffect, Effect

(* A tick is invalidated by itself, and is the only guess. *)
LEMMA TickReaches ==
  Effect(useToggleActionItem, useActionItemCompletions).reaches
<1>. DEFINE p == <<"action-item-completions", D>>
<1>1. p \in useToggleActionItem.invalidates
  BY DEF useToggleActionItem, Change
<1>2. useActionItemCompletions.key = p
  BY DEF useActionItemCompletions, Query
<1>3. Prefix(p, p)
  BY DEF Prefix
<1>. QED  BY <1>1, <1>2, <1>3 DEF Effect

Tick(e) == e.guesses => focus = useActionItemCompletions /\ e.reaches

LEMMA OffersTyped ==
  ASSUME focus \in Queries, NEW f \in Faces \cup {LoginPage}
  PROVE  f \in FaceType /\ \A e \in f.offers : e \in Effects /\ Tick(e)
<1>1. CASE f = LoginPage
  BY <1>1 DEF LoginPage, FaceType
<1>2. CASE f \in Faces
  <2>1. PICK s \in AllScreens : f = Face(s, focus)
    BY <1>2 DEF Faces, FacesOf
  <2>2. f \in FaceType
    BY <2>1, FaceTyped
  <2>3. ASSUME NEW e \in f.offers PROVE e \in Effects /\ Tick(e)
    <3>1. PICK c : e = Effect(c, focus)
      BY <2>1, <2>3 DEF Face
    <3>2. e.guesses => c = useToggleActionItem /\ focus = useActionItemCompletions
      BY <3>1 DEF Effect
    <3>. QED  BY <3>1, <3>2, EffectType, TickReaches DEF Tick
  <2>. QED  BY <2>2, <2>3
<1>. QED  BY <1>1, <1>2

-----------------------------------------------------------------------------
(* Types *)

TicksOnly == \A k \in Slots : Tick(pending[k].change)
TInv      == TypeOK /\ TicksOnly

LEMMA VersionsFacts == /\ Versions \subseteq Int /\ 0 \in Versions /\ 1 \in Versions
                       /\ \A v \in Versions : v >= 0 /\ v <= MaxVersion
                       /\ NoStatus \in Shown
BY BoundsAssumption DEF Versions, Shown

LEMMA SmallTypes ==
  ASSUME who \in Users, Retries \in Nat
  PROVE  /\ Empty \in Entries /\ ~Empty.guess /\ Empty.ver = 0 /\ Empty.whose = who
         /\ ~Empty.invalid /\ ~Empty.old
         /\ NoFetch \in Fetches /\ ~NoFetch.on /\ NoFetch.ver = 0
         /\ Asked \in Fetches /\ Asked.on /\ Asked.ver = 0 /\ ~Asked.crossed
         /\ Idle \in Requests /\ Idle.at = "idle" /\ ~Idle.change.guesses
<1>1. /\ Empty \in Entries /\ ~Empty.guess /\ Empty.ver = 0 /\ Empty.whose = who
      /\ ~Empty.invalid /\ ~Empty.old
  BY VersionsFacts DEF Empty, Entries
<1>2. NoFetch \in Fetches /\ ~NoFetch.on /\ NoFetch.ver = 0 /\ ~NoFetch.crossed
  BY VersionsFacts DEF NoFetch, Fetches
<1>3. Asked \in Fetches /\ Asked.on /\ Asked.ver = 0 /\ ~Asked.crossed
  BY <1>2 DEF Asked, Fetches
<1>4. Idle \in Requests /\ Idle.at = "idle" /\ ~Idle.change.guesses
  BY VersionsFacts, NoEffectType DEF Idle, Requests
<1>. QED  BY <1>1, <1>2, <1>3, <1>4

LEMMA RetriesNat == Retries \in Nat /\ (focus' = focus => Retries' = Retries)
BY DEF Retries

LEMMA InitTyped == Init => TInv
<1> SUFFICES ASSUME Init PROVE TInv
  OBVIOUS
<1>1. /\ Empty \in Entries /\ ~Empty.guess /\ NoFetch \in Fetches
      /\ Asked \in Fetches /\ Asked.on
      /\ Idle \in Requests /\ ~Idle.change.guesses
  BY SmallTypes, RetriesNat DEF Init
<1>2. fetch \in Fetches /\ (~fetch.on => fetch = NoFetch)
  BY <1>1 DEF Init
<1>3. pending \in [Slots -> Requests] /\ TicksOnly
  BY <1>1 DEF Init, TicksOnly, Tick
<1>4. server \in Versions \ {0} /\ mine \in Versions /\ status \in Shown
  BY VersionsFacts DEF Init, Shown
<1>. QED  BY <1>1, <1>2, <1>3, <1>4 DEF Init, TInv, TypeOK

LEMMA InvalidateTyped ==
  ASSUME NEW entry \in Entries, Invalidate(entry), Asked \in Fetches, Asked.on,
         fetch \in Fetches, ~fetch.on => fetch = NoFetch
  PROVE  /\ cache' \in Entries /\ cache'.guess = entry.guess
         /\ fetch' \in Fetches /\ (~fetch'.on => fetch' = NoFetch)
BY DEF Invalidate, Entries, Fetches

(* Every step keeps the types: one step of the proof per action. *)
LEMMA NextTyped == ASSUME TInv, Next PROVE TInv'
<1>. USE DEF TInv, TypeOK
<1>1. focus' = focus
  BY DEF Next, Navigate, GrowsOld, Forgotten, Polls, Answers, Arrives, Fails, Refused,
         GuardLeaves, Expires, SignOut, SwitchOrg, SignIn, OthersChange, Submit, Commits,
         SendAgain, Confirm, Reject
<1>2. Retries \in Nat /\ Retries' = Retries /\ Fetches' = Fetches /\ Faces' = Faces
  BY <1>1, RetriesNat DEF Fetches, Faces
<1>3. /\ Empty \in Entries /\ ~Empty.guess
      /\ NoFetch \in Fetches /\ Asked \in Fetches /\ Asked.on
      /\ Idle \in Requests /\ ~Idle.change.guesses
  BY <1>2, SmallTypes
<1>4. ASSUME TicksOnly, UNCHANGED <<focus, pending>> PROVE TicksOnly'
  BY <1>4 DEF TicksOnly, Tick
<1>5. ASSUME NEW f \in Faces \cup {LoginPage}, NEW u \in Users, Fresh(f, u)
      PROVE  /\ cache' \in Entries /\ ~cache'.guess
             /\ fetch' \in Fetches /\ (~fetch'.on => fetch' = NoFetch)
             /\ pending' \in [Slots -> Requests] /\ mine' \in Versions /\ TicksOnly'
             /\ face' = f
  <2>1. cache' \in Entries /\ ~cache'.guess
    BY <1>3, <1>5 DEF Fresh, Entries
  <2>2. fetch' \in Fetches /\ (~fetch'.on => fetch' = NoFetch)
    BY <1>3, <1>5 DEF Fresh
  <2>3. pending' \in [Slots -> Requests] /\ TicksOnly'
    BY <1>3, <1>5 DEF Fresh, TicksOnly, Tick
  <2>. QED  BY <2>1, <2>2, <2>3, <1>5, VersionsFacts DEF Fresh
<1>6. ASSUME NEW f \in Faces, Navigate(f) PROVE TInv'
  BY <1>1, <1>2, <1>3, <1>4, <1>6 DEF Navigate
<1>7. CASE GrowsOld
  BY <1>1, <1>2, <1>4, <1>7 DEF GrowsOld, Entries
<1>8. CASE Forgotten
  BY <1>1, <1>2, <1>3, <1>4, <1>8, VersionsFacts DEF Forgotten
<1>9. CASE Polls
  BY <1>1, <1>2, <1>3, <1>4, <1>9 DEF Polls
<1>10. CASE Answers
  BY <1>1, <1>2, <1>4, <1>10, VersionsFacts DEF Answers, Fetches
<1>11. CASE Arrives
  <2>1. cache' \in Entries /\ ~cache'.guess
    BY <1>3, <1>11 DEF Arrives, Entries, Fetches
  <2>. QED  BY <1>1, <1>2, <1>3, <1>4, <1>11, <2>1, VersionsFacts DEF Arrives
<1>12. CASE Fails
  <2>1. CASE fetch.tries < Retries
    <3>. DEFINE n == fetch.tries + 1
    <3>a. fetch.tries \in 0 .. Retries /\ fetch.crossed \in BOOLEAN
      BY DEF Fetches
    <3>b. n \in 0 .. Retries
      BY <1>2, <2>1, <3>a
    <3>c. fetch' = [Asked EXCEPT !.tries = n, !.crossed = fetch.crossed]
      BY <1>12, <2>1 DEF Fails
    <3>1. fetch' \in Fetches /\ fetch'.on
      <4>. HIDE DEF n
      <4>. QED  BY <1>2, <1>3, <3>a, <3>b, <3>c DEF Fetches
    <3>. QED  BY <1>1, <1>2, <1>4, <1>12, <2>1, <3>1 DEF Fails
  <2>2. CASE ~(fetch.tries < Retries)
    <3>1. cache' \in Entries /\ cache'.guess = cache.guess
      BY <1>12, <2>2 DEF Fails, Entries
    <3>. QED  BY <1>1, <1>2, <1>3, <1>4, <1>12, <2>2, <3>1 DEF Fails
  <2>. QED  BY <2>1, <2>2
<1>13. CASE Refused
  BY <1>1, <1>2, <1>5, <1>13 DEF Refused
<1>14. CASE GuardLeaves
  BY <1>1, <1>2, <1>4, <1>14 DEF GuardLeaves
<1>15. CASE Expires
  BY <1>1, <1>2, <1>4, <1>15 DEF Expires
<1>16. CASE SignOut
  BY <1>1, <1>2, <1>3, <1>4, <1>16, VersionsFacts DEF SignOut
<1>17. CASE SwitchOrg
  BY <1>1, <1>2, <1>3, <1>4, <1>17, VersionsFacts DEF SwitchOrg
<1>18. ASSUME NEW u \in Users, NEW f \in Faces, SignIn(u, f) PROVE TInv'
  BY <1>1, <1>2, <1>5, <1>18 DEF SignIn
<1>19. CASE OthersChange
  <2>1. status' \in Shown
    BY <1>19 DEF OthersChange, Written, Shown
  <2>2. server' \in Versions \ {0}
    BY <1>19, BoundsAssumption DEF OthersChange, Versions
  <2>. QED  BY <1>1, <1>2, <1>4, <1>19, <2>1, <2>2 DEF OthersChange
<1>20. ASSUME NEW k \in Slots, NEW e \in face.offers, Submit(k, e) PROVE TInv'
  <2>. DEFINE r == pending'[k]
  <2>1. e \in Effects /\ Tick(e)
    BY OffersTyped
  <2>2. r \in Requests /\ r.change = e
    BY <1>3, <1>20, <2>1 DEF Submit, Requests, Entries
  <2>3. pending' \in [Slots -> Requests] /\ TicksOnly'
    BY <1>1, <1>20, <2>1, <2>2 DEF Submit, TicksOnly, Tick
  <2>4. cache' \in Entries /\ (cache'.guess => focus = useActionItemCompletions)
    BY <1>20, <2>1 DEF Submit, Entries, Tick
  <2>5. fetch' \in Fetches /\ (~fetch'.on => fetch' = NoFetch)
    BY <1>3, <1>20 DEF Submit
  <2>. QED  BY <1>1, <1>2, <1>20, <2>3, <2>4, <2>5 DEF Submit
<1>21. ASSUME NEW k \in Slots, Commits(k) PROVE TInv'
  <2>1. pending[k] \in Requests
    OBVIOUS
  <2>2. server' \in Versions \ {0} /\ status' \in Shown
    BY <1>21, BoundsAssumption DEF Commits, Versions, Shown
  <2>3. pending' \in [Slots -> Requests] /\ TicksOnly'
    BY <1>1, <1>21, <2>1, <2>2, VersionsFacts DEF Commits, Requests, TicksOnly, Tick
  <2>. QED  BY <1>1, <1>2, <1>21, <2>2, <2>3 DEF Commits
<1>22. ASSUME NEW k \in Slots, SendAgain(k) PROVE TInv'
  <2>1. pending' \in [Slots -> Requests] /\ TicksOnly'
    BY <1>1, <1>22 DEF SendAgain, Requests, TicksOnly, Tick
  <2>. QED  BY <1>1, <1>2, <1>22, <2>1 DEF SendAgain
<1>23. ASSUME NEW k \in Slots, Confirm(k) PROVE TInv'
  <2>1. pending[k] \in Requests /\ pending[k].ver \in Versions
    BY DEF Requests
  <2>2. mine' \in Versions
    BY <1>23, <2>1 DEF Confirm
  <2>3. pending' \in [Slots -> Requests] /\ TicksOnly'
    BY <1>1, <1>3, <1>23 DEF Confirm, TicksOnly, Tick
  <2>4. /\ cache' \in Entries /\ (cache'.guess => cache.guess)
        /\ fetch' \in Fetches /\ (~fetch'.on => fetch' = NoFetch)
    <3>1. CASE Invalidate(cache)
      BY <3>1, <1>2, <1>3, InvalidateTyped
    <3>2. CASE /\ \E v \in Versions : cache' = [Empty EXCEPT !.ver = v]
               /\ fetch' = [fetch EXCEPT !.crossed = fetch.on]
      BY <3>2, <1>2, <1>3, <2>1 DEF Entries, Fetches, NoFetch
    <3>3. CASE UNCHANGED <<cache, fetch>>
      BY <3>3, <1>2
    <3>4. cache.ver \in Versions
      BY DEF Entries
    <3>. QED  BY <2>1, <3>1, <3>2, <3>3, <3>4, <1>23 DEF Confirm
  <2>. QED  BY <1>1, <1>2, <1>23, <2>2, <2>3, <2>4 DEF Confirm
<1>24. ASSUME NEW k \in Slots, Reject(k) PROVE TInv'
  <2>. DEFINE b == pending[k].before
              x == IF b.ver > 0 \/ b.guess
                   THEN [cache EXCEPT !.ver = b.ver, !.guess = b.guess, !.old = FALSE]
                   ELSE cache
  <2>1. pending[k] \in Requests /\ Tick(pending[k].change)
    BY DEF TicksOnly
  <2>2. b \in [ver : Versions, guess : BOOLEAN]
    BY <2>1 DEF Requests
  <2>3. pending' \in [Slots -> Requests] /\ TicksOnly'
    BY <1>1, <1>3, <1>24 DEF Reject, TicksOnly, Tick
  <2>4. /\ cache' \in Entries /\ (cache'.guess => focus = useActionItemCompletions)
        /\ fetch' \in Fetches /\ (~fetch'.on => fetch' = NoFetch)
    <3>1. CASE pending[k].change.guesses
      <4>1. x \in Entries
        BY <2>2 DEF Entries
      <4>2. Invalidate(x)
        BY <1>24, <3>1 DEF Reject
      <4>. QED  BY <1>2, <1>3, <2>1, <3>1, <4>1, <4>2, InvalidateTyped DEF Tick
    <3>2. CASE ~pending[k].change.guesses
      BY <1>2, <1>24, <3>2 DEF Reject
    <3>. QED  BY <3>1, <3>2
  <2>. QED  BY <1>1, <1>2, <1>24, <2>3, <2>4 DEF Reject
<1>. QED
  BY <1>6, <1>7, <1>8, <1>9, <1>10, <1>11, <1>12, <1>13, <1>14, <1>15, <1>16, <1>17,
     <1>18, <1>19, <1>20, <1>21, <1>22, <1>23, <1>24 DEF Next

LEMMA StutterTyped == TInv /\ UNCHANGED vars => TInv'
BY DEF TInv, TypeOK, TicksOnly, Tick, vars, Faces, Fetches, Retries

(* Every variable keeps to its type, a fetch is tried as often as the client *)
(* allows and only ticks are guessed (query-client.ts, useToggleActionItem). *)
THEOREM TypeCorrect == Spec => []TypeOK
<1>1. TInv /\ [Next]_vars => TInv'
  BY NextTyped, StutterTyped
<1>2. TInv => TypeOK
  BY DEF TInv
<1>. QED  BY InitTyped, <1>1, <1>2, PTL DEF Spec

-----------------------------------------------------------------------------
(* Whose entry it is *)

(* An entry is the present user's, an empty one too. *)
OwnEntry == cache.whose = who

LEMMA NextOwn == ASSUME TInv, OwnEntry, Next PROVE OwnEntry'
<1>. USE DEF TInv, TypeOK, OwnEntry
<1>1. Empty \in Entries /\ Empty.whose = who
  BY RetriesNat, SmallTypes
<1>2. ASSUME NEW entry \in Entries, entry.whose = who, Invalidate(entry)
      PROVE  cache'.whose = who
  BY <1>2 DEF Invalidate, Entries
<1>3. ASSUME NEW f \in Faces \cup {LoginPage}, NEW u \in Users, Fresh(f, u)
      PROVE  cache'.whose = u
  BY <1>1, <1>3 DEF Fresh, Entries
<1>4. ASSUME UNCHANGED <<who, cache>> PROVE OwnEntry'
  BY <1>4
<1>5. CASE \/ \E f \in Faces : Navigate(f)
           \/ Polls \/ Answers \/ GuardLeaves \/ Expires \/ OthersChange
           \/ \E k \in Slots : Commits(k) \/ SendAgain(k)
  BY <1>4, <1>5
     DEF Navigate, Polls, Answers, GuardLeaves, Expires, OthersChange, Commits, SendAgain
<1>6. CASE GrowsOld
  BY <1>6 DEF GrowsOld, Entries
<1>7. CASE Forgotten \/ SignOut \/ SwitchOrg
  BY <1>1, <1>7 DEF Forgotten, SignOut, SwitchOrg
<1>8. CASE Arrives
  BY <1>1, <1>8 DEF Arrives, Entries
<1>9. CASE Fails
  BY <1>9 DEF Fails, Entries
<1>10. CASE Refused
  BY <1>3, <1>10 DEF Refused
<1>11. ASSUME NEW u \in Users, NEW f \in Faces, SignIn(u, f) PROVE OwnEntry'
  BY <1>3, <1>11 DEF SignIn
<1>12. ASSUME NEW k \in Slots, NEW e \in face.offers, Submit(k, e) PROVE OwnEntry'
  BY <1>12 DEF Submit, Entries
<1>13. ASSUME NEW k \in Slots, Confirm(k) PROVE OwnEntry'
  <2>1. CASE Invalidate(cache)
    BY <1>2, <1>13, <2>1 DEF Confirm
  <2>2. CASE \E v : cache' = [Empty EXCEPT !.ver = v]
    BY <1>1, <1>13, <2>2 DEF Confirm, Entries
  <2>. QED  BY <1>13, <2>1, <2>2 DEF Confirm
<1>14. ASSUME NEW k \in Slots, Reject(k) PROVE OwnEntry'
  <2>. DEFINE b == pending[k].before
              x == IF b.ver > 0 \/ b.guess
                   THEN [cache EXCEPT !.ver = b.ver, !.guess = b.guess, !.old = FALSE]
                   ELSE cache
  <2>1. x \in Entries /\ x.whose = who
    BY DEF Requests, Entries
  <2>2. Invalidate(x) \/ UNCHANGED cache
    BY <1>14 DEF Reject
  <2>. QED  BY <1>2, <1>14, <2>1, <2>2 DEF Reject
<1>. QED
  BY <1>5, <1>6, <1>7, <1>8, <1>9, <1>10, <1>11, <1>12, <1>13, <1>14 DEF Next

(* Nobody sees what the former user of the tab fetched: a sign-in starts a   *)
(* page of its own (login/page.tsx) and a sign-out clears (use-session.ts).  *)
THEOREM NoForeignEntry == Spec => []OwnSessionOnly
<1>1. Init => OwnEntry
  BY RetriesNat, SmallTypes DEF Init, OwnEntry
<1>2. TInv /\ OwnEntry /\ [Next]_vars => OwnEntry'
  BY NextOwn DEF OwnEntry, vars
<1>3. TInv /\ [Next]_vars => TInv'
  BY NextTyped, StutterTyped
<1>4. OwnEntry => OwnSessionOnly
  BY DEF OwnEntry, OwnSessionOnly
<1>. QED  BY InitTyped, <1>1, <1>2, <1>3, <1>4, PTL DEF Spec

-----------------------------------------------------------------------------
(* Ticks *)

(* Once no tick is under way, a guess is marked or being asked for: whatever *)
(* other change is, which GuessIsChecked waits for too.                      *)
NoTickUnderWay == \A k \in Slots : pending[k].at = "idle" \/ ~pending[k].change.guesses
GInv == cache.guess /\ NoTickUnderWay => cache.invalid \/ fetch.on

LEMMA NextChecked == ASSUME TInv, GInv, Next PROVE GInv'
<1>. USE DEF TInv, TypeOK, GInv
<1>1. /\ Empty \in Entries /\ ~Empty.guess /\ Asked.on
      /\ Idle \in Requests /\ Idle.at = "idle"
  BY RetriesNat, SmallTypes
<1>2. ASSUME NEW entry \in Entries, Invalidate(entry) PROVE cache'.invalid
  BY <1>2 DEF Invalidate, Entries
<1>3. ASSUME NEW f \in Faces \cup {LoginPage}, NEW u \in Users, Fresh(f, u)
      PROVE  ~cache'.guess
  BY <1>1, <1>3 DEF Fresh, Entries
<1>4. ASSUME UNCHANGED <<cache, pending>>, fetch.on => fetch'.on PROVE GInv'
  BY <1>4 DEF NoTickUnderWay
<1>5. CASE \E f \in Faces : Navigate(f)
  BY <1>1, <1>4, <1>5 DEF Navigate
<1>6. CASE Polls \/ GuardLeaves \/ Expires \/ OthersChange
  BY <1>1, <1>4, <1>6 DEF Polls, GuardLeaves, Expires, OthersChange
<1>7. CASE Answers
  BY <1>4, <1>7 DEF Answers, Fetches
<1>8. CASE GrowsOld
  BY <1>8 DEF GrowsOld, Entries, NoTickUnderWay
<1>9. CASE Forgotten \/ SignOut \/ SwitchOrg
  BY <1>1, <1>9 DEF Forgotten, SignOut, SwitchOrg
<1>10. CASE Arrives
  BY <1>1, <1>10 DEF Arrives, Entries
<1>11. CASE Fails
  <2>1. CASE fetch.tries < Retries
    <3>1. Asked \in Fetches
      BY RetriesNat, SmallTypes
    <3>2. fetch'.on
      BY <1>1, <1>11, <2>1, <3>1 DEF Fails, Fetches
    <3>. QED  BY <1>4, <1>11, <2>1, <3>2 DEF Fails
  <2>2. CASE ~(fetch.tries < Retries)
    BY <1>11, <2>2 DEF Fails, Entries
  <2>. QED  BY <2>1, <2>2
<1>12. CASE Refused
  BY <1>3, <1>12 DEF Refused
<1>13. ASSUME NEW u \in Users, NEW f \in Faces, SignIn(u, f) PROVE GInv'
  BY <1>3, <1>13 DEF SignIn
<1>14. ASSUME NEW k \in Slots, NEW e \in face.offers, Submit(k, e) PROVE GInv'
  <2>1. e \in Effects /\ pending'[k].change = e /\ pending'[k].at = "sent"
    BY <1>1, <1>14, OffersTyped DEF Submit, Requests
  <2>2. CASE e.guesses
    BY <2>1, <2>2 DEF NoTickUnderWay
  <2>3. CASE ~e.guesses
    BY <1>14, <2>3 DEF Submit, NoTickUnderWay
  <2>. QED  BY <2>2, <2>3
<1>15. ASSUME NEW k \in Slots, Commits(k) \/ SendAgain(k) PROVE GInv'
  <2>1. NoTickUnderWay' => NoTickUnderWay
    BY <1>15 DEF Commits, SendAgain, Requests, NoTickUnderWay
  <2>. QED  BY <1>15, <2>1 DEF Commits, SendAgain
<1>16. ASSUME NEW k \in Slots, Confirm(k) PROVE GInv'
  <2>1. Tick(pending[k].change)
    BY DEF TicksOnly
  <2>2. CASE Invalidate(cache)
    BY <1>2, <2>2
  <2>3. CASE \E v : cache' = [Empty EXCEPT !.ver = v]
    BY <1>1, <2>3 DEF Entries
  <2>4. CASE ~pending[k].change.reaches /\ UNCHANGED <<cache, fetch>>
    <3>1. NoTickUnderWay' => NoTickUnderWay
      BY <1>16, <2>1, <2>4 DEF Confirm, NoTickUnderWay, Tick
    <3>. QED  BY <2>4, <3>1
  <2>. QED  BY <1>16, <2>2, <2>3, <2>4 DEF Confirm
<1>17. ASSUME NEW k \in Slots, Reject(k) PROVE GInv'
  <2>. DEFINE b == pending[k].before
              x == IF b.ver > 0 \/ b.guess
                   THEN [cache EXCEPT !.ver = b.ver, !.guess = b.guess, !.old = FALSE]
                   ELSE cache
  <2>1. x \in Entries
    BY DEF Requests, Entries
  <2>2. CASE pending[k].change.guesses
    BY <1>2, <1>17, <2>1, <2>2 DEF Reject
  <2>3. CASE ~pending[k].change.guesses
    <3>1. NoTickUnderWay' => NoTickUnderWay
      BY <1>17, <2>3 DEF Reject, NoTickUnderWay
    <3>. QED  BY <1>17, <2>3, <3>1 DEF Reject
  <2>. QED  BY <2>2, <2>3
<1>. QED
  BY <1>5, <1>6, <1>7, <1>8, <1>9, <1>10, <1>11, <1>12, <1>13, <1>14, <1>15, <1>16, <1>17
     DEF Next

(* A tick that was shown before it was sent is checked, however many ticks   *)
(* were under way and in whatever order they ended (useToggleActionItem).    *)
THEOREM TicksAreChecked == Spec => []GuessIsChecked
<1>1. Init => GInv
  BY RetriesNat, SmallTypes DEF Init, GInv
<1>2. TInv /\ GInv /\ [Next]_vars => GInv'
  BY NextChecked DEF GInv, NoTickUnderWay, vars
<1>3. TInv /\ [Next]_vars => TInv'
  BY NextTyped, StutterTyped
<1>4. GInv => GuessIsChecked
  BY DEF GInv, NoTickUnderWay, GuessIsChecked
<1>. QED  BY InitTyped, <1>1, <1>2, <1>3, <1>4, PTL DEF Spec

-----------------------------------------------------------------------------
(* The user's own changes *)

(* What the argument needs of a change: ScreensProofs shows it of all.       *)
Fit(e) == /\ Covered(e, focus)
          /\ focus.lasts => ~e.reaches /\ ~e.guesses
          /\ e.puts => focus.lasts

LEMMA OffersFit ==
  ASSUME focus \in Queries, NEW f \in Faces \cup {LoginPage}, NEW e \in f.offers
  PROVE  Fit(e)
<1>1. f \in Faces
  BY DEF LoginPage
<1>2. PICK s \in AllScreens : f = Face(s, focus)
  BY <1>1 DEF Faces, FacesOf
<1>3. PICK c \in s.offers : e = Effect(c, focus)
  BY <1>2 DEF Face
<1>4. c \in Changes
  BY <1>2, <1>3, ScreensOffer
<1>5. Covered(e, focus)
  BY <1>3, <1>4, EveryChangeCovered
<1>6. e.reaches <=> Reach(c, focus)
  BY <1>3 DEF Effect, Reach
<1>7. focus.lasts => ~e.reaches
  BY <1>4, <1>6, LastsIsApart
<1>8. focus.lasts => ~e.guesses
  BY <1>3, LastsIsApart DEF Effect
<1>9. useDeliverables.lasts
  BY DEF useDeliverables
<1>10. e.puts => focus.lasts
  BY <1>3, <1>9 DEF Effect
<1>. QED  BY <1>5, <1>7, <1>8, <1>10 DEF Fit

(* What is shown and not to be asked for again has the own changes; so will  *)
(* an answer that no change has crossed.                                     *)
NotAhead   == mine <= server /\ \A k \in Slots : pending[k].ver <= server
FitChanges == \A k \in Slots : Fit(pending[k].change)
ShownOrMarked  == Has /\ ~cache.guess /\ ~cache.invalid => cache.ver >= mine
AnsweredInTime == fetch.on /\ fetch.ver > 0 /\ ~fetch.crossed => fetch.ver >= mine

(* The query that lasts is never marked: it has the own changes at once.     *)
LastsIsWhole ==
  focus.lasts => /\ ~cache.old /\ ~cache.invalid
                 /\ mine > 0 => Has
                 /\ fetch.on => mine = 0 \/ fetch.crossed

OInv == NotAhead /\ FitChanges /\ ShownOrMarked /\ AnsweredInTime /\ LastsIsWhole

LEMMA NumberTypes ==
  ASSUME TInv
  PROVE  /\ mine \in Nat /\ server \in Nat /\ server >= 1
         /\ cache.ver \in Nat /\ fetch.ver \in Nat
         /\ {cache.guess, cache.invalid, cache.old, fetch.on, fetch.crossed} \subseteq BOOLEAN
         /\ \A k \in Slots : pending[k] \in Requests /\ pending[k].ver \in Nat
BY BoundsAssumption DEF TInv, TypeOK, Versions, Entries, Fetches, Requests

LEMMA InitShown == Init => OInv
<1>. SUFFICES ASSUME Init PROVE OInv
  OBVIOUS
<1>1. ~NoEffect.writes /\ ~NoEffect.reaches /\ ~NoEffect.puts /\ ~NoEffect.guesses
  BY NoEffectPlain
<1>2. Fit(NoEffect)
  BY <1>1 DEF Fit, Covered
<1>3. FitChanges /\ NotAhead
  BY <1>2 DEF Init, FitChanges, NotAhead, Idle
<1>4. /\ Empty.ver = 0 /\ ~Empty.guess /\ ~Empty.invalid /\ ~Empty.old
      /\ Asked.ver = 0 /\ ~NoFetch.on
  BY RetriesNat, SmallTypes DEF Init
<1>. QED
  BY <1>3, <1>4 DEF Init, OInv, ShownOrMarked, AnsweredInTime, LastsIsWhole, Has

LEMMA InvalidateShown ==
  ASSUME TInv, OInv, NEW entry \in Entries, Invalidate(entry), ~focus.lasts, focus' = focus
  PROVE  ShownOrMarked' /\ AnsweredInTime' /\ LastsIsWhole'
<1>1. Asked.ver = 0
  BY RetriesNat, SmallTypes DEF TInv, TypeOK
<1>2. cache'.invalid
  BY DEF Invalidate, Entries
<1>3. AnsweredInTime'
  <2>1. CASE fetch.on /\ ~(face.shown /\ Has)
    BY <2>1 DEF Invalidate, AnsweredInTime, TInv, TypeOK, Fetches
  <2>2. CASE ~(fetch.on /\ ~(face.shown /\ Has)) /\ face.shown
    BY <1>1, <2>2 DEF Invalidate, AnsweredInTime
  <2>3. CASE ~fetch.on /\ ~face.shown
    BY <2>3 DEF Invalidate, AnsweredInTime
  <2>. QED  BY <2>1, <2>2, <2>3
<1>. QED  BY <1>2, <1>3 DEF ShownOrMarked, LastsIsWhole

(* Every step keeps it: one step of the proof per action. *)
LEMMA NextShown == ASSUME TInv, TInv', OInv, Next PROVE OInv'
<1>. USE DEF TInv, TypeOK, OInv
<1>1. /\ Empty \in Entries /\ Empty.ver = 0 /\ ~Empty.guess /\ ~Empty.invalid /\ ~Empty.old
      /\ NoFetch \in Fetches /\ ~NoFetch.on
      /\ Asked \in Fetches /\ Asked.on /\ Asked.ver = 0 /\ ~Asked.crossed
      /\ Idle.ver = 0 /\ Idle.change = NoEffect
  BY RetriesNat, SmallTypes DEF Idle
<1>2. /\ mine \in Nat /\ server \in Nat /\ server >= 1
      /\ cache.ver \in Nat /\ fetch.ver \in Nat
      /\ \A k \in Slots : pending[k] \in Requests /\ pending[k].ver \in Nat
  BY NumberTypes
<1>3. Fit(NoEffect)
  BY NoEffectPlain DEF Fit, Covered
<1>4. focus' = focus
  BY DEF Next, Navigate, GrowsOld, Forgotten, Polls, Answers, Arrives, Fails, Refused,
         GuardLeaves, Expires, SignOut, SwitchOrg, SignIn, OthersChange, Submit, Commits,
         SendAgain, Confirm, Reject
<1>5. ASSUME NEW e, Fit(e) PROVE Fit(e)'
  BY <1>4, <1>5 DEF Fit, Covered
<1>6. ASSUME UNCHANGED <<cache, mine>>
      PROVE  ShownOrMarked'
  BY <1>6 DEF ShownOrMarked, Has
<1>7. ASSUME pending' = pending, server' >= server, server' \in Nat, mine' \in Nat, mine' <= mine
      PROVE  NotAhead' /\ FitChanges'
  BY <1>2, <1>4, <1>7 DEF NotAhead, FitChanges, Fit, Covered
<1>8. ASSUME cache' = cache, mine' = mine, fetch' = fetch \/ (fetch' = Asked /\ (focus.lasts => ~Has))
      PROVE  AnsweredInTime' /\ LastsIsWhole'
  BY <1>1, <1>2, <1>4, <1>8 DEF AnsweredInTime, LastsIsWhole, Has
<1>9. ASSUME mine' = 0, ~cache'.old, ~cache'.invalid, ~cache'.guess, cache'.ver \in Nat,
             fetch'.on => fetch'.ver = 0
      PROVE  ShownOrMarked' /\ AnsweredInTime' /\ LastsIsWhole'
  BY <1>9 DEF ShownOrMarked, AnsweredInTime, LastsIsWhole
<1>10. ASSUME NEW f \in Faces \cup {LoginPage}, NEW u \in Users, Fresh(f, u),
              server' = server
       PROVE  OInv'
  <2>1. ShownOrMarked' /\ AnsweredInTime' /\ LastsIsWhole'
    BY <1>1, <1>9, <1>10 DEF Fresh, Entries
  <2>2. NotAhead' /\ FitChanges'
    BY <1>1, <1>2, <1>3, <1>4, <1>10 DEF Fresh, NotAhead, FitChanges, Fit, Covered
  <2>. QED  BY <2>1, <2>2
<1>11. ASSUME NEW f \in Faces, Navigate(f) PROVE OInv'
  <2>1. Stale /\ focus.lasts => ~Has
    BY DEF Stale, LastsIsWhole
  <2>. QED  BY <1>2, <1>6, <1>7, <1>8, <1>11, <2>1 DEF Navigate
<1>12. CASE GrowsOld
  <2>1. cache'.ver = cache.ver /\ cache'.guess = cache.guess /\ cache'.invalid = cache.invalid
    BY <1>12 DEF GrowsOld, Entries
  <2>. QED
    BY <1>2, <1>4, <1>7, <1>12, <2>1
       DEF GrowsOld, ShownOrMarked, AnsweredInTime, LastsIsWhole, Has
<1>13. CASE Forgotten
  BY <1>1, <1>2, <1>7, <1>9, <1>13 DEF Forgotten
<1>14. CASE Polls
  <2>1. ~focus.lasts
    <3>1. CASE focus.follows \/ cache.status \in focus.active
      BY <3>1, LastsIsApart
    <3>2. CASE face.expects
      <4>1. PICK s \in AllScreens : face = Face(s, focus)
        BY <3>2 DEF LoginPage, Faces, FacesOf
      <4>2. focus = useAnalyses
        BY <3>2, <4>1 DEF Face
      <4>. QED  BY <4>2 DEF useAnalyses, Query
    <3>. QED  BY <1>14, <3>1, <3>2 DEF Polls, Polling
  <2>. QED  BY <1>2, <1>6, <1>7, <1>8, <1>14, <2>1 DEF Polls
<1>15. CASE Answers
  <2>1. /\ fetch'.on = fetch.on /\ fetch'.crossed = fetch.crossed
        /\ fetch'.ver = IF focus.lasts THEN 1 ELSE server
    BY <1>15 DEF Answers, Fetches
  <2>2. AnsweredInTime' /\ LastsIsWhole'
    BY <1>2, <1>4, <1>15, <2>1
       DEF Answers, AnsweredInTime, LastsIsWhole, NotAhead, Has
  <2>. QED  BY <1>2, <1>6, <1>7, <1>15, <2>2 DEF Answers
<1>16. CASE Arrives
  <2>1. /\ cache'.ver = fetch.ver /\ ~cache'.guess /\ ~cache'.invalid /\ ~cache'.old
        /\ fetch.ver > 0
    BY <1>1, <1>16 DEF Arrives, Entries
  <2>2. mine' \in Nat /\ mine' <= mine
    BY <1>2, <1>16 DEF Arrives
  <2>3. ShownOrMarked' /\ AnsweredInTime' /\ LastsIsWhole'
    BY <1>1, <1>2, <1>4, <1>16, <2>1
       DEF Arrives, ShownOrMarked, AnsweredInTime, LastsIsWhole, Has
  <2>. QED  BY <1>2, <1>7, <1>16, <2>2, <2>3 DEF Arrives
<1>17. CASE Fails
  <2>1. CASE fetch.tries < Retries
    <3>1. fetch'.ver = 0
      BY <1>1, <1>17, <2>1 DEF Fails, Fetches
    <3>2. AnsweredInTime' /\ LastsIsWhole'
      BY <1>4, <1>17, <3>1 DEF Fails, AnsweredInTime, LastsIsWhole
    <3>. QED  BY <1>2, <1>6, <1>7, <1>17, <2>1, <3>2 DEF Fails
  <2>2. CASE ~(fetch.tries < Retries)
    <3>1. cache'.invalid /\ ~fetch'.on
      BY <1>1, <1>17, <2>2 DEF Fails, Entries
    <3>2. ShownOrMarked' /\ AnsweredInTime' /\ LastsIsWhole'
      BY <1>4, <1>17, <3>1 DEF Fails, ShownOrMarked, AnsweredInTime, LastsIsWhole
    <3>. QED  BY <1>2, <1>7, <1>17, <3>2 DEF Fails
  <2>. QED  BY <2>1, <2>2
<1>18. CASE Refused
  BY <1>10, <1>18 DEF Refused
<1>19. CASE GuardLeaves \/ Expires
  BY <1>2, <1>6, <1>7, <1>8, <1>19 DEF GuardLeaves, Expires
<1>20. CASE SignOut \/ SwitchOrg
  <2>1. /\ cache' = Empty /\ fetch' = NoFetch /\ mine' = 0
        /\ pending' = pending /\ server' = server
    BY <1>20 DEF SignOut, SwitchOrg
  <2>2. NotAhead' /\ FitChanges'
    BY <1>2, <1>7, <2>1
  <2>3. ShownOrMarked' /\ AnsweredInTime' /\ LastsIsWhole'
    BY <1>1, <1>9, <2>1
  <2>. QED  BY <2>2, <2>3
<1>21. ASSUME NEW u \in Users, NEW f \in Faces, SignIn(u, f) PROVE OInv'
  BY <1>10, <1>21 DEF SignIn
<1>22. CASE OthersChange
  BY <1>2, <1>6, <1>7, <1>8, <1>22 DEF OthersChange
<1>23. ASSUME NEW k \in Slots, NEW e \in face.offers, Submit(k, e) PROVE OInv'
  <2>1. e \in Effects /\ Fit(e)
    BY OffersTyped, OffersFit
  <2>2. /\ pending'[k].change = e /\ pending'[k].ver = 0
        /\ \A j \in Slots : j # k => pending'[j] = pending[j]
    BY <1>1, <1>23 DEF Submit, Idle
  <2>3. NotAhead' /\ FitChanges'
    BY <1>2, <1>5, <1>23, <2>1, <2>2 DEF Submit, NotAhead, FitChanges
  <2>4. CASE e.guesses
    <3>1. cache'.guess /\ ~fetch'.on /\ ~focus.lasts
      BY <1>1, <1>23, <2>1, <2>4 DEF Submit, Entries, Fit
    <3>. QED
      BY <1>4, <2>3, <3>1 DEF ShownOrMarked, AnsweredInTime, LastsIsWhole
  <2>5. CASE ~e.guesses
    BY <1>6, <1>8, <1>23, <2>3, <2>5 DEF Submit
  <2>. QED  BY <2>4, <2>5
<1>24. ASSUME NEW k \in Slots, Commits(k) PROVE OInv'
  <2>1. server' >= server /\ server' \in Nat
    BY <1>2, <1>24 DEF Commits
  <2>2. /\ pending'[k].change = pending[k].change /\ pending'[k].ver <= server'
        /\ \A j \in Slots : j # k => pending'[j] = pending[j]
    BY <1>2, <1>24, <2>1 DEF Commits, Requests
  <2>3. NotAhead' /\ FitChanges'
    <3>1. \A j \in Slots : pending'[j].change = pending[j].change /\ pending'[j].ver <= server'
      BY <1>2, <2>1, <2>2 DEF NotAhead
    <3>. QED  BY <1>2, <1>5, <1>24, <2>1, <3>1 DEF Commits, NotAhead, FitChanges
  <2>. QED  BY <1>6, <1>8, <1>24, <2>3 DEF Commits
<1>25. ASSUME NEW k \in Slots, SendAgain(k) PROVE OInv'
  <2>1. \A j \in Slots : /\ pending'[j].change = pending[j].change
                         /\ pending'[j].ver = pending[j].ver
    BY <1>2, <1>25 DEF SendAgain, Requests
  <2>2. NotAhead' /\ FitChanges'
    BY <1>5, <1>25, <2>1 DEF SendAgain, NotAhead, FitChanges
  <2>. QED  BY <1>6, <1>8, <1>25, <2>2 DEF SendAgain
<1>26. ASSUME NEW k \in Slots, Confirm(k) PROVE OInv'
  <2>. DEFINE e == pending[k].change
              v == pending[k].ver
  <2>1. Fit(e) /\ v \in Nat /\ v <= server /\ e \in Effects
    BY <1>2 DEF FitChanges, NotAhead, Requests
  <2>2. mine' \in Nat /\ mine' <= server /\ mine' >= mine
        /\ (mine' = mine \/ (e.writes /\ ~e.lags /\ mine' = v))
    BY <1>2, <1>26, <2>1 DEF Confirm, NotAhead
  <2>3. NotAhead' /\ FitChanges'
    <3>1. pending'[k] = Idle /\ \A j \in Slots : j # k => pending'[j] = pending[j]
      BY <1>26 DEF Confirm
    <3>. QED  BY <1>1, <1>2, <1>3, <1>5, <1>26, <2>2, <3>1 DEF Confirm, NotAhead, FitChanges
  <2>4. CASE e.reaches /\ Invalidate(cache)
    BY <1>4, <2>1, <2>3, <2>4, InvalidateShown DEF Fit
  <2>5. CASE /\ e.puts
             /\ cache' = [Empty EXCEPT !.ver = IF v > cache.ver THEN v ELSE cache.ver]
             /\ fetch' = [fetch EXCEPT !.crossed = fetch.on]
    <3>1. focus.lasts /\ ~cache.guess
      BY <2>1, <2>5, LastsIsApart DEF Fit
    <3>2. /\ cache'.ver = IF v > cache.ver THEN v ELSE cache.ver
          /\ ~cache'.guess /\ ~cache'.invalid /\ ~cache'.old
          /\ fetch'.on = fetch.on /\ fetch'.crossed = fetch.on
      BY <1>1, <2>5 DEF Entries, Fetches
    <3>3. cache.ver >= mine
      BY <1>2, <3>1 DEF LastsIsWhole, ShownOrMarked, Has
    <3>4. cache'.ver \in Nat /\ cache'.ver >= mine'
      BY <1>2, <2>1, <2>2, <3>2, <3>3
    <3>. QED
      BY <1>2, <1>4, <2>2, <2>3, <3>2, <3>4
         DEF ShownOrMarked, AnsweredInTime, LastsIsWhole, Has
  <2>6. CASE ~e.reaches /\ ~e.puts /\ UNCHANGED <<cache, fetch>>
    <3>1. mine' = mine
      BY <2>1, <2>2, <2>6 DEF Fit, Covered
    <3>. QED  BY <1>6, <1>8, <2>3, <2>6, <3>1
  <2>. QED  BY <1>26, <2>4, <2>5, <2>6 DEF Confirm
<1>27. ASSUME NEW k \in Slots, Reject(k) PROVE OInv'
  <2>. DEFINE e == pending[k].change
              b == pending[k].before
              x == IF b.ver > 0 \/ b.guess
                   THEN [cache EXCEPT !.ver = b.ver, !.guess = b.guess, !.old = FALSE]
                   ELSE cache
  <2>1. Fit(e)
    BY DEF FitChanges
  <2>2. NotAhead' /\ FitChanges'
    <3>1. pending'[k] = Idle /\ \A j \in Slots : j # k => pending'[j] = pending[j]
      BY <1>27 DEF Reject
    <3>. QED  BY <1>1, <1>2, <1>3, <1>5, <1>27, <3>1 DEF Reject, NotAhead, FitChanges
  <2>3. CASE e.guesses
    <3>1. x \in Entries
      BY DEF Requests, Entries
    <3>2. Invalidate(x)
      BY <1>27, <2>3 DEF Reject
    <3>. QED  BY <1>4, <2>1, <2>2, <2>3, <3>1, <3>2, InvalidateShown DEF Fit
  <2>4. CASE ~e.guesses
    BY <1>6, <1>8, <1>27, <2>2, <2>4 DEF Reject
  <2>. QED  BY <2>3, <2>4
<1>. QED
  BY <1>11, <1>12, <1>13, <1>14, <1>15, <1>16, <1>17, <1>18, <1>19, <1>20, <1>21, <1>22,
     <1>23, <1>24, <1>25, <1>26, <1>27 DEF Next

(* A confirmed change is on the screen once nothing is under way or marked:  *)
(* on every screen, for every hook and in any order of the answers.          *)
THEOREM OwnChangesAreShown == Spec => []OwnChangeShown
<1>1. TInv /\ OInv /\ [Next]_vars => OInv'
  <2>. SUFFICES ASSUME TInv, OInv, [Next]_vars PROVE OInv'
    OBVIOUS
  <2>1. TInv'
    BY NextTyped, StutterTyped
  <2>2. CASE UNCHANGED vars
    BY <2>2 DEF vars, OInv, NotAhead, FitChanges, Fit, Covered, ShownOrMarked,
                AnsweredInTime, LastsIsWhole, Has
  <2>. QED  BY <2>1, <2>2, NextShown
<1>2. TInv /\ [Next]_vars => TInv'
  BY NextTyped, StutterTyped
<1>3. OInv => OwnChangeShown
  BY DEF OInv, ShownOrMarked, OwnChangeShown
<1>. QED  BY InitTyped, InitShown, <1>1, <1>2, <1>3, PTL DEF Spec
=============================================================================
