--------------------------- MODULE MeetingPipeline ---------------------------
(***************************************************************************)
(* The post-meeting pipeline over the rows of one meeting: the Inngest     *)
(* functions process-meeting and process-bot-meeting (functions.ts), the   *)
(* worker endpoints they call (internal/transcription.py, status.py,       *)
(* /bot/finalize of bots.py, services/analysis_service.py) and the SQLite  *)
(* database.  Several runs may work on the meeting at once: both senders   *)
(* of meeting/uploaded fire, or a bot reports call_ended and done.         *)
(*                                                                         *)
(* The worker is one asyncio process.  A handler runs without interruption *)
(* up to its next await of a provider.  Its first INSERT, UPDATE or DELETE *)
(* takes SQLite's writer lock, and get_db releases it by a commit in the   *)
(* thread pool after the reply has been sent.  A handler that waits for    *)
(* the lock blocks the event loop, for busy_timeout at most.               *)
(*                                                                         *)
(* A generation of transcript segments is named by the attempt that wrote  *)
(* it; `Live' stands for the final segments streamed during the call.      *)
(***************************************************************************)
EXTENDS Naturals, FiniteSets

CONSTANTS
    Runs,          \* runs of the pipeline's function for this meeting
    Source,        \* "upload": process-meeting; "bot": process-bot-meeting
    Live, NoGen,
    MaxAttempts,   \* attempts Inngest makes at a step
    MaxFaults      \* bound on provider failures, timeouts, restarts, late webhooks

\* The steps that only call /internal/meeting-status, named by the status.
Marks == {"transcribing", "diarizing", "analyzing", "analyzed"}

Steps ==
    IF Source = "upload"
      THEN {"transcribing", "transcribe", "diarizing", "analyzing", "embed", "analyze", "analyzed"}
      ELSE {"finalize", "analyzing", "embed", "analyze", "analyzed"}

\* Mutants of Needs: mark-analyzed awaits embed alone; the last two marks are swapped.
NeedsEmbedOnly(st) ==
    [transcribing |-> {}, transcribe |-> {"transcribing"}, diarizing |-> {"transcribe"},
     finalize     |-> {},
     analyzing    |-> IF Source = "upload" THEN {"diarizing"} ELSE {"finalize"},
     embed        |-> {"analyzing"},
     analyze      |-> {"analyzing"},
     analyzed     |-> {"embed"}][st]

NeedsMarksSwapped(st) ==
    [transcribing |-> {}, transcribe |-> {"transcribing"}, diarizing |-> {"transcribe"},
     finalize     |-> {},
     analyzing    |-> {"analyzed"},
     embed        |-> {"analyzing"},
     analyze      |-> {"analyzing"},
     analyzed     |-> IF Source = "upload" THEN {"diarizing"} ELSE {"finalize"}][st]

\* The steps a function awaits before it begins a step.
Needs(st) ==
    [transcribing |-> {}, transcribe |-> {"transcribing"}, diarizing |-> {"transcribe"},
     finalize     |-> {},
     analyzing    |-> IF Source = "upload" THEN {"diarizing"} ELSE {"finalize"},
     embed        |-> {"analyzing"},
     analyze      |-> {"analyzing"},
     analyzed     |-> {"embed", "analyze"}][st]

Attempts == Runs \X Steps \X (1 .. MaxAttempts)

ASSUME ConstantsOK ==
    /\ Runs # {}
    /\ Source \in {"upload", "bot"}
    /\ MaxAttempts \in Nat \ {0}
    /\ MaxFaults \in Nat
    /\ Live \notin Attempts \cup {NoGen}
    /\ NoGen \notin Attempts

Generations == Attempts \cup {Live}

Embeddings == Attempts \X Generations

VARIABLES
    status,       \* meetings.status
    transcript,   \* the generation the transcripts row holds
    segs,         \* the generations whose final segments are stored
    partials,     \* there are segments with is_partial set
    vecs,         \* embeddings, as <<attempt that wrote them, generation embedded>>
    analyses,     \* the attempts that have committed a completed analyses row
    newest,       \* the attempt of the newest analyses row (GET analyses/latest)
    done,         \* the steps whose reply each run has memoised
    tries,        \* attempts each run has made at each step
    pc,           \* where the request of each attempt stands in the worker
    view,         \* <<request, generation>>: the segments each request has read
    prior,        \* <<request, embedding>>: what each has found to clear
    absent,       \* the requests that found no transcripts row
    faults

contentVars == <<transcript, segs, partials, vecs, analyses, newest>>
rowVars     == <<status, contentVars>>
inngestVars == <<done, tries>>
readVars    == <<view, prior, absent>>
vars        == <<rowVars, inngestVars, pc, readVars, faults>>

-----------------------------------------------------------------------------
MeetingStatus == Marks \cup {"uploaded", "recording"}

\* A request: not made, awaiting a provider, waiting for the writer lock (with
\* its last writes, or with finalize's transcript), awaiting the metadata,
\* holding its writes uncommitted while the reply is on its way, committed,
\* failed, or rolled back by a restart after its reply was sent.
PC == {"idle", "awaiting", "flushing", "saving", "naming", "written", "committed",
       "failed", "lost"}

Running == {"awaiting", "flushing", "saving", "naming"}

Fault == /\ faults < MaxFaults
         /\ faults' = faults + 1

NoFault == UNCHANGED faults

\* No handler is blocking the event loop.
LoopFree == \A a \in Attempts : pc[a] \notin {"flushing", "saving"}

\* run_analysis inserts its row, then awaits the LLM inside the transaction.
HoldsAcrossAwait(a) == a[2] = "analyze" /\ pc[a] = "awaiting"

\* Mutant of HoldsLock: run_analysis inserts its row after the LLM has answered.
HoldsLockAfterAnswer(a) == pc[a] = "written"

HoldsLock(a) == pc[a] = "written" \/ HoldsAcrossAwait(a)

LockFree == \A a \in Attempts : ~HoldsLock(a)

Latest(a) == a[3] = tries[a[1]][a[2]]

\* The run has taken this attempt's reply for the result of the step.
Answers(a) == Latest(a) /\ a[2] \in done[a[1]]

Init ==
    /\ status = IF Source = "upload" THEN "uploaded" ELSE "recording"
    /\ transcript = NoGen
    /\ segs \in IF Source = "upload" THEN {{}} ELSE {{}, {Live}}
    /\ partials \in IF Source = "upload" THEN {FALSE} ELSE BOOLEAN
    /\ vecs = {}
    /\ analyses = {}
    /\ newest = NoGen
    /\ done = [r \in Runs |-> {}]
    /\ tries = [r \in Runs |-> [st \in Steps |-> 0]]
    /\ pc = [a \in Attempts |-> "idle"]
    /\ view = {}
    /\ prior = {}
    /\ absent = {}
    /\ faults = 0

-----------------------------------------------------------------------------
\* The database.

\* Mutant of ReplaceTranscript: the prior segments are not deleted.
ReplaceTranscriptAppends(a) ==
    /\ transcript' = a
    /\ segs' = segs \cup {a}

\* The transcripts row is written, the final segments of the meeting are replaced.
\* Deepgram may have found no speech; Recall's transcript is not written if empty.
ReplaceTranscript(a) ==
    /\ transcript' = a
    /\ segs' \in IF a[2] = "transcribe" THEN {{}, {a}} ELSE {{a}}

\* Two requests that found no row both insert one: unique(meeting_id) refuses the second.
UniqueViolation(a) == a \in absent /\ transcript # NoGen

\* The lock is granted to a's first write.  A mark is committed (its commit follows
\* at once); run_analysis goes on to read the segments and to await the LLM; the
\* others return, and their reply is sent.
Granted(a) ==
    \/ /\ a[2] \in Marks
       /\ status' = a[2]
       /\ pc' = [pc EXCEPT ![a] = "committed"]
       /\ UNCHANGED view
    \/ /\ a[2] = "analyze"
       /\ view' = view \cup ({a} \X segs)
       /\ pc' = [pc EXCEPT ![a] = "awaiting"]
       /\ UNCHANGED status
    \/ /\ a[2] \in {"transcribe", "finalize", "embed"}
       /\ pc' = [pc EXCEPT ![a] = IF a[2] = "transcribe" /\ UniqueViolation(a)
                                  THEN "failed" ELSE "written"]
       /\ UNCHANGED <<status, view>>

\* The handler writes, or blocks the event loop until the lock is free.
Writes(a) ==
    IF LockFree THEN Granted(a)
      ELSE pc' = [pc EXCEPT ![a] = "flushing"] /\ UNCHANGED <<status, view>>

\* A handler that has to wait keeps what it has read: whether there is a transcripts row.
NotesAbsence(a) ==
    absent' = IF transcript = NoGen /\ ~LockFree THEN absent \cup {a} ELSE absent

-----------------------------------------------------------------------------
\* Inngest calls the worker.

\* The next attempt at a step whose turn it is.  A failed attempt is retried; to
\* retry one that may still be running, or whose reply is lost, is a fault.
Dispatch(a) ==
    LET r == a[1]  st == a[2] IN
    /\ a[3] = tries[r][st] + 1
    /\ st \notin done[r] /\ Needs(st) \subseteq done[r]
    /\ LoopFree
    /\ IF a[3] = 1 THEN NoFault
         ELSE IF pc[<<r, st, a[3] - 1>>] = "failed" THEN NoFault ELSE Fault
    /\ tries' = [tries EXCEPT ![r][st] = a[3]]

\* setMeetingStatus: /internal/meeting-status.  A status that is stored already is
\* not written again, so that mark needs no lock.
MarkBegin(a) ==
    /\ a[2] \in Marks
    /\ Dispatch(a)
    /\ IF status = a[2]
         THEN pc' = [pc EXCEPT ![a] = "committed"] /\ UNCHANGED <<status, view>>
         ELSE Writes(a)
    /\ UNCHANGED <<contentVars, done, prior, absent>>

\* /internal/transcribe up to Deepgram, /bot/finalize up to Recall.
PullBegin(a) ==
    /\ a[2] \in {"transcribe", "finalize"}
    /\ Dispatch(a)
    /\ pc' = [pc EXCEPT ![a] = "awaiting"]
    /\ UNCHANGED <<rowVars, done, readVars>>

\* /internal/embed reads the final segments; with none there is nothing to do.
EmbedBegin(a) ==
    /\ a[2] = "embed"
    /\ Dispatch(a)
    /\ view' = view \cup ({a} \X segs)
    /\ pc' = [pc EXCEPT ![a] = IF segs = {} THEN "committed" ELSE "awaiting"]
    /\ UNCHANGED <<rowVars, done, prior, absent>>

\* /internal/analyze up to the insertion of the analyses row.
AnalyzeBegin(a) ==
    /\ a[2] = "analyze"
    /\ Dispatch(a)
    /\ Writes(a)
    /\ UNCHANGED <<contentVars, done, prior, absent>>

\* The step's reply arrives, before or after the commit.
Reply(a) ==
    /\ pc[a] \in {"written", "committed"}
    /\ Latest(a) /\ a[2] \notin done[a[1]]
    /\ done' = [done EXCEPT ![a[1]] = @ \cup {a[2]}]
    /\ UNCHANGED <<rowVars, tries, pc, readVars, faults>>

-----------------------------------------------------------------------------
\* The handlers after their provider has answered.

TranscribeAnswered(a) ==
    /\ a[2] = "transcribe" /\ pc[a] = "awaiting" /\ LoopFree
    /\ NotesAbsence(a)
    /\ Writes(a)
    /\ UNCHANGED <<contentVars, inngestVars, prior, faults>>

\* /bot/finalize: the transcript is committed before the metadata is fetched.
SaveTranscript(a) ==
    IF UniqueViolation(a)
      THEN pc' = [pc EXCEPT ![a] = "failed"] /\ UNCHANGED <<transcript, segs>>
      ELSE pc' = [pc EXCEPT ![a] = "naming"] /\ ReplaceTranscript(a)

\* Recall has no recording yet; it has one without words; or its transcript is written.
FinalizeAnswered(a) ==
    /\ a[2] = "finalize" /\ pc[a] = "awaiting" /\ LoopFree
    /\ \/ pc' = [pc EXCEPT ![a] = "committed"] /\ UNCHANGED <<transcript, segs, absent>>
       \/ pc' = [pc EXCEPT ![a] = "naming"] /\ UNCHANGED <<transcript, segs, absent>>
       \/ LockFree /\ SaveTranscript(a) /\ UNCHANGED absent
       \/ /\ ~LockFree
          /\ NotesAbsence(a)
          /\ pc' = [pc EXCEPT ![a] = "saving"] /\ UNCHANGED <<transcript, segs>>
    /\ UNCHANGED <<status, partials, vecs, analyses, newest, inngestVars, view, prior, faults>>

FinalizeSaves(a) ==
    /\ pc[a] = "saving" /\ LockFree
    /\ SaveTranscript(a)
    /\ UNCHANGED <<status, partials, vecs, analyses, newest, inngestVars, readVars, faults>>

\* The metadata is there, or is not (any failure is swallowed); the title and the
\* status are written, unless the title is final and the status stored already.
FinalizeNamed(a) ==
    /\ pc[a] = "naming" /\ LoopFree
    /\ \/ /\ status = "uploaded"
          /\ pc' = [pc EXCEPT ![a] = "committed"]
          /\ UNCHANGED <<status, view>>
       \/ Writes(a)
    /\ UNCHANGED <<contentVars, inngestVars, prior, absent, faults>>

\* The vectors are there.  The prior embeddings of the segments are looked up
\* before the first write waits for the lock.
EmbedAnswered(a) ==
    /\ a[2] = "embed" /\ pc[a] = "awaiting" /\ LoopFree
    /\ prior' = prior \cup {<<a, v>> : v \in {w \in vecs : <<a, w[2]>> \in view}}
    /\ Writes(a)
    /\ UNCHANGED <<contentVars, inngestVars, absent, faults>>

\* run_analysis: the answer is flushed (status completed, or partial if it is no JSON).
AnalyzeAnswered(a) ==
    /\ HoldsAcrossAwait(a) /\ LoopFree
    /\ pc' = [pc EXCEPT ![a] = "written"]
    /\ UNCHANGED <<rowVars, inngestVars, readVars, faults>>

\* run_analysis commits the failed row before it raises.
AnalyzeFails(a) ==
    /\ HoldsAcrossAwait(a) /\ LoopFree
    /\ Fault
    /\ newest' = a
    /\ pc' = [pc EXCEPT ![a] = "failed"]
    /\ UNCHANGED <<status, transcript, segs, partials, vecs, analyses, inngestVars, readVars>>

\* Deepgram, Recall or the embedding provider fails; nothing has been written.
ProviderFails(a) ==
    /\ a[2] # "analyze" /\ pc[a] = "awaiting" /\ LoopFree
    /\ Fault
    /\ pc' = [pc EXCEPT ![a] = "failed"]
    /\ UNCHANGED <<rowVars, inngestVars, readVars>>

-----------------------------------------------------------------------------
\* Waiting for the lock, and the commit.

Flush(a) ==
    /\ pc[a] = "flushing" /\ LockFree
    /\ Granted(a)
    /\ UNCHANGED <<contentVars, inngestVars, prior, absent, faults>>

\* Mutant of BusyTimeout: a blocked writer waits without limit.
BusyTimeoutNever(a) == FALSE /\ UNCHANGED vars

\* The holder cannot proceed while this handler blocks the event loop: after
\* busy_timeout SQLite raises `database is locked'.
BusyTimeout(a) ==
    /\ pc[a] \in {"flushing", "saving"}
    /\ \E b \in Attempts : HoldsAcrossAwait(b)
    /\ pc' = [pc EXCEPT ![a] = "failed"]
    /\ UNCHANGED <<rowVars, inngestVars, readVars, faults>>

\* Mutant of StatusWrite: a status that is not one of the pipeline's.
StatusWriteFinalized(a) ==
    /\ status' = "finalized"
    /\ UNCHANGED <<transcript, segs, vecs, analyses, newest>>

StatusWrite(a) ==
    /\ status' = "uploaded"
    /\ UNCHANGED <<transcript, segs, vecs, analyses, newest>>

TranscriptWrite(a) ==
    /\ ReplaceTranscript(a)
    /\ UNCHANGED <<status, vecs, analyses, newest>>

\* Mutant of EmbeddingWrite: it clears the meeting's embeddings, not those of the
\* segments the request has read.
EmbeddingWriteByMeeting(a) ==
    /\ vecs' = {v \in view : v[1] = a}
    /\ UNCHANGED <<status, transcript, segs, analyses, newest>>

\* The embeddings found are cleared, one for each chunk of what was read is added.
EmbeddingWrite(a) ==
    /\ vecs' = {v \in vecs : <<a, v>> \notin prior} \cup {v \in view : v[1] = a}
    /\ UNCHANGED <<status, transcript, segs, analyses, newest>>

AnalysisWrite(a) ==
    /\ analyses' = analyses \cup {a}
    /\ newest' = a
    /\ UNCHANGED <<status, transcript, segs, vecs>>

\* get_db commits, in the thread pool, after the handler has returned.
Commit(a) ==
    /\ pc[a] = "written"
    /\ pc' = [pc EXCEPT ![a] = "committed"]
    /\ \/ a[2] = "finalize" /\ StatusWrite(a)
       \/ a[2] = "transcribe" /\ TranscriptWrite(a)
       \/ a[2] = "embed" /\ EmbeddingWrite(a)
       \/ a[2] = "analyze" /\ AnalysisWrite(a)
    /\ prior' = {p \in prior : p[1] # a}
    /\ absent' = absent \ {a}
    /\ UNCHANGED <<partials, inngestVars, view, faults>>

-----------------------------------------------------------------------------
\* The environment.

\* A live transcript webhook comes late, or again (_handle_transcript), and writes its
\* segment over whatever is stored of it.  After a partial one the segment is partial,
\* also if it was final; after a final one it is final.  Others may still be the other.
LateWebhook ==
    /\ Source = "bot" /\ LoopFree /\ LockFree
    /\ Fault
    /\ \/ partials' = TRUE /\ segs' \in {segs, segs \ {Live}}
       \/ partials' \in {partials, FALSE} /\ segs' = segs \cup {Live}
    /\ UNCHANGED <<status, transcript, vecs, analyses, newest, inngestVars, pc, readVars>>

\* The worker restarts: what is not committed is rolled back, replied to or not.
WorkerRestart ==
    /\ Fault
    /\ pc' = [a \in Attempts |->
                IF pc[a] \in Running THEN "failed"
                ELSE IF pc[a] = "written" THEN IF Answers(a) THEN "lost" ELSE "failed"
                ELSE pc[a]]
    /\ UNCHANGED <<rowVars, inngestVars, readVars>>

-----------------------------------------------------------------------------
Begin(a) == MarkBegin(a) \/ PullBegin(a) \/ EmbedBegin(a) \/ AnalyzeBegin(a)

Answered(a) ==
    \/ TranscribeAnswered(a) \/ FinalizeAnswered(a) \/ FinalizeSaves(a) \/ FinalizeNamed(a)
    \/ EmbedAnswered(a) \/ AnalyzeAnswered(a)

Next ==
    \/ \E a \in Attempts :
         \/ Begin(a) \/ Reply(a) \/ Answered(a)
         \/ AnalyzeFails(a) \/ ProviderFails(a)
         \/ Flush(a) \/ BusyTimeout(a) \/ Commit(a)
    \/ LateWebhook
    \/ WorkerRestart

Spec == Init /\ [][Next]_vars

\* Fairness.  Inngest dispatches and retries, providers answer (if only with a
\* failure), the worker finishes its handlers, commits and replies.
FairSpec ==
    /\ Spec
    /\ \A a \in Attempts : /\ WF_vars(Begin(a) /\ NoFault)
                          /\ WF_vars(Answered(a) \/ Flush(a) \/ BusyTimeout(a))
                          /\ WF_vars(Commit(a))
                          /\ WF_vars(Reply(a))

-----------------------------------------------------------------------------
(***************************************************************************)
(* Properties                                                              *)
(***************************************************************************)

\* Every variable has its type; a meeting only takes statuses of the pipeline.
TypeOK ==
    /\ status \in MeetingStatus
    /\ transcript \in Attempts \cup {NoGen}
    /\ segs \subseteq Generations
    /\ partials \in BOOLEAN
    /\ vecs \subseteq Embeddings
    /\ analyses \subseteq Attempts
    /\ newest \in Attempts \cup {NoGen}
    /\ done \in [Runs -> SUBSET Steps]
    /\ tries \in [Runs -> [Steps -> 0 .. MaxAttempts]]
    /\ pc \in [Attempts -> PC]
    /\ view \subseteq Attempts \X Generations
    /\ prior \subseteq Attempts \X Embeddings
    /\ absent \subseteq Attempts
    /\ faults \in 0 .. MaxFaults

\* The final segments are those of the transcripts row: runs that overlap, retries
\* and attempts that outlive their timeout never leave the segments of two
\* transcriptions, nor the text of one beside the segments of another.
TranscriptIsWhole == segs \ {Live} \subseteq {transcript}

\* The writer lock has one holder, so that what the model applies in one step at
\* the commit is what the handler wrote.
OneWriter == \A a \in Attempts : HoldsLock(a) => \A b \in Attempts : HoldsLock(b) => a = b

\* No write that was acknowledged has been rolled back by a restart.
NothingLost == \A a \in Attempts : pc[a] # "lost"

\* A meeting shown as analyzed has an analysis (GET /analyses/latest is not 404),
\* even though mark-analyzed and run_analysis commit only after their replies.
AnalyzedHasAnalysis ==
    status = "analyzed" /\ NothingLost =>
        analyses # {}

Finished(r) == done[r] = Steps

\* When a run is over whose own transcript is the meeting's, search finds that
\* transcript, and the latest analysis was made from it: what other runs have read
\* before an await or delete after it does not take that away.
FinishedRunIsServed ==
    \A r \in Runs, g \in segs \ {Live} :
        Finished(r) /\ g[1] = r /\ Answers(g) /\ NothingLost
        /\ (\A a \in Attempts : pc[a] # "written") =>
            /\ \E v \in vecs : v[2] = g
            /\ newest # NoGen /\ <<newest, g>> \in view

\* An attempt the run has given up on, but which the worker has not.
Zombie(a) == pc[a] \notin {"idle", "failed"} /\ ~Latest(a)

\* After the last run the meeting is `analyzed', whatever the order in which the
\* runs' marks and finalize's `uploaded' were committed.
StatusSettles ==
    (\A r \in Runs : Finished(r)) /\ NothingLost
    /\ (\A a \in Attempts : ~Zombie(a) /\ pc[a] # "written") => status = "analyzed"

\* Some step of the run has used up its attempts.
Failed(r) ==
    \E st \in Steps \ done[r] :
        tries[r][st] = MaxAttempts /\ pc[<<r, st, MaxAttempts>>] = "failed"

\* Every run ends, although its handlers block the event loop that the holder of
\* the writer lock needs: busy_timeout breaks the deadlock.
RunsEnd == \A r \in Runs : <>(Finished(r) \/ Failed(r))

\* What keeps FinishedRunIsServed inductive.

\* A step is begun after those it needs, and its attempts are counted.
StepsInOrder ==
    \A a \in Attempts : pc[a] # "idle" =>
        Needs(a[2]) \subseteq done[a[1]] /\ a[3] <= tries[a[1]][a[2]]

\* A memoised reply is that of the latest attempt, which had done its work.
AnswerStands ==
    \A r \in Runs : \A st \in done[r] :
        /\ tries[r][st] \in 1 .. MaxAttempts
        /\ pc[<<r, st, tries[r][st]>>] \in {"written", "committed", "lost"}

\* Where the requests of a step can stand.
StepsFit ==
    \A a \in Attempts :
        /\ pc[a] \in {"saving", "naming"} => a[2] = "finalize"
        /\ a[2] \in Marks => pc[a] \in {"idle", "flushing", "committed", "failed"}

\* A request that has committed its analysis has left a row.
AnalysesStored == \A a \in Attempts : a[2] = "analyze" /\ pc[a] = "committed" => a \in analyses

\* The request of a generation has come as far as its writes.
Stored(g) ==
    \/ g[2] = "transcribe" /\ pc[g] = "committed"
    \/ g[2] = "finalize" /\ pc[g] \notin {"idle", "awaiting", "saving"}

\* Only generations that have been stored are in the table or have been read.
GenerationsStored ==
    \A g \in Attempts : g \in segs \/ (\E a \in Attempts : <<a, g>> \in view) => Stored(g)

\* The segments that an analysis was made from.
MadeFrom(a) == {g \in Generations : <<a, g>> \in view}

\* The abstract view: see MeetingRecord.
Record == INSTANCE MeetingRecord WITH
    Takes    <- Attempts,
    Statuses <- MeetingStatus,
    shown    <- status,
    text     <- segs,
    index    <- {v[2] : v \in vecs},
    report   <- {MadeFrom(a) : a \in {newest} \ {NoGen}},
    used     <- {g \in Attempts : Stored(g)},
    intact   <- NothingLost

\* The pipeline implements MeetingRecord: although transcriptions, embeddings and
\* analyses read before an await what they write after it, overlap and are retried,
\* the text is replaced as a whole and by new text only, the latest analysis is of the
\* text stored when it was committed, and search only gains.
ImplementsRecord == Record!RecordSpec

\* Between the reply and the commit of a transcription its run cannot have marked
\* the meeting twice: the second mark waits for the lock.
MarksWait ==
    \A g \in Attempts : g[2] = "transcribe" /\ pc[g] = "written" /\ Answers(g) =>
        \A a \in Attempts : a[1] = g[1] =>
            /\ a[2] = "diarizing" /\ pc[a] = "committed" => status = "diarizing"
            /\ a[2] = "analyzing" => pc[a] # "committed"

\* A generation of segments that its own run has taken for the meeting's transcript.
Served(g) == g \in segs /\ Answers(g)

\* The embed steps of the run have read it,
EmbedsCurrent ==
    \A g, a \in Attempts : Served(g) /\ a[1] = g[1] /\ a[2] = "embed" /\ pc[a] # "idle" =>
        <<a, g>> \in view

\* what an embed step has read and committed has an embedding,
EmbedsStored ==
    \A g, a \in Attempts : g \in segs /\ a[2] = "embed" /\ pc[a] = "committed" /\ <<a, g>> \in view =>
        \E v \in vecs : v[2] = g

\* (what it clears it has read)
PriorWasRead == \A p \in prior : <<p[1], p[2][2]>> \in view

\* an analysis sees the segments as long as it holds the lock,
AnalysisSeesAll ==
    \A a \in Attempts : a[2] = "analyze" /\ HoldsLock(a) => \A g \in segs : <<a, g>> \in view

\* and the newest analysis is as current as that of the run.
NewestCovers ==
    \A g, a \in Attempts : Served(g) /\ a[1] = g[1] /\ a[2] = "analyze" /\ pc[a] = "committed" =>
        newest # NoGen /\ <<newest, g>> \in view

\* What keeps StatusSettles inductive.

\* Between the reply and the commit of finalize its run cannot have analysed the
\* meeting: the analysis waits for the lock.
FinalizeWaits ==
    \A g, b \in Attempts :
        g[2] = "finalize" /\ pc[g] = "written" /\ Latest(g) /\ b[1] = g[1] /\ b[2] = "analyze" =>
            pc[b] \notin {"written", "committed", "lost"}

\* A mark or a finalize whose run had given up on it, and which worked all the same.
GivenUp(a) == pc[a] = "committed" /\ ~Latest(a)

\* A meeting that is not marked as analyzed is owed that mark by some run.
MarkOwed ==
    status # "analyzed" /\ NothingLost =>
        \/ \E a \in Attempts : GivenUp(a)
        \/ \E r \in Runs : \A b \in Attempts :
             b[1] = r /\ b[2] = "analyzed" => pc[b] # "committed"

IInv ==
    /\ TypeOK
    /\ OneWriter
    /\ StepsInOrder
    /\ AnswerStands
    /\ StepsFit
    /\ TranscriptIsWhole
    /\ AnalysesStored
    /\ AnalyzedHasAnalysis
    /\ GenerationsStored
    /\ MarksWait
    /\ EmbedsCurrent
    /\ EmbedsStored
    /\ PriorWasRead
    /\ AnalysisSeesAll
    /\ NewestCovers
=============================================================================
