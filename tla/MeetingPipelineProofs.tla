----------------------- MODULE MeetingPipelineProofs -----------------------
(***************************************************************************)
(* Proofs about MeetingPipeline, for any number of runs, attempts and      *)
(* faults and for both sources of a recording: its type invariant, its     *)
(* inductive invariant IInv, the safety invariants the runs check that     *)
(* follow from it, and that MeetingPipeline implements MeetingRecord.      *)
(***************************************************************************)
EXTENDS MeetingPipeline, TLAPS

\* An attempt is a run, a step and a number.
LEMMA AttemptParts ==
    ASSUME NEW a \in Attempts
    PROVE  /\ a[1] \in Runs /\ a[2] \in Steps /\ a[3] \in 1 .. MaxAttempts
           /\ a = <<a[1], a[2], a[3]>>
  BY DEF Attempts

\* The other way round.
LEMMA AttemptOf ==
    ASSUME NEW r \in Runs, NEW st \in Steps, NEW n \in 1 .. MaxAttempts
    PROVE  <<r, st, n>> \in Attempts
  BY DEF Attempts

\* The steps of the two functions, and what each needs.
LEMMA StepFacts ==
    /\ Steps \subseteq Marks \cup {"transcribe", "finalize", "embed", "analyze"}
    /\ {"analyzing", "embed", "analyze", "analyzed"} \subseteq Steps
    /\ "transcribe" \in Steps <=> Source = "upload"
    /\ "finalize" \in Steps <=> Source # "upload"
    /\ Source = "upload" => "diarizing" \in Steps
    /\ \A st \in Steps : Needs(st) \subseteq Steps
    /\ Needs("diarizing") = {"transcribe"}
    /\ Needs("analyzing") = IF Source = "upload" THEN {"diarizing"} ELSE {"finalize"}
    /\ Needs("embed") = {"analyzing"} /\ Needs("analyze") = {"analyzing"}
    /\ Needs("analyzed") = {"embed", "analyze"}
  <1>1. /\ Needs("diarizing") = {"transcribe"}
        /\ Needs("analyzing") = IF Source = "upload" THEN {"diarizing"} ELSE {"finalize"}
        /\ Needs("embed") = {"analyzing"} /\ Needs("analyze") = {"analyzing"}
        /\ Needs("analyzed") = {"embed", "analyze"}
        /\ Needs("transcribing") = {} /\ Needs("finalize") = {}
        /\ Needs("transcribe") = {"transcribing"}
    BY DEF Needs
  <1>2. \A st \in Steps : Needs(st) \subseteq Steps
    BY <1>1 DEF Steps
  <1>3. QED
    BY <1>1, <1>2 DEF Steps, Marks

\* A step of MeetingPipeline is a step of one of its actions.
LEMMA NextCases ==
    ASSUME Next
    PROVE  \/ \E a \in Attempts :
                \/ MarkBegin(a) \/ PullBegin(a) \/ EmbedBegin(a) \/ AnalyzeBegin(a)
                \/ Reply(a)
                \/ TranscribeAnswered(a) \/ FinalizeAnswered(a) \/ FinalizeSaves(a)
                \/ FinalizeNamed(a) \/ EmbedAnswered(a) \/ AnalyzeAnswered(a)
                \/ AnalyzeFails(a) \/ ProviderFails(a)
                \/ Flush(a) \/ BusyTimeout(a) \/ Commit(a)
           \/ LateWebhook
           \/ WorkerRestart
  BY DEF Next, Begin, Answered

\* What Writes does to the request, the status and what has been read.
LEMMA WritesCases ==
    ASSUME NEW a \in Attempts, Writes(a)
    PROVE  \/ /\ ~LockFree
              /\ pc' = [pc EXCEPT ![a] = "flushing"] /\ UNCHANGED <<status, view>>
           \/ LockFree /\ Granted(a)
  BY DEF Writes

-----------------------------------------------------------------------------
\* The initial states have their types.
LEMMA TypeInit == Init => TypeOK
  <1> SUFFICES ASSUME Init
               PROVE  TypeOK
    OBVIOUS
  <1>1. tries \in [Runs -> [Steps -> 0 .. MaxAttempts]]
    BY ConstantsOK DEF Init
  <1>2. status \in MeetingStatus
    BY DEF Init, MeetingStatus
  <1>3. segs \subseteq Generations
    BY DEF Init, Generations
  <1>4. pc \in [Attempts -> PC]
    BY DEF Init, PC
  <1>5. /\ transcript \in Attempts \cup {NoGen} /\ newest \in Attempts \cup {NoGen}
        /\ vecs \subseteq Embeddings /\ analyses \subseteq Attempts
        /\ view \subseteq Attempts \X Generations
        /\ prior \subseteq Attempts \X Embeddings /\ absent \subseteq Attempts
    BY DEF Init
  <1>6. faults \in 0 .. MaxFaults /\ done \in [Runs -> SUBSET Steps]
    BY ConstantsOK DEF Init
  <1>7. partials \in BOOLEAN
    <2>1. CASE Source = "upload"
      BY <2>1 DEF Init
    <2>2. CASE Source # "upload"
      BY <2>2 DEF Init
    <2>3. QED
      BY <2>1, <2>2
  <1>8. QED
    BY <1>1, <1>2, <1>3, <1>4, <1>5, <1>6, <1>7 DEF TypeOK

\* A begun step has one attempt more, and none more than it may have.
LEMMA DispatchType ==
    ASSUME TypeOK, NEW a \in Attempts, Dispatch(a)
    PROVE  /\ tries' \in [Runs -> [Steps -> 0 .. MaxAttempts]]
           /\ faults' \in 0 .. MaxFaults
  <1>1. a[1] \in Runs /\ a[2] \in Steps /\ a[3] \in 0 .. MaxAttempts
    BY AttemptParts
  <1>2. tries' \in [Runs -> [Steps -> 0 .. MaxAttempts]]
    BY <1>1 DEF Dispatch, TypeOK
  <1>3. faults' \in 0 .. MaxFaults
    BY ConstantsOK DEF Dispatch, TypeOK, Fault, NoFault
  <1>4. QED
    BY <1>2, <1>3

\* The lock is granted: the request, the status and the view keep their types.
LEMMA GrantedType ==
    ASSUME TypeOK, NEW a \in Attempts, Granted(a) \/ Writes(a)
    PROVE  /\ pc' \in [Attempts -> PC]
           /\ status' \in MeetingStatus
           /\ view' \subseteq Attempts \X Generations
  <1>1. CASE pc' = [pc EXCEPT ![a] = "flushing"] /\ UNCHANGED <<status, view>>
    BY <1>1 DEF TypeOK, PC
  <1>2. CASE Granted(a)
    <2>1. pc' \in [Attempts -> PC]
      BY <1>2 DEF Granted, TypeOK, PC
    <2>2. status' \in MeetingStatus
      BY <1>2 DEF Granted, TypeOK, MeetingStatus
    <2>3. view' \subseteq Attempts \X Generations
      BY <1>2 DEF Granted, TypeOK
    <2>4. QED
      BY <2>1, <2>2, <2>3
  <1>3. QED
    BY <1>1, <1>2 DEF Writes

\* A stored transcript keeps its types.
LEMMA SaveType ==
    ASSUME TypeOK, NEW a \in Attempts, SaveTranscript(a)
    PROVE  /\ pc' \in [Attempts -> PC]
           /\ transcript' \in Attempts \cup {NoGen}
           /\ segs' \subseteq Generations
  BY DEF SaveTranscript, ReplaceTranscript, TypeOK, PC, Generations

\* Every step keeps the types.
LEMMA TypeStep == TypeOK /\ [Next]_vars => TypeOK'
  <1> SUFFICES ASSUME TypeOK, [Next]_vars
               PROVE  TypeOK'
    OBVIOUS
  <1> USE DEF contentVars, rowVars, inngestVars, readVars
  <1>1. ASSUME NEW a \in Attempts, MarkBegin(a)
        PROVE  TypeOK'
    <2>1. CASE status = a[2] /\ pc' = [pc EXCEPT ![a] = "committed"] /\ UNCHANGED <<status, view>>
      BY <1>1, <2>1, DispatchType DEF MarkBegin, TypeOK, PC
    <2>2. CASE Writes(a)
      BY <1>1, <2>2, DispatchType, GrantedType DEF MarkBegin, TypeOK
    <2>3. QED
      BY <1>1, <2>1, <2>2 DEF MarkBegin
  <1>2. ASSUME NEW a \in Attempts, PullBegin(a)
        PROVE  TypeOK'
    BY <1>2, DispatchType DEF PullBegin, TypeOK, PC
  <1>3. ASSUME NEW a \in Attempts, EmbedBegin(a)
        PROVE  TypeOK'
    BY <1>3, DispatchType DEF EmbedBegin, TypeOK, PC
  <1>4. ASSUME NEW a \in Attempts, AnalyzeBegin(a)
        PROVE  TypeOK'
    BY <1>4, DispatchType, GrantedType DEF AnalyzeBegin, TypeOK
  <1>5. ASSUME NEW a \in Attempts, Reply(a)
        PROVE  TypeOK'
    <2>1. done' \in [Runs -> SUBSET Steps]
      BY <1>5, AttemptParts DEF Reply, TypeOK
    <2>2. QED
      BY <1>5, <2>1 DEF Reply, TypeOK
  <1>6. ASSUME NEW a \in Attempts, TranscribeAnswered(a)
        PROVE  TypeOK'
    <2>1. absent' \subseteq Attempts
      BY <1>6 DEF TranscribeAnswered, NotesAbsence, TypeOK
    <2>2. QED
      BY <1>6, <2>1, GrantedType DEF TranscribeAnswered, TypeOK
  <1>7. ASSUME NEW a \in Attempts, FinalizeAnswered(a)
        PROVE  TypeOK'
    <2>1. /\ pc' \in [Attempts -> PC]
          /\ transcript' \in Attempts \cup {NoGen}
          /\ segs' \subseteq Generations
      BY <1>7, SaveType DEF FinalizeAnswered, TypeOK, PC
    <2>2. absent' \subseteq Attempts
      BY <1>7 DEF FinalizeAnswered, NotesAbsence, TypeOK
    <2>3. QED
      BY <1>7, <2>1, <2>2 DEF FinalizeAnswered, TypeOK
  <1>8. ASSUME NEW a \in Attempts, FinalizeSaves(a)
        PROVE  TypeOK'
    BY <1>8, SaveType DEF FinalizeSaves, TypeOK
  <1>9. ASSUME NEW a \in Attempts, FinalizeNamed(a)
        PROVE  TypeOK'
    <2>1. /\ pc' \in [Attempts -> PC]
          /\ status' \in MeetingStatus
          /\ view' \subseteq Attempts \X Generations
      BY <1>9, GrantedType DEF FinalizeNamed, TypeOK, PC
    <2>2. QED
      BY <1>9, <2>1 DEF FinalizeNamed, TypeOK
  <1>10. ASSUME NEW a \in Attempts, EmbedAnswered(a)
         PROVE  TypeOK'
    <2> DEFINE found == {w \in vecs : <<a, w[2]>> \in view}
    <2>1. \A v \in found : v \in Embeddings
      BY DEF TypeOK
    <2>2. prior' = prior \cup {<<a, v>> : v \in found}
      BY <1>10 DEF EmbedAnswered
    <2>3. prior' \subseteq Attempts \X Embeddings
      <3>1. ASSUME NEW p \in {<<a, v>> : v \in found}
            PROVE  p \in Attempts \X Embeddings
        <4>1. PICK v \in found : p = <<a, v>>
          BY <3>1
        <4>2. v \in Embeddings
          BY <2>1
        <4> HIDE DEF found
        <4>3. QED
          BY <4>1, <4>2
      <3> HIDE DEF found
      <3>2. QED
        BY <2>2, <3>1 DEF TypeOK
    <2>4. QED
      BY <1>10, <2>3, GrantedType DEF EmbedAnswered, TypeOK
  <1>11. ASSUME NEW a \in Attempts,
                AnalyzeAnswered(a) \/ AnalyzeFails(a) \/ ProviderFails(a) \/ BusyTimeout(a)
         PROVE  TypeOK'
    <2>1. pc' \in [Attempts -> PC]
      BY <1>11 DEF AnalyzeAnswered, AnalyzeFails, ProviderFails, BusyTimeout, TypeOK, PC
    <2>2. faults' \in 0 .. MaxFaults
      BY <1>11, ConstantsOK
      DEF AnalyzeAnswered, AnalyzeFails, ProviderFails, BusyTimeout, TypeOK, Fault
    <2>3. newest' \in Attempts \cup {NoGen}
      BY <1>11 DEF AnalyzeAnswered, AnalyzeFails, ProviderFails, BusyTimeout, TypeOK
    <2>4. QED
      BY <1>11, <2>1, <2>2, <2>3
      DEF AnalyzeAnswered, AnalyzeFails, ProviderFails, BusyTimeout, TypeOK
  <1>12. ASSUME NEW a \in Attempts, Flush(a)
         PROVE  TypeOK'
    BY <1>12, GrantedType DEF Flush, TypeOK
  <1>13. ASSUME NEW a \in Attempts, Commit(a)
         PROVE  TypeOK'
    <2>1. pc' \in [Attempts -> PC]
      BY <1>13 DEF Commit, TypeOK, PC
    <2>2. /\ status' \in MeetingStatus
          /\ transcript' \in Attempts \cup {NoGen}
          /\ segs' \subseteq Generations
          /\ analyses' \subseteq Attempts /\ newest' \in Attempts \cup {NoGen}
      BY <1>13 DEF Commit, StatusWrite, TranscriptWrite, EmbeddingWrite, AnalysisWrite,
                   ReplaceTranscript, TypeOK, MeetingStatus, Generations
    <2>3. vecs' \subseteq Embeddings
      BY <1>13 DEF Commit, StatusWrite, TranscriptWrite, EmbeddingWrite, AnalysisWrite,
                   TypeOK, Embeddings
    <2>4. prior' \subseteq prior /\ absent' \subseteq absent
      BY <1>13 DEF Commit
    <2>5. QED
      BY <1>13, <2>1, <2>2, <2>3, <2>4 DEF Commit, TypeOK
  <1>14. ASSUME LateWebhook
         PROVE  TypeOK'
    <2>1. segs' \subseteq Generations /\ partials' \in BOOLEAN
      BY <1>14 DEF LateWebhook, TypeOK, Generations
    <2>2. QED
      BY <1>14, <2>1, ConstantsOK DEF LateWebhook, Fault, TypeOK
  <1>15. ASSUME WorkerRestart
         PROVE  TypeOK'
    <2>1. pc' \in [Attempts -> PC]
      BY <1>15 DEF WorkerRestart, TypeOK, PC
    <2>2. QED
      BY <1>15, <2>1, ConstantsOK DEF WorkerRestart, Fault, TypeOK
  <1>16. CASE UNCHANGED vars
    BY <1>16 DEF vars, TypeOK
  <1>17. QED
    BY <1>1, <1>2, <1>3, <1>4, <1>5, <1>6, <1>7, <1>8, <1>9, <1>10, <1>11, <1>12,
       <1>13, <1>14, <1>15, <1>16, NextCases

\* Every variable keeps its type: in particular a meeting only ever takes the status it
\* had, one that process-meeting marks it with, or the `uploaded' of finalize, and only
\* embeddings and analyses of requests that were made are stored.
THEOREM TypeCorrect == Spec => []TypeOK
  BY TypeInit, TypeStep, PTL DEF Spec

-----------------------------------------------------------------------------
\* Where a request of step st may be put.
Fits(st, x) ==
    /\ x \in {"saving", "naming"} => st = "finalize"
    /\ st \in Marks => x \in {"flushing", "committed", "failed"}

\* Only a request that is granted the lock, or has it, holds it afterwards; a mark
\* needs the lock unless its status is stored.
TakesLock(a, x) ==
    /\ x = "written" \/ (a[2] = "analyze" /\ x = "awaiting") => LockFree \/ HoldsLock(a)
    /\ a[2] \in Marks /\ x = "committed" => LockFree \/ status = a[2]

\* Request a is made and put to x.
Begins(a, x) ==
    /\ Dispatch(a) /\ UNCHANGED done
    /\ x \in {"awaiting", "flushing", "committed"}
    /\ Fits(a[2], x) /\ TakesLock(a, x)
    /\ pc' = [pc EXCEPT ![a] = x]

\* Request a goes on, and is put to x.
Proceeds(a, x) ==
    /\ pc[a] \in Running /\ UNCHANGED inngestVars
    /\ x \in PC \ {"idle", "lost"}
    /\ x = "awaiting" => a[2] = "analyze"
    /\ x = "saving" => pc[a] = "awaiting"
    /\ x = "committed" => a[2] # "transcribe" /\ a[2] # "embed" /\ a[2] # "analyze"
    /\ Fits(a[2], x) /\ TakesLock(a, x)
    /\ pc' = [pc EXCEPT ![a] = x]

\* A request that is granted the lock.
LEMMA GrantedMoves ==
    ASSUME NEW a \in Attempts, LockFree, Granted(a)
    PROVE  \E x \in {"awaiting", "written", "committed", "failed"} :
             /\ x = "awaiting" => a[2] = "analyze"
             /\ x = "written" => a[2] \in {"transcribe", "finalize", "embed"}
             /\ x = "committed" <=> a[2] \in Marks
             /\ x = "failed" => a[2] = "transcribe"
             /\ Fits(a[2], x) /\ TakesLock(a, x)
             /\ pc' = [pc EXCEPT ![a] = x]
  <1>1. CASE a[2] \in Marks /\ pc' = [pc EXCEPT ![a] = "committed"]
    BY <1>1 DEF Fits, TakesLock
  <1>2. CASE a[2] = "analyze" /\ pc' = [pc EXCEPT ![a] = "awaiting"]
    BY <1>2 DEF Fits, TakesLock, Marks
  <1>3. CASE a[2] \in {"transcribe", "finalize", "embed"} /\ pc' = [pc EXCEPT ![a] = "written"]
    BY <1>3 DEF Fits, TakesLock, Marks
  <1>4. CASE a[2] = "transcribe" /\ pc' = [pc EXCEPT ![a] = "failed"]
    BY <1>4 DEF Fits, TakesLock, Marks
  <1>5. QED
    BY <1>1, <1>2, <1>3, <1>4 DEF Granted

\* A request that writes.
LEMMA WritesMoves ==
    ASSUME NEW a \in Attempts, Writes(a)
    PROVE  \E x \in {"awaiting", "flushing", "written", "committed", "failed"} :
             /\ x = "awaiting" => a[2] = "analyze"
             /\ x = "written" => a[2] \in {"transcribe", "finalize", "embed"}
             /\ x = "committed" => a[2] \in Marks
             /\ x = "failed" => a[2] = "transcribe"
             /\ Fits(a[2], x) /\ TakesLock(a, x)
             /\ pc' = [pc EXCEPT ![a] = x]
  <1>1. CASE pc' = [pc EXCEPT ![a] = "flushing"]
    BY <1>1 DEF Fits, TakesLock
  <1>2. CASE LockFree /\ Granted(a)
    BY <1>2, GrantedMoves
  <1>3. QED
    BY <1>1, <1>2, WritesCases

\* What every step does to the requests.
LEMMA NextMoves ==
    ASSUME TypeOK, StepsFit, Next
    PROVE  \/ \E a \in Attempts, x \in PC : Begins(a, x) \/ Proceeds(a, x)
           \/ \E a \in Attempts : Reply(a) \/ Commit(a)
           \/ LateWebhook
           \/ WorkerRestart
  <1> USE DEF contentVars, rowVars, inngestVars, readVars
  <1>1. ASSUME NEW a \in Attempts, MarkBegin(a)
        PROVE  \E x \in PC : Begins(a, x)
    <2>1. CASE status = a[2] /\ pc' = [pc EXCEPT ![a] = "committed"]
      BY <1>1, <2>1 DEF MarkBegin, Begins, Fits, TakesLock, PC
    <2>2. CASE Writes(a)
      BY <1>1, <2>2, WritesMoves DEF MarkBegin, Begins, Marks, PC
    <2>3. QED
      BY <1>1, <2>1, <2>2 DEF MarkBegin
  <1>2. ASSUME NEW a \in Attempts, PullBegin(a)
        PROVE  \E x \in PC : Begins(a, x)
    BY <1>2 DEF PullBegin, Begins, Fits, TakesLock, Marks, PC
  <1>3. ASSUME NEW a \in Attempts, EmbedBegin(a)
        PROVE  \E x \in PC : Begins(a, x)
    BY <1>3 DEF EmbedBegin, Begins, Fits, TakesLock, Marks, PC
  <1>4. ASSUME NEW a \in Attempts, AnalyzeBegin(a)
        PROVE  \E x \in PC : Begins(a, x)
    BY <1>4, WritesMoves DEF AnalyzeBegin, Begins, Marks, PC
  <1>5. ASSUME NEW a \in Attempts, TranscribeAnswered(a) \/ EmbedAnswered(a)
        PROVE  \E x \in PC : Proceeds(a, x)
    <2>1. /\ pc[a] = "awaiting" /\ Writes(a) /\ UNCHANGED inngestVars
          /\ a[2] \in {"transcribe", "embed"}
      BY <1>5 DEF TranscribeAnswered, EmbedAnswered
    <2>2. QED
      BY <2>1, WritesMoves DEF Proceeds, Running, Marks, PC
  <1>6. ASSUME NEW a \in Attempts, FinalizeAnswered(a)
        PROVE  \E x \in PC : Proceeds(a, x)
    <2>1. PICK x \in {"committed", "naming", "failed", "saving"} : pc' = [pc EXCEPT ![a] = x]
      BY <1>6 DEF FinalizeAnswered, SaveTranscript
    <2>2. QED
      BY <1>6, <2>1 DEF FinalizeAnswered, Proceeds, Fits, TakesLock, Running, Marks, PC
  <1>7. ASSUME NEW a \in Attempts, FinalizeSaves(a)
        PROVE  \E x \in PC : Proceeds(a, x)
    <2>1. PICK x \in {"naming", "failed"} : pc' = [pc EXCEPT ![a] = x]
      BY <1>7 DEF FinalizeSaves, SaveTranscript
    <2>2. a[2] = "finalize"
      BY <1>7 DEF FinalizeSaves, StepsFit
    <2>3. QED
      BY <1>7, <2>1, <2>2 DEF FinalizeSaves, Proceeds, Fits, TakesLock, Running, Marks, PC
  <1>8. ASSUME NEW a \in Attempts, FinalizeNamed(a)
        PROVE  \E x \in PC : Proceeds(a, x)
    <2>1. a[2] = "finalize" /\ pc[a] = "naming" /\ UNCHANGED inngestVars
      BY <1>8 DEF FinalizeNamed, StepsFit
    <2>2. CASE pc' = [pc EXCEPT ![a] = "committed"]
      BY <2>1, <2>2 DEF Proceeds, Fits, TakesLock, Running, Marks, PC
    <2>3. CASE Writes(a)
      BY <2>1, <2>3, WritesMoves DEF Proceeds, Running, Marks, PC
    <2>4. QED
      BY <1>8, <2>2, <2>3 DEF FinalizeNamed
  <1>9. ASSUME NEW a \in Attempts, AnalyzeAnswered(a)
        PROVE  \E x \in PC : Proceeds(a, x)
    BY <1>9
    DEF AnalyzeAnswered, HoldsAcrossAwait, HoldsLock, Proceeds, Fits, TakesLock, Running, Marks, PC
  <1>10. ASSUME NEW a \in Attempts, AnalyzeFails(a) \/ ProviderFails(a) \/ BusyTimeout(a)
         PROVE  \E x \in PC : Proceeds(a, x)
    BY <1>10
    DEF AnalyzeFails, ProviderFails, BusyTimeout, HoldsAcrossAwait, Proceeds, Fits, TakesLock,
        Running, PC
  <1>11. ASSUME NEW a \in Attempts, Flush(a)
         PROVE  \E x \in PC : Proceeds(a, x)
    BY <1>11, GrantedMoves DEF Flush, Proceeds, Running, Marks, PC
  <1>12. QED
    BY <1>1, <1>2, <1>3, <1>4, <1>5, <1>6, <1>7, <1>8, <1>9, <1>10, <1>11, NextCases

-----------------------------------------------------------------------------
\* A request that is made had not been made before, and its step was not done.
LEMMA BeginsFresh ==
    ASSUME TypeOK, StepsInOrder, NEW a \in Attempts, NEW x, Begins(a, x)
    PROVE  /\ pc[a] = "idle"
           /\ a[2] \notin done[a[1]] /\ Needs(a[2]) \subseteq done[a[1]]
           /\ a[3] = tries[a[1]][a[2]] + 1
           /\ tries' = [tries EXCEPT ![a[1]][a[2]] = a[3]]
  <1>1. /\ a[3] = tries[a[1]][a[2]] + 1
        /\ a[2] \notin done[a[1]] /\ Needs(a[2]) \subseteq done[a[1]]
        /\ tries' = [tries EXCEPT ![a[1]][a[2]] = a[3]]
    BY DEF Begins, Dispatch
  <1>2. tries[a[1]][a[2]] \in Nat
    BY AttemptParts DEF TypeOK
  <1>3. ~(a[3] <= tries[a[1]][a[2]])
    BY <1>1, <1>2
  <1>4. QED
    BY <1>1, <1>3 DEF StepsInOrder

\* Every step keeps the order of the steps, their answers and their places.
LEMMA BookStep ==
    ASSUME TypeOK, StepsInOrder, AnswerStands, StepsFit, [Next]_vars
    PROVE  StepsInOrder' /\ AnswerStands' /\ StepsFit'
  <1> USE DEF contentVars, rowVars, inngestVars, readVars
  <1>1. ASSUME NEW a \in Attempts, NEW x \in PC, Begins(a, x)
        PROVE  StepsInOrder' /\ AnswerStands' /\ StepsFit'
    <2>1. /\ pc[a] = "idle"
          /\ a[2] \notin done[a[1]] /\ Needs(a[2]) \subseteq done[a[1]]
          /\ a[3] = tries[a[1]][a[2]] + 1
          /\ tries' = [tries EXCEPT ![a[1]][a[2]] = a[3]]
      BY <1>1, BeginsFresh
    <2>2. done' = done /\ Fits(a[2], x) /\ pc' = [pc EXCEPT ![a] = x]
      BY <1>1 DEF Begins
    <2>3. /\ a[1] \in Runs /\ a[2] \in Steps /\ a[3] \in 1 .. MaxAttempts
          /\ tries[a[1]][a[2]] \in Nat
      BY AttemptParts DEF TypeOK
    <2>4. \A r \in Runs : \A st \in done[r] : tries'[r][st] = tries[r][st]
      BY <2>1, <2>3 DEF TypeOK
    <2>5. AnswerStands'
      <3> SUFFICES ASSUME NEW r \in Runs, NEW st \in done[r]
                   PROVE  /\ tries'[r][st] \in 1 .. MaxAttempts
                          /\ pc'[<<r, st, tries'[r][st]>>] \in {"written", "committed", "lost"}
        BY <2>2 DEF AnswerStands
      <3>1. /\ tries[r][st] \in 1 .. MaxAttempts
            /\ pc[<<r, st, tries[r][st]>>] \in {"written", "committed", "lost"}
        BY DEF AnswerStands
      <3>2. <<r, st, tries[r][st]>> \in Attempts
        BY <3>1, AttemptOf DEF TypeOK
      <3>3. QED
        BY <2>1, <2>2, <2>4, <3>1, <3>2 DEF TypeOK
    <2>6. StepsInOrder'
      <3> SUFFICES ASSUME NEW b \in Attempts, pc'[b] # "idle"
                   PROVE  Needs(b[2]) \subseteq done[b[1]] /\ b[3] <= tries'[b[1]][b[2]]
        BY <2>2 DEF StepsInOrder
      <3>1. /\ b[1] \in Runs /\ b[2] \in Steps /\ b[3] \in 1 .. MaxAttempts
            /\ tries[b[1]][b[2]] \in Nat
        BY AttemptParts DEF TypeOK
      <3>2. CASE b = a
        BY <2>1, <2>3, <3>2 DEF TypeOK
      <3>3. CASE b # a
        <4>1. Needs(b[2]) \subseteq done[b[1]] /\ b[3] <= tries[b[1]][b[2]]
          BY <2>2, <3>3 DEF StepsInOrder, TypeOK
        <4>2. tries'[b[1]][b[2]] >= tries[b[1]][b[2]]
          BY <2>1, <2>3, <3>1 DEF TypeOK
        <4>3. tries'[b[1]][b[2]] \in Nat
          BY <2>1, <2>3, <3>1 DEF TypeOK
        <4>4. QED
          BY <4>1, <4>2, <4>3, <3>1
      <3>4. QED
        BY <3>2, <3>3
    <2>7. StepsFit'
      BY <2>2 DEF StepsFit, Fits, TypeOK
    <2>8. QED
      BY <2>5, <2>6, <2>7
  <1>2. ASSUME NEW a \in Attempts, NEW x \in PC, Proceeds(a, x)
        PROVE  StepsInOrder' /\ AnswerStands' /\ StepsFit'
    <2>1. /\ pc[a] \in Running /\ x # "idle" /\ done' = done /\ tries' = tries
          /\ Fits(a[2], x) /\ pc' = [pc EXCEPT ![a] = x]
      BY <1>2 DEF Proceeds
    <2>2. \A b \in Attempts : pc[b] \in {"written", "committed", "lost"} => pc'[b] = pc[b]
      BY <2>1 DEF TypeOK, Running
    <2>3. AnswerStands'
      BY <2>1, <2>2, AttemptOf DEF AnswerStands, TypeOK
    <2>4. \A b \in Attempts : pc'[b] # "idle" => pc[b] # "idle"
      BY <2>1 DEF TypeOK, Running
    <2>5. StepsInOrder'
      BY <2>1, <2>4 DEF StepsInOrder
    <2>6. StepsFit'
      BY <2>1 DEF StepsFit, Fits, TypeOK
    <2>7. QED
      BY <2>3, <2>5, <2>6
  <1>3. ASSUME NEW a \in Attempts, Reply(a)
        PROVE  StepsInOrder' /\ AnswerStands' /\ StepsFit'
    <2>1. /\ pc' = pc /\ tries' = tries
          /\ done' = [done EXCEPT ![a[1]] = @ \cup {a[2]}]
          /\ a[3] = tries[a[1]][a[2]] /\ pc[a] \in {"written", "committed"}
      BY <1>3 DEF Reply, Latest
    <2>2. /\ a[1] \in Runs /\ a[2] \in Steps /\ a[3] \in 1 .. MaxAttempts
          /\ a = <<a[1], a[2], a[3]>>
      BY AttemptParts
    <2>3. \A r \in Runs : done[r] \subseteq done'[r]
      BY <2>1, <2>2 DEF TypeOK
    <2>4. StepsInOrder'
      BY <2>1, <2>3, AttemptParts DEF StepsInOrder
    <2>5. \A r \in Runs : \A st \in done'[r] : st \in done[r] \/ (r = a[1] /\ st = a[2])
      BY <2>1, <2>2 DEF TypeOK
    <2>6. AnswerStands'
      BY <2>1, <2>2, <2>5 DEF AnswerStands
    <2>7. StepsFit'
      BY <2>1 DEF StepsFit
    <2>8. QED
      BY <2>4, <2>6, <2>7
  <1>4. ASSUME NEW a \in Attempts, Commit(a)
        PROVE  StepsInOrder' /\ AnswerStands' /\ StepsFit'
    <2>1. /\ pc[a] = "written" /\ done' = done /\ tries' = tries
          /\ pc' = [pc EXCEPT ![a] = "committed"]
      BY <1>4 DEF Commit
    <2>2. \A b \in Attempts :
            pc'[b] = pc[b] \/ (pc[b] = "written" /\ pc'[b] = "committed")
      BY <2>1 DEF TypeOK
    <2>3. AnswerStands'
      BY <2>1, <2>2, AttemptOf DEF AnswerStands, TypeOK
    <2>4. StepsInOrder' /\ StepsFit'
      BY <2>1, <2>2 DEF StepsInOrder, StepsFit
    <2>5. QED
      BY <2>3, <2>4
  <1>5. ASSUME WorkerRestart
        PROVE  StepsInOrder' /\ AnswerStands' /\ StepsFit'
    <2>1. done' = done /\ tries' = tries
      BY <1>5 DEF WorkerRestart
    <2>2. \A b \in Attempts :
            pc'[b] = IF pc[b] \in Running THEN "failed"
                     ELSE IF pc[b] = "written" THEN IF Answers(b) THEN "lost" ELSE "failed"
                     ELSE pc[b]
      BY <1>5 DEF WorkerRestart
    <2>3. AnswerStands'
      <3> SUFFICES ASSUME NEW r \in Runs, NEW st \in done[r]
                   PROVE  /\ tries[r][st] \in 1 .. MaxAttempts
                          /\ pc'[<<r, st, tries[r][st]>>] \in {"written", "committed", "lost"}
        BY <2>1 DEF AnswerStands
      <3>1. /\ tries[r][st] \in 1 .. MaxAttempts
            /\ pc[<<r, st, tries[r][st]>>] \in {"written", "committed", "lost"}
        BY DEF AnswerStands
      <3>2. <<r, st, tries[r][st]>> \in Attempts
        BY <3>1, AttemptOf DEF TypeOK
      <3>3. Answers(<<r, st, tries[r][st]>>)
        BY DEF Answers, Latest
      <3>4. QED
        BY <2>2, <3>1, <3>2, <3>3 DEF Running
    <2>4. StepsInOrder'
      BY <2>1, <2>2 DEF StepsInOrder, Running
    <2>5. StepsFit'
      BY <2>2 DEF StepsFit, Running
    <2>6. QED
      BY <2>3, <2>4, <2>5
  <1>6. CASE LateWebhook \/ UNCHANGED vars
    <2>1. done' = done /\ tries' = tries /\ pc' = pc
      BY <1>6 DEF LateWebhook, vars
    <2>2. QED
      BY <2>1 DEF StepsInOrder, AnswerStands, StepsFit
  <1>7. QED
    BY <1>1, <1>2, <1>3, <1>4, <1>5, <1>6, NextMoves

\* Every step keeps the lock with one holder at most.
LEMMA LockStep ==
    ASSUME TypeOK, StepsInOrder, StepsFit, OneWriter, [Next]_vars
    PROVE  OneWriter'
  <1> USE DEF contentVars, rowVars, inngestVars, readVars
  <1>1. ASSUME NEW a \in Attempts, NEW x, pc' = [pc EXCEPT ![a] = x], TakesLock(a, x)
        PROVE  OneWriter'
    <2>1. \A b \in Attempts : b # a => (HoldsLock(b)' <=> HoldsLock(b))
      BY <1>1 DEF HoldsLock, HoldsAcrossAwait, TypeOK
    <2>2. HoldsLock(a)' => LockFree \/ HoldsLock(a)
      BY <1>1 DEF HoldsLock, HoldsAcrossAwait, TypeOK, TakesLock
    <2>3. QED
      BY <2>1, <2>2 DEF OneWriter, LockFree
  <1>2. ASSUME NEW a \in Attempts, Commit(a)
        PROVE  OneWriter'
    <2>1. pc' = [pc EXCEPT ![a] = "committed"] /\ TakesLock(a, "committed")
      BY <1>2 DEF Commit, TakesLock, StepsFit
    <2>2. QED
      BY <1>1, <2>1
  <1>3. ASSUME WorkerRestart
        PROVE  OneWriter'
    BY <1>3 DEF WorkerRestart, OneWriter, HoldsLock, HoldsAcrossAwait, Running
  <1>4. ASSUME pc' = pc
        PROVE  OneWriter'
    BY <1>4 DEF OneWriter, HoldsLock, HoldsAcrossAwait
  <1>5. ASSUME LateWebhook \/ UNCHANGED vars \/ \E a \in Attempts : Reply(a)
        PROVE  OneWriter'
    <2>1. pc' = pc
      BY <1>5 DEF LateWebhook, vars, Reply
    <2>2. QED
      BY <1>4, <2>1
  <1>6. QED
    BY <1>1, <1>2, <1>3, <1>5, NextMoves DEF Begins, Proceeds

-----------------------------------------------------------------------------
\* What a step may do to the rows, to what has been read and to the answers.

\* It does not touch what FinishedRunIsServed speaks of.
Quiet ==
    /\ UNCHANGED <<transcript, segs, vecs, analyses, newest, view, done>>
    /\ \A g \in Attempts : Answers(g)' <=> Answers(g)
    /\ \A b \in Attempts :
         /\ b[2] = "embed" /\ pc[b] = "idle" => pc'[b] = "idle"
         /\ b[2] \in {"embed", "analyze"} /\ pc'[b] = "committed" => pc[b] = "committed"
         /\ b[2] = "analyze" /\ HoldsLock(b)' => HoldsLock(b)

\* finalize stores the transcript it has pulled.
Stores(g) ==
    /\ g[2] = "finalize" /\ LockFree /\ pc[g] \in {"awaiting", "saving"}
    /\ pc' = [pc EXCEPT ![g] = "naming"]
    /\ ReplaceTranscript(g)
    /\ UNCHANGED <<vecs, analyses, newest, view, done, tries>>

\* run_analysis gets the lock and reads the segments.
Sees(a) ==
    /\ a[2] = "analyze" /\ LockFree
    /\ view' = view \cup ({a} \X segs)
    /\ pc' = [pc EXCEPT ![a] = "awaiting"]
    /\ UNCHANGED <<transcript, segs, vecs, analyses, newest, done>>
    /\ \A g \in Attempts : Answers(g)' <=> Answers(g)

\* A step that memoises nothing new and counts at most an attempt at a step that
\* has no answer leaves the answers as they are.
LEMMA SameAnswers ==
    ASSUME TypeOK, StepsInOrder, done' = done,
           tries' = tries \/ \E a \in Attempts : Dispatch(a)
    PROVE  \A g \in Attempts : Answers(g)' <=> Answers(g)
  <1>1. CASE tries' = tries
    BY <1>1 DEF Answers, Latest
  <1>2. CASE \E a \in Attempts : Dispatch(a)
    <2>1. PICK a \in Attempts :
            /\ a[2] \notin done[a[1]]
            /\ tries' = [tries EXCEPT ![a[1]][a[2]] = a[3]]
      BY <1>2 DEF Dispatch
    <2>2. \A r \in Runs : \A st \in done[r] : tries'[r][st] = tries[r][st]
      BY <2>1, AttemptParts DEF TypeOK
    <2>3. QED
      BY <2>2, AttemptParts DEF Answers, Latest
  <1>3. QED
    BY <1>1, <1>2

\* A move of one request that is quiet.
LEMMA QuietMove ==
    ASSUME TypeOK, StepsInOrder, NEW a \in Attempts, NEW x,
           pc' = [pc EXCEPT ![a] = x],
           a[2] = "embed" => pc[a] # "idle" /\ x # "committed",
           a[2] = "analyze" => /\ x # "committed"
                               /\ x \in {"awaiting", "written"} => HoldsLock(a),
           UNCHANGED <<transcript, segs, vecs, analyses, newest, view, done>>,
           tries' = tries \/ Dispatch(a)
    PROVE  Quiet
  <1>1. \A g \in Attempts : Answers(g)' <=> Answers(g)
    BY SameAnswers
  <1>2. \A b \in Attempts : pc'[b] = IF b = a THEN x ELSE pc[b]
    BY DEF TypeOK
  <1>3. ASSUME NEW b \in Attempts
        PROVE  /\ b[2] = "embed" /\ pc[b] = "idle" => pc'[b] = "idle"
               /\ b[2] \in {"embed", "analyze"} /\ pc'[b] = "committed" => pc[b] = "committed"
               /\ b[2] = "analyze" /\ HoldsLock(b)' => HoldsLock(b)
    <2>1. CASE b = a
      BY <1>2, <2>1 DEF HoldsLock, HoldsAcrossAwait
    <2>2. CASE b # a
      BY <1>2, <2>2 DEF HoldsLock, HoldsAcrossAwait
    <2>3. QED
      BY <2>1, <2>2
  <1>4. QED
    BY <1>1, <1>3 DEF Quiet

\* Of a request that writes: it reads the segments for an analysis, or is quiet.
LEMMA WritesData ==
    ASSUME TypeOK, StepsInOrder, NEW a \in Attempts,
           Writes(a) \/ (LockFree /\ Granted(a)),
           a[2] = "embed" => pc[a] # "idle",
           UNCHANGED <<transcript, segs, vecs, analyses, newest, done>>,
           tries' = tries \/ Dispatch(a)
    PROVE  Quiet \/ Sees(a)
  <1>1. CASE pc' = [pc EXCEPT ![a] = "flushing"] /\ UNCHANGED view
    BY <1>1, QuietMove
  <1>2. CASE LockFree /\ Granted(a)
    <2>1. CASE a[2] = "analyze"
      <3>1. view' = view \cup ({a} \X segs) /\ pc' = [pc EXCEPT ![a] = "awaiting"]
        BY <1>2, <2>1 DEF Granted, Marks
      <3>2. QED
        BY <1>2, <2>1, <3>1, SameAnswers DEF Sees
    <2>2. CASE a[2] # "analyze"
      <3>1. view' = view
        BY <1>2, <2>2 DEF Granted
      <3>2. PICK x \in {"awaiting", "written", "committed", "failed"} :
              /\ x = "committed" => a[2] \in Marks
              /\ pc' = [pc EXCEPT ![a] = x]
        BY <1>2, GrantedMoves
      <3>3. QED
        BY <2>2, <3>1, <3>2, QuietMove DEF Marks
    <2>3. QED
      BY <2>1, <2>2
  <1>3. QED
    BY <1>1, <1>2, WritesCases

\* Of finalize's transcript: it is stored, or refused by the constraint.
LEMMA SaveData ==
    ASSUME TypeOK, StepsInOrder, NEW a \in Attempts, SaveTranscript(a), LockFree,
           a[2] = "finalize", pc[a] \in {"awaiting", "saving"},
           UNCHANGED <<vecs, analyses, newest, view, inngestVars>>
    PROVE  Quiet \/ Stores(a)
  <1>1. CASE pc' = [pc EXCEPT ![a] = "failed"] /\ UNCHANGED <<transcript, segs>>
    BY <1>1, QuietMove DEF inngestVars
  <1>2. CASE pc' = [pc EXCEPT ![a] = "naming"] /\ ReplaceTranscript(a)
    BY <1>2 DEF Stores, inngestVars
  <1>3. QED
    BY <1>1, <1>2 DEF SaveTranscript

\* What every step does.
LEMMA NextData ==
    ASSUME TypeOK, StepsInOrder, StepsFit, Next
    PROVE  \/ Quiet
           \/ \E a \in Attempts : \/ Stores(a) \/ Sees(a) \/ EmbedBegin(a) \/ Reply(a)
                                  \/ AnalyzeFails(a) \/ Commit(a)
           \/ LateWebhook
  <1> USE DEF contentVars, rowVars, inngestVars, readVars
  <1>1. ASSUME NEW a \in Attempts, MarkBegin(a)
        PROVE  Quiet \/ Sees(a)
    <2>1. CASE pc' = [pc EXCEPT ![a] = "committed"] /\ UNCHANGED view
      BY <1>1, <2>1, QuietMove DEF MarkBegin, Marks
    <2>2. CASE Writes(a)
      BY <1>1, <2>2, WritesData DEF MarkBegin, Marks
    <2>3. QED
      BY <1>1, <2>1, <2>2 DEF MarkBegin
  <1>2. ASSUME NEW a \in Attempts, PullBegin(a)
        PROVE  Quiet
    BY <1>2, QuietMove DEF PullBegin
  <1>3. ASSUME NEW a \in Attempts, AnalyzeBegin(a)
        PROVE  Quiet \/ Sees(a)
    BY <1>3, WritesData DEF AnalyzeBegin
  <1>4. ASSUME NEW a \in Attempts, TranscribeAnswered(a) \/ EmbedAnswered(a)
        PROVE  Quiet \/ Sees(a)
    BY <1>4, WritesData DEF TranscribeAnswered, EmbedAnswered
  <1>5. ASSUME NEW a \in Attempts, FinalizeAnswered(a)
        PROVE  Quiet \/ Stores(a)
    <2>1. CASE LockFree /\ SaveTranscript(a)
      BY <1>5, <2>1, SaveData DEF FinalizeAnswered
    <2>2. CASE /\ UNCHANGED <<transcript, segs>>
               /\ \E x \in {"committed", "naming", "saving"} : pc' = [pc EXCEPT ![a] = x]
      BY <1>5, <2>2, QuietMove DEF FinalizeAnswered
    <2>3. QED
      BY <1>5, <2>1, <2>2 DEF FinalizeAnswered
  <1>6. ASSUME NEW a \in Attempts, FinalizeSaves(a)
        PROVE  Quiet \/ Stores(a)
    BY <1>6, SaveData DEF FinalizeSaves, StepsFit
  <1>7. ASSUME NEW a \in Attempts, FinalizeNamed(a)
        PROVE  Quiet \/ Sees(a)
    <2>1. a[2] = "finalize"
      BY <1>7 DEF FinalizeNamed, StepsFit
    <2>2. CASE pc' = [pc EXCEPT ![a] = "committed"] /\ UNCHANGED view
      BY <1>7, <2>1, <2>2, QuietMove DEF FinalizeNamed
    <2>3. CASE Writes(a)
      BY <1>7, <2>1, <2>3, WritesData DEF FinalizeNamed
    <2>4. QED
      BY <1>7, <2>2, <2>3 DEF FinalizeNamed
  <1>8. ASSUME NEW a \in Attempts, AnalyzeAnswered(a)
        PROVE  Quiet
    BY <1>8, QuietMove DEF AnalyzeAnswered, HoldsAcrossAwait, HoldsLock
  <1>9. ASSUME NEW a \in Attempts, ProviderFails(a) \/ BusyTimeout(a)
        PROVE  Quiet
    BY <1>9, QuietMove DEF ProviderFails, BusyTimeout
  <1>10. ASSUME NEW a \in Attempts, Flush(a)
         PROVE  Quiet \/ Sees(a)
    BY <1>10, WritesData DEF Flush
  <1>11. ASSUME WorkerRestart
         PROVE  Quiet
    <2>1. \A g \in Attempts : Answers(g)' <=> Answers(g)
      BY <1>11 DEF WorkerRestart, Answers, Latest
    <2>2. \A b \in Attempts : pc'[b] = pc[b] \/ pc'[b] \in {"failed", "lost"}
      BY <1>11 DEF WorkerRestart
    <2>3. \A b \in Attempts : pc[b] = "idle" => pc'[b] = "idle"
      BY <1>11 DEF WorkerRestart, Running
    <2>4. QED
      BY <1>11, <2>1, <2>2, <2>3 DEF WorkerRestart, Quiet, HoldsLock, HoldsAcrossAwait
  <1>12. QED
    BY <1>1, <1>2, <1>3, <1>4, <1>5, <1>6, <1>7, <1>8, <1>9, <1>10, <1>11, NextCases

-----------------------------------------------------------------------------
\* The final segments stay those of the transcripts row.
LEMMA WholeStep ==
    ASSUME TypeOK, StepsInOrder, StepsFit, TranscriptIsWhole, [Next]_vars
    PROVE  TranscriptIsWhole'
  <1> USE DEF TranscriptIsWhole, contentVars, rowVars, inngestVars, readVars
  <1>1. ASSUME UNCHANGED <<transcript, segs>>
        PROVE  TranscriptIsWhole'
    BY <1>1
  <1>2. ASSUME NEW a \in Attempts, ReplaceTranscript(a)
        PROVE  TranscriptIsWhole'
    BY <1>2 DEF ReplaceTranscript
  <1>3. ASSUME NEW a \in Attempts, Commit(a)
        PROVE  TranscriptIsWhole'
    BY <1>1, <1>2, <1>3
    DEF Commit, StatusWrite, TranscriptWrite, EmbeddingWrite, AnalysisWrite
  <1>4. ASSUME LateWebhook
        PROVE  TranscriptIsWhole'
    BY <1>4 DEF LateWebhook
  <1>5. ASSUME NEW a \in Attempts,
               Stores(a) \/ Sees(a) \/ EmbedBegin(a) \/ Reply(a) \/ AnalyzeFails(a)
        PROVE  TranscriptIsWhole'
    BY <1>1, <1>2, <1>5 DEF Stores, Sees, EmbedBegin, Reply, AnalyzeFails
  <1>6. CASE Quiet \/ UNCHANGED vars
    BY <1>1, <1>6 DEF Quiet, vars
  <1>7. QED
    BY <1>3, <1>4, <1>5, <1>6, NextData

\* A memoised step has a request that was answered and has not been undone.
LEMMA AnsweredAttempt ==
    ASSUME TypeOK, AnswerStands, NEW r \in Runs, NEW st \in done[r]
    PROVE  \E a \in Attempts :
             /\ a[1] = r /\ a[2] = st /\ a[3] = tries[r][st]
             /\ pc[a] \in {"written", "committed", "lost"}
  <1>1. /\ tries[r][st] \in 1 .. MaxAttempts
        /\ pc[<<r, st, tries[r][st]>>] \in {"written", "committed", "lost"}
    BY DEF AnswerStands
  <1>2. <<r, st, tries[r][st]>> \in Attempts
    BY <1>1, AttemptOf DEF TypeOK
  <1>3. QED
    BY <1>1, <1>2

\* The status is written by a mark that is granted the lock, when all that its
\* step needs is memoised, and by the commit of finalize.
LEMMA StatusMoves ==
    ASSUME TypeOK, StepsInOrder, StepsFit, Next
    PROVE  \/ status' = status
           \/ \E a \in Attempts : /\ a[2] \in Marks /\ status' = a[2]
                                  /\ LockFree /\ Needs(a[2]) \subseteq done[a[1]]
           \/ \E a \in Attempts : a[2] = "finalize" /\ status' = "uploaded" /\ Commit(a)
  <1> USE DEF contentVars, rowVars, inngestVars, readVars
  <1>1. ASSUME NEW a \in Attempts, Writes(a) \/ (LockFree /\ Granted(a)),
               Dispatch(a) \/ pc[a] # "idle"
        PROVE  \/ status' = status
               \/ /\ a[2] \in Marks /\ status' = a[2]
                  /\ LockFree /\ Needs(a[2]) \subseteq done[a[1]]
    <2>1. Needs(a[2]) \subseteq done[a[1]]
      BY <1>1 DEF Dispatch, StepsInOrder
    <2>2. QED
      BY <1>1, <2>1, WritesCases DEF Granted
  <1>2. ASSUME NEW a \in Attempts, MarkBegin(a) \/ AnalyzeBegin(a)
        PROVE  status' = status \/ ((Writes(a) \/ (LockFree /\ Granted(a))) /\ Dispatch(a))
    BY <1>2 DEF MarkBegin, AnalyzeBegin
  <1>3. ASSUME NEW a \in Attempts,
               TranscribeAnswered(a) \/ FinalizeNamed(a) \/ EmbedAnswered(a) \/ Flush(a)
        PROVE  status' = status \/ ((Writes(a) \/ (LockFree /\ Granted(a))) /\ pc[a] # "idle")
    BY <1>3 DEF TranscribeAnswered, FinalizeNamed, EmbedAnswered, Flush
  <1>4. ASSUME NEW a \in Attempts,
               \/ PullBegin(a) \/ EmbedBegin(a) \/ Reply(a) \/ FinalizeAnswered(a)
               \/ FinalizeSaves(a) \/ AnalyzeAnswered(a) \/ AnalyzeFails(a)
               \/ ProviderFails(a) \/ BusyTimeout(a)
        PROVE  status' = status
    BY <1>4 DEF PullBegin, EmbedBegin, Reply, FinalizeAnswered, FinalizeSaves,
                AnalyzeAnswered, AnalyzeFails, ProviderFails, BusyTimeout
  <1>5. ASSUME NEW a \in Attempts, Commit(a)
        PROVE  status' = status \/ (a[2] = "finalize" /\ status' = "uploaded")
    BY <1>5 DEF Commit, StatusWrite, TranscriptWrite, EmbeddingWrite, AnalysisWrite
  <1>6. ASSUME LateWebhook \/ WorkerRestart
        PROVE  status' = status
    BY <1>6 DEF LateWebhook, WorkerRestart
  <1>7. QED
    BY <1>1, <1>2, <1>3, <1>4, <1>5, <1>6, NextCases

\* An analyzed meeting keeps having an analysis.
LEMMA AnalyzedStep ==
    ASSUME TypeOK, StepsInOrder, AnswerStands, StepsFit, AnalysesStored,
           AnalyzedHasAnalysis, [Next]_vars
    PROVE  AnalysesStored' /\ AnalyzedHasAnalysis'
  <1> USE DEF contentVars, rowVars, inngestVars, readVars
  <1>1. analyses \subseteq analyses'
    <2>1. ASSUME NEW a \in Attempts, Commit(a)
          PROVE  analyses \subseteq analyses'
      BY <2>1 DEF Commit, StatusWrite, TranscriptWrite, EmbeddingWrite, AnalysisWrite
    <2>2. ASSUME NEW a \in Attempts,
                 Stores(a) \/ Sees(a) \/ EmbedBegin(a) \/ Reply(a) \/ AnalyzeFails(a)
          PROVE  analyses' = analyses
      BY <2>2 DEF Stores, Sees, EmbedBegin, Reply, AnalyzeFails
    <2>3. ASSUME LateWebhook \/ Quiet \/ UNCHANGED vars
          PROVE  analyses' = analyses
      BY <2>3 DEF LateWebhook, Quiet, vars
    <2>4. QED
      BY <2>1, <2>2, <2>3, NextData
  <1>2. AnalysesStored'
    <2> SUFFICES ASSUME NEW b \in Attempts, b[2] = "analyze", pc'[b] = "committed"
                 PROVE  b \in analyses'
      BY DEF AnalysesStored
    <2>1. CASE pc[b] = "committed"
      BY <1>1, <2>1 DEF AnalysesStored
    <2>2. ASSUME NEW a \in Attempts, Commit(a), pc[b] # "committed"
          PROVE  b \in analyses'
      <3>1. b = a
        BY <2>2 DEF Commit, TypeOK
      <3>2. QED
        BY <2>2, <3>1 DEF Commit, AnalysisWrite
    <2>3. ASSUME NEW a \in Attempts,
                 Stores(a) \/ Sees(a) \/ EmbedBegin(a) \/ Reply(a) \/ AnalyzeFails(a)
          PROVE  pc[b] = "committed"
      <3>1. pc' = pc \/ (\E x \in {"naming", "awaiting", "failed"} : pc' = [pc EXCEPT ![a] = x])
                     \/ (a # b /\ \E x \in PC : pc' = [pc EXCEPT ![a] = x])
        BY <2>3 DEF Stores, Sees, EmbedBegin, Reply, AnalyzeFails, PC
      <3>2. QED
        BY <3>1 DEF TypeOK
    <2>4. CASE LateWebhook \/ Quiet \/ UNCHANGED vars
      BY <2>1, <2>4 DEF LateWebhook, Quiet, vars
    <2>5. QED
      BY <2>1, <2>2, <2>3, <2>4, NextData
  <1>3. NothingLost' => NothingLost
    <2>1. \A b \in Attempts : pc[b] = "lost" => pc'[b] = "lost"
      <3>1. ASSUME NEW a \in Attempts, NEW x \in PC, Begins(a, x) \/ Proceeds(a, x)
            PROVE  \A b \in Attempts : pc[b] = "lost" => pc'[b] = "lost"
        BY <3>1, BeginsFresh DEF Begins, Proceeds, Running, TypeOK
      <3>2. ASSUME NEW a \in Attempts, Reply(a) \/ Commit(a)
            PROVE  \A b \in Attempts : pc[b] = "lost" => pc'[b] = "lost"
        BY <3>2 DEF Reply, Commit, TypeOK
      <3>3. ASSUME LateWebhook \/ WorkerRestart \/ UNCHANGED vars
            PROVE  \A b \in Attempts : pc[b] = "lost" => pc'[b] = "lost"
        BY <3>3 DEF LateWebhook, WorkerRestart, Running, vars
      <3>4. QED
        BY <3>1, <3>2, <3>3, NextMoves
    <2>2. QED
      BY <2>1 DEF NothingLost
  <1>4. AnalyzedHasAnalysis'
    <2> SUFFICES ASSUME status' = "analyzed", NothingLost'
                 PROVE  analyses' # {}
      BY DEF AnalyzedHasAnalysis
    <2>1. CASE status' = status
      BY <1>1, <1>3, <2>1 DEF AnalyzedHasAnalysis
    <2>2. ASSUME NEW a \in Attempts, status' = a[2], LockFree, Needs(a[2]) \subseteq done[a[1]]
          PROVE  analyses' # {}
      <3>1. a[1] \in Runs /\ "analyze" \in done[a[1]]
        BY <2>2, StepFacts, AttemptParts
      <3>2. PICK b \in Attempts :
              b[2] = "analyze" /\ pc[b] \in {"written", "committed", "lost"}
        BY <3>1, AnsweredAttempt
      <3>3. pc[b] = "committed"
        BY <1>3, <2>2, <3>2 DEF LockFree, HoldsLock, NothingLost
      <3>4. b \in analyses
        BY <3>2, <3>3 DEF AnalysesStored
      <3>5. QED
        BY <1>1, <3>4
    <2>3. QED
      BY <2>1, <2>2, StatusMoves DEF vars
  <1>5. QED
    BY <1>2, <1>4

-----------------------------------------------------------------------------
\* A request that has stored its generation is never again before that point.
LEMMA StoredStays ==
    ASSUME TypeOK, StepsInOrder, StepsFit, [Next]_vars, NEW g \in Attempts, Stored(g)
    PROVE  Stored(g)'
  <1>1. ASSUME NEW a \in Attempts, NEW x \in PC, Begins(a, x)
        PROVE  Stored(g)'
    BY <1>1, BeginsFresh DEF Begins, Stored, TypeOK
  <1>2. ASSUME NEW a \in Attempts, NEW x \in PC, Proceeds(a, x)
        PROVE  Stored(g)'
    BY <1>2 DEF Proceeds, Running, Stored, TypeOK
  <1>3. ASSUME NEW a \in Attempts, Reply(a) \/ Commit(a)
        PROVE  Stored(g)'
    BY <1>3 DEF Reply, Commit, Stored, TypeOK
  <1>4. ASSUME LateWebhook \/ WorkerRestart \/ UNCHANGED vars
        PROVE  Stored(g)'
    BY <1>4 DEF LateWebhook, WorkerRestart, Running, Stored, vars
  <1>5. QED
    BY <1>1, <1>2, <1>3, <1>4, NextMoves

\* How a step changes the segments: a finished step of finalize or the commit of a
\* transcription replaces them, a late webhook adds to those of the live call.
LEMMA SegsMoves ==
    ASSUME TypeOK, StepsInOrder, StepsFit, [Next]_vars
    PROVE  \/ segs' = segs
           \/ \E g \in Attempts : Stores(g)
           \/ \E g \in Attempts : g[2] = "transcribe" /\ Commit(g) /\ ReplaceTranscript(g)
           \/ LateWebhook /\ segs' \subseteq segs \cup {Live}
  <1> USE DEF contentVars, rowVars, inngestVars, readVars
  <1>1. ASSUME NEW a \in Attempts, Commit(a)
        PROVE  segs' = segs \/ (a[2] = "transcribe" /\ ReplaceTranscript(a))
    BY <1>1 DEF Commit, StatusWrite, TranscriptWrite, EmbeddingWrite, AnalysisWrite
  <1>2. ASSUME NEW a \in Attempts, Sees(a) \/ EmbedBegin(a) \/ Reply(a) \/ AnalyzeFails(a)
        PROVE  segs' = segs
    BY <1>2 DEF Sees, EmbedBegin, Reply, AnalyzeFails
  <1>3. ASSUME LateWebhook
        PROVE  segs' \subseteq segs \cup {Live}
    BY <1>3 DEF LateWebhook
  <1>4. ASSUME Quiet \/ UNCHANGED vars
        PROVE  segs' = segs
    BY <1>4 DEF Quiet, vars
  <1>5. QED
    BY <1>1, <1>2, <1>3, <1>4, NextData

\* How a step changes what has been read.
LEMMA ViewMoves ==
    ASSUME TypeOK, StepsInOrder, StepsFit, [Next]_vars
    PROVE  \/ view' = view
           \/ \E a \in Attempts : Sees(a) \/ EmbedBegin(a)
  <1> USE DEF contentVars, rowVars, inngestVars, readVars
  <1>1. ASSUME NEW a \in Attempts, Stores(a) \/ Reply(a) \/ AnalyzeFails(a) \/ Commit(a)
        PROVE  view' = view
    BY <1>1 DEF Stores, Reply, AnalyzeFails, Commit
  <1>2. ASSUME LateWebhook \/ Quiet \/ UNCHANGED vars
        PROVE  view' = view
    BY <1>2 DEF LateWebhook, Quiet, vars
  <1>3. QED
    BY <1>1, <1>2, NextData

\* What has been read stays read, and only what is stored is read.
LEMMA ViewGrows ==
    ASSUME TypeOK, StepsInOrder, StepsFit, [Next]_vars
    PROVE  /\ view \subseteq view'
           /\ \A p \in view' : p \in view \/ p[2] \in segs
  BY ViewMoves DEF Sees, EmbedBegin

\* Only generations that are stored are in the table or read.
LEMMA GenerationsStep ==
    ASSUME TypeOK, StepsInOrder, StepsFit, GenerationsStored, [Next]_vars
    PROVE  GenerationsStored'
  <1>1. ASSUME NEW g \in Attempts, g \in segs'
        PROVE  Stored(g)'
    <2>1. CASE g \in segs
      BY <2>1, StoredStays DEF GenerationsStored
    <2>2. ASSUME g \notin segs, NEW h \in Attempts, Stores(h)
          PROVE  Stored(g)'
      <3>1. g = h
        BY <1>1, <2>2 DEF Stores, ReplaceTranscript
      <3>2. QED
        BY <2>2, <3>1 DEF Stores, Stored, TypeOK
    <2>3. ASSUME g \notin segs, NEW h \in Attempts,
                 h[2] = "transcribe", Commit(h), ReplaceTranscript(h)
          PROVE  Stored(g)'
      <3>1. g = h
        BY <1>1, <2>3 DEF ReplaceTranscript
      <3>2. QED
        BY <2>3, <3>1 DEF Commit, Stored, TypeOK
    <2>4. ASSUME g \notin segs, segs' \subseteq segs \cup {Live}
          PROVE  FALSE
      BY <1>1, <2>4, ConstantsOK
    <2>5. QED
      BY <1>1, <2>1, <2>2, <2>3, <2>4, SegsMoves
  <1>2. ASSUME NEW g \in Attempts, NEW a \in Attempts, <<a, g>> \in view'
        PROVE  Stored(g)'
    <2>1. <<a, g>> \in view \/ g \in segs
      BY <1>2, ViewGrows
    <2>2. QED
      BY <2>1, StoredStays DEF GenerationsStored
  <1>3. QED
    BY <1>1, <1>2 DEF GenerationsStored

\* A run that has come as far as its embed and analyze steps has memoised its
\* transcript, and whatever lies between.
LEMMA StepsBefore ==
    ASSUME TypeOK, StepsInOrder, AnswerStands, NEW r \in Runs, "analyzing" \in done[r]
    PROVE  /\ \A st \in {"transcribe", "finalize"} \cap Steps : st \in done[r]
           /\ Source = "upload" => "diarizing" \in done[r]
  <1>1. PICK a \in Attempts : /\ a[1] = r /\ a[2] = "analyzing"
                              /\ pc[a] \in {"written", "committed", "lost"}
    BY AnsweredAttempt
  <1>2. Needs("analyzing") \subseteq done[r]
    BY <1>1 DEF StepsInOrder
  <1>3. CASE Source = "upload"
    <2>1. "diarizing" \in done[r]
      BY <1>2, <1>3, StepFacts
    <2>2. PICK b \in Attempts : /\ b[1] = r /\ b[2] = "diarizing"
                                /\ pc[b] \in {"written", "committed", "lost"}
      BY <2>1, AnsweredAttempt
    <2>3. "transcribe" \in done[r]
      BY <2>2, StepFacts DEF StepsInOrder
    <2>4. QED
      BY <1>3, <2>1, <2>3, StepFacts
  <1>4. CASE Source # "upload"
    BY <1>2, <1>4, StepFacts
  <1>5. QED
    BY <1>3, <1>4

\* A run that has no transcript memoised has not begun to embed or to analyze.
LEMMA NothingYet ==
    ASSUME TypeOK, StepsInOrder, AnswerStands, NEW a \in Attempts, NEW g \in Attempts,
           a[1] = g[1], a[2] \in {"embed", "analyze"}, g[2] \in {"transcribe", "finalize"},
           g[2] \notin done[g[1]]
    PROVE  pc[a] = "idle"
  <1> SUFFICES ASSUME pc[a] # "idle"
               PROVE  FALSE
    OBVIOUS
  <1>1. "analyzing" \in done[a[1]]
    BY StepFacts DEF StepsInOrder
  <1>2. QED
    BY <1>1, StepsBefore, AttemptParts

\* Only a reply makes an attempt the answer to its step, and that attempt only.
LEMMA AnswersMoves ==
    ASSUME TypeOK, StepsInOrder, StepsFit, [Next]_vars, NEW g \in Attempts, Answers(g)'
    PROVE  Answers(g) \/ (Reply(g) /\ g[2] \notin done[g[1]])
  <1> USE DEF contentVars, rowVars, inngestVars, readVars
  <1>1. ASSUME NEW a \in Attempts, Stores(a) \/ AnalyzeFails(a) \/ Commit(a)
        PROVE  Answers(g)
    BY <1>1 DEF Stores, AnalyzeFails, Commit, Answers, Latest
  <1>2. ASSUME NEW a \in Attempts, EmbedBegin(a)
        PROVE  Answers(g)
    BY <1>2, SameAnswers DEF EmbedBegin
  <1>3. ASSUME LateWebhook \/ UNCHANGED vars
        PROVE  Answers(g)
    BY <1>3 DEF LateWebhook, vars, Answers, Latest
  <1>4. ASSUME Quiet \/ \E a \in Attempts : Sees(a)
        PROVE  Answers(g)
    BY <1>4 DEF Quiet, Sees
  <1>5. ASSUME NEW a \in Attempts, Reply(a), ~Answers(g)
        PROVE  g = a /\ g[2] \notin done[g[1]]
    <2>1. /\ g[3] = tries[g[1]][g[2]] /\ g[2] \in done'[g[1]] /\ g[2] \notin done[g[1]]
      BY <1>5 DEF Reply, Answers, Latest
    <2>2. /\ a[3] = tries[a[1]][a[2]]
          /\ done' = [done EXCEPT ![a[1]] = @ \cup {a[2]}]
      BY <1>5 DEF Reply, Latest
    <2>3. g[1] = a[1] /\ g[2] = a[2]
      BY <2>1, <2>2, AttemptParts DEF TypeOK
    <2>4. QED
      BY <2>1, <2>2, <2>3, AttemptParts
  <1>6. QED
    BY <1>1, <1>2, <1>3, <1>4, <1>5, NextData

\* An attempt that answers its step has done its work.
LEMMA AnswerDone ==
    ASSUME AnswerStands, NEW g \in Attempts, Answers(g)
    PROVE  pc[g] \in {"written", "committed", "lost"}
  <1>1. g = <<g[1], g[2], tries[g[1]][g[2]]>> /\ g[1] \in Runs /\ g[2] \in done[g[1]]
    BY AttemptParts DEF Answers, Latest
  <1>2. pc[<<g[1], g[2], tries[g[1]][g[2]]>>] \in {"written", "committed", "lost"}
    BY <1>1 DEF AnswerStands
  <1>3. QED
    BY <1>1, <1>2

\* A mark is committed when the lock is free, or without it if its status is stored.
LEMMA MarkMoves ==
    ASSUME TypeOK, StepsInOrder, StepsFit, [Next]_vars, NEW a \in Attempts,
           a[2] \in Marks, pc[a] # "committed", pc'[a] = "committed", ~LockFree
    PROVE  status = a[2] /\ Needs(a[2]) \subseteq done[a[1]]
  <1>1. ASSUME NEW b \in Attempts, NEW x \in PC, Begins(b, x)
        PROVE  status = a[2] /\ Needs(a[2]) \subseteq done[a[1]]
    BY <1>1 DEF Begins, Dispatch, TakesLock, TypeOK
  <1>2. ASSUME NEW b \in Attempts, NEW x \in PC, Proceeds(b, x)
        PROVE  status = a[2] /\ Needs(a[2]) \subseteq done[a[1]]
    BY <1>2 DEF Proceeds, TakesLock, TypeOK, Running, StepsInOrder
  <1>3. ASSUME NEW b \in Attempts, Reply(b) \/ Commit(b)
        PROVE  FALSE
    BY <1>3 DEF Reply, Commit, StepsFit, TypeOK
  <1>4. ASSUME LateWebhook \/ WorkerRestart \/ UNCHANGED vars
        PROVE  FALSE
    BY <1>4 DEF LateWebhook, WorkerRestart, vars
  <1>5. QED
    BY <1>1, <1>2, <1>3, <1>4, NextMoves

\* A transcription that has answered its run but is not committed keeps the run from
\* marking the meeting as analyzing.
LEMMA MarksStep ==
    ASSUME TypeOK, StepsInOrder, AnswerStands, StepsFit, OneWriter, MarksWait, [Next]_vars
    PROVE  MarksWait'
  <1> SUFFICES ASSUME NEW g \in Attempts, NEW a \in Attempts,
                      g[2] = "transcribe", pc'[g] = "written", Answers(g)', a[1] = g[1]
               PROVE  /\ a[2] = "diarizing" /\ pc'[a] = "committed" => status' = "diarizing"
                      /\ a[2] = "analyzing" => pc'[a] # "committed"
    BY DEF MarksWait
  <1>0. Source = "upload"
    BY StepFacts, AttemptParts
  <1>1. CASE Answers(g)
    <2>1. pc[g] = "written"
      <3>1. pc[g] \in {"written", "committed", "lost"}
        BY <1>1, AnswerDone
      <3>2. pc[g] # "committed"
        BY StoredStays DEF Stored
      <3>3. pc[g] # "lost"
        <4>1. ASSUME NEW b \in Attempts, NEW x \in PC, Begins(b, x) \/ Proceeds(b, x)
              PROVE  pc[g] # "lost"
          BY <4>1, BeginsFresh DEF Begins, Proceeds, Running, TypeOK
        <4>2. ASSUME NEW b \in Attempts, Reply(b) \/ Commit(b)
              PROVE  pc[g] # "lost"
          BY <4>2 DEF Reply, Commit, TypeOK
        <4>3. ASSUME LateWebhook \/ WorkerRestart \/ UNCHANGED vars
              PROVE  pc[g] # "lost"
          BY <4>3 DEF LateWebhook, WorkerRestart, Running, vars
        <4>4. QED
          BY <4>1, <4>2, <4>3, NextMoves
      <3>4. QED
        BY <3>1, <3>2, <3>3
    <2>2. ~LockFree
      BY <2>1 DEF LockFree, HoldsLock
    <2>3. status' = status
      <3>1. ASSUME NEW f \in Attempts, f[2] = "finalize", Commit(f)
            PROVE  FALSE
        BY <2>1, <3>1 DEF Commit, OneWriter, HoldsLock
      <3>2. QED
        BY <2>2, <3>1, StatusMoves DEF vars, rowVars
    <2>4. CASE pc[a] = "committed"
      BY <1>1, <2>1, <2>3, <2>4 DEF MarksWait
    <2>5. CASE a[2] = "diarizing" /\ pc[a] # "committed"
      BY <2>2, <2>3, <2>5, MarkMoves DEF Marks
    <2>6. CASE a[2] = "analyzing" /\ pc[a] # "committed"
      <3> SUFFICES ASSUME pc'[a] = "committed"
                   PROVE  FALSE
        BY <2>6
      <3>1. status = "analyzing" /\ "diarizing" \in done[g[1]]
        BY <1>0, <2>2, <2>6, MarkMoves, StepFacts DEF Marks
      <3>2. PICK b \in Attempts : /\ b[1] = g[1] /\ b[2] = "diarizing"
                                  /\ pc[b] \in {"written", "committed", "lost"}
        BY <3>1, AnsweredAttempt, AttemptParts
      <3>3. pc[b] = "committed"
        BY <3>2 DEF StepsFit, Marks
      <3>4. status = "diarizing"
        BY <1>1, <2>1, <3>2, <3>3 DEF MarksWait
      <3>5. QED
        BY <3>1, <3>4
    <2>7. QED
      BY <2>4, <2>5, <2>6
  <1>2. CASE ~Answers(g)
    <2>1. Reply(g) /\ "transcribe" \notin done[g[1]]
      BY <1>2, AnswersMoves
    <2>2. a[2] = "diarizing" => pc[a] = "idle"
      BY <2>1, StepFacts DEF StepsInOrder
    <2>3. a[2] = "analyzing" => pc[a] = "idle"
      <3> SUFFICES ASSUME a[2] = "analyzing", pc[a] # "idle"
                   PROVE  FALSE
        OBVIOUS
      <3>1. "diarizing" \in done[g[1]]
        BY <1>0, StepFacts DEF StepsInOrder
      <3>2. PICK b \in Attempts : /\ b[1] = g[1] /\ b[2] = "diarizing"
                                  /\ pc[b] \in {"written", "committed", "lost"}
        BY <3>1, AnsweredAttempt, AttemptParts
      <3>3. QED
        BY <2>1, <3>2, StepFacts DEF StepsInOrder
    <2>4. QED
      BY <2>1, <2>2, <2>3 DEF Reply
  <1>3. QED
    BY <1>1, <1>2

\* When it is committed, its run has not begun to embed or to analyze.
LEMMA CommitIsEarly ==
    ASSUME TypeOK, StepsInOrder, AnswerStands, StepsFit, MarksWait,
           NEW g \in Attempts, g[2] = "transcribe", pc[g] = "written", Answers(g),
           NEW a \in Attempts, a[1] = g[1], a[2] \in {"embed", "analyze"}
    PROVE  pc[a] = "idle"
  <1> SUFFICES ASSUME pc[a] # "idle"
               PROVE  FALSE
    OBVIOUS
  <1>1. "analyzing" \in done[g[1]]
    BY StepFacts DEF StepsInOrder
  <1>2. PICK b \in Attempts : /\ b[1] = g[1] /\ b[2] = "analyzing"
                              /\ pc[b] \in {"written", "committed", "lost"}
    BY <1>1, AnsweredAttempt, AttemptParts
  <1>3. pc[b] = "committed"
    BY <1>2 DEF StepsFit, Marks
  <1>4. QED
    BY <1>2, <1>3 DEF MarksWait

-----------------------------------------------------------------------------
\* How a generation comes to be served: its run takes the reply, or it was.
LEMMA ServedMoves ==
    ASSUME TypeOK, StepsInOrder, AnswerStands, StepsFit, GenerationsStored, MarksWait,
           [Next]_vars, NEW g \in Attempts, Served(g)'
    PROVE  \/ Served(g)
           \/ /\ pc' = pc \/ \E h \in Attempts : Commit(h) /\ h[2] = "transcribe"
              /\ \A a \in Attempts : a[1] = g[1] /\ a[2] \in {"embed", "analyze"} => pc[a] = "idle"
  <1> USE DEF contentVars, rowVars, inngestVars, readVars
  <1> SUFFICES ASSUME ~Served(g)
               PROVE  /\ pc' = pc \/ \E h \in Attempts : Commit(h) /\ h[2] = "transcribe"
                      /\ \A a \in Attempts :
                           a[1] = g[1] /\ a[2] \in {"embed", "analyze"} => pc[a] = "idle"
    OBVIOUS
  <1>1. CASE ~Answers(g)
    <2>1. Reply(g) /\ g[2] \notin done[g[1]]
      BY <1>1, AnswersMoves DEF Served
    <2>2. g \in segs
      BY <2>1 DEF Reply, Served
    <2>3. g[2] \in {"transcribe", "finalize"}
      BY <2>2 DEF GenerationsStored, Stored
    <2>4. pc' = pc
      BY <2>1 DEF Reply
    <2>5. QED
      BY <2>1, <2>3, <2>4, NothingYet
  <1>2. CASE Answers(g) /\ g \notin segs
    <2>1. g # Live
      BY ConstantsOK
    <2>2. ASSUME NEW h \in Attempts, Stores(h)
          PROVE  FALSE
      <3>1. g = h
        BY <1>2, <2>2 DEF Served, Stores, ReplaceTranscript
      <3>2. QED
        BY <1>2, <2>2, <3>1, AnswerDone DEF Stores
    <2>3. PICK h \in Attempts : h[2] = "transcribe" /\ Commit(h) /\ ReplaceTranscript(h)
      BY <1>2, <2>1, <2>2, SegsMoves DEF Served
    <2>4. g = h
      BY <1>2, <2>3 DEF Served, ReplaceTranscript
    <2>5. pc[g] = "written"
      BY <2>3, <2>4 DEF Commit
    <2>6. QED
      BY <1>2, <2>3, <2>4, <2>5, CommitIsEarly
  <1>3. QED
    BY <1>1, <1>2 DEF Served

\* What an embed request may come to.
LEMMA EmbedMoves ==
    ASSUME TypeOK, StepsInOrder, StepsFit, [Next]_vars, NEW a \in Attempts, a[2] = "embed"
    PROVE  /\ pc[a] = "idle" /\ pc'[a] # "idle" => EmbedBegin(a)
           /\ pc[a] # "committed" /\ pc'[a] = "committed" => EmbedBegin(a) \/ Commit(a)
  <1> USE DEF contentVars, rowVars, inngestVars, readVars
  <1>1. ASSUME Quiet \/ LateWebhook \/ UNCHANGED vars
        PROVE  /\ pc[a] = "idle" => pc'[a] = "idle"
               /\ pc'[a] = "committed" => pc[a] = "committed"
    BY <1>1 DEF Quiet, LateWebhook, vars
  <1>2. ASSUME NEW b \in Attempts, Stores(b) \/ Sees(b) \/ Reply(b) \/ AnalyzeFails(b)
        PROVE  pc'[a] = pc[a]
    BY <1>2 DEF Stores, Sees, Reply, AnalyzeFails, HoldsAcrossAwait, TypeOK
  <1>3. ASSUME NEW b \in Attempts, b # a, EmbedBegin(b) \/ Commit(b)
        PROVE  pc'[a] = pc[a]
    BY <1>3 DEF EmbedBegin, Commit, TypeOK
  <1>4. Commit(a) => pc[a] = "written"
    BY DEF Commit
  <1>5. QED
    BY <1>1, <1>2, <1>3, <1>4, NextData

\* What an analyze request may come to.
LEMMA AnalyzeMoves ==
    ASSUME TypeOK, StepsInOrder, StepsFit, [Next]_vars, NEW a \in Attempts, a[2] = "analyze"
    PROVE  /\ ~HoldsLock(a) /\ HoldsLock(a)' => Sees(a)
           /\ pc[a] # "committed" /\ pc'[a] = "committed" => Commit(a)
  <1> USE DEF contentVars, rowVars, inngestVars, readVars
  <1>1. ASSUME Quiet \/ LateWebhook \/ UNCHANGED vars
        PROVE  /\ HoldsLock(a)' => HoldsLock(a)
               /\ pc'[a] = "committed" => pc[a] = "committed"
    BY <1>1 DEF Quiet, LateWebhook, vars, HoldsLock, HoldsAcrossAwait
  <1>2. ASSUME NEW b \in Attempts, Stores(b) \/ EmbedBegin(b) \/ Reply(b)
        PROVE  pc'[a] = pc[a]
    BY <1>2 DEF Stores, EmbedBegin, Reply, TypeOK
  <1>3. ASSUME NEW b \in Attempts, b # a, Sees(b) \/ AnalyzeFails(b) \/ Commit(b)
        PROVE  pc'[a] = pc[a]
    BY <1>3 DEF Sees, AnalyzeFails, Commit, TypeOK
  <1>4. ASSUME Sees(a) \/ AnalyzeFails(a)
        PROVE  pc'[a] # "committed"
    BY <1>4 DEF Sees, AnalyzeFails, TypeOK
  <1>5. ASSUME AnalyzeFails(a) \/ Commit(a)
        PROVE  ~HoldsLock(a)'
    BY <1>5 DEF AnalyzeFails, Commit, HoldsLock, HoldsAcrossAwait, TypeOK
  <1>6. ASSUME pc'[a] = pc[a]
        PROVE  HoldsLock(a)' <=> HoldsLock(a)
    BY <1>6 DEF HoldsLock, HoldsAcrossAwait
  <1>7. QED
    BY <1>1, <1>2, <1>3, <1>4, <1>5, <1>6, NextData

\* Every step keeps the embed requests of a run reading what the run is served.
LEMMA EmbedsCurrentStep ==
    ASSUME TypeOK, StepsInOrder, AnswerStands, StepsFit, GenerationsStored, MarksWait,
           EmbedsCurrent, [Next]_vars
    PROVE  EmbedsCurrent'
  <1> SUFFICES ASSUME NEW g \in Attempts, NEW a \in Attempts,
                      Served(g)', a[1] = g[1], a[2] = "embed", pc'[a] # "idle"
               PROVE  <<a, g>> \in view'
    BY DEF EmbedsCurrent
  <1>1. CASE pc[a] = "idle"
    <2>1. EmbedBegin(a)
      BY <1>1, EmbedMoves
    <2>2. g \in segs /\ view' = view \cup ({a} \X segs)
      BY <2>1 DEF EmbedBegin, Served, rowVars, contentVars
    <2>3. QED
      BY <2>2
  <1>2. CASE pc[a] # "idle"
    <2>1. Served(g)
      BY <1>2, ServedMoves
    <2>2. QED
      BY <1>2, <2>1, ViewGrows DEF EmbedsCurrent
  <1>3. QED
    BY <1>1, <1>2

\* Every step keeps to clearing only embeddings of what has been read.
LEMMA PriorStep ==
    ASSUME TypeOK, StepsInOrder, StepsFit, PriorWasRead, [Next]_vars
    PROVE  PriorWasRead'
  <1> USE DEF contentVars, rowVars, inngestVars, readVars
  <1>1. ASSUME prior' \subseteq prior
        PROVE  PriorWasRead'
    BY <1>1, ViewGrows DEF PriorWasRead
  <1>2. ASSUME NEW a \in Attempts, EmbedAnswered(a)
        PROVE  PriorWasRead'
    <2> DEFINE found == {w \in vecs : <<a, w[2]>> \in view}
    <2>1. prior' = prior \cup {<<a, v>> : v \in found}
      BY <1>2 DEF EmbedAnswered
    <2>2. ASSUME NEW p \in {<<a, v>> : v \in found}
          PROVE  <<p[1], p[2][2]>> \in view
      <3>1. PICK v \in found : p = <<a, v>>
        BY <2>2
      <3>2. <<a, v[2]>> \in view
        BY <3>1
      <3>3. p[1] = a /\ p[2] = v
        BY <3>1
      <3>4. QED
        BY <3>2, <3>3
    <2> HIDE DEF found
    <2>3. \A p \in prior' : <<p[1], p[2][2]>> \in view
      BY <2>1, <2>2 DEF PriorWasRead
    <2>4. QED
      BY <2>3, ViewGrows DEF PriorWasRead
  <1>3. ASSUME NEW a \in Attempts, MarkBegin(a) \/ PullBegin(a) \/ EmbedBegin(a) \/ AnalyzeBegin(a)
        PROVE  prior' = prior
    BY <1>3 DEF MarkBegin, PullBegin, EmbedBegin, AnalyzeBegin
  <1>4. ASSUME NEW a \in Attempts,
               \/ Reply(a) \/ TranscribeAnswered(a) \/ FinalizeAnswered(a)
               \/ FinalizeSaves(a) \/ FinalizeNamed(a)
        PROVE  prior' = prior
    BY <1>4 DEF Reply, TranscribeAnswered, FinalizeAnswered, FinalizeSaves, FinalizeNamed
  <1>5. ASSUME NEW a \in Attempts,
               AnalyzeAnswered(a) \/ AnalyzeFails(a) \/ ProviderFails(a) \/ Flush(a) \/ BusyTimeout(a)
        PROVE  prior' = prior
    BY <1>5 DEF AnalyzeAnswered, AnalyzeFails, ProviderFails, Flush, BusyTimeout
  <1>6. ASSUME NEW a \in Attempts, Commit(a)
        PROVE  prior' \subseteq prior
    BY <1>6 DEF Commit
  <1>7. ASSUME LateWebhook \/ WorkerRestart \/ UNCHANGED vars
        PROVE  prior' = prior
    BY <1>7 DEF LateWebhook, WorkerRestart, vars
  <1>8. QED
    BY <1>1, <1>2, <1>3, <1>4, <1>5, <1>6, <1>7, NextCases

\* The embeddings are only written by the commit of an embed request.
LEMMA VecsMoves ==
    ASSUME TypeOK, StepsInOrder, StepsFit, [Next]_vars
    PROVE  vecs' = vecs \/ \E b \in Attempts : Commit(b) /\ b[2] = "embed" /\ EmbeddingWrite(b)
  <1> USE DEF contentVars, rowVars, inngestVars, readVars
  <1>1. ASSUME NEW b \in Attempts, Commit(b)
        PROVE  vecs' = vecs \/ (b[2] = "embed" /\ EmbeddingWrite(b))
    BY <1>1 DEF Commit, StatusWrite, TranscriptWrite, AnalysisWrite
  <1>2. ASSUME NEW b \in Attempts,
               Stores(b) \/ Sees(b) \/ EmbedBegin(b) \/ Reply(b) \/ AnalyzeFails(b)
        PROVE  vecs' = vecs
    BY <1>2 DEF Stores, Sees, EmbedBegin, Reply, AnalyzeFails
  <1>3. ASSUME LateWebhook \/ Quiet \/ UNCHANGED vars
        PROVE  vecs' = vecs
    BY <1>3 DEF LateWebhook, Quiet, vars
  <1>4. QED
    BY <1>1, <1>2, <1>3, NextData

\* Every step keeps an embedding of what an embed request has read and committed.
LEMMA EmbedsStoredStep ==
    ASSUME TypeOK, StepsInOrder, StepsFit, GenerationsStored, PriorWasRead, EmbedsStored,
           [Next]_vars
    PROVE  EmbedsStored'
  <1> USE DEF contentVars, rowVars, inngestVars, readVars
  <1> SUFFICES ASSUME NEW g \in Attempts, NEW a \in Attempts, g \in segs', a[2] = "embed",
                      pc'[a] = "committed", <<a, g>> \in view'
               PROVE  \E v \in vecs' : v[2] = g
    BY DEF EmbedsStored
  <1>1. Stored(g)
    BY ViewGrows DEF GenerationsStored
  <1>2. g \in segs
    <2>1. ASSUME NEW h \in Attempts, Stores(h), g \notin segs
          PROVE  FALSE
      BY <1>1, <2>1 DEF Stores, ReplaceTranscript, Stored
    <2>2. ASSUME NEW h \in Attempts, Commit(h), h[2] = "transcribe", ReplaceTranscript(h),
                 g \notin segs
          PROVE  FALSE
      BY <1>1, <2>2 DEF Commit, ReplaceTranscript, Stored
    <2>3. QED
      BY <2>1, <2>2, SegsMoves, ConstantsOK
  <1>3. ASSUME EmbedBegin(a)
        PROVE  FALSE
    BY <1>2, <1>3 DEF EmbedBegin, TypeOK
  <1>4. ASSUME Commit(a)
        PROVE  \E v \in vecs' : v[2] = g
    <2>1. <<a, g>> \in view /\ EmbeddingWrite(a)
      BY <1>4 DEF Commit
    <2>2. <<a, g>> \in vecs'
      BY <2>1 DEF EmbeddingWrite
    <2>3. QED
      BY <2>2
  <1>5. CASE pc[a] = "committed"
    <2>1. <<a, g>> \in view
      <3>1. ASSUME NEW b \in Attempts, Sees(b)
            PROVE  <<a, g>> \in view
        BY <3>1 DEF Sees
      <3>2. ASSUME NEW b \in Attempts, EmbedBegin(b), b # a
            PROVE  <<a, g>> \in view
        BY <3>2 DEF EmbedBegin
      <3>3. QED
        BY <1>3, <3>1, <3>2, ViewMoves
    <2>2. PICK v \in vecs : v[2] = g
      BY <1>2, <1>5, <2>1 DEF EmbedsStored
    <2>3. ASSUME NEW b \in Attempts, EmbeddingWrite(b)
          PROVE  \E w \in vecs' : w[2] = g
      <3>1. CASE <<b, v>> \in prior
        <4>1. <<b, g>> \in view
          BY <2>2, <3>1 DEF PriorWasRead
        <4>2. <<b, g>> \in vecs'
          BY <2>3, <4>1 DEF EmbeddingWrite
        <4>3. QED
          BY <4>2
      <3>2. CASE <<b, v>> \notin prior
        BY <2>2, <2>3, <3>2 DEF EmbeddingWrite
      <3>3. QED
        BY <3>1, <3>2
    <2>4. QED
      BY <2>2, <2>3, VecsMoves
  <1>6. QED
    BY <1>3, <1>4, <1>5, EmbedMoves

\* Every step keeps an analysis that holds the lock seeing all segments.
LEMMA SeesAllStep ==
    ASSUME TypeOK, StepsInOrder, StepsFit, OneWriter, AnalysisSeesAll, [Next]_vars
    PROVE  AnalysisSeesAll'
  <1> SUFFICES ASSUME NEW a \in Attempts, a[2] = "analyze", HoldsLock(a)', NEW g \in segs'
               PROVE  <<a, g>> \in view'
    BY DEF AnalysisSeesAll
  <1>1. CASE ~HoldsLock(a)
    BY <1>1, AnalyzeMoves DEF Sees
  <1>2. CASE HoldsLock(a)
    <2>1. ~LockFree
      BY <1>2 DEF LockFree
    <2>2. ASSUME NEW h \in Attempts, Commit(h), h[2] = "transcribe"
          PROVE  FALSE
      BY <1>2, <2>2 DEF Commit, OneWriter, HoldsLock
    <2>3. segs' = segs
      BY <2>1, <2>2, SegsMoves DEF Stores, LateWebhook
    <2>4. QED
      BY <1>2, <2>3, ViewGrows DEF AnalysisSeesAll
  <1>3. QED
    BY <1>1, <1>2

\* The newest analysis is only replaced by one that holds the lock.
LEMMA NewestMoves ==
    ASSUME TypeOK, StepsInOrder, StepsFit, [Next]_vars
    PROVE  \/ newest' = newest /\ ~\E a \in Attempts : a[2] = "analyze" /\ Commit(a)
           \/ \E b \in Attempts : /\ b[2] = "analyze" /\ HoldsLock(b) /\ newest' = b
                                  /\ segs' = segs
  <1> USE DEF contentVars, rowVars, inngestVars, readVars
  <1>1. ASSUME NEW b \in Attempts, Commit(b), b[2] = "analyze"
        PROVE  HoldsLock(b) /\ newest' = b /\ segs' = segs
    BY <1>1 DEF Commit, AnalysisWrite, HoldsLock
  <1>2. ASSUME NEW b \in Attempts, Commit(b), b[2] # "analyze"
        PROVE  newest' = newest
    BY <1>2 DEF Commit, StatusWrite, TranscriptWrite, EmbeddingWrite
  <1>3. ASSUME NEW b \in Attempts, AnalyzeFails(b)
        PROVE  b[2] = "analyze" /\ HoldsLock(b) /\ newest' = b /\ segs' = segs
    BY <1>3 DEF AnalyzeFails, HoldsAcrossAwait, HoldsLock
  <1>4. ASSUME NEW b \in Attempts, Stores(b) \/ Sees(b) \/ EmbedBegin(b) \/ Reply(b)
        PROVE  newest' = newest
    BY <1>4 DEF Stores, Sees, EmbedBegin, Reply
  <1>5. ASSUME LateWebhook \/ Quiet \/ UNCHANGED vars
        PROVE  newest' = newest
    BY <1>5 DEF LateWebhook, Quiet, vars
  <1>6. QED
    BY <1>1, <1>2, <1>3, <1>4, <1>5, NextData

\* Every step keeps the newest analysis as current as that of each run.
LEMMA NewestStep ==
    ASSUME TypeOK, StepsInOrder, AnswerStands, StepsFit, GenerationsStored, MarksWait,
           AnalysisSeesAll, NewestCovers, [Next]_vars
    PROVE  NewestCovers'
  <1> SUFFICES ASSUME NEW g \in Attempts, NEW a \in Attempts, Served(g)', a[1] = g[1],
                      a[2] = "analyze", pc'[a] = "committed"
               PROVE  newest' # NoGen /\ <<newest', g>> \in view'
    BY DEF NewestCovers
  <1>1. ASSUME NEW b \in Attempts, b[2] = "analyze", HoldsLock(b), newest' = b, segs' = segs
        PROVE  newest' # NoGen /\ <<newest', g>> \in view'
    <2>1. <<b, g>> \in view
      BY <1>1 DEF AnalysisSeesAll, Served
    <2>2. QED
      BY <1>1, <2>1, ViewGrows, ConstantsOK
  <1>2. ASSUME newest' = newest, ~Commit(a)
        PROVE  newest' # NoGen /\ <<newest', g>> \in view'
    <2>1. pc[a] = "committed"
      BY <1>2, AnalyzeMoves
    <2>2. Served(g)
      BY <2>1, ServedMoves
    <2>3. QED
      BY <1>2, <2>1, <2>2, ViewGrows DEF NewestCovers
  <1>3. QED
    BY <1>1, <1>2, NewestMoves

-----------------------------------------------------------------------------
\* The initial states satisfy the invariant.
LEMMA InvInit == Init => IInv
  <1> SUFFICES ASSUME Init
               PROVE  IInv
    OBVIOUS
  <1>1. /\ \A a \in Attempts : pc[a] = "idle"
        /\ \A r \in Runs : done[r] = {}
        /\ segs \subseteq {Live} /\ view = {} /\ prior = {}
    BY DEF Init
  <1>2. \A g \in Attempts : ~Served(g)
    BY <1>1, ConstantsOK DEF Served
  <1>3. OneWriter /\ StepsInOrder /\ AnswerStands /\ StepsFit
    BY <1>1 DEF OneWriter, HoldsLock, HoldsAcrossAwait, StepsInOrder, AnswerStands, StepsFit
  <1>4. TranscriptIsWhole /\ AnalysesStored /\ AnalyzedHasAnalysis
    BY <1>1 DEF Init, TranscriptIsWhole, AnalysesStored, AnalyzedHasAnalysis
  <1>5. GenerationsStored /\ MarksWait /\ PriorWasRead
    BY <1>1, ConstantsOK DEF GenerationsStored, MarksWait, PriorWasRead
  <1>6. EmbedsCurrent /\ EmbedsStored /\ AnalysisSeesAll /\ NewestCovers
    BY <1>1, <1>2
    DEF EmbedsCurrent, EmbedsStored, AnalysisSeesAll, HoldsLock, HoldsAcrossAwait, NewestCovers
  <1>7. QED
    BY <1>3, <1>4, <1>5, <1>6, TypeInit DEF IInv

\* Every step keeps the invariant.
LEMMA InvStep == IInv /\ [Next]_vars => IInv'
  BY TypeStep, LockStep, BookStep, WholeStep, AnalyzedStep, GenerationsStep, MarksStep,
     EmbedsCurrentStep, EmbedsStoredStep, PriorStep, SeesAllStep, NewestStep
  DEF IInv

\* The inductive invariant of the pipeline: the requests of every run stand where the
\* function's awaits put them, the writer lock has one holder, and the transcript, the
\* embeddings and the analyses of the meeting fit what the runs have been told.
THEOREM Invariance == Spec => []IInv
  BY InvInit, InvStep, PTL DEF Spec

\* The writer lock has one holder at most, so that what the handlers write is
\* committed as if at once.
THEOREM WritersAlternate == Spec => []OneWriter
  <1>1. IInv => OneWriter
    BY DEF IInv
  <1>2. QED
    BY <1>1, Invariance, PTL

\* Whatever overlaps, times out, is retried or dies: the final segments of the meeting
\* are those of the transcript its transcripts row holds.
THEOREM OneTranscript == Spec => []TranscriptIsWhole
  <1>1. IInv => TranscriptIsWhole
    BY DEF IInv
  <1>2. QED
    BY <1>1, Invariance, PTL

\* A meeting that shows as analyzed has an analysis, although a step is memoised
\* before its rows are committed: the mark cannot get the lock any earlier.
THEOREM AnalyzedIsTrue == Spec => []AnalyzedHasAnalysis
  <1>1. IInv => AnalyzedHasAnalysis
    BY DEF IInv
  <1>2. QED
    BY <1>1, Invariance, PTL

\* The invariant serves a finished run: its segments are embedded and analysed.
LEMMA ServedFinished == IInv => FinishedRunIsServed
  <1> SUFFICES ASSUME IInv, NEW r \in Runs, NEW g \in segs \ {Live},
                      Finished(r), g[1] = r, Answers(g), NothingLost,
                      \A a \in Attempts : pc[a] # "written"
               PROVE  /\ \E v \in vecs : v[2] = g
                      /\ newest # NoGen /\ <<newest, g>> \in view
    BY DEF FinishedRunIsServed
  <1>1. g \in Attempts /\ Served(g)
    BY DEF IInv, TypeOK, Generations, Served
  <1>2. {"embed", "analyze"} \subseteq done[r]
    BY StepFacts DEF Finished
  <1>3. \E v \in vecs : v[2] = g
    <2>1. PICK a \in Attempts : /\ a[1] = r /\ a[2] = "embed"
                                /\ pc[a] \in {"written", "committed", "lost"}
      BY <1>2, AnsweredAttempt DEF IInv
    <2>2. pc[a] = "committed"
      BY <2>1 DEF NothingLost
    <2>3. <<a, g>> \in view
      BY <1>1, <2>1, <2>2 DEF IInv, EmbedsCurrent
    <2>4. QED
      BY <1>1, <2>1, <2>2, <2>3 DEF IInv, EmbedsStored
  <1>4. newest # NoGen /\ <<newest, g>> \in view
    <2>1. PICK a \in Attempts : /\ a[1] = r /\ a[2] = "analyze"
                                /\ pc[a] \in {"written", "committed", "lost"}
      BY <1>2, AnsweredAttempt DEF IInv
    <2>2. pc[a] = "committed"
      BY <2>1 DEF NothingLost
    <2>3. QED
      BY <1>1, <2>1, <2>2 DEF IInv, NewestCovers
  <1>5. QED
    BY <1>3, <1>4

\* A finished run whose transcript is the meeting's can be searched and has been
\* analysed: no overlapping run takes that away by what it read before an await.
THEOREM FinishedIsServed == Spec => []FinishedRunIsServed
  BY ServedFinished, Invariance, PTL
-----------------------------------------------------------------------------
\* The status of the meeting once all runs are over.

\* A mark that is put to committed has written its status or found it written, and
\* nothing else writes the status but the commit of finalize.
LEMMA MarkWrites ==
    ASSUME TypeOK, StepsInOrder, StepsFit, Next
    PROVE  /\ \A b \in Attempts :
                b[2] \in Marks /\ pc[b] # "committed" /\ pc'[b] = "committed" => status' = b[2]
           /\ \/ status' = status
              \/ \E a \in Attempts : /\ a[2] \in Marks /\ status' = a[2]
                                     /\ pc' = [pc EXCEPT ![a] = "committed"]
                                     /\ a[2] \notin done[a[1]] \/ pc[a] = "flushing"
                                     /\ Latest(a)' \/ UNCHANGED inngestVars
              \/ \E a \in Attempts : a[2] = "finalize" /\ status' = "uploaded" /\ Commit(a)
  <1> USE DEF contentVars, rowVars, inngestVars, readVars
  <1>1. ASSUME NEW a \in Attempts, Writes(a) \/ (LockFree /\ Granted(a))
        PROVE  \/ /\ a[2] \in Marks /\ status' = a[2]
                  /\ pc' = [pc EXCEPT ![a] = "committed"]
               \/ /\ status' = status
                  /\ \E x \in {"flushing", "awaiting", "written", "failed"} :
                       pc' = [pc EXCEPT ![a] = x]
    BY <1>1, WritesCases DEF Granted
  <1>2. ASSUME NEW a \in Attempts, MarkBegin(a)
        PROVE  /\ a[2] \in Marks /\ a[2] \notin done[a[1]] /\ Latest(a)'
               /\ \/ Writes(a)
                  \/ status' = a[2] /\ pc' = [pc EXCEPT ![a] = "committed"]
    <2>1. /\ a[2] \in Marks /\ a[2] \notin done[a[1]]
          /\ tries' = [tries EXCEPT ![a[1]][a[2]] = a[3]]
      BY <1>2 DEF MarkBegin, Dispatch
    <2>2. Latest(a)'
      BY <2>1, AttemptParts DEF Latest, TypeOK
    <2>3. QED
      BY <1>2, <2>1, <2>2 DEF MarkBegin
  <1>3. ASSUME NEW a \in Attempts, Flush(a)
        PROVE  LockFree /\ Granted(a) /\ pc[a] = "flushing" /\ UNCHANGED inngestVars
    BY <1>3 DEF Flush
  <1>4. ASSUME NEW a \in Attempts, AnalyzeBegin(a) \/ TranscribeAnswered(a) \/ EmbedAnswered(a)
        PROVE  Writes(a) /\ a[2] \notin Marks
    BY <1>4 DEF AnalyzeBegin, TranscribeAnswered, EmbedAnswered, Marks
  <1>5. ASSUME NEW a \in Attempts, FinalizeNamed(a)
        PROVE  /\ a[2] \notin Marks
               /\ Writes(a) \/ (pc' = [pc EXCEPT ![a] = "committed"] /\ status' = status)
    BY <1>5 DEF FinalizeNamed, StepsFit, Marks
  <1>6. ASSUME NEW a \in Attempts,
               \/ PullBegin(a) \/ EmbedBegin(a) \/ Reply(a) \/ FinalizeAnswered(a)
               \/ FinalizeSaves(a) \/ AnalyzeAnswered(a) \/ AnalyzeFails(a)
               \/ ProviderFails(a) \/ BusyTimeout(a)
        PROVE  /\ status' = status
               /\ pc' = pc \/ \E x \in PC : /\ pc' = [pc EXCEPT ![a] = x]
                                            /\ x # "committed" \/ a[2] \notin Marks
    <2>1. CASE PullBegin(a) \/ EmbedBegin(a) \/ Reply(a)
      BY <2>1 DEF PullBegin, EmbedBegin, Reply, PC, Marks
    <2>2. CASE FinalizeAnswered(a) \/ FinalizeSaves(a)
      BY <2>2 DEF FinalizeAnswered, FinalizeSaves, SaveTranscript, PC, Marks
    <2>3. CASE AnalyzeAnswered(a) \/ AnalyzeFails(a) \/ ProviderFails(a) \/ BusyTimeout(a)
      BY <2>3 DEF AnalyzeAnswered, AnalyzeFails, ProviderFails, BusyTimeout, PC
    <2>4. QED
      BY <1>6, <2>1, <2>2, <2>3
  <1>7. ASSUME NEW a \in Attempts, Commit(a)
        PROVE  /\ a[2] \notin Marks /\ pc' = [pc EXCEPT ![a] = "committed"]
               /\ status' = status \/ (a[2] = "finalize" /\ status' = "uploaded")
    BY <1>7 DEF Commit, StatusWrite, TranscriptWrite, EmbeddingWrite, AnalysisWrite, Marks
  <1>8. ASSUME LateWebhook \/ WorkerRestart
        PROVE  /\ status' = status
               /\ \A b \in Attempts : pc'[b] = "committed" => pc[b] = "committed"
    BY <1>8 DEF LateWebhook, WorkerRestart
  <1>9. \A b \in Attempts :
          b[2] \in Marks /\ pc[b] # "committed" /\ pc'[b] = "committed" => status' = b[2]
    <2> SUFFICES ASSUME NEW b \in Attempts,
                        b[2] \in Marks, pc[b] # "committed", pc'[b] = "committed"
                 PROVE  status' = b[2]
      OBVIOUS
    <2>1. ASSUME NEW a \in Attempts, NEW x, pc' = [pc EXCEPT ![a] = x]
          PROVE  b = a /\ x = "committed"
      BY <2>1 DEF TypeOK
    <2>2. ASSUME NEW a \in Attempts, Writes(a) \/ (LockFree /\ Granted(a))
          PROVE  status' = b[2]
      BY <1>1, <2>1, <2>2
    <2>3. ASSUME NEW a \in Attempts, MarkBegin(a)
          PROVE  status' = b[2]
      BY <1>2, <2>1, <2>2, <2>3
    <2>4. QED
      BY <1>3, <1>4, <1>5, <1>6, <1>7, <1>8, <2>1, <2>2, <2>3, NextCases
  <1>10. QED
    BY <1>1, <1>2, <1>3, <1>4, <1>5, <1>6, <1>7, <1>8, <1>9, NextCases

\* When a run has marked the meeting as analyzed, all its other steps are memoised.
LEMMA AnalyzedIsLast ==
    ASSUME TypeOK, StepsInOrder, AnswerStands, NEW b \in Attempts,
           b[2] = "analyzed", pc[b] # "idle"
    PROVE  "analyze" \in done[b[1]] /\ Steps \ {"analyzed"} \subseteq done[b[1]]
  <1> DEFINE r == b[1]
  <1>1. r \in Runs /\ {"embed", "analyze"} \subseteq done[r]
    BY AttemptParts, StepFacts DEF StepsInOrder
  <1>2. ASSUME NEW st \in done[r]
        PROVE  Needs(st) \subseteq done[r]
    <2>1. \E a \in Attempts : a[1] = r /\ a[2] = st /\ pc[a] \in {"written", "committed", "lost"}
      BY <1>1, AnsweredAttempt
    <2>2. QED
      BY <2>1 DEF StepsInOrder
  <1>3. "analyzing" \in done[r]
    BY <1>1, <1>2, StepFacts
  <1>4. CASE Source = "upload"
    <2>1. "diarizing" \in done[r]
      BY <1>2, <1>3, <1>4, StepFacts
    <2>2. "transcribe" \in done[r]
      BY <1>2, <2>1, StepFacts
    <2>3. "transcribing" \in done[r]
      BY <1>2, <2>2 DEF Needs
    <2>4. QED
      BY <1>1, <1>3, <1>4, <2>1, <2>2, <2>3 DEF Steps
  <1>5. CASE Source # "upload"
    <2>1. "finalize" \in done[r]
      BY <1>2, <1>3, <1>5, StepFacts
    <2>2. QED
      BY <1>1, <1>3, <1>5, <2>1 DEF Steps
  <1>6. QED
    BY <1>1, <1>4, <1>5

\* The steps of a request that exists count on: what is given up on stays so.
LEMMA LatestMoves ==
    ASSUME TypeOK, StepsInOrder, StepsFit, [Next]_vars, NEW a \in Attempts, pc[a] # "idle"
    PROVE  Latest(a)' => Latest(a)
  <1>1. a[1] \in Runs /\ a[2] \in Steps /\ a[3] \in Nat /\ a[3] <= tries[a[1]][a[2]]
    BY AttemptParts DEF StepsInOrder
  <1>2. CASE tries' = tries
    BY <1>2 DEF Latest
  <1>3. ASSUME NEW b \in Attempts, NEW x \in PC, Begins(b, x), Latest(a)'
        PROVE  Latest(a)
    <2>1. /\ pc[b] = "idle" /\ b[3] = tries[b[1]][b[2]] + 1
          /\ tries' = [tries EXCEPT ![b[1]][b[2]] = b[3]]
      BY <1>3, BeginsFresh
    <2>2. CASE a[1] = b[1] /\ a[2] = b[2]
      <3>1. a[3] = b[3]
        BY <1>1, <1>3, <2>1, <2>2, AttemptParts DEF Latest, TypeOK
      <3>2. a = b
        BY <2>2, <3>1, AttemptParts
      <3>3. QED
        BY <2>1, <3>2
    <2>3. CASE a[1] # b[1] \/ a[2] # b[2]
      <3>1. tries'[a[1]][a[2]] = tries[a[1]][a[2]]
        BY <1>1, <2>1, <2>3, AttemptParts DEF TypeOK
      <3>2. QED
        BY <1>3, <3>1 DEF Latest
    <2>4. QED
      BY <2>2, <2>3
  <1>4. QED
    BY <1>2, <1>3, NextMoves
    DEF Proceeds, Reply, Commit, LateWebhook, WorkerRestart, vars, inngestVars

\* What a step did stays done.
LEMMA CommittedStays ==
    ASSUME TypeOK, StepsInOrder, StepsFit, [Next]_vars
    PROVE  /\ \A b \in Attempts : pc[b] = "committed" => pc'[b] = "committed"
           /\ NothingLost' => NothingLost
  <1>1. \A b \in Attempts :
          pc[b] \in {"committed", "lost"} => pc'[b] = pc[b]
    <2>1. ASSUME NEW a \in Attempts, NEW x \in PC, Begins(a, x) \/ Proceeds(a, x)
          PROVE  \A b \in Attempts : pc[b] \in {"committed", "lost"} => pc'[b] = pc[b]
      BY <2>1, BeginsFresh DEF Begins, Proceeds, Running, TypeOK
    <2>2. ASSUME NEW a \in Attempts, Reply(a) \/ Commit(a)
          PROVE  \A b \in Attempts : pc[b] \in {"committed", "lost"} => pc'[b] = pc[b]
      BY <2>2 DEF Reply, Commit, TypeOK
    <2>3. ASSUME LateWebhook \/ WorkerRestart \/ UNCHANGED vars
          PROVE  \A b \in Attempts : pc[b] \in {"committed", "lost"} => pc'[b] = pc[b]
      BY <2>3 DEF LateWebhook, WorkerRestart, Running, vars
    <2>4. QED
      BY <2>1, <2>2, <2>3, NextMoves
  <1>2. QED
    BY <1>1 DEF NothingLost

\* The reply of finalize does not let an analysis pass its commit.
LEMMA FinalizeWaitsStep ==
    ASSUME TypeOK, StepsInOrder, AnswerStands, StepsFit, OneWriter, FinalizeWaits, [Next]_vars
    PROVE  FinalizeWaits'
  <1> SUFFICES ASSUME NEW g \in Attempts, NEW b \in Attempts,
                      g[2] = "finalize", pc'[g] = "written", Latest(g)',
                      b[1] = g[1], b[2] = "analyze",
                      pc'[b] \in {"written", "committed", "lost"}
               PROVE  FALSE
    BY DEF FinalizeWaits
  <1> USE DEF inngestVars
  <1>1. CASE pc[g] = "written"
    <2>1. pc[b] \notin {"written", "committed", "lost"}
      BY <1>1, LatestMoves DEF FinalizeWaits
    <2>2. pc'[b] # "committed"
      BY <1>1, <2>1, AnalyzeMoves DEF Commit
    <2>3. ~LockFree /\ ~HoldsLock(b)
      BY <1>1 DEF LockFree, HoldsLock, OneWriter
    <2>4. ASSUME NEW a \in Attempts, NEW x \in PC, Begins(a, x) \/ Proceeds(a, x)
          PROVE  FALSE
      <3>1. a = b /\ x \in {"written", "lost"}
        BY <2>1, <2>2, <2>4 DEF Begins, Proceeds, TypeOK
      <3>2. QED
        BY <2>3, <2>4, <3>1 DEF Begins, Proceeds, TakesLock
    <2>5. ASSUME NEW a \in Attempts, Reply(a) \/ Commit(a)
          PROVE  FALSE
      BY <2>1, <2>2, <2>5 DEF Reply, Commit, TypeOK
    <2>6. CASE WorkerRestart
      BY <1>1, <2>6 DEF WorkerRestart, Running
    <2>7. CASE LateWebhook \/ UNCHANGED vars
      BY <2>1, <2>7 DEF LateWebhook, vars
    <2>8. QED
      BY <2>4, <2>5, <2>6, <2>7, NextMoves
  <1>2. CASE pc[g] # "written"
    <2>1. PICK x \in PC : Proceeds(g, x)
      <3>1. ASSUME NEW a \in Attempts, NEW x \in PC, Begins(a, x)
            PROVE  FALSE
        BY <1>2, <3>1 DEF Begins, TypeOK
      <3>2. ASSUME NEW a \in Attempts, NEW x \in PC, Proceeds(a, x)
            PROVE  a = g
        BY <1>2, <3>2 DEF Proceeds, TypeOK
      <3>3. ASSUME NEW a \in Attempts, Reply(a) \/ Commit(a)
            PROVE  FALSE
        BY <1>2, <3>3 DEF Reply, Commit, TypeOK
      <3>4. ASSUME LateWebhook \/ WorkerRestart \/ UNCHANGED vars
            PROVE  FALSE
        BY <1>2, <3>4 DEF LateWebhook, WorkerRestart, vars
      <3>5. QED
        BY <3>1, <3>2, <3>3, <3>4, NextMoves
    <2>2. pc[g] \in Running /\ Latest(g) /\ pc'[b] = pc[b]
      BY <2>1 DEF Proceeds, Latest, TypeOK
    <2>3. g[2] \notin done[g[1]]
      BY <2>2, AnswerDone DEF Answers, Running
    <2>4. QED
      BY <2>2, <2>3, NothingYet
  <1>3. QED
    BY <1>1, <1>2

\* Whoever writes a status before the last leaves the last to be written.
LEMMA MarkOwedStep ==
    ASSUME TypeOK, StepsInOrder, AnswerStands, StepsFit, FinalizeWaits, MarkOwed, [Next]_vars
    PROVE  MarkOwed'
  <1> SUFFICES ASSUME status' # "analyzed", NothingLost'
               PROVE  \/ \E a \in Attempts : GivenUp(a)'
                      \/ \E r \in Runs : \A b \in Attempts :
                           b[1] = r /\ b[2] = "analyzed" => pc'[b] # "committed"
    BY DEF MarkOwed
  <1>1. NothingLost
    BY CommittedStays
  <1>2. \A b \in Attempts : b[2] = "analyzed" /\ pc'[b] = "committed" => pc[b] = "committed"
    BY MarkWrites DEF Marks, vars
  <1>3. CASE status' = status
    <2>1. CASE \E a \in Attempts : GivenUp(a)
      BY <2>1, CommittedStays, LatestMoves DEF GivenUp
    <2>2. CASE \E r \in Runs : \A b \in Attempts :
                 b[1] = r /\ b[2] = "analyzed" => pc[b] # "committed"
      BY <1>2, <2>2
    <2>3. QED
      BY <1>1, <1>3, <2>1, <2>2 DEF MarkOwed
  <1>4. ASSUME NEW a \in Attempts, a[2] \in Marks, status' = a[2],
               pc' = [pc EXCEPT ![a] = "committed"],
               a[2] \notin done[a[1]] \/ pc[a] = "flushing",
               Latest(a)' \/ UNCHANGED inngestVars, ~GivenUp(a)'
        PROVE  \A b \in Attempts : b[1] = a[1] /\ b[2] = "analyzed" => pc'[b] # "committed"
    <2> SUFFICES ASSUME NEW b \in Attempts, b[1] = a[1], b[2] = "analyzed", pc[b] = "committed"
                 PROVE  FALSE
      BY <1>2
    <2>1. a[2] \in done[a[1]]
      BY <1>4, AnalyzedIsLast, AttemptParts
    <2>2. Latest(a)'
      BY <1>4 DEF GivenUp, TypeOK
    <2>3. pc[a] = "flushing"
      BY <1>4, <2>1
    <2>4. Answers(a)
      BY <2>1, <2>2, <2>3, LatestMoves DEF Answers
    <2>5. QED
      BY <2>3, <2>4, AnswerDone
  <1>5. ASSUME NEW g \in Attempts, g[2] = "finalize", Commit(g), ~GivenUp(g)'
        PROVE  \A b \in Attempts : b[1] = g[1] /\ b[2] = "analyzed" => pc'[b] # "committed"
    <2> SUFFICES ASSUME NEW b \in Attempts, b[1] = g[1], b[2] = "analyzed", pc[b] = "committed"
                 PROVE  FALSE
      BY <1>2
    <2>1. pc[g] = "written" /\ Latest(g)
      BY <1>5 DEF Commit, GivenUp, Latest, inngestVars, TypeOK
    <2>2. g[1] \in Runs /\ "analyze" \in done[g[1]]
      BY AnalyzedIsLast, AttemptParts
    <2>3. PICK c \in Attempts : /\ c[1] = g[1] /\ c[2] = "analyze"
                                /\ pc[c] \in {"written", "committed", "lost"}
      BY <2>2, AnsweredAttempt
    <2>4. QED
      BY <1>5, <2>1, <2>3 DEF FinalizeWaits
  <1>6. CASE Next
    <2>1. \/ status' = status
          \/ \E a \in Attempts : \/ GivenUp(a)'
                                \/ \A b \in Attempts :
                                     b[1] = a[1] /\ b[2] = "analyzed" => pc'[b] # "committed"
      BY <1>4, <1>5, <1>6, MarkWrites
    <2>2. QED
      BY <1>3, <2>1, AttemptParts
  <1>7. QED
    BY <1>3, <1>6 DEF vars, rowVars

\* At first no run has marked anything.
LEMMA SettleInit == Init => FinalizeWaits /\ MarkOwed
  BY ConstantsOK DEF Init, FinalizeWaits, MarkOwed

\* Both facts hold throughout.
LEMMA SettleInv == Spec => [](FinalizeWaits /\ MarkOwed)
  <1>1. IInv /\ FinalizeWaits /\ MarkOwed /\ [Next]_vars => (FinalizeWaits /\ MarkOwed)'
    BY FinalizeWaitsStep, MarkOwedStep DEF IInv
  <1>2. QED
    BY <1>1, SettleInit, Invariance, PTL DEF Spec

\* When every run is over and no request of theirs is left, the meeting is analyzed, in
\* whatever order the marks of the runs and finalize's `uploaded' were written
\* (functions.ts awaits each mark; /internal/meeting-status and /bot/finalize just write).
THEOREM StatusIsSettled == Spec => []StatusSettles
  <1>1. IInv /\ MarkOwed => StatusSettles
    <2> SUFFICES ASSUME IInv, MarkOwed, \A r \in Runs : Finished(r), NothingLost,
                        \A a \in Attempts : ~Zombie(a) /\ pc[a] # "written",
                        status # "analyzed"
                 PROVE  FALSE
      BY DEF StatusSettles
    <2>1. \A a \in Attempts : ~GivenUp(a)
      BY DEF GivenUp, Zombie
    <2>2. PICK r \in Runs : \A b \in Attempts :
            b[1] = r /\ b[2] = "analyzed" => pc[b] # "committed"
      BY <2>1 DEF MarkOwed
    <2>3. "analyzed" \in done[r]
      BY <2>2, StepFacts DEF Finished
    <2>4. PICK b \in Attempts : /\ b[1] = r /\ b[2] = "analyzed"
                                /\ pc[b] \in {"written", "committed", "lost"}
      BY <2>3, AnsweredAttempt DEF IInv
    <2>5. QED
      BY <2>2, <2>4 DEF NothingLost
  <1>2. QED
    BY <1>1, SettleInv, Invariance, PTL

-----------------------------------------------------------------------------
\* Refinement of MeetingRecord.

\* What an analysis has read is the text as long as it holds the lock, and the latest
\* analysis has ended.
ReadsFit ==
    /\ \A a \in Attempts, g \in Generations : a[2] = "analyze" /\ <<a, g>> \in view =>
         /\ pc[a] \notin {"idle", "flushing"}
         /\ HoldsLock(a) => g \in segs
    /\ newest # NoGen => newest[2] = "analyze" /\ pc[newest] \in {"committed", "failed"}
    /\ analyses # {} => newest # NoGen

\* An analysis that has got the lock once does not come to want it again.
LEMMA AnalyzePlaces ==
    ASSUME TypeOK, StepsInOrder, StepsFit, [Next]_vars,
           NEW b \in Attempts, b[2] = "analyze", pc[b] \notin {"idle", "flushing"}
    PROVE  pc'[b] \notin {"idle", "flushing"}
  <1>1. ASSUME NEW a \in Attempts, NEW x, pc' = [pc EXCEPT ![a] = x],
               a = b => x \notin {"idle", "flushing"}
        PROVE  pc'[b] \notin {"idle", "flushing"}
    BY <1>1 DEF TypeOK
  <1>2. ASSUME NEW a \in Attempts, Dispatch(a)
        PROVE  a # b
    <2>1. a[3] = tries[a[1]][a[2]] + 1 /\ tries[a[1]][a[2]] \in Nat
      BY <1>2, AttemptParts DEF Dispatch, TypeOK
    <2>2. ~(a[3] <= tries[a[1]][a[2]])
      BY <2>1
    <2>3. QED
      BY <2>2 DEF StepsInOrder
  <1>3. ASSUME NEW a \in Attempts, Writes(a), a # b
        PROVE  pc'[b] \notin {"idle", "flushing"}
    BY <1>1, <1>3, WritesMoves
  <1>4. ASSUME NEW a \in Attempts,
               MarkBegin(a) \/ PullBegin(a) \/ EmbedBegin(a) \/ AnalyzeBegin(a)
        PROVE  pc'[b] \notin {"idle", "flushing"}
    <2>1. a # b
      BY <1>2, <1>4 DEF MarkBegin, PullBegin, EmbedBegin, AnalyzeBegin
    <2>2. Writes(a) \/ \E x : pc' = [pc EXCEPT ![a] = x]
      BY <1>4 DEF MarkBegin, PullBegin, EmbedBegin, AnalyzeBegin
    <2>3. QED
      BY <1>1, <1>3, <2>1, <2>2
  <1>5. ASSUME NEW a \in Attempts, TranscribeAnswered(a) \/ EmbedAnswered(a) \/ FinalizeNamed(a)
        PROVE  pc'[b] \notin {"idle", "flushing"}
    <2>1. a # b
      BY <1>5 DEF TranscribeAnswered, EmbedAnswered, FinalizeNamed, StepsFit
    <2>2. Writes(a) \/ \E x : pc' = [pc EXCEPT ![a] = x]
      BY <1>5 DEF TranscribeAnswered, EmbedAnswered, FinalizeNamed
    <2>3. QED
      BY <1>1, <1>3, <2>1, <2>2
  <1>6. ASSUME NEW a \in Attempts, FinalizeAnswered(a) \/ FinalizeSaves(a)
        PROVE  pc'[b] \notin {"idle", "flushing"}
    BY <1>1, <1>6 DEF FinalizeAnswered, FinalizeSaves, SaveTranscript
  <1>7. ASSUME NEW a \in Attempts,
               AnalyzeAnswered(a) \/ AnalyzeFails(a) \/ ProviderFails(a) \/ BusyTimeout(a) \/ Commit(a)
        PROVE  pc'[b] \notin {"idle", "flushing"}
    BY <1>1, <1>7 DEF AnalyzeAnswered, AnalyzeFails, ProviderFails, BusyTimeout, Commit
  <1>8. ASSUME NEW a \in Attempts, Flush(a)
        PROVE  pc'[b] \notin {"idle", "flushing"}
    BY <1>1, <1>8, GrantedMoves DEF Flush
  <1>9. ASSUME (\E a \in Attempts : Reply(a)) \/ LateWebhook \/ UNCHANGED vars
        PROVE  pc'[b] \notin {"idle", "flushing"}
    BY <1>9 DEF Reply, LateWebhook, vars
  <1>10. ASSUME WorkerRestart
         PROVE  pc'[b] \notin {"idle", "flushing"}
    BY <1>10 DEF WorkerRestart
  <1>11. QED
    BY <1>4, <1>5, <1>6, <1>7, <1>8, <1>9, <1>10, NextCases

\* A request that has ended stays so, and one that was lost stays lost.
LEMMA EndedStays ==
    ASSUME TypeOK, StepsInOrder, StepsFit, [Next]_vars, NEW a \in Attempts,
           pc[a] \in {"committed", "failed", "lost"}
    PROVE  pc'[a] = pc[a]
  <1>1. ASSUME NEW b \in Attempts, NEW x \in PC, Begins(b, x)
        PROVE  pc'[a] = pc[a]
    BY <1>1, BeginsFresh DEF Begins, TypeOK
  <1>2. ASSUME NEW b \in Attempts, NEW x \in PC, Proceeds(b, x)
        PROVE  pc'[a] = pc[a]
    BY <1>2 DEF Proceeds, Running, TypeOK
  <1>3. ASSUME NEW b \in Attempts, Reply(b) \/ Commit(b)
        PROVE  pc'[a] = pc[a]
    BY <1>3 DEF Reply, Commit, TypeOK
  <1>4. ASSUME LateWebhook \/ WorkerRestart \/ UNCHANGED vars
        PROVE  pc'[a] = pc[a]
    BY <1>4 DEF LateWebhook, WorkerRestart, Running, vars
  <1>5. QED
    BY <1>1, <1>2, <1>3, <1>4, NextMoves

\* What a step changes of what a reader of the meeting sees: nothing, or one thing.
LEMMA RecordMoves ==
    ASSUME TypeOK, StepsInOrder, StepsFit, [Next]_vars
    PROVE  \/ UNCHANGED <<status, segs, vecs, analyses, newest>>
           \/ \E a \in Attempts :
                /\ a[2] \in Marks /\ status' = a[2]
                /\ LockFree /\ Needs(a[2]) \subseteq done[a[1]]
                /\ pc[a] \in {"idle", "flushing"} /\ pc' = [pc EXCEPT ![a] = "committed"]
                /\ UNCHANGED <<segs, vecs, analyses, newest>>
           \/ \E a \in Attempts :
                /\ Stores(a) /\ a[2] = "finalize" /\ UNCHANGED status
           \/ \E a \in Attempts : Commit(a)
           \/ \E a \in Attempts : AnalyzeFails(a)
           \/ LateWebhook
  <1> USE DEF contentVars, rowVars, inngestVars, readVars
  <1>1. ASSUME NEW a \in Attempts,
               \/ PullBegin(a) \/ EmbedBegin(a) \/ Reply(a) \/ AnalyzeAnswered(a)
               \/ ProviderFails(a) \/ BusyTimeout(a)
        PROVE  UNCHANGED <<status, segs, vecs, analyses, newest>>
    BY <1>1 DEF PullBegin, EmbedBegin, Reply, AnalyzeAnswered, ProviderFails, BusyTimeout
  <1>2. ASSUME NEW a \in Attempts, Writes(a) \/ (LockFree /\ Granted(a)), a[2] \notin Marks
        PROVE  UNCHANGED status
    BY <1>2 DEF Writes, Granted
  <1>3. ASSUME NEW a \in Attempts,
               AnalyzeBegin(a) \/ TranscribeAnswered(a) \/ EmbedAnswered(a) \/ FinalizeNamed(a)
        PROVE  UNCHANGED <<status, segs, vecs, analyses, newest>>
    <2>1. a[2] \notin Marks
      BY <1>3 DEF AnalyzeBegin, TranscribeAnswered, EmbedAnswered, FinalizeNamed, StepsFit, Marks
    <2>2. QED
      BY <1>2, <1>3, <2>1 DEF AnalyzeBegin, TranscribeAnswered, EmbedAnswered, FinalizeNamed
  <1>4. ASSUME NEW a \in Attempts, MarkBegin(a) \/ Flush(a)
        PROVE  \/ UNCHANGED <<status, segs, vecs, analyses, newest>>
               \/ /\ a[2] \in Marks /\ status' = a[2]
                  /\ LockFree /\ Needs(a[2]) \subseteq done[a[1]]
                  /\ pc[a] \in {"idle", "flushing"} /\ pc' = [pc EXCEPT ![a] = "committed"]
                  /\ UNCHANGED <<segs, vecs, analyses, newest>>
    <2>1. UNCHANGED <<segs, vecs, analyses, newest>>
      BY <1>4 DEF MarkBegin, Flush
    <2>2. pc[a] \in {"idle", "flushing"} /\ Needs(a[2]) \subseteq done[a[1]]
      <3>1. CASE Flush(a)
        BY <3>1 DEF Flush, StepsInOrder
      <3>2. CASE MarkBegin(a)
        <4>1. /\ Needs(a[2]) \subseteq done[a[1]]
              /\ a[3] = tries[a[1]][a[2]] + 1 /\ tries[a[1]][a[2]] \in Nat
          BY <3>2, AttemptParts DEF MarkBegin, Dispatch, TypeOK
        <4>2. ~(a[3] <= tries[a[1]][a[2]])
          BY <4>1
        <4>3. QED
          BY <4>1, <4>2 DEF StepsInOrder
      <3>3. QED
        BY <1>4, <3>1, <3>2
    <2>3. \/ UNCHANGED status
          \/ LockFree /\ Granted(a) /\ a[2] \in Marks
      BY <1>2, <1>4 DEF MarkBegin, Flush, Writes
    <2>4. CASE LockFree /\ Granted(a) /\ a[2] \in Marks
      <3>1. status' = a[2] /\ pc' = [pc EXCEPT ![a] = "committed"]
        BY <2>4 DEF Granted, Marks
      <3>2. QED
        BY <2>1, <2>2, <2>4, <3>1
    <2>5. QED
      BY <2>1, <2>3, <2>4
  <1>5. ASSUME NEW a \in Attempts, FinalizeAnswered(a) \/ FinalizeSaves(a)
        PROVE  \/ UNCHANGED <<status, segs, vecs, analyses, newest>>
               \/ Stores(a) /\ a[2] = "finalize" /\ UNCHANGED status
    <2>1. /\ a[2] = "finalize" /\ pc[a] \in {"awaiting", "saving"}
          /\ UNCHANGED <<status, vecs, analyses, newest, view, done, tries>>
      BY <1>5 DEF FinalizeAnswered, FinalizeSaves, StepsFit
    <2>2. segs' = segs \/ (LockFree /\ SaveTranscript(a))
      BY <1>5 DEF FinalizeAnswered, FinalizeSaves
    <2>3. CASE LockFree /\ SaveTranscript(a)
      BY <2>1, <2>3 DEF SaveTranscript, Stores
    <2>4. QED
      BY <2>1, <2>2, <2>3
  <1>6. ASSUME WorkerRestart \/ UNCHANGED vars
        PROVE  UNCHANGED <<status, segs, vecs, analyses, newest>>
    BY <1>6 DEF WorkerRestart, vars
  <1>7. QED
    BY <1>1, <1>3, <1>4, <1>5, <1>6, NextCases

\* The analyses that are committed or have failed, of a step.
LEMMA ReportMoves ==
    ASSUME TypeOK, StepsInOrder, StepsFit, [Next]_vars
    PROVE  \/ UNCHANGED <<analyses, newest>>
           \/ \E b \in Attempts :
                /\ b[2] = "analyze" /\ HoldsLock(b) /\ newest' = b
                /\ pc' = [pc EXCEPT ![b] = pc'[b]] /\ pc'[b] \in {"committed", "failed"}
                /\ UNCHANGED <<status, segs, vecs, view>>
  <1> USE DEF contentVars, rowVars, inngestVars, readVars
  <1>1. ASSUME NEW b \in Attempts, Commit(b), b[2] = "analyze"
        PROVE  /\ HoldsLock(b) /\ newest' = b
               /\ pc' = [pc EXCEPT ![b] = pc'[b]] /\ pc'[b] \in {"committed", "failed"}
               /\ UNCHANGED <<status, segs, vecs, view>>
    BY <1>1 DEF Commit, AnalysisWrite, HoldsLock, TypeOK
  <1>2. ASSUME NEW b \in Attempts, Commit(b), b[2] # "analyze"
        PROVE  UNCHANGED <<analyses, newest>>
    BY <1>2 DEF Commit, StatusWrite, TranscriptWrite, EmbeddingWrite
  <1>3. ASSUME NEW b \in Attempts, AnalyzeFails(b)
        PROVE  /\ b[2] = "analyze" /\ HoldsLock(b) /\ newest' = b
               /\ pc' = [pc EXCEPT ![b] = pc'[b]] /\ pc'[b] \in {"committed", "failed"}
               /\ UNCHANGED <<status, segs, vecs, view>>
    BY <1>3 DEF AnalyzeFails, HoldsAcrossAwait, HoldsLock, TypeOK
  <1>4. ASSUME \/ LateWebhook
               \/ \E b \in Attempts : Stores(b)
        PROVE  UNCHANGED <<analyses, newest>>
    BY <1>4 DEF LateWebhook, Stores
  <1>5. QED
    BY <1>1, <1>2, <1>3, <1>4, RecordMoves

\* Initially nothing has been read.
LEMMA ReadsInit == Init => ReadsFit
  BY DEF Init, ReadsFit

\* An analysis that gets the lock has read nothing before.
LEMMA SeesFirst ==
    ASSUME TypeOK, StepsInOrder, StepsFit, [Next]_vars, NEW a \in Attempts, Sees(a)
    PROVE  pc[a] \in {"idle", "flushing"}
  <1>1. SUFFICES ASSUME pc[a] \notin {"idle", "flushing"}
                 PROVE  FALSE
    OBVIOUS
  <1>2. pc[a] \notin {"awaiting", "written"} /\ pc'[a] = "awaiting" /\ a[2] = "analyze"
    BY DEF Sees, LockFree, HoldsLock, HoldsAcrossAwait, TypeOK
  <1>3. pc[a] \notin {"saving", "naming"}
    BY <1>2 DEF StepsFit
  <1>4. pc[a] \in {"committed", "failed", "lost"}
    BY <1>1, <1>2, <1>3 DEF TypeOK, PC
  <1>5. QED
    BY <1>2, <1>4, EndedStays

\* Every step keeps what analyses have read.
LEMMA ReadsStep ==
    ASSUME TypeOK, StepsInOrder, StepsFit, OneWriter, ReadsFit, [Next]_vars
    PROVE  ReadsFit'
  <1>1. ASSUME NEW a \in Attempts, NEW g \in Generations, a[2] = "analyze", <<a, g>> \in view'
        PROVE  /\ pc'[a] \notin {"idle", "flushing"}
               /\ HoldsLock(a)' => g \in segs'
    <2>1. CASE Sees(a)
      <3>1. <<a, g>> \notin view
        BY <1>1, <2>1, SeesFirst DEF ReadsFit
      <3>2. g \in segs /\ segs' = segs
        BY <1>1, <2>1, <3>1 DEF Sees
      <3>3. pc'[a] = "awaiting"
        BY <2>1 DEF Sees, TypeOK
      <3>4. QED
        BY <3>2, <3>3
    <2>2. CASE ~Sees(a)
      <3>1. <<a, g>> \in view
        <4>1. ASSUME NEW b \in Attempts, Sees(b)
              PROVE  <<a, g>> \in view
          BY <1>1, <2>2, <4>1 DEF Sees
        <4>2. ASSUME NEW b \in Attempts, EmbedBegin(b)
              PROVE  <<a, g>> \in view
          BY <1>1, <4>2 DEF EmbedBegin
        <4>3. QED
          BY <1>1, <4>1, <4>2, ViewMoves
      <3>2. pc[a] \notin {"idle", "flushing"} /\ (HoldsLock(a) => g \in segs)
        BY <1>1, <3>1 DEF ReadsFit
      <3>3. pc'[a] \notin {"idle", "flushing"}
        BY <1>1, <3>2, AnalyzePlaces
      <3>4. ASSUME HoldsLock(a)'
            PROVE  g \in segs'
        <4>1. HoldsLock(a)
          BY <1>1, <2>2, <3>4, AnalyzeMoves
        <4>2. ~LockFree
          BY <4>1 DEF LockFree
        <4>3. ASSUME NEW h \in Attempts, Commit(h), h[2] = "transcribe"
              PROVE  FALSE
          BY <1>1, <4>1, <4>3 DEF Commit, OneWriter, HoldsLock
        <4>4. segs' = segs
          BY <4>2, <4>3, SegsMoves DEF Stores, LateWebhook
        <4>5. QED
          BY <3>2, <4>1, <4>4
      <3>5. QED
        BY <3>3, <3>4
    <2>3. QED
      BY <2>1, <2>2
  <1>2. /\ newest' # NoGen => newest'[2] = "analyze" /\ pc'[newest'] \in {"committed", "failed"}
        /\ analyses' # {} => newest' # NoGen
    <2>1. CASE UNCHANGED <<analyses, newest>>
      <3>1. newest # NoGen => newest \in Attempts
        BY DEF TypeOK
      <3>2. newest # NoGen => pc'[newest] = pc[newest]
        BY <3>1, EndedStays DEF ReadsFit
      <3>3. QED
        BY <2>1, <3>2 DEF ReadsFit
    <2>2. CASE \E b \in Attempts :
                 b[2] = "analyze" /\ newest' = b /\ pc'[b] \in {"committed", "failed"}
      BY <2>2, ConstantsOK
    <2>3. QED
      BY <2>1, <2>2, ReportMoves
  <1>3. QED
    BY <1>1, <1>2 DEF ReadsFit

\* What ReadsFit says of the latest analysis.
LEMMA NewestEnded ==
    ASSUME TypeOK, ReadsFit, newest # NoGen
    PROVE  newest \in Attempts /\ newest[2] = "analyze" /\ pc[newest] \in {"committed", "failed"}
  BY DEF TypeOK, ReadsFit

\* The report is another only when another analysis is the latest.
LEMMA ReportStays ==
    ASSUME TypeOK, StepsInOrder, StepsFit, ReadsFit, [Next]_vars, newest' = newest
    PROVE  {MadeFrom(a) : a \in {newest} \ {NoGen}}' = {MadeFrom(a) : a \in {newest} \ {NoGen}}
  <1>1. CASE newest = NoGen
    BY <1>1
  <1>2. CASE newest # NoGen
    <2>1. ASSUME NEW g \in Generations
          PROVE  <<newest, g>> \in view' <=> <<newest, g>> \in view
      <3>1. ASSUME NEW b \in Attempts, Sees(b) \/ EmbedBegin(b)
            PROVE  b # newest
        <4>1. CASE Sees(b)
          BY <1>2, <4>1, NewestEnded, SeesFirst
        <4>2. CASE EmbedBegin(b)
          BY <1>2, <4>2, NewestEnded DEF EmbedBegin
        <4>3. QED
          BY <3>1, <4>1, <4>2
      <3>2. QED
        BY <3>1, ViewMoves DEF Sees, EmbedBegin
    <2>2. MadeFrom(newest)' = MadeFrom(newest)
      BY <2>1 DEF MadeFrom, Generations
    <2>3. QED
      BY <1>2, <2>2
  <1>3. QED
    BY <1>1, <1>2

\* A step that changes no status, segment, embedding or analysis gives takes up at most.
LEMMA GiveUpStep ==
    ASSUME IInv, ReadsFit, [Next]_vars, UNCHANGED <<status, segs, vecs, newest>>
    PROVE  Record!GiveUp
  <1> USE DEF IInv
  <1>1. \A g \in Attempts : Stored(g) => Stored(g)'
    BY StoredStays
  <1>2. NothingLost' => NothingLost
    BY EndedStays DEF NothingLost
  <1>3. {MadeFrom(a) : a \in {newest} \ {NoGen}}' = {MadeFrom(a) : a \in {newest} \ {NoGen}}
    BY ReportStays
  <1>4. {g \in Attempts : Stored(g)} \subseteq {g \in Attempts : Stored(g)}'
    BY <1>1 DEF Attempts, Steps
  <1>5. {g \in Attempts : Stored(g)}' \subseteq Attempts
    BY DEF Attempts, Steps
  <1>6. {v[2] : v \in vecs}' = {v[2] : v \in vecs}
    OBVIOUS
  <1>7. QED
    BY <1>2, <1>3, <1>4, <1>5, <1>6 DEF Record!GiveUp

\* A step after which the same takes are used up and nothing more is lost.
LEMMA SameBook ==
    ASSUME NEW a \in Attempts, pc \in [Attempts -> PC], NEW x, pc' = [pc EXCEPT ![a] = x],
           pc[a] # "lost", x # "lost",
           \/ a[2] \notin {"transcribe", "finalize"}
           \/ a[2] = "finalize" /\ pc[a] = "written" /\ x = "committed"
    PROVE  /\ {g \in Attempts : Stored(g)}' = {g \in Attempts : Stored(g)}
           /\ NothingLost' = NothingLost
  <1>1. \A g \in Attempts : Stored(g)' <=> Stored(g)
    BY DEF Stored
  <1>2. Attempts' = Attempts
    BY DEF Attempts, Steps
  <1>3. NothingLost' <=> NothingLost
    BY DEF NothingLost, Attempts, Steps
  <1>4. NothingLost \in BOOLEAN /\ NothingLost' \in BOOLEAN
    BY DEF NothingLost
  <1>5. QED
    BY <1>1, <1>2, <1>3, <1>4

\* A mark and the commit of finalize show a status; only after an analysis, that the
\* meeting is analyzed.
LEMMA ShowStep ==
    ASSUME IInv, ReadsFit, [Next]_vars, NEW a \in Attempts, UNCHANGED <<segs, vecs, newest>>,
           \/ /\ a[2] \in Marks /\ status' = a[2]
              /\ LockFree /\ Needs(a[2]) \subseteq done[a[1]]
              /\ pc[a] \in {"idle", "flushing"} /\ pc' = [pc EXCEPT ![a] = "committed"]
           \/ a[2] = "finalize" /\ status' = "uploaded" /\ Commit(a)
    PROVE  \E st \in MeetingStatus : Record!Show(st)
  <1> USE DEF IInv
  <1>1. /\ {g \in Attempts : Stored(g)}' = {g \in Attempts : Stored(g)}
        /\ NothingLost' = NothingLost
    BY SameBook DEF TypeOK, Commit, Marks
  <1>2. {MadeFrom(b) : b \in {newest} \ {NoGen}}' = {MadeFrom(b) : b \in {newest} \ {NoGen}}
    BY ReportStays
  <1>3. ASSUME status' = "analyzed", NothingLost
        PROVE  {MadeFrom(b) : b \in {newest} \ {NoGen}} # {}
    <2>1. LockFree /\ "analyze" \in done[a[1]]
      BY <1>3, StepFacts
    <2>2. PICK b \in Attempts : b[2] = "analyze" /\ pc[b] \in {"written", "committed", "lost"}
      BY <2>1, AnsweredAttempt, AttemptParts
    <2>3. pc[b] = "committed"
      BY <1>3, <2>1, <2>2 DEF LockFree, HoldsLock, NothingLost
    <2>4. newest # NoGen
      BY <2>2, <2>3 DEF AnalysesStored, ReadsFit
    <2>5. QED
      BY <2>4
  <1>4. status' \in MeetingStatus
    BY DEF MeetingStatus
  <1>5. {v[2] : v \in vecs}' = {v[2] : v \in vecs}
    OBVIOUS
  <1>6. Record!Show(status')
    BY <1>1, <1>2, <1>3, <1>5 DEF Record!Show
  <1>7. QED
    BY <1>4, <1>6

\* A transcription that is stored, by finalize or by the commit of transcribe.
LEMMA TranscribeStep ==
    ASSUME IInv, ReadsFit, [Next]_vars, NEW a \in Attempts, UNCHANGED <<status, vecs, newest>>,
           ReplaceTranscript(a),
           \/ /\ a[2] = "finalize" /\ pc[a] \in {"awaiting", "saving"}
              /\ pc' = [pc EXCEPT ![a] = "naming"]
           \/ /\ a[2] = "transcribe" /\ pc[a] = "written"
              /\ pc' = [pc EXCEPT ![a] = "committed"]
    PROVE  Record!Transcribe(a)
  <1> USE DEF IInv
  <1>1. \A g \in Attempts : Stored(g)' <=> Stored(g) \/ g = a
    BY DEF Stored, TypeOK
  <1>2. ~Stored(a)
    BY DEF Stored
  <1>3. Attempts' = Attempts
    BY DEF Attempts, Steps
  <1>4. {g \in Attempts : Stored(g)}' = {g \in Attempts : Stored(g)} \cup {a}
    BY <1>1, <1>3
  <1>5. segs' \in {{}, {a}}
    BY DEF ReplaceTranscript
  <1>6. NothingLost' = NothingLost
    <2>1. NothingLost' <=> NothingLost
      BY <1>3 DEF NothingLost, TypeOK
    <2>2. NothingLost \in BOOLEAN /\ NothingLost' \in BOOLEAN
      BY DEF NothingLost
    <2>3. QED
      BY <2>1, <2>2
  <1>7. {MadeFrom(b) : b \in {newest} \ {NoGen}}' = {MadeFrom(b) : b \in {newest} \ {NoGen}}
    BY ReportStays
  <1>8. {v[2] : v \in vecs}' = {v[2] : v \in vecs}
    OBVIOUS
  <1>9. QED
    BY <1>2, <1>4, <1>5, <1>6, <1>7, <1>8 DEF Record!Transcribe

\* The commit of an embedding.
LEMMA IndexStep ==
    ASSUME IInv, ReadsFit, [Next]_vars, NEW a \in Attempts, Commit(a), a[2] = "embed"
    PROVE  Record!Index
  <1> USE DEF IInv
  <1>1. EmbeddingWrite(a) /\ pc' = [pc EXCEPT ![a] = "committed"] /\ pc[a] = "written"
    BY DEF Commit
  <1>2. /\ {g \in Attempts : Stored(g)}' = {g \in Attempts : Stored(g)}
        /\ NothingLost' = NothingLost
    BY <1>1, SameBook DEF TypeOK
  <1>3. {MadeFrom(b) : b \in {newest} \ {NoGen}}' = {MadeFrom(b) : b \in {newest} \ {NoGen}}
    BY <1>1, ReportStays DEF EmbeddingWrite
  <1>4. ASSUME NEW v \in vecs
        PROVE  \E w \in vecs' : w[2] = v[2]
    <2>1. CASE <<a, v>> \in prior
      <3>1. <<a, v[2]>> \in view
        BY <2>1 DEF PriorWasRead
      <3>2. <<a, v[2]>> \in vecs'
        BY <1>1, <3>1 DEF EmbeddingWrite
      <3>3. QED
        BY <3>2
    <2>2. CASE <<a, v>> \notin prior
      BY <1>1, <2>2 DEF EmbeddingWrite
    <2>3. QED
      BY <2>1, <2>2
  <1>5. ASSUME NEW w \in vecs'
        PROVE  (\E v \in vecs : v[2] = w[2]) \/ w[2] = Live \/ (w[2] \in Attempts /\ Stored(w[2]))
    <2>1. CASE w \in vecs
      BY <2>1
    <2>2. CASE w \in view
      <3>1. w[1] \in Attempts /\ w[2] \in Generations /\ w = <<w[1], w[2]>>
        BY <2>2 DEF TypeOK
      <3>2. QED
        BY <2>2, <3>1 DEF GenerationsStored, Generations
    <2>3. QED
      BY <1>1, <2>1, <2>2 DEF EmbeddingWrite
  <1>6. /\ {v[2] : v \in vecs} \subseteq {v[2] : v \in vecs}'
        /\ {v[2] : v \in vecs}' \subseteq
             {v[2] : v \in vecs} \cup {g \in Attempts : Stored(g)} \cup {Live}
    BY <1>4, <1>5
  <1>7. QED
    BY <1>1, <1>2, <1>3, <1>6 DEF Record!Index, EmbeddingWrite

\* The commit of an analysis, completed or failed: it was made from the text, since it
\* has held the lock from before it read the segments.
LEMMA AnalyzeStep ==
    ASSUME IInv, ReadsFit, [Next]_vars, NEW b \in Attempts,
           b[2] = "analyze", HoldsLock(b), newest' = b,
           pc' = [pc EXCEPT ![b] = pc'[b]], pc'[b] \in {"committed", "failed"},
           UNCHANGED <<status, segs, vecs, view>>
    PROVE  Record!Analyze
  <1> USE DEF IInv
  <1>1. pc[b] # "lost"
    BY DEF HoldsLock, HoldsAcrossAwait
  <1>2. PICK x \in {"committed", "failed"} : pc' = [pc EXCEPT ![b] = x]
    OBVIOUS
  <1>3. /\ {g \in Attempts : Stored(g)}' = {g \in Attempts : Stored(g)}
        /\ NothingLost' = NothingLost
    BY <1>1, <1>2, SameBook DEF TypeOK
  <1>4. \A g \in Generations : <<b, g>> \in view <=> g \in segs
    BY DEF AnalysisSeesAll, ReadsFit
  <1>5. MadeFrom(b) = segs
    BY <1>4 DEF MadeFrom, TypeOK
  <1>6. {g \in Generations : <<b, g>> \in view}' = segs
    BY <1>5 DEF MadeFrom, Generations, Attempts, Steps
  <1>7. \A a : a \in {newest'} \ {NoGen} <=> a = b
    BY ConstantsOK
  <1>8. {MadeFrom(a) : a \in {newest} \ {NoGen}}' = {segs}
    BY <1>6, <1>7 DEF MadeFrom
  <1>9. {v[2] : v \in vecs}' = {v[2] : v \in vecs}
    OBVIOUS
  <1>10. QED
    BY <1>3, <1>8, <1>9 DEF Record!Analyze

\* A late webhook.
LEMMA StreamStep ==
    ASSUME IInv, ReadsFit, [Next]_vars, LateWebhook
    PROVE  Record!Stream \/ Record!GiveUp
  <1>1. /\ UNCHANGED <<status, vecs, newest, pc>>
        /\ segs' \in {segs, segs \cup {Live}, segs \ {Live}}
    BY DEF LateWebhook
  <1>2. CASE segs' = segs
    BY <1>1, <1>2, GiveUpStep
  <1>3. CASE segs' \in {segs \cup {Live}, segs \ {Live}}
    <2>1. {g \in Attempts : Stored(g)}' = {g \in Attempts : Stored(g)} /\ NothingLost' = NothingLost
      BY <1>1 DEF Stored, NothingLost, Attempts, Steps
    <2>2. {MadeFrom(b) : b \in {newest} \ {NoGen}}' = {MadeFrom(b) : b \in {newest} \ {NoGen}}
      BY <1>1, ReportStays DEF IInv
    <2>3. {v[2] : v \in vecs}' = {v[2] : v \in vecs}
      BY <1>1
    <2>4. QED
      BY <1>1, <1>3, <2>1, <2>2, <2>3 DEF Record!Stream
  <1>4. QED
    BY <1>1, <1>2, <1>3

\* Every step of MeetingPipeline maps to a step of MeetingRecord.
LEMMA RecordStep ==
    ASSUME IInv, ReadsFit, [Next]_vars
    PROVE  Record!RecordNext
  <1>1. ASSUME UNCHANGED <<status, segs, vecs, newest>>
        PROVE  Record!RecordNext
    BY <1>1, GiveUpStep DEF Record!RecordNext
  <1>2. ASSUME NEW a \in Attempts, a[2] \in Marks, status' = a[2],
               LockFree, Needs(a[2]) \subseteq done[a[1]],
               pc[a] \in {"idle", "flushing"}, pc' = [pc EXCEPT ![a] = "committed"],
               UNCHANGED <<segs, vecs, analyses, newest>>
        PROVE  Record!RecordNext
    BY <1>2, ShowStep DEF Record!RecordNext
  <1>3. ASSUME NEW a \in Attempts, Stores(a), UNCHANGED status
        PROVE  Record!RecordNext
    BY <1>3, TranscribeStep DEF Record!RecordNext, Stores
  <1>4. ASSUME NEW a \in Attempts, Commit(a)
        PROVE  Record!RecordNext
    <2>1. CASE a[2] = "finalize"
      <3>1. status' = "uploaded" /\ UNCHANGED <<segs, vecs, newest>>
        BY <1>4, <2>1 DEF Commit, StatusWrite
      <3>2. QED
        BY <1>4, <2>1, <3>1, ShowStep DEF Record!RecordNext
    <2>2. CASE a[2] = "transcribe"
      <3>1. /\ ReplaceTranscript(a) /\ UNCHANGED <<status, vecs, newest>>
            /\ pc[a] = "written" /\ pc' = [pc EXCEPT ![a] = "committed"]
        BY <1>4, <2>2 DEF Commit, TranscriptWrite
      <3>2. QED
        BY <2>2, <3>1, TranscribeStep DEF Record!RecordNext
    <2>3. CASE a[2] = "embed"
      BY <1>4, <2>3, IndexStep DEF Record!RecordNext
    <2>4. CASE a[2] = "analyze"
      <3>1. /\ HoldsLock(a) /\ newest' = a
            /\ pc' = [pc EXCEPT ![a] = pc'[a]] /\ pc'[a] \in {"committed", "failed"}
            /\ UNCHANGED <<status, segs, vecs, view>>
        BY <1>4, <2>4 DEF Commit, AnalysisWrite, HoldsLock, IInv, TypeOK
      <3>2. QED
        BY <2>4, <3>1, AnalyzeStep DEF Record!RecordNext
    <2>5. QED
      BY <1>4, <2>1, <2>2, <2>3, <2>4 DEF Commit
  <1>5. ASSUME NEW a \in Attempts, AnalyzeFails(a)
        PROVE  Record!RecordNext
    <2>1. /\ a[2] = "analyze" /\ HoldsLock(a) /\ newest' = a
          /\ pc' = [pc EXCEPT ![a] = pc'[a]] /\ pc'[a] \in {"committed", "failed"}
          /\ UNCHANGED <<status, segs, vecs, view>>
      BY <1>5 DEF AnalyzeFails, HoldsAcrossAwait, HoldsLock, IInv, TypeOK, readVars
    <2>2. QED
      BY <2>1, AnalyzeStep DEF Record!RecordNext
  <1>6. ASSUME LateWebhook
        PROVE  Record!RecordNext
    BY <1>6, StreamStep DEF Record!RecordNext
  <1>7. QED
    BY <1>1, <1>2, <1>3, <1>4, <1>5, <1>6, RecordMoves DEF IInv

\* The initial states map to the initial state of MeetingRecord.
LEMMA RecordInitStep == Init => Record!RecordInit
  <1> SUFFICES ASSUME Init PROVE Record!RecordInit
    OBVIOUS
  <1>1. status \in MeetingStatus \ {"analyzed"}
    BY DEF Init, MeetingStatus
  <1>2. segs \in {{}, {Live}} /\ {v[2] : v \in vecs} = {}
    BY DEF Init
  <1>3. {MadeFrom(a) : a \in {newest} \ {NoGen}} = {}
    BY DEF Init
  <1>4. {g \in Attempts : Stored(g)} = {}
    BY DEF Init, Stored
  <1>5. NothingLost = TRUE
    BY DEF Init, NothingLost
  <1>6. QED
    BY <1>1, <1>2, <1>3, <1>4, <1>5 DEF Record!RecordInit

\* What analyses have read fits in every behaviour.
LEMMA ReadsInv == Spec => []ReadsFit
  <1>1. IInv /\ ReadsFit /\ [Next]_vars => ReadsFit'
    BY ReadsStep DEF IInv
  <1>2. QED
    BY <1>1, ReadsInit, Invariance, PTL DEF Spec

\* The pipeline implements MeetingRecord: whatever its runs, retries, abandoned attempts,
\* late webhooks and restarts interleave, the text of a meeting is replaced as a whole and
\* by a new take only (the segments streamed during the call may come and go), its latest analysis was made from the very text that was stored
\* when it was committed, and search never loses a text.
THEOREM Refinement == Spec => ImplementsRecord
  <1>1. IInv /\ ReadsFit /\ [Next]_vars => [Record!RecordNext]_(Record!recordVars)
    BY RecordStep
  <1>2. QED
    BY Invariance, ReadsInv, RecordInitStep, <1>1, PTL DEF Spec, ImplementsRecord, Record!RecordSpec
=============================================================================
