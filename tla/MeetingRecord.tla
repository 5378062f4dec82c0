---------------------------- MODULE MeetingRecord ----------------------------
(***************************************************************************)
(* What a reader of a meeting may rely on while runs of the pipeline, live *)
(* webhooks and restarts work on it: each of its parts changes as if one   *)
(* request at a time did, and at once.                                     *)
(*                                                                         *)
(* A transcription replaces the whole text, once, and none comes back that *)
(* was replaced; only the segments streamed during the call are under no   *)
(* such rule.  The latest analysis was made from exactly the text that was *)
(* stored when it was.  Search never loses a text that it has found, and   *)
(* finds none that was never stored.  The meeting is not shown as analyzed *)
(* before it has an analysis, as long as no acknowledged write has been    *)
(* lost.  MeetingPipeline implements this specification.                   *)
(***************************************************************************)
CONSTANTS
    Takes,      \* transcriptions that may be stored
    Live,       \* the segments streamed during the call
    Statuses

VARIABLES
    shown,      \* the status of the meeting
    text,       \* the takes whose final segments are stored
    index,      \* the takes that search finds
    report,     \* the texts the latest analysis was made from: one, or none
    used,       \* the takes that have been stored or never will be
    intact      \* no write that was acknowledged has been lost

recordVars == <<shown, text, index, report, used, intact>>

RecordInit ==
    /\ shown \in Statuses \ {"analyzed"}
    /\ text \in {{}, {Live}}
    /\ index = {}
    /\ report = {}
    /\ used = {}
    /\ intact = TRUE

\* The meeting shows another status.
Show(st) ==
    /\ st = "analyzed" /\ intact => report # {}
    /\ shown' = st
    /\ UNCHANGED <<text, index, report, used, intact>>

\* A new transcription replaces the text; it may have heard no words.
Transcribe(g) ==
    /\ g \notin used
    /\ used' = used \cup {g}
    /\ text' \in {{}, {g}}
    /\ UNCHANGED <<shown, index, report, intact>>

\* A segment of the call is stored late, or one that was final is not any more: that
\* part of the text alone may come and go.
Stream ==
    /\ text' \in {text \cup {Live}, text \ {Live}}
    /\ UNCHANGED <<shown, index, report, used, intact>>

\* Texts that were stored at some time are indexed.
Index ==
    /\ index \subseteq index'
    /\ index' \subseteq index \cup used \cup {Live}
    /\ UNCHANGED <<shown, text, report, used, intact>>

\* The text is analysed.
Analyze ==
    /\ report' = {text}
    /\ UNCHANGED <<shown, text, index, used, intact>>

\* Takes are given up, and a restart may lose what was acknowledged.
GiveUp ==
    /\ used \subseteq used' /\ used' \subseteq Takes
    /\ intact' => intact
    /\ UNCHANGED <<shown, text, index, report>>

RecordNext ==
    \/ \E st \in Statuses : Show(st)
    \/ \E g \in Takes : Transcribe(g)
    \/ Stream \/ Index \/ Analyze \/ GiveUp

RecordSpec == RecordInit /\ [][RecordNext]_recordVars
=============================================================================
