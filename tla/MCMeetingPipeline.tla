-------------------------- MODULE MCMeetingPipeline --------------------------
(***************************************************************************)
(* MeetingPipeline for TLC.  The runs of a meeting are interchangeable.    *)
(***************************************************************************)
EXTENDS MeetingPipeline, TLC

Symmetry == Permutations(Runs)
=============================================================================
