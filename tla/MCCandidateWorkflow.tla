------------------------- MODULE MCCandidateWorkflow -------------------------
(***************************************************************************)
(* The bounds of CandidateWorkflow for TLC.                                *)
(***************************************************************************)
EXTENDS CandidateWorkflow

(* Longer on the server, which refuses most commands.                      *)
MCMaxRevision == [server \in BOOLEAN |-> IF server THEN 8 ELSE 7]
=============================================================================
