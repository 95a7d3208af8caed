---------------------------- MODULE MCRoundJobs ----------------------------
(***************************************************************************)
(* Instances of RoundJobs for TLC.                                         *)
(***************************************************************************)
EXTENDS RoundJobs

=============================================================================
