---------------------------- MODULE MCNoticePoll ----------------------------
(* No symmetry: the run checks a liveness property. *)
EXTENDS NoticePoll

=============================================================================
