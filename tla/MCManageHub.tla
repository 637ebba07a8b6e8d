---------------------------- MODULE MCManageHub ----------------------------
(* Two characters of the account on a page each, and one it does not have. *)
EXTENDS ManageHub, TLC

CONSTANTS o1, o2, o3

MCRank == (o1 :> 2) @@ (o2 :> 1)
=============================================================================
