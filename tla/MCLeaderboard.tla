--------------------------- MODULE MCLeaderboard ---------------------------
(* Two characters whose first day left the retention period on the second day. *)
EXTENDS Leaderboard, TLC

CONSTANTS o1, o2

MCOcid == {o1, o2}
MCFirst == [o \in MCOcid |-> 2]

Symmetric == Permutations(MCOcid)

=============================================================================
