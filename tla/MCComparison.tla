---------------------------- MODULE MCComparison ----------------------------
(* Comparison with one character that has two identifiers, so that the     *)
(* first can go stale while a command runs.  Its targets are the rows of   *)
(* both identifiers and the character named as a guest.                    *)
EXTENDS Comparison, TLC

CONSTANTS a1, a2, A

MCOcid == {a1, a2}
MCNickname == {A}
MCNameOf == [o \in {a1, a2} |-> A]
MCFirstOcid == {a1}

=============================================================================
