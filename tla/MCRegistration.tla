--------------------------- MODULE MCRegistration ---------------------------
(* Registration on three identifiers of two characters: a1 is replaced by   *)
(* a2 when Nexon issues a new ocid for the character A.                    *)
EXTENDS Registration, TLC

CONSTANTS a1, a2, b1, A, B

MCOcid == {a1, a2, b1}
MCNickname == {A, B}
MCNameOf == (a1 :> A) @@ (a2 :> A) @@ (b1 :> B)
MCFirstOcid == {a1, b1}

(* A behaviour is followed as long as handlers have crossed on the account  *)
(* of one promise at most.                                                 *)
OnePromiseCrossed ==
  Cardinality({p \in DOMAIN crossed : crossed[p] # {}}) <= 1

Symmetric == Permutations(Session)

=============================================================================
