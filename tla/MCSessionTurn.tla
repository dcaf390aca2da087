--------------------------- MODULE MCSessionTurn ---------------------------
(* SessionTurn on small instances. *)
EXTENDS SessionTurn, TLC

CONSTANTS s1, th1

OneThread == [s \in {s1} |-> th1]
Symmetry == Permutations(Workers) \cup Permutations(Tokens)
=============================================================================
