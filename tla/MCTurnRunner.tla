---------------------------- MODULE MCTurnRunner ----------------------------
(* TurnRunner on small instances. *)
EXTENDS TurnRunner, TLC

\* Only runs have an order; the other sets are interchangeable.
Symmetry ==
  Permutations(Tokens) \cup Permutations(Deciders) \cup Permutations(Requests)
  \cup Permutations(Commands) \cup Permutations(Workers) \cup Permutations(Sessions)
=============================================================================
