----------------------------- MODULE MCRunStore -----------------------------
(* RunStore on small instances. *)
EXTENDS RunStore, TLC

\* Tokens, commands, workers and reapers are interchangeable.
Symmetry ==
  Permutations(Tokens) \cup Permutations(Commands) \cup Permutations(Workers)
  \cup Permutations(Reapers)
=============================================================================
