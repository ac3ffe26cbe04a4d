----------------------------- MODULE MCTokenCache -----------------------------
(* Instances of TokenCache for model checking. *)
EXTENDS TokenCache, TLC

\* Callers and refreshes are interchangeable.
Symmetry == Permutations(Callers) \cup Permutations(Refreshes)
=============================================================================
