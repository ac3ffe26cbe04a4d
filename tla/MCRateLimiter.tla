----------------------------- MODULE MCRateLimiter -----------------------------
(* Instances of RateLimiter for model checking. *)
EXTENDS RateLimiter, TLC

\* Clients are interchangeable.
Symmetry == Permutations(Clients)

\* The same limit on every route
MCLimit == [r \in Routes |-> 2]
=============================================================================
