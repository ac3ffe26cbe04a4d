----------------------------- MODULE MCEnvelopes -----------------------------
(* Instances of Envelopes for model checking. *)
EXTENDS Envelopes, TLC

\* The ids and users are interchangeable: the safety runs check one of each
\* orbit. (Calls and webhook slots are too; the ids gain the most.)
Symmetry == Permutations(EnvelopeIds) \cup Permutations(ProviderIds)
              \cup Permutations(Calls) \cup Permutations(Hooks) \cup Permutations(Users)

\* No step is decided by what is due (fairness alone is), and no safety property
\* speaks of it: the safety runs take states that differ in nothing else for one.
WithoutDue == <<storeVars, call, hook, providerVars, failures>>
=============================================================================
