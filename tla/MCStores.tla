------------------------------ MODULE MCStores ------------------------------
(***************************************************************************)
(* Stores for TLC: three writing calls over two envelopes, and a clock that *)
(* ticks twice, so transactions overlap, fail in each other's middle and   *)
(* share a date or not.                                                    *)
(***************************************************************************)
EXTENDS Stores, TLC

CONSTANTS t1, t2, t3, e1, e2

TaskSet == {t1, t2, t3}
Symmetry == Permutations(TaskSet)

=============================================================================
