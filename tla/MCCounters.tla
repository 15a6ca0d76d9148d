----------------------------- MODULE MCCounters -----------------------------
(***************************************************************************)
(* Counters for TLC.  CPUs are interchangeable.                            *)
(***************************************************************************)
EXTENDS Counters, TLC

Symmetry == Permutations(CPUs)

=============================================================================
