--------------------------- MODULE MCUserRuntime ---------------------------
(***************************************************************************)
(* UserRuntime for TLC: two tables, and one whose name is too long.        *)
(* Keys are interchangeable, and so are values, and the two tables with    *)
(* their names.                                                            *)
(***************************************************************************)
EXTENDS UserRuntime, TLC

CONSTANTS t1, t2, t3, n1, n2, long, k1, k2, v1, v2

MCNameIn == (t1 :> n1) @@ (t2 :> n2) @@ (t3 :> long)

Swap == (t1 :> t2) @@ (t2 :> t1) @@ (n1 :> n2) @@ (n2 :> n1)
Symmetry == Permutations({k1, k2}) \cup Permutations({v1, v2}) \cup {Swap}

=============================================================================
