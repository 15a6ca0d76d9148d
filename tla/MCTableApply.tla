---------------------------- MODULE MCTableApply ----------------------------
(***************************************************************************)
(* TableApply for TLC: two actions beside NoAction, two parameters.        *)
(***************************************************************************)
EXTENDS TableApply

MCDefaultAction == [action |-> 1, param |-> 0]

\* An array of one element: the second index is beyond its size.
MCElement == [k \in Keys |-> IF k = CHOOSE j \in Keys : TRUE THEN CHOOSE s \in Slots : TRUE ELSE NoSlot]

=============================================================================
