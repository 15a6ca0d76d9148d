--------------------------- MODULE MCReplication ---------------------------
(***************************************************************************)
(* Replication for TLC: members that share a port, an instance or neither, *)
(* one with instance 0, in an inner map they fill.                         *)
(***************************************************************************)
EXTENDS Replication

Id(p, i)  == [port |-> p, instance |-> i]
MCMembers == {Id(1, 0), Id(1, 1), Id(2, 1)}
=============================================================================
