---------------------------- MODULE MCDescriptors ---------------------------
(***************************************************************************)
(* Descriptors for TLC: connections are only told apart by equality.       *)
(***************************************************************************)
EXTENDS Descriptors, TLC

Symmetry == Permutations(Conns)
=============================================================================
