----------------------------- MODULE MCLinkList -----------------------------
(* Instances of LinkList for TLC. *)
EXTENDS LinkListProps, TLC

CONSTANTS n1, n2, n3, n4, n5

NodeSymmetry == Permutations(Nodes)
=============================================================================
