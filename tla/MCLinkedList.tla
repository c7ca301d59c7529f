---------------------------- MODULE MCLinkedList ----------------------------
(***************************************************************************)
(* Instances of LinkedList for TLC.  Queues, stacks and items are only     *)
(* compared for equality, so exchanging two of a kind changes nothing.     *)
(***************************************************************************)
EXTENDS LinkedList

Symmetry == Permutations(Queues) \union Permutations(Stacks) \union Permutations(Items)
=============================================================================
