------------------------------ MODULE MCEQueue ------------------------------
(***************************************************************************)
(* A small instance of EQueue for TLC.                                     *)
(***************************************************************************)
EXTENDS EQueue, TLC

Symmetry == Permutations(Data) \cup Permutations(Node)

(* What freed nodes happen to hold is not part of a state: NodesOwned says *)
(* that no list reaches them.                                              *)
View ==
  <<top, rear, size, const_data, alloc, held, freed, ret, op, dst, src, chain,
    [n \in alloc |-> <<next[n], data[n]>>]>>
=============================================================================
