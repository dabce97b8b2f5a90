----------------------------- MODULE MCDSSStore -----------------------------
(***************************************************************************)
(* Model-checking instance of DSSStore: two subscriptions, one ISA, two    *)
(* owners and two cells, so that an ISA can overlap one subscription and   *)
(* miss the other, and a foreign and an own subscription can coexist.      *)
(***************************************************************************)
EXTENDS DSSStore, TLC

CONSTANTS s1, s2, i1, o1, o2, c1, c2

MCSubIds == {s1, s2}
MCIsaIds == {i1}
MCOwners == {o1, o2}
MCCells  == {c1, c2}

Symmetry == Permutations(MCSubIds) \cup Permutations(MCOwners)
              \cup Permutations(MCCells)
=============================================================================
