---------------------------- MODULE MCLegacyStore ----------------------------
(***************************************************************************)
(* Model-checking instance of LegacyStore: two subscriptions, one ISA, two *)
(* owners, two cells.                                                      *)
(***************************************************************************)
EXTENDS LegacyStore

CONSTANTS s1, s2, i1, o1, o2, c1, c2

MCSubIds == {s1, s2}
MCIsaIds == {i1}
MCOwners == {o1, o2}
MCCells  == {c1, c2}
=============================================================================
