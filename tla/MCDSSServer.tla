---------------------------- MODULE MCDSSServer ----------------------------
(***************************************************************************)
(* Model-checking instance of DSSServer: one subscription id, one ISA id,  *)
(* two writers, a reader-only owner, a token without an owner, two cells.  *)
(***************************************************************************)
EXTENDS DSSServer, TLC

CONSTANTS s1, i1, o1, o2, o3, c1, c2

MCSubIds == {s1}
MCIsaIds == {i1}
MCOwners == {o1, o2, o3}
MCCells  == {c1, c2}

\* o1 and o2 hold both scopes, o3 only the read scope; the token without an
\* owner holds both, so the handlers' own owner checks are reached.
MCScopesOf ==
    [c \in MCOwners \cup {NoOwner} |->
       IF c = o3 THEN {ReadISAScope} ELSE {ReadISAScope, WriteISAScope}]

Symmetry == Permutations({o1, o2}) \cup Permutations(MCCells)
=============================================================================
