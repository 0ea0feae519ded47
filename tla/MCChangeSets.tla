---------------------------- MODULE MCChangeSets ----------------------------
(* Two changes; the first creates a node *)
EXTENDS ChangeSets

CONSTANTS c1, c2
MCChange == {c1, c2}
MCCreates == {c1}
=============================================================================
