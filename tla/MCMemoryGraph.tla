--------------------------- MODULE MCMemoryGraph ---------------------------
(***************************************************************************)
(* Instances of MemoryGraph for TLC.                                       *)
(***************************************************************************)
EXTENDS MemoryGraph, TLC

CONSTANTS s1, s2,  \* servers
          m1, m2   \* values of context and tags

Symmetry == Permutations({s1, s2}) \cup Permutations({m1, m2})
=============================================================================
