--------------------------- MODULE MCVectorIndex ---------------------------
(***************************************************************************)
(* Instances of VectorIndex for TLC: three encoders, two of them with      *)
(* embeddings of the same length.                                          *)
(***************************************************************************)
EXTENDS VectorIndex

CONSTANTS e1, e2, e3  \* encoders

TwoDimensions == [e \in Encoders |-> IF e = e3 THEN 2 ELSE 1]
=============================================================================
