-------------------------- MODULE MCOpenCodePlugin --------------------------
(***************************************************************************)
(* Instances of OpenCodePlugin for TLC.                                    *)
(***************************************************************************)
EXTENDS OpenCodePlugin

CONSTANTS t1, t2, t3  \* tasks
=============================================================================
