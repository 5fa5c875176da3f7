------------------------------ MODULE MCMemory ------------------------------
(***************************************************************************)
(* Instances of Memory for TLC.                                            *)
(***************************************************************************)
EXTENDS Memory

\* The pages of task 0 hold different values.
MCImage == [v \in VPages |-> v % Cardinality(Vals)]
===========================================================================
