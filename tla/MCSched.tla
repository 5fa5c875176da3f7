------------------------------ MODULE MCSched ------------------------------
(***************************************************************************)
(* Instances of Sched for TLC: who uses the buffer.                        *)
(***************************************************************************)
EXTENDS Sched

CONSTANT b1

\* Every task but task 0 may lock and wait for every buffer.
SharedBufs == [b \in Bufs |-> Slots \ {0}]
===========================================================================
