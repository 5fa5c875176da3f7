----------------------------- MODULE MCHardDisk -----------------------------
(***************************************************************************)
(* Instances of HardDisk for TLC.                                          *)
(***************************************************************************)
EXTENDS HardDisk

\* The buffers are numbered; the block of the last one is refused.
MCBlockOf == [b \in Bufs |-> b]
=============================================================================
