--------------------------- MODULE MCBufferCache ---------------------------
(***************************************************************************)
(* Instances of BufferCache for TLC.                                       *)
(***************************************************************************)
EXTENDS BufferCache, TLC

\* The first two blocks share a chain.
MCHashFn == [k \in Blocks |-> IF k <= 2 THEN 0 ELSE 1]

\* The clients are interchangeable.
Symmetry == Permutations(Clients)

MCContents == [k \in Blocks |-> 0]
=============================================================================
