------------------------------- MODULE MCTty -------------------------------
(***************************************************************************)
(* Instances of Tty for TLC.                                               *)
(***************************************************************************)
EXTENDS Tty

CONSTANT MaxLength  \* bound: characters of a message

MCMessages ==
  UNION {[1 .. n -> Printable \cup Controls] : n \in 1 .. MaxLength}
=============================================================================
