------------------------------ MODULE CowSpec ------------------------------
(***************************************************************************)
(* What fork and copy-on-write promise: every process has a memory of its  *)
(* own.  A child starts with a copy of its parent's memory and a write by  *)
(* one process is never seen by another.                                   *)
(***************************************************************************)
CONSTANTS Procs,    \* process slots
          VPages,   \* pages of an address space
          Vals,     \* contents of a page
          Image     \* what the first process starts with

VARIABLE view       \* the memory of each live process

Init == view = [s \in {0} |-> Image]

Fork(s, c) ==
  /\ s \in DOMAIN view /\ c \in Procs \ DOMAIN view
  /\ view' = [t \in DOMAIN view \cup {c} |-> IF t = c THEN view[s] ELSE view[t]]

Write(s, v, x) ==
  /\ s \in DOMAIN view
  /\ view' = [view EXCEPT ![s][v] = x]

Next == \/ \E s, c \in Procs : Fork(s, c)
        \/ \E s \in Procs, v \in VPages, x \in Vals : Write(s, v, x)

Spec == Init /\ [][Next]_view
===========================================================================
