----------------------------- MODULE BlockStore -----------------------------
(***************************************************************************)
(* What the buffer cache promises: the blocks of a device as one memory    *)
(* that only a client who has the block open can change.                   *)
(***************************************************************************)
CONSTANTS Clients, Blocks, Vals,
          Contents,  \* of the device at first
          Nil

VARIABLES store,  \* the contents of each block
          open    \* the block each client has open, or Nil

Init ==
  /\ store = Contents
  /\ open = [p \in Clients |-> Nil]

Open(p) ==
  /\ open[p] = Nil
  /\ \E k \in Blocks : open' = [open EXCEPT ![p] = k]
  /\ UNCHANGED store

Write(p) ==
  /\ open[p] # Nil
  /\ \E v \in Vals : store' = [store EXCEPT ![open[p]] = v]
  /\ UNCHANGED open

Close(p) ==
  /\ open[p] # Nil
  /\ open' = [open EXCEPT ![p] = Nil]
  /\ UNCHANGED store

Next == \E p \in Clients : Open(p) \/ Write(p) \/ Close(p)

Spec == Init /\ [][Next]_<<store, open>>
=============================================================================
