-------------------------------- MODULE Tty --------------------------------
(***************************************************************************)
(* Writing to a terminal: ttyWrite of kernel/chr_drv/tty.c fills the write *)
(* queue and conWrite of console.c (or the empty rsWrite of serial.c)      *)
(* drains it into the Console.                                             *)
(*                                                                         *)
(* Every call of ttyWrite is a writer: a process in sysWrite, an interrupt *)
(* or fault handler in printk.  Interrupt handlers run with interrupts     *)
(* enabled and conWrite enables them as it ends, so the clock can hit a    *)
(* writer and another one runs in between: its statements on the queue are *)
(* the steps.  No code changes c_oflag: the console maps NL to CR NL and a *)
(* serial line maps nothing.                                               *)
(***************************************************************************)
EXTENDS Console, Sequences, FiniteSets

CONSTANTS TTY_BUF_SIZE,
          Writers,      \* who may be inside ttyWrite
          Messages,     \* what may be written
          Line,         \* "console" or "serial": the entry of TTY_TABLE
          Preemptible,  \* may another writer run between two steps of one?
          MaxCalls      \* bound: calls of ttyWrite

ASSUME TtyAssumption ==
  /\ TTY_BUF_SIZE \in Nat \ {0, 1}
  /\ \E k \in 1 .. 30 : TTY_BUF_SIZE = 2 ^ k  \* divides the unsigned head - tail
  /\ Messages \subseteq Seq(Printable \cup Controls)
  /\ Line \in {"console", "serial"}
  /\ Preemptible \in BOOLEAN /\ MaxCalls \in Nat

VARIABLES head, tail, buf,  \* write_q
          writer,           \* the calls of ttyWrite
          calls,            \* how many there were
          sent,             \* history: what the calls are to print
          printed           \* history: what conWrite took from the queue

queue == <<head, tail, buf>>
ttyVars == <<vars, queue, writer, calls, sent, printed>>

Slots == 0 .. TTY_BUF_SIZE - 1
Codes == Printable \cup Controls \cup {"CR"}

\* b is the rest of the message, crFlag says that the CR of its NL is stored,
\* c is the character to store next, nr what conWrite still has to take.
Returned == [at |-> "idle", b |-> <<>>, crFlag |-> FALSE, c |-> "NUL", nr |-> 0]

TtyInit ==
  /\ Init
  /\ head = 0 /\ tail = 0 /\ buf = [i \in Slots |-> "NUL"]
  /\ writer = [w \in Writers |-> Returned]
  /\ calls = 0 /\ sent = <<>> /\ printed = <<>>

\* A message as it is to appear: on the console a CR before every NL.
Expand(m) ==
  LET ex[i \in 0 .. Len(m)] ==
        IF i = 0 THEN <<>>
        ELSE ex[i - 1] \o IF Line = "console" /\ m[i] = "LF" THEN <<"CR", "LF">>
                                                             ELSE <<m[i]>>
  IN  ex[Len(m)]

---------------------------------------------------------------------------

At(w, place) ==
  /\ writer[w].at = place
  /\ Preemptible \/ \A u \in Writers \ {w} : writer[u].at = "idle"

Now(w, r) == writer' = [writer EXCEPT ![w] = r]

Succ(i) == (i + 1) % TTY_BUF_SIZE

\* Mutant: the check for a full queue is dropped.
NeverFull == FALSE

\* fullQueue.
Full == tail = Succ(head)

Call(w, m) ==
  /\ At(w, "idle") /\ calls < MaxCalls /\ m # <<>>
  /\ Now(w, [Returned EXCEPT !.at = "test", !.b = m])
  /\ calls' = calls + 1 /\ sent' = sent \o Expand(m)
  /\ UNCHANGED <<vars, queue, printed>>

\* Under OPOST and ONLCR a NL is preceded by a CR that is stored once.
NeedsCr(r) == Line = "console" /\ Head(r.b) = "LF" /\ ~r.crFlag

\* The inner loop goes on while there is something to store and a place for it.
Test(w) ==
  /\ At(w, "test")
  /\ LET r == writer[w]
     IN  IF r.b = <<>> \/ Full
           THEN Now(w, [r EXCEPT !.at = "count"])
           ELSE Now(w, [r EXCEPT !.at = "store",
                                 !.c = IF NeedsCr(r) THEN "CR" ELSE Head(r.b)])
  /\ UNCHANGED <<vars, queue, calls, sent, printed>>

Store(w) ==
  /\ At(w, "store")
  /\ buf' = [buf EXCEPT ![head] = writer[w].c]
  /\ Now(w, [writer[w] EXCEPT !.at = "advance"])
  /\ UNCHANGED <<vars, head, tail, calls, sent, printed>>

\* The head moves on; the message does too, unless the CR was inserted.
Advance(w) ==
  /\ At(w, "advance")
  /\ head' = Succ(head)
  /\ LET r == writer[w]
     IN  IF NeedsCr(r)
           THEN Now(w, [r EXCEPT !.at = "test", !.crFlag = TRUE])
           ELSE Now(w, [r EXCEPT !.at = "test", !.crFlag = FALSE, !.b = Tail(@)])
  /\ UNCHANGED <<vars, tail, buf, calls, sent, printed>>

\* The outer loop ends with the message.
Written(r) == IF r.b = <<>> THEN Returned ELSE [r EXCEPT !.at = "test", !.nr = 0]

\* Mutant: a full queue counts as empty.
CountFullAsEmpty(w) ==
  /\ At(w, "count")
  /\ IF Line = "serial" THEN Now(w, Written(writer[w]))
     ELSE Now(w, [writer[w] EXCEPT !.at = "take",
                                   !.nr = ((head - tail) % TTY_BUF_SIZE) % (TTY_BUF_SIZE - 1)])
  /\ UNCHANGED <<vars, queue, calls, sent, printed>>

\* conWrite counts what is in the queue; rsWrite does nothing.
Count(w) ==
  /\ At(w, "count")
  /\ IF Line = "serial" THEN Now(w, Written(writer[w]))
     ELSE Now(w, [writer[w] EXCEPT !.at = "take",
                                   !.nr = (head - tail) % TTY_BUF_SIZE])
  /\ UNCHANGED <<vars, queue, calls, sent, printed>>

\* conWrite takes and shows a character, and sets the cursor after the last.
Take(w) ==
  /\ At(w, "take")
  /\ IF writer[w].nr > 0
       THEN /\ Emit(buf[tail])
            /\ tail' = Succ(tail)
            /\ printed' = Append(printed, buf[tail])
            /\ Now(w, [writer[w] EXCEPT !.nr = @ - 1])
       ELSE /\ setCursor
            /\ Now(w, Written(writer[w]))
            /\ UNCHANGED <<tail, printed>>
  /\ UNCHANGED <<head, buf, calls, sent>>

Step(w) == Test(w) \/ Store(w) \/ Advance(w) \/ Count(w) \/ Take(w)

TtyNext == \E w \in Writers : Step(w) \/ \E m \in Messages : Call(w, m)

TtySpec == TtyInit /\ [][TtyNext]_ttyVars

\* A writer is kernel code that goes on running, or is resumed.
TtyFairSpec == TtySpec /\ \A w \in Writers : WF_ttyVars(Step(w))

---------------------------------------------------------------------------
(* Properties.                                                             *)

\* The types of the queue and the writers.
TtyTypeOK ==
  /\ TypeOK
  /\ head \in Slots /\ tail \in Slots /\ buf \in [Slots -> Codes \cup {"NUL"}]
  /\ writer \in [Writers -> [at : {"idle", "test", "store", "advance", "count", "take"},
                             b : Seq(Codes), crFlag : BOOLEAN,
                             c : Codes \cup {"NUL"}, nr : 0 .. TTY_BUF_SIZE - 1]]

\* What conWrite took so far is the beginning of what was written; and when nobody
\* writes, everything written was shown, once and in order, and the controller
\* shows the cursor behind it.
ShownInOrder ==
  /\ Len(printed) <= Len(sent)
  /\ printed = SubSeq(sent, 1, Len(printed))
  /\ (\A w \in Writers : writer[w].at = "idle") =>
       printed = sent /\ head = tail /\ crt.cursor = Cell(pos)

\* When nobody writes, every character was shown as often as it was written, in
\* whatever order the writers came.
NothingLost ==
  LET times(ch, s) == Cardinality({i \in 1 .. Len(s) : s[i] = ch})
  IN  (\A w \in Writers : writer[w].at = "idle") =>
        \A ch \in Codes : times(ch, printed) = times(ch, sent)

\* A call of ttyWrite returns.
WritesReturn == \A w \in Writers : writer[w].at # "idle" ~> writer[w].at = "idle"
=============================================================================
