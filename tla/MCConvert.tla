----------------------------- MODULE MCConvert -----------------------------
(***************************************************************************)
(* Instances of Clock, Vsprintf, Boot and Console for TLC.  They share     *)
(* nothing: a behaviour begins with one of them, the first three being done*)
(* and the screen empty otherwise.                                         *)
(***************************************************************************)
EXTENDS Clock, Vsprintf, Boot, Console

\* In every month of every year the first day, the last but one and the last, at
\* the turns of minute and day; after the last second of 2070 the chip begins again.
MCMoments ==
  LET Moment(n, m, d, t) == [sec |-> t[3], min |-> t[2], hour |-> t[1],
                             mday |-> d, mon |-> m, year |-> n % 100]
      Days(n, m) == {1, MonthLength(FullYear(n % 100), m) - 1,
                     MonthLength(FullYear(n % 100), m)}
      TimesOfDay == {<<9, 41, 59>>, <<23, 59, 59>>}
  IN  UNION {{Moment(n, m, d, t) : d \in Days(n, m), t \in TimesOfDay} :
               n \in 71 .. 170, m \in 1 .. 12}

MCFlags == {<<>>, <<"-">>, <<"0">>, <<"-", "0">>}
MCWidths == {<<>>, <<"1">>, <<"3">>, <<"6">>, <<"1", "2">>}
MCNumbers == {-128, -127, -100, -16, -1, 0, 1, 9, 10, 15, 16, 100, 127}
MCStrings == {<<>>, <<"h", "i">>, NULL}

\* initTime has read the first second of 1971.
TimeKnown == /\ rtc = [sec |-> 0, min |-> 0, hour |-> 0, mday |-> 1, mon |-> 1, year |-> 71]
             /\ time = rtc /\ read = 7 /\ STARTUP_TIME = <<365, 0>> /\ seen = <<rtc>>

\* vsprintf has printed a%%b.
Printed == /\ asked = Directive(<<>>, <<>>, "%", 0) /\ buf = <<"a", "%", "b">>
           /\ fmt = <<>> /\ at = "text" /\ flags = {} /\ field_width = -1
           /\ arg_addr = <<0, 0>>

\* setup.asm has loaded a kernel of one sector.
Loaded == /\ loader = "setup" /\ file = <<2>> /\ entry = 1 /\ stage = "loaded"
          /\ sector = 4095 /\ es = BASE /\ bx = 0
          /\ memory = [a \in {<<BASE, 0>>} |-> 2]

\* The screen is still empty until all three are done.
MCInit == /\ Init
          /\ \/ ClockInit /\ Printed /\ Loaded
             \/ PrintInit /\ TimeKnown /\ Loaded
             \/ BootInit /\ TimeKnown /\ Printed
             \/ TimeKnown /\ Printed /\ Loaded

MCNext == \/ ClockNext /\ UNCHANGED <<printVars, bootVars, vars>>
          \/ PrintNext /\ UNCHANGED <<clockVars, bootVars, vars>>
          \/ BootNext /\ UNCHANGED <<clockVars, printVars, vars>>
          \/ /\ TimeKnown /\ Printed /\ Loaded
             /\ Next /\ UNCHANGED <<clockVars, printVars, bootVars>>

MCSpec == MCInit /\ [][MCNext]_<<clockVars, printVars, bootVars, vars>>

\* Bound: only the states with at most two cells written go on.
FewCharacters == Cardinality(DOMAIN vram) <= 2
=============================================================================
