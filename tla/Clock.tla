------------------------------- MODULE Clock -------------------------------
(***************************************************************************)
(* The calendar of kernel/time.c: initTime reads the registers of the      *)
(* clock chip one by one while the chip goes on, and mkTime turns what it  *)
(* read into seconds.  What is done with them is compared with the         *)
(* Gregorian calendar.                                                     *)
(*                                                                         *)
(* A number of seconds is a pair of days and seconds of the day; mkTime    *)
(* stays below 2^32 seconds as long as there are fewer than 49710 days.    *)
(* The chip is external, with two-digit years and BCD registers.           *)
(***************************************************************************)
EXTENDS Integers, Sequences

CONSTANTS Moments,      \* readings of the chip at which initTime is called
          MaxSeconds    \* bound: seconds that pass while it reads

VARIABLES rtc,          \* the date and time the chip shows
          time,         \* the local TIME, as far as it is read
          read,         \* how many registers were read
          STARTUP_TIME,
          seen          \* history: what the chip has shown meanwhile

clockVars == <<rtc, time, read, STARTUP_TIME, seen>>

\* In the order initTime reads them.
Registers == <<"sec", "min", "hour", "mday", "mon", "year">>

---------------------------------------------------------------------------
(* The chip.                                                               *)

\* A two-digit year is one of 1971 .. 2070.
FullYear(year) == IF year > 70 THEN 1900 + year ELSE 2000 + year
Leap(y) == y % 4 = 0 /\ (y % 100 = 0 => y % 400 = 0)
MonthLength(y, m) == CASE m = 2 -> IF Leap(y) THEN 29 ELSE 28
                       [] m \in {4, 6, 9, 11} -> 30
                       [] OTHER -> 31

\* The dates and times that exist.
IsMoment(t) ==
  /\ t \in [sec : 0 .. 59, min : 0 .. 59, hour : 0 .. 23, mday : 1 .. 31, mon : 1 .. 12,
            year : 0 .. 99]
  /\ t.mday <= MonthLength(FullYear(t.year), t.mon)

\* The chip shows a moment when initTime begins, and initTime is done long before a
\* month has passed.
ASSUME MomentAssumption == \A t \in Moments : IsMoment(t)
ASSUME SecondsAssumption == MaxSeconds \in Nat /\ MaxSeconds <= 27 * 86400

Later(t) ==
  IF t.sec < 59 THEN [t EXCEPT !.sec = @ + 1]
  ELSE IF t.min < 59 THEN [t EXCEPT !.sec = 0, !.min = @ + 1]
  ELSE IF t.hour < 23 THEN [t EXCEPT !.sec = 0, !.min = 0, !.hour = @ + 1]
  ELSE LET night == [t EXCEPT !.sec = 0, !.min = 0, !.hour = 0]
       IN  IF t.mday < MonthLength(FullYear(t.year), t.mon) THEN [night EXCEPT !.mday = @ + 1]
           ELSE IF t.mon < 12 THEN [night EXCEPT !.mday = 1, !.mon = @ + 1]
           ELSE [night EXCEPT !.mday = 1, !.mon = 1, !.year = (@ + 1) % 100]

Register(r) == 16 * (rtc[r] \div 10) + (rtc[r] % 10)

Second ==
  /\ read < Len(Registers) /\ Len(seen) <= MaxSeconds
  /\ rtc' = Later(rtc) /\ seen' = Append(seen, Later(rtc))
  /\ UNCHANGED <<time, read, STARTUP_TIME>>

---------------------------------------------------------------------------
(* initTime and mkTime.                                                    *)

BCD_TO_BIN(val) == (val % 16) + (val \div 16) * 10

\* Days before each month, February counted as in a leap year.
month == <<0, 31, 60, 91, 121, 152, 182, 213, 244, 274, 305, 335>>

\* Mutant: the current year is counted as well.
LeapDaysNow(year) == (year + 2) \div 4

\* Leap years since 1970, before this one.
LeapDays(year) == (year + 1) \div 4

\* t.tm_mon, one less than the register, is in 0 .. 11.
mkTime(t) ==
  LET tm_mon == t.mon - 1
      year   == IF t.year > 70 THEN t.year - 70 ELSE t.year + 100 - 70
      days   == 365 * year + LeapDays(year) + month[tm_mon + 1]
                - (IF tm_mon > 1 /\ (year + 2) % 4 # 0 THEN 1 ELSE 0)
                + t.mday - 1
  IN  <<days, 3600 * t.hour + 60 * t.min + t.sec>>

\* None of what is read is known before.
ClockInit ==
  /\ rtc \in Moments
  /\ time = [r \in {} |-> 0]
  /\ read = 0
  /\ STARTUP_TIME = <<0, 0>>
  /\ seen = <<rtc>>

ReadRegister ==
  /\ read < Len(Registers)
  /\ LET r == Registers[read + 1]
     IN  time' = [s \in DOMAIN time \cup {r} |->
                    IF s = r THEN BCD_TO_BIN(Register(r)) ELSE time[s]]
  /\ read' = read + 1
  /\ UNCHANGED <<rtc, STARTUP_TIME, seen>>

Compute ==
  /\ read = Len(Registers)
  /\ STARTUP_TIME' = mkTime(time)
  /\ read' = read + 1
  /\ UNCHANGED <<rtc, time, seen>>

ClockNext == Second \/ ReadRegister \/ Compute

---------------------------------------------------------------------------
(* The calendar.                                                           *)

DaysBeforeYear[y \in 1970 .. 2070] ==
  IF y = 1970 THEN 0 ELSE DaysBeforeYear[y - 1] + (IF Leap(y - 1) THEN 366 ELSE 365)

DaysBeforeMonth(y, m) ==
  LET before[k \in 1 .. m] == IF k = 1 THEN 0 ELSE before[k - 1] + MonthLength(y, k - 1)
  IN  before[m]

\* Counted from 1970-01-01 00:00:00 of the chip's own clock.  The comments of
\* time.c (lines 16 and 41) and time.h (line 39) name 08:00:00, but mkTime takes no
\* eight hours away: the two agree only for a chip that runs on UTC and a reader
\* in China, and nothing in the repository sets the chip.
Since1970(t) ==
  LET y == FullYear(t.year)
  IN  <<DaysBeforeYear[y] + DaysBeforeMonth(y, t.mon) + t.mday - 1,
        3600 * t.hour + 60 * t.min + t.sec>>

Before(a, b) == a[1] < b[1] \/ (a[1] = b[1] /\ a[2] < b[2])

\* STARTUP_TIME is what the calendar says of the moment that was read, counted from
\* midnight as Since1970 does, in every year and month the chip can show; and if the
\* chip went on in between so that the registers show no moment at all (initTime
\* reads each once, from the seconds up), it is ahead of the clock, never behind.  It fits in 32 bits.
StartupTimeRead ==
  read > Len(Registers) =>
    /\ STARTUP_TIME[1] < 49710
    /\ IF \E i \in 1 .. Len(seen) : time = seen[i]
         THEN STARTUP_TIME = Since1970(time)
         ELSE Before(Since1970(rtc), STARTUP_TIME)
=============================================================================
