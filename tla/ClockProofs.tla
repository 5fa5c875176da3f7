---------------------------- MODULE ClockProofs ----------------------------
(***************************************************************************)
(* initTime and mkTime against the calendar, for every moment at which     *)
(* initTime may be called and every way the chip goes on meanwhile.        *)
(***************************************************************************)
EXTENDS Clock, WellFoundedInduction, TLAPS

Years == 1970 .. 2070
Minutes == 0 .. 59
Hours == 0 .. 23
Mdays == 1 .. 31
Mons == 1 .. 12
TwoDigits == 0 .. 99
Fields == [sec : Minutes, min : Minutes, hour : Hours, mday : Mdays, mon : Mons, year : TwoDigits]

---------------------------------------------------------------------------
(* The calendar in closed form.                                            *)

YearDays(y) == 365 * (y - 1970) + ((y - 1969) \div 4)
YearLength(y) == IF Leap(y) THEN 366 ELSE 365
MonthDays(y, m) == month[m] - (IF m > 2 /\ ~Leap(y) THEN 1 ELSE 0)

\* Of the years the chip can show, every fourth is a leap year: 2000 is one.
LEMMA LeapYears == \A y \in Years : Leap(y) <=> y % 4 = 0
<1> SUFFICES ASSUME NEW y \in Years PROVE Leap(y) <=> y % 4 = 0
  OBVIOUS
<1>1. y % 100 = 0 => y = 2000
  BY DEF Years
<1>2. 2000 % 400 = 0
  OBVIOUS
<1> QED
  BY <1>1, <1>2 DEF Leap

\* The leap days that mkTime counts are those of the calendar.
LEMMA YearByYear ==
  /\ YearDays(1970) = 0
  /\ \A y \in 1971 .. 2070 :
       YearDays(y) = YearDays(y - 1) + YearLength(y - 1)
<1>1. YearDays(1970) = 0
  BY DEF YearDays
<1>2. ASSUME NEW y \in 1971 .. 2070
      PROVE  YearDays(y) = YearDays(y - 1) + YearLength(y - 1)
  <2>1. Leap(y - 1) <=> (y - 1) % 4 = 0
    BY LeapYears DEF Years
  <2> QED
    BY <2>1 DEF YearDays, YearLength
<1> QED
  BY <1>1, <1>2

\* How many days there are before a year.
LEMMA YearBounds == \A y \in Years : YearDays(y) \in Nat /\ YearDays(y) <= 36525
<1> SUFFICES ASSUME NEW y \in Years PROVE YearDays(y) \in Nat /\ YearDays(y) <= 36525
  OBVIOUS
<1>1. (y - 1969) \div 4 \in 0 .. 25 /\ y - 1970 \in 0 .. 100
  BY DEF Years
<1> QED
  BY <1>1 DEF YearDays

\* Two functions on an interval with the same first value and the same differences
\* are the same.
LEMMA OneSum ==
  ASSUME NEW first \in Int, NEW last \in Int, NEW f, NEW g, NEW plus,
         \A n \in first .. last : f[n] = IF n = first THEN 0 ELSE f[n - 1] + plus[n],
         \A n \in first .. last : g[n] = IF n = first THEN 0 ELSE g[n - 1] + plus[n]
  PROVE  \A n \in first .. last : f[n] = g[n]
<1> DEFINE I == first .. last
<1>3. /\ \A n \in I : f[n] = IF n = first THEN 0 ELSE f[n - 1] + plus[n]
      /\ \A n \in I : g[n] = IF n = first THEN 0 ELSE g[n - 1] + plus[n]
  OBVIOUS
<1> DEFINE Off == {k \in Nat : first + k \in I /\ f[first + k] # g[first + k]}
<1>4. Off = {}
  <2> SUFFICES ASSUME Off # {} PROVE FALSE
    OBVIOUS
  <2>1. Off \subseteq Nat
    OBVIOUS
  <2> HIDE DEF Off
  <2>2. PICK k \in Off : \A j \in Off : ~(<<j, k>> \in OpToRel(<, Nat))
    BY <2>1, NatLessThanWellFounded, WFMin
  <2>3. k \in Nat /\ \A j \in Off : ~(j < k)
    BY <2>1, <2>2 DEF OpToRel
  <2>4. first + k \in I /\ f[first + k] # g[first + k]
    BY <2>2 DEF Off
  <2>5. k # 0
    <3> SUFFICES ASSUME k = 0 PROVE FALSE
      OBVIOUS
    <3>1. first + k = first
      OBVIOUS
    <3>2. first \in I
      BY <2>4, <3>1
    <3>3. f[first] = 0 /\ g[first] = 0
      BY <1>3, <3>2, Zenon
    <3> QED
      BY <2>4, <3>1, <3>3
  <2>6. k - 1 \in Nat /\ k - 1 < k /\ first + (k - 1) \in I /\ (first + k) - 1 = first + (k - 1)
        /\ first + k # first
    BY <2>3, <2>4, <2>5
  <2>7. f[first + (k - 1)] = g[first + (k - 1)]
    BY <2>3, <2>6 DEF Off
  <2> QED
    BY <1>3, <2>4, <2>6, <2>7
<1>5. ASSUME NEW n \in I PROVE f[n] = g[n]
  <2>1. n - first \in Nat /\ first + (n - first) = n
    OBVIOUS
  <2>2. n - first \notin Off
    BY <1>4
  <2> QED
    BY <2>1, <2>2
<1> QED
  BY <1>5

\* DaysBeforeYear adds up to the closed form.
LEMMA YearsAdd == \A y \in Years : DaysBeforeYear[y] = YearDays(y)
<1> DEFINE g == [y \in 1970 .. 2070 |-> YearDays(y)]
           plus == [y \in 1970 .. 2070 |-> YearLength(y - 1)]
<1>1. \A y \in 1970 .. 2070 : g[y] = IF y = 1970 THEN 0 ELSE g[y - 1] + plus[y]
  <2> SUFFICES ASSUME NEW y \in 1970 .. 2070
               PROVE  g[y] = IF y = 1970 THEN 0 ELSE g[y - 1] + plus[y]
    OBVIOUS
  <2>1. y # 1970 => y - 1 \in 1970 .. 2070 /\ y \in 1971 .. 2070
    OBVIOUS
  <2> QED
    BY <2>1, YearByYear
<1> DEFINE Eqn(h) == h = [y \in 1970 .. 2070 |->
                            IF y = 1970 THEN 0
                            ELSE h[y - 1] + YearLength(y - 1)]
<1>2. Eqn(g)
  <2>1. \A y \in 1970 .. 2070 :
          g[y] = IF y = 1970 THEN 0 ELSE g[y - 1] + YearLength(y - 1)
    BY <1>1
  <2>2. g = [y \in 1970 .. 2070 |-> g[y]]
    OBVIOUS
  <2> HIDE DEF g
  <2> QED
    BY <2>1, <2>2
<1> DEFINE d == CHOOSE h : Eqn(h)
<1>3. Eqn(d) /\ DaysBeforeYear = d
  <2>1. Eqn(d)
    <3> HIDE DEF Eqn, g
    <3> QED
      BY <1>2, Zenon
  <2>2. DaysBeforeYear = d
    BY DEF DaysBeforeYear, YearLength
  <2> HIDE DEF d, Eqn, g
  <2> QED
    BY <2>1, <2>2
<1>4. /\ \A y \in 1970 .. 2070 : g[y] = YearDays(y)
      /\ \A y \in 1970 .. 2070 : plus[y] = YearLength(y - 1)
  OBVIOUS
<1> HIDE DEF g, plus, d
<1>5. \A y \in 1970 .. 2070 : d[y] = IF y = 1970 THEN 0 ELSE d[y - 1] + plus[y]
  <2>1. \A y \in 1970 .. 2070 :
          d[y] = IF y = 1970 THEN 0 ELSE d[y - 1] + YearLength(y - 1)
    <3>1. d = [y \in 1970 .. 2070 |-> IF y = 1970 THEN 0 ELSE d[y - 1] + YearLength(y - 1)]
      BY <1>3
    <3> QED
      BY <3>1
  <2> QED
    BY <1>4, <2>1
<1>6. \A y \in 1970 .. 2070 : d[y] = g[y]
  BY <1>1, <1>5, OneSum
<1> QED
  BY <1>3, <1>4, <1>6 DEF Years

\* mkTime's table, with the day of February it takes back, adds up the months.
LEMMA MonthByMonth ==
  ASSUME NEW y \in Years
  PROVE  /\ MonthDays(y, 1) = 0
         /\ \A m \in 2 .. 12 : MonthDays(y, m) = MonthDays(y, m - 1) + MonthLength(y, m - 1)
<1>1. MonthDays(y, 1) = 0
  BY DEF MonthDays, month
<1>2. ASSUME NEW m \in 2 .. 12
      PROVE  MonthDays(y, m) = MonthDays(y, m - 1) + MonthLength(y, m - 1)
  <2>1. \/ m = 2 \/ m = 3 \/ m = 4 \/ m = 5 \/ m = 6 \/ m = 7 \/ m = 8 \/ m = 9
        \/ m = 10 \/ m = 11 \/ m = 12
    OBVIOUS
  <2> QED
    BY <2>1 DEF MonthDays, month, MonthLength
<1> QED
  BY <1>1, <1>2

\* DaysBeforeMonth adds up to the closed form.
LEMMA MonthsAdd ==
  ASSUME NEW y \in Years, NEW m \in 1 .. 12
  PROVE  DaysBeforeMonth(y, m) = MonthDays(y, m)
<1> DEFINE g == [k \in 1 .. m |-> MonthDays(y, k)]
           plus == [k \in 1 .. m |-> MonthLength(y, k - 1)]
           Eqn(h) == h = [k \in 1 .. m |-> IF k = 1 THEN 0 ELSE h[k - 1] + MonthLength(y, k - 1)]
           before == CHOOSE h : Eqn(h)
<1>1. \A k \in 1 .. m : g[k] = IF k = 1 THEN 0 ELSE g[k - 1] + plus[k]
  <2> SUFFICES ASSUME NEW k \in 1 .. m
               PROVE  g[k] = IF k = 1 THEN 0 ELSE g[k - 1] + plus[k]
    OBVIOUS
  <2>1. k # 1 => k - 1 \in 1 .. m /\ k \in 2 .. 12
    OBVIOUS
  <2> QED
    BY <2>1, MonthByMonth
<1>2. DaysBeforeMonth(y, m) = before[m]
  BY DEF DaysBeforeMonth
<1>3. g = [k \in 1 .. m |-> g[k]] /\ g[m] = MonthDays(y, m) /\ m \in 1 .. m
      /\ \A k \in 1 .. m : plus[k] = MonthLength(y, k - 1)
  OBVIOUS
<1> HIDE DEF g, plus
<1>4. Eqn(g)
  <2>1. \A k \in 1 .. m : g[k] = IF k = 1 THEN 0 ELSE g[k - 1] + MonthLength(y, k - 1)
    BY <1>1, <1>3
  <2> QED
    BY <1>3, <2>1
<1>5. Eqn(before)
  BY <1>4, Zenon
<1> HIDE DEF before
<1>6. \A k \in 1 .. m : before[k] = IF k = 1 THEN 0 ELSE before[k - 1] + plus[k]
  <2>1. \A k \in 1 .. m : before[k] = IF k = 1 THEN 0 ELSE before[k - 1] + MonthLength(y, k - 1)
    BY <1>5, Zenon
  <2> QED
    BY <1>3, <2>1
<1>7. \A k \in 1 .. m : before[k] = g[k]
  BY <1>1, <1>6, OneSum
<1> QED
  BY <1>2, <1>3, <1>7

\* mkTime is the calendar, for every month of 1971 to 2070, and beyond the end of
\* the month where the registers show such a day.
LEMMA SameCalendar ==
  ASSUME NEW t \in Fields, NEW y, y = FullYear(t.year)
  PROVE  /\ mkTime(t) = Since1970(t)
         /\ mkTime(t) = <<YearDays(y) + MonthDays(y, t.mon) + t.mday - 1,
                         3600 * t.hour + 60 * t.min + t.sec>>
         /\ y \in Years /\ YearDays(y) \in Nat /\ MonthDays(y, t.mon) \in Nat
<1> DEFINE yr == IF t.year > 70 THEN t.year - 70 ELSE t.year + 100 - 70
<1>1. t.year \in 0 .. 99 /\ t.mon \in 1 .. 12 /\ t.mday \in 1 .. 31
  BY DEF Fields, TwoDigits, Mons, Mdays
<1>2. y \in 1971 .. 2070 /\ yr = y - 1970 /\ yr \in 1 .. 100
  BY <1>1 DEF FullYear
<1>3. y \in Years
  BY <1>2 DEF Years
<1>4. YearDays(y) = 365 * yr + LeapDays(yr)
  BY <1>2 DEF YearDays, LeapDays
<1>5. (yr + 2) % 4 # 0 <=> ~Leap(y)
  BY <1>2, <1>3, LeapYears
<1>6. \A m \in 1 .. 12 : month[m] \in 0 .. 335 /\ (m > 2 => month[m] > 0)
  <2> SUFFICES ASSUME NEW m \in 1 .. 12 PROVE month[m] \in 0 .. 335 /\ (m > 2 => month[m] > 0)
    OBVIOUS
  <2>1. \/ m = 1 \/ m = 2 \/ m = 3 \/ m = 4 \/ m = 5 \/ m = 6 \/ m = 7 \/ m = 8 \/ m = 9
        \/ m = 10 \/ m = 11 \/ m = 12
    OBVIOUS
  <2> QED
    BY <2>1 DEF month
<1>7. (t.mon - 1) + 1 = t.mon /\ (t.mon - 1 > 1 <=> t.mon > 2)
  BY <1>1
<1>8. month[t.mon] \in 0 .. 335 /\ (t.mon > 2 => month[t.mon] > 0)
  BY <1>1, <1>6
<1>9. MonthDays(y, t.mon) = month[(t.mon - 1) + 1]
                              - (IF t.mon - 1 > 1 /\ (yr + 2) % 4 # 0 THEN 1 ELSE 0)
      /\ MonthDays(y, t.mon) \in 0 .. 335
  <2> HIDE DEF yr
  <2>1. MonthDays(y, t.mon) = month[t.mon] - (IF t.mon > 2 /\ ~Leap(y) THEN 1 ELSE 0)
    BY DEF MonthDays
  <2> QED
    BY <1>5, <1>7, <1>8, <2>1
<1>10. YearDays(y) \in Nat
  BY <1>3, YearBounds
<1>11. mkTime(t) = <<YearDays(y) + MonthDays(y, t.mon) + t.mday - 1,
                     3600 * t.hour + 60 * t.min + t.sec>>
  <2> DEFINE back == IF t.mon - 1 > 1 /\ (yr + 2) % 4 # 0 THEN 1 ELSE 0
             before == month[(t.mon - 1) + 1]
             days == 365 * yr + LeapDays(yr) + before - back + t.mday - 1
  <2>1. mkTime(t) = <<days, 3600 * t.hour + 60 * t.min + t.sec>>
    BY DEF mkTime
  <2>2. days = YearDays(y) + MonthDays(y, t.mon) + t.mday - 1
    <3> HIDE DEF yr
    <3>1. yr \in Int /\ LeapDays(yr) \in Int
      BY <1>2 DEF LeapDays
    <3>2. before \in Int /\ back \in Int /\ MonthDays(y, t.mon) = before - back
      BY <1>7, <1>8, <1>9
    <3> HIDE DEF back, before
    <3> QED
      BY <1>1, <1>4, <3>1, <3>2
  <2> QED
    BY <2>1, <2>2
<1> HIDE DEF yr
<1>12. Since1970(t) = <<YearDays(y) + MonthDays(y, t.mon) + t.mday - 1,
                        3600 * t.hour + 60 * t.min + t.sec>>
  BY <1>1, <1>3, YearsAdd, MonthsAdd DEF Since1970
<1>13. mkTime(t) = Since1970(t)
  BY <1>11, <1>12
<1>14. MonthDays(y, t.mon) \in Nat
  BY <1>9
<1> QED
  BY <1>3, <1>10, <1>11, <1>13, <1>14, Zenon

---------------------------------------------------------------------------
(* The order of moments in a year.                                         *)

OfDay(h, m, s) == 3600 * h + 60 * m + s
SecondOfDay(t) == OfDay(t.hour, t.min, t.sec)

\* t is a later moment of the same year than c.
Ahead(t, c) ==
  /\ t.year = c.year
  /\ \/ t.mon > c.mon
     \/ /\ t.mon = c.mon
        /\ \/ t.mday > c.mday
           \/ t.mday = c.mday /\ SecondOfDay(t) > SecondOfDay(c)

\* A month begins after all of the months before.
LEMMA MonthsInOrder ==
  ASSUME NEW y \in Years
  PROVE  \A a, b \in 1 .. 12 : a < b => MonthDays(y, b) >= MonthDays(y, a) + MonthLength(y, a)
<1>1. /\ \A m \in 1 .. 12 : MonthLength(y, m) \in 28 .. 31
  BY DEF MonthLength
<1>2. \A a \in 1 .. 12 : MonthDays(y, a) \in Int
  <2> SUFFICES ASSUME NEW a \in 1 .. 12 PROVE MonthDays(y, a) \in Int
    OBVIOUS
  <2>1. \/ a = 1 \/ a = 2 \/ a = 3 \/ a = 4 \/ a = 5 \/ a = 6 \/ a = 7 \/ a = 8 \/ a = 9
        \/ a = 10 \/ a = 11 \/ a = 12
    OBVIOUS
  <2> QED
    BY <2>1 DEF MonthDays, month
<1>3. /\ MonthDays(y, 2) = MonthDays(y, 1) + MonthLength(y, 1)
      /\ MonthDays(y, 3) = MonthDays(y, 2) + MonthLength(y, 2)
      /\ MonthDays(y, 4) = MonthDays(y, 3) + MonthLength(y, 3)
      /\ MonthDays(y, 5) = MonthDays(y, 4) + MonthLength(y, 4)
      /\ MonthDays(y, 6) = MonthDays(y, 5) + MonthLength(y, 5)
      /\ MonthDays(y, 7) = MonthDays(y, 6) + MonthLength(y, 6)
      /\ MonthDays(y, 8) = MonthDays(y, 7) + MonthLength(y, 7)
      /\ MonthDays(y, 9) = MonthDays(y, 8) + MonthLength(y, 8)
      /\ MonthDays(y, 10) = MonthDays(y, 9) + MonthLength(y, 9)
      /\ MonthDays(y, 11) = MonthDays(y, 10) + MonthLength(y, 10)
      /\ MonthDays(y, 12) = MonthDays(y, 11) + MonthLength(y, 11)
  BY MonthByMonth
<1> SUFFICES ASSUME NEW a \in 1 .. 12, NEW b \in 1 .. 12, a < b
             PROVE  MonthDays(y, b) >= MonthDays(y, a) + MonthLength(y, a)
  OBVIOUS
<1>4. \/ a = 1 \/ a = 2 \/ a = 3 \/ a = 4 \/ a = 5 \/ a = 6 \/ a = 7 \/ a = 8 \/ a = 9
      \/ a = 10 \/ a = 11 \/ a = 12
  OBVIOUS
<1>5. \/ b = 1 \/ b = 2 \/ b = 3 \/ b = 4 \/ b = 5 \/ b = 6 \/ b = 7 \/ b = 8 \/ b = 9
      \/ b = 10 \/ b = 11 \/ b = 12
  OBVIOUS
<1> QED
  BY <1>1, <1>2, <1>3, <1>4, <1>5

\* What is ahead of a moment of the chip is later in seconds, too, even if it is
\* a day that its month does not have.
LEMMA AheadIsLater ==
  ASSUME NEW t \in Fields, NEW c \in Fields, IsMoment(c), Ahead(t, c)
  PROVE  Before(Since1970(c), mkTime(t))
<1> DEFINE y == FullYear(c.year)
           D(u) == YearDays(y) + MonthDays(y, u.mon) + u.mday - 1
           S(u) == 3600 * u.hour + 60 * u.min + u.sec
<1>1. /\ Since1970(c) = <<D(c), S(c)>> /\ mkTime(t) = <<D(t), S(t)>>
      /\ y \in Years /\ YearDays(y) \in Nat
      /\ MonthDays(y, c.mon) \in Nat /\ MonthDays(y, t.mon) \in Nat
  <2>1. y = FullYear(t.year)
    BY DEF Ahead
  <2> HIDE DEF y
  <2>2. y = FullYear(c.year)
    BY DEF y
  <2>3. /\ mkTime(t) = <<D(t), S(t)>> /\ y \in Years
        /\ YearDays(y) \in Nat /\ MonthDays(y, t.mon) \in Nat
    BY <2>1, SameCalendar
  <2>4. /\ Since1970(c) = <<D(c), S(c)>> /\ MonthDays(y, c.mon) \in Nat
    <3>1. mkTime(c) = Since1970(c) /\ mkTime(c) = <<D(c), S(c)>> /\ MonthDays(y, c.mon) \in Nat
      BY <2>2, SameCalendar
    <3> QED
      BY <3>1
  <2> QED
    BY <2>3, <2>4
<1>2. /\ c.mon \in 1 .. 12 /\ t.mon \in 1 .. 12 /\ c.mday \in 1 .. 31 /\ t.mday \in 1 .. 31
      /\ c.mday <= MonthLength(y, c.mon) /\ MonthLength(y, c.mon) \in 28 .. 31
  BY DEF Fields, Mons, Mdays, IsMoment, MonthLength
<1> HIDE DEF y
<1>3. D(c) < D(t) \/ (D(c) = D(t) /\ S(c) < S(t))
  <2>1. CASE t.mon > c.mon
    <3>1. MonthDays(y, t.mon) >= MonthDays(y, c.mon) + MonthLength(y, c.mon)
      BY <1>1, <1>2, <2>1, MonthsInOrder
    <3> QED
      BY <1>1, <1>2, <3>1
  <2>2. CASE t.mon = c.mon /\ t.mday > c.mday
    BY <1>1, <1>2, <2>2
  <2>3. CASE t.mon = c.mon /\ t.mday = c.mday /\ SecondOfDay(t) > SecondOfDay(c)
    <3>1. S(t) > S(c)
      BY <2>3 DEF SecondOfDay, OfDay
    <3> QED
      BY <1>1, <1>2, <2>3, <3>1
  <2> QED
    BY <2>1, <2>2, <2>3 DEF Ahead
<1> HIDE DEF D, S
<1> QED
  BY <1>1, <1>3 DEF Before

---------------------------------------------------------------------------
(* The registers while the chip goes on.                                   *)

\* k registers are those of t, the others those of c.
Mix(k, t, c) ==
  [sec  |-> IF k >= 1 THEN t.sec ELSE c.sec,
   min  |-> IF k >= 2 THEN t.min ELSE c.min,
   hour |-> IF k >= 3 THEN t.hour ELSE c.hour,
   mday |-> IF k >= 4 THEN t.mday ELSE c.mday,
   mon  |-> IF k >= 5 THEN t.mon ELSE c.mon,
   year |-> IF k >= 6 THEN t.year ELSE c.year]

\* The days of t's month.
Length(t) == MonthLength(FullYear(t.year), t.mon)

\* How far into the month t is.
SecondOfMonth(t) == 86400 * (t.mday - 1) + 3600 * t.hour + 60 * t.min + t.sec

\* The seconds of a day, by name: only where its value matters is it expanded.
DayLength == 86400

\* A second of the day: its bounds, its successor, and that it has one reading.
LEMMA SecondsOfDay ==
  ASSUME NEW s \in Minutes, NEW m \in Minutes, NEW h \in Hours
  PROVE  /\ OfDay(h, m, s) \in Int /\ OfDay(h, m, s) >= 0 /\ OfDay(h, m, s) < DayLength
         /\ OfDay(h, m, s) = DayLength - 1 => h = 23 /\ m = 59 /\ s = 59
         /\ h = 23 /\ m = 59 /\ s = 59 => OfDay(h, m, s) = DayLength - 1
         /\ OfDay(h, m, s + 1) = OfDay(h, m, s) + 1
         /\ s = 59 => OfDay(h, m + 1, 0) = OfDay(h, m, s) + 1
         /\ s = 59 /\ m = 59 => OfDay(h + 1, 0, 0) = OfDay(h, m, s) + 1
<1>1. OfDay(h, m, s) \in Int /\ OfDay(h, m, s) >= 0 /\ OfDay(h, m, s) < DayLength
  BY SMT DEF OfDay, Minutes, Hours, DayLength
<1>2. OfDay(h, m, s) = DayLength - 1 <=> h = 23 /\ m = 59 /\ s = 59
  BY SMT DEF OfDay, Minutes, Hours, DayLength
<1>3. /\ OfDay(h, m, s + 1) = OfDay(h, m, s) + 1
      /\ s = 59 => OfDay(h, m + 1, 0) = OfDay(h, m, s) + 1
      /\ s = 59 /\ m = 59 => OfDay(h + 1, 0, 0) = OfDay(h, m, s) + 1
  BY SMT DEF OfDay, Minutes, Hours, DayLength
<1> QED
  BY <1>1, <1>2, <1>3, SMT

\* Two times of the day with the same second are the same.
LEMMA OneReading ==
  ASSUME NEW s \in Minutes, NEW m \in Minutes, NEW h \in Hours,
         NEW r \in Minutes, NEW n \in Minutes, NEW i \in Hours,
         OfDay(h, m, s) = OfDay(i, n, r)
  PROVE  h = i /\ m = n /\ s = r
  BY SMT DEF OfDay, Minutes, Hours, DayLength

\* The range of each register.
LEMMA Ranges ==
  ASSUME NEW t \in Fields
  PROVE  /\ t.sec \in Minutes /\ t.min \in Minutes /\ t.hour \in Hours
         /\ t.mday \in Mdays /\ t.mon \in Mons /\ t.year \in TwoDigits
         /\ SecondOfDay(t) \in Int /\ SecondOfDay(t) >= 0 /\ SecondOfDay(t) < DayLength
         /\ Length(t) \in Mdays /\ Length(t) >= 28
         /\ IsMoment(t) <=> t.mday <= Length(t)
         /\ SecondOfMonth(t) = DayLength * (t.mday - 1) + SecondOfDay(t)
<1>1. /\ t.sec \in Minutes /\ t.min \in Minutes /\ t.hour \in Hours
      /\ t.mday \in Mdays /\ t.mon \in Mons /\ t.year \in TwoDigits
  BY SMT DEF Fields
<1>2. SecondOfDay(t) \in Int /\ SecondOfDay(t) >= 0 /\ SecondOfDay(t) < DayLength
  BY <1>1, SecondsOfDay, SMT DEF SecondOfDay
<1>3. Length(t) \in Mdays /\ Length(t) >= 28
  BY SMT DEF Length, MonthLength, Mdays
<1>4. SecondOfMonth(t) = DayLength * (t.mday - 1) + SecondOfDay(t)
  <2>1. ASSUME NEW d \in Mdays, NEW h \in Hours, NEW m \in Minutes, NEW s \in Minutes
        PROVE  DayLength * (d - 1) + 3600 * h + 60 * m + s = DayLength * (d - 1) + OfDay(h, m, s)
    BY SMT DEF Mdays, Hours, Minutes, OfDay, DayLength
  <2> QED
    BY <1>1, <2>1, SMT DEF SecondOfMonth, SecondOfDay, DayLength
<1>5. IsMoment(t) <=> t.mday <= Length(t)
  BY SMT DEF IsMoment, Length, Fields, Minutes, Hours, Mdays, Mons, TwoDigits
<1> QED
  BY <1>1, <1>2, <1>3, <1>4, <1>5, Zenon

\* Moments with the same date and time of the day are the same.
LEMMA SameMoment ==
  ASSUME NEW t \in Fields, NEW c \in Fields, t.year = c.year, t.mon = c.mon, t.mday = c.mday,
         SecondOfDay(t) = SecondOfDay(c)
  PROVE  t = c
<1>1. t.sec = c.sec /\ t.min = c.min /\ t.hour = c.hour
  BY Ranges, OneReading, SMT DEF SecondOfDay
<1> QED
  BY <1>1, SMT DEF Fields

\* A moment with some registers set.
Reads(t, s, m, h, d, n, y) ==
  /\ t \in Fields
  /\ t.sec = s /\ t.min = m /\ t.hour = h /\ t.mday = d /\ t.mon = n /\ t.year = y

\* Setting one register leaves the others.
LEMMA Setting ==
  ASSUME NEW t \in Fields
  PROVE  /\ \A v \in Minutes :
              Reads([t EXCEPT !.sec = v], v, t.min, t.hour, t.mday, t.mon, t.year)
         /\ \A v \in Minutes :
              Reads([t EXCEPT !.min = v], t.sec, v, t.hour, t.mday, t.mon, t.year)
         /\ \A v \in Hours :
              Reads([t EXCEPT !.hour = v], t.sec, t.min, v, t.mday, t.mon, t.year)
         /\ \A v \in Mdays :
              Reads([t EXCEPT !.mday = v], t.sec, t.min, t.hour, v, t.mon, t.year)
         /\ \A v \in Mons :
              Reads([t EXCEPT !.mon = v], t.sec, t.min, t.hour, t.mday, v, t.year)
         /\ \A v \in TwoDigits :
              Reads([t EXCEPT !.year = v], t.sec, t.min, t.hour, t.mday, t.mon, v)
<1>1. \A v \in Minutes : Reads([t EXCEPT !.sec = v], v, t.min, t.hour, t.mday, t.mon, t.year)
  BY SMT DEF Fields, Reads
<1>2. \A v \in Minutes : Reads([t EXCEPT !.min = v], t.sec, v, t.hour, t.mday, t.mon, t.year)
  BY SMT DEF Fields, Reads
<1>3. \A v \in Hours : Reads([t EXCEPT !.hour = v], t.sec, t.min, v, t.mday, t.mon, t.year)
  BY SMT DEF Fields, Reads
<1>4. \A v \in Mdays : Reads([t EXCEPT !.mday = v], t.sec, t.min, t.hour, v, t.mon, t.year)
  BY SMT DEF Fields, Reads
<1>5. \A v \in Mons : Reads([t EXCEPT !.mon = v], t.sec, t.min, t.hour, t.mday, v, t.year)
  BY SMT DEF Fields, Reads
<1>6. \A v \in TwoDigits : Reads([t EXCEPT !.year = v], t.sec, t.min, t.hour, t.mday, t.mon, v)
  BY SMT DEF Fields, Reads
<1> QED
  BY <1>1, <1>2, <1>3, <1>4, <1>5, <1>6

\* Within a day the chip counts the seconds; what carries leaves zeros behind.
LEMMA WithinDay ==
  ASSUME NEW c \in Fields, SecondOfDay(c) # DayLength - 1, NEW d, d = Later(c)
  PROVE  /\ d \in Fields
         /\ d.year = c.year /\ d.mon = c.mon /\ d.mday = c.mday
         /\ SecondOfDay(d) = SecondOfDay(c) + 1
         /\ \/ d.min = c.min /\ d.hour = c.hour
            \/ d.sec = 0 /\ d.hour = c.hour
            \/ d.sec = 0 /\ d.min = 0
<1>1. /\ c.sec \in Minutes /\ c.min \in Minutes /\ c.hour \in Hours
      /\ 0 \in Minutes
  BY Ranges DEF Minutes
<1>2. CASE c.sec < 59
  <2>1. d = [c EXCEPT !.sec = c.sec + 1]
    BY <1>2 DEF Later
  <2>2. c.sec + 1 \in Minutes
    BY <1>1, <1>2 DEF Minutes
  <2>3. Reads(d, c.sec + 1, c.min, c.hour, c.mday, c.mon, c.year)
    BY <2>1, <2>2, Setting
  <2>4. SecondOfDay(d) = SecondOfDay(c) + 1
    BY <1>1, <2>3, SecondsOfDay, SMT DEF SecondOfDay, Reads
  <2> QED
    BY <2>3, <2>4 DEF Reads
<1>3. CASE c.sec = 59 /\ c.min < 59
  <2>1. PICK e : e = [c EXCEPT !.sec = 0]
    OBVIOUS
  <2>2. Reads(e, 0, c.min, c.hour, c.mday, c.mon, c.year)
    BY <1>1, <2>1, Setting
  <2>3. d = [e EXCEPT !.min = c.min + 1]
    BY <1>3, <2>1 DEF Later
  <2>4. c.min + 1 \in Minutes
    BY <1>1, <1>3 DEF Minutes
  <2>5. Reads(d, 0, c.min + 1, c.hour, c.mday, c.mon, c.year)
    BY <2>2, <2>3, <2>4, Setting DEF Reads
  <2>6. SecondOfDay(d) = SecondOfDay(c) + 1
    BY <1>1, <1>3, <2>5, SecondsOfDay, SMT DEF SecondOfDay, Reads
  <2> QED
    BY <2>5, <2>6 DEF Reads
<1>4. CASE c.sec = 59 /\ c.min = 59 /\ c.hour < 23
  <2>1. PICK e : e = [c EXCEPT !.sec = 0]
    OBVIOUS
  <2>2. Reads(e, 0, c.min, c.hour, c.mday, c.mon, c.year)
    BY <1>1, <2>1, Setting
  <2>3. PICK f : f = [e EXCEPT !.min = 0]
    OBVIOUS
  <2>4. Reads(f, 0, 0, c.hour, c.mday, c.mon, c.year)
    BY <1>1, <2>2, <2>3, Setting DEF Reads
  <2>5. d = [f EXCEPT !.hour = c.hour + 1]
    BY <1>4, <2>1, <2>3 DEF Later
  <2>6. c.hour + 1 \in Hours
    BY <1>1, <1>4 DEF Hours
  <2>7. Reads(d, 0, 0, c.hour + 1, c.mday, c.mon, c.year)
    BY <2>4, <2>5, <2>6, Setting DEF Reads
  <2>8. SecondOfDay(d) = SecondOfDay(c) + 1
    BY <1>1, <1>4, <2>7, SecondsOfDay, SMT DEF SecondOfDay, Reads
  <2> QED
    BY <2>7, <2>8 DEF Reads
<1>5. CASE c.sec = 59 /\ c.min = 59 /\ c.hour = 23
  BY <1>1, <1>5, SecondsOfDay, SMT DEF SecondOfDay
<1>6. (c.sec < 59 \/ c.sec = 59) /\ (c.min < 59 \/ c.min = 59) /\ (c.hour < 23 \/ c.hour = 23)
  BY <1>1 DEF Minutes, Hours
<1> QED
  BY <1>2, <1>3, <1>4, <1>5, <1>6

\* At midnight it begins a day, a month or a year.
LEMMA AtMidnight ==
  ASSUME NEW c \in Fields, IsMoment(c), SecondOfDay(c) = DayLength - 1, NEW d, d = Later(c)
  PROVE  /\ d \in Fields /\ IsMoment(d)
         /\ d.sec = 0 /\ d.min = 0 /\ d.hour = 0
         /\ \/ /\ c.mday < Length(c) /\ d.mday = c.mday + 1
               /\ d.mon = c.mon /\ d.year = c.year
            \/ /\ c.mday = Length(c) /\ d.mday = 1
               /\ \/ d.mon = c.mon + 1 /\ d.year = c.year
                  \/ d.mon = 1
<1>1. /\ c.mday \in Mdays /\ c.mon \in Mons /\ c.year \in TwoDigits
      /\ 0 \in Minutes /\ 0 \in Hours /\ 1 \in Mdays /\ 1 \in Mons
      /\ Length(c) \in Mdays /\ c.mday <= Length(c)
  BY Ranges DEF Minutes, Hours, Mdays, Mons
<1>2. c.sec = 59 /\ c.min = 59 /\ c.hour = 23
  BY Ranges, SecondsOfDay, SMT DEF SecondOfDay
<1>3. PICK e : e = [c EXCEPT !.sec = 0]
  OBVIOUS
<1>4. Reads(e, 0, c.min, c.hour, c.mday, c.mon, c.year)
  BY <1>1, <1>3, Setting
<1>5. PICK f : f = [e EXCEPT !.min = 0]
  OBVIOUS
<1>6. Reads(f, 0, 0, c.hour, c.mday, c.mon, c.year)
  BY <1>1, <1>4, <1>5, Setting DEF Reads
<1>7. PICK night : night = [f EXCEPT !.hour = 0]
  OBVIOUS
<1>8. Reads(night, 0, 0, 0, c.mday, c.mon, c.year)
  BY <1>1, <1>6, <1>7, Setting DEF Reads
<1>9. night = [c EXCEPT !.sec = 0, !.min = 0, !.hour = 0]
  BY <1>3, <1>5, <1>7
<1>10. CASE c.mday < Length(c)
  <2>1. d = [night EXCEPT !.mday = @ + 1]
    BY <1>2, <1>9, <1>10 DEF Later, Length
  <2>2. d = [night EXCEPT !.mday = c.mday + 1]
    BY <1>8, <2>1 DEF Reads
  <2>3. c.mday + 1 \in Mdays /\ c.mday + 1 <= Length(c)
    BY <1>1, <1>10 DEF Mdays
  <2>4. Reads(d, 0, 0, 0, c.mday + 1, c.mon, c.year)
    BY <1>8, <2>2, <2>3, Setting DEF Reads
  <2>5. IsMoment(d)
    BY <2>3, <2>4, Ranges DEF Reads, Length
  <2> QED
    BY <1>10, <2>4, <2>5 DEF Reads
<1>11. CASE ~(c.mday < Length(c))
  <2>1. c.mday = Length(c)
    BY <1>1, <1>11 DEF Mdays
  <2>2. PICK g : g = [night EXCEPT !.mday = 1]
    OBVIOUS
  <2>3. Reads(g, 0, 0, 0, 1, c.mon, c.year)
    BY <1>1, <1>8, <2>2, Setting DEF Reads
  <2>4. \A u \in Fields : u.mday = 1 => IsMoment(u)
    BY Ranges DEF Mdays
  <2>5. CASE c.mon < 12
    <3>1. d = [night EXCEPT !.mday = 1, !.mon = @ + 1]
      BY <1>2, <1>9, <1>11, <2>5 DEF Later, Length
    <3>2. d = [g EXCEPT !.mon = c.mon + 1]
      BY <1>8, <2>2, <3>1 DEF Reads
    <3>3. c.mon + 1 \in Mons
      BY <1>1, <2>5 DEF Mons
    <3>4. Reads(d, 0, 0, 0, 1, c.mon + 1, c.year)
      BY <2>3, <3>2, <3>3, Setting DEF Reads
    <3> QED
      BY <2>1, <2>4, <3>4 DEF Reads
  <2>6. CASE ~(c.mon < 12)
    <3>1. d = [night EXCEPT !.mday = 1, !.mon = 1, !.year = (@ + 1) % 100]
      BY <1>2, <1>9, <1>11, <2>6 DEF Later, Length
    <3>2. PICK i : i = [g EXCEPT !.mon = 1]
      OBVIOUS
    <3>3. Reads(i, 0, 0, 0, 1, 1, c.year)
      BY <1>1, <2>3, <3>2, Setting DEF Reads
    <3>4. d = [i EXCEPT !.year = (c.year + 1) % 100]
      BY <1>8, <2>2, <3>1, <3>2 DEF Reads
    <3>5. (c.year + 1) % 100 \in TwoDigits
      BY <1>1 DEF TwoDigits
    <3>6. Reads(d, 0, 0, 0, 1, 1, (c.year + 1) % 100)
      BY <3>3, <3>4, <3>5, Setting DEF Reads
    <3> QED
      BY <2>1, <2>4, <3>6 DEF Reads
  <2> QED
    BY <2>5, <2>6
<1> QED
  BY <1>10, <1>11

\* What has zeros where another reading has any values is not later.
LEMMA CarriesLeaveZeros ==
  ASSUME NEW s \in Minutes, NEW m \in Minutes, NEW h \in Hours, NEW r \in Minutes, NEW n \in Minutes
  PROVE  /\ OfDay(h, m, s) >= OfDay(h, m, s)
         /\ OfDay(h, m, s) >= OfDay(h, m, 0)
         /\ OfDay(h, m, s) >= OfDay(h, 0, 0)
  BY SMT DEF OfDay, Minutes, Hours

\* Midnight is a second of the month as any other.
LEMMA NextDay ==
  ASSUME NEW c \in Fields, NEW d \in Fields, SecondOfDay(c) = DayLength - 1,
         d.sec = 0, d.min = 0, d.hour = 0, d.mday = c.mday + 1
  PROVE  SecondOfMonth(d) = SecondOfMonth(c) + 1
<1>1. SecondOfDay(d) = 0
  BY DEF SecondOfDay, OfDay
<1>2. /\ SecondOfMonth(d) = DayLength * (d.mday - 1) + SecondOfDay(d)
      /\ SecondOfMonth(c) = DayLength * (c.mday - 1) + SecondOfDay(c)
      /\ c.mday \in Mdays
  BY Ranges
<1> QED
  BY <1>1, <1>2 DEF DayLength, Mdays

\* Mixed registers are a reading, each in its range.
LEMMA MixReads ==
  ASSUME NEW k \in 0 .. 6, NEW t \in Fields, NEW c \in Fields
  PROVE  /\ Mix(k, t, c) \in Fields
         /\ Mix(k, t, c).sec = IF k >= 1 THEN t.sec ELSE c.sec
         /\ Mix(k, t, c).min = IF k >= 2 THEN t.min ELSE c.min
         /\ Mix(k, t, c).hour = IF k >= 3 THEN t.hour ELSE c.hour
         /\ Mix(k, t, c).mday = IF k >= 4 THEN t.mday ELSE c.mday
         /\ Mix(k, t, c).mon = IF k >= 5 THEN t.mon ELSE c.mon
         /\ Mix(k, t, c).year = IF k >= 6 THEN t.year ELSE c.year
<1>1. /\ t.sec \in Minutes /\ t.min \in Minutes /\ t.hour \in Hours
      /\ t.mday \in Mdays /\ t.mon \in Mons /\ t.year \in TwoDigits
      /\ c.sec \in Minutes /\ c.min \in Minutes /\ c.hour \in Hours
      /\ c.mday \in Mdays /\ c.mon \in Mons /\ c.year \in TwoDigits
  BY Ranges
<1> QED
  BY <1>1, SMT DEF Mix, Fields

\* h has k registers of an earlier moment and the others of c.  When the chip goes
\* on to d, h becomes g: that is h again, or d, or it is ahead of d; and if it was
\* ahead of c it is not behind d.
LEMMA Onward ==
  ASSUME NEW k \in 0 .. 5, NEW h \in Fields, NEW c \in Fields, IsMoment(c),
         NEW d, d = Later(c), h = Mix(k, h, c), NEW g, g = Mix(k, h, d),
         h.mday > Length(h) => c.mday < Length(c)
  PROVE  /\ d \in Fields /\ IsMoment(d) /\ g \in Fields /\ g = Mix(k, g, d)
         /\ g = h \/ g = d \/ Ahead(g, d)
         /\ Ahead(h, c) => g = d \/ Ahead(g, d)
         /\ \/ SecondOfMonth(d) = SecondOfMonth(c) + 1 /\ (g.mday > Length(g) => h.mday > Length(h))
            \/ SecondOfMonth(d) = 0
<1>1. d \in Fields /\ IsMoment(d)
  <2>1. CASE SecondOfDay(c) = DayLength - 1
    BY <2>1, AtMidnight
  <2>2. CASE SecondOfDay(c) # DayLength - 1
    <3>1. d \in Fields /\ d.mday = c.mday /\ Length(d) = Length(c)
      BY <2>2, WithinDay DEF Length
    <3> QED
      BY <3>1, Ranges
  <2> QED
    BY <2>1, <2>2
<1>2. /\ g \in Fields
      /\ g.sec = (IF k >= 1 THEN h.sec ELSE d.sec) /\ g.min = (IF k >= 2 THEN h.min ELSE d.min)
      /\ g.hour = (IF k >= 3 THEN h.hour ELSE d.hour)
      /\ g.mday = (IF k >= 4 THEN h.mday ELSE d.mday)
      /\ g.mon = (IF k >= 5 THEN h.mon ELSE d.mon) /\ g.year = d.year
  BY <1>1, MixReads
<1>3. /\ k < 1 => h.sec = c.sec
      /\ k < 2 => h.min = c.min
      /\ k < 3 => h.hour = c.hour
      /\ k < 4 => h.mday = c.mday
      /\ k < 5 => h.mon = c.mon
      /\ h.year = c.year
  <2>1. PICK m : m = Mix(k, h, c)
    OBVIOUS
  <2>2. /\ m.sec = (IF k >= 1 THEN h.sec ELSE c.sec) /\ m.min = (IF k >= 2 THEN h.min ELSE c.min)
        /\ m.hour = (IF k >= 3 THEN h.hour ELSE c.hour)
        /\ m.mday = (IF k >= 4 THEN h.mday ELSE c.mday)
        /\ m.mon = (IF k >= 5 THEN h.mon ELSE c.mon) /\ m.year = c.year
    BY <2>1, MixReads
  <2> QED
    BY <2>1, <2>2
<1>4. g = Mix(k, g, d)
  <2>1. PICK m : m = Mix(k, g, d)
    OBVIOUS
  <2>2. /\ m \in Fields
        /\ m.sec = (IF k >= 1 THEN g.sec ELSE d.sec) /\ m.min = (IF k >= 2 THEN g.min ELSE d.min)
        /\ m.hour = (IF k >= 3 THEN g.hour ELSE d.hour)
        /\ m.mday = (IF k >= 4 THEN g.mday ELSE d.mday)
        /\ m.mon = (IF k >= 5 THEN g.mon ELSE d.mon) /\ m.year = d.year
    BY <1>1, <1>2, <2>1, MixReads
  <2>3. /\ m.sec = g.sec /\ m.min = g.min /\ m.hour = g.hour /\ m.mday = g.mday
        /\ m.mon = g.mon /\ m.year = g.year
    BY <1>2, <2>2
  <2> QED
    BY <1>2, <2>1, <2>2, <2>3, SMT DEF Fields
<1>5. CASE SecondOfDay(c) # DayLength - 1
  <2>1. /\ d.year = c.year /\ d.mon = c.mon /\ d.mday = c.mday
        /\ SecondOfDay(d) = SecondOfDay(c) + 1
        /\ \/ d.min = c.min /\ d.hour = c.hour
           \/ d.sec = 0 /\ d.hour = c.hour
           \/ d.sec = 0 /\ d.min = 0
    BY <1>5, WithinDay
  <2>2. g.year = h.year /\ g.mon = h.mon /\ g.mday = h.mday
    BY <1>2, <1>3, <2>1
  <2>3. ASSUME k < 3 PROVE g.mday = d.mday /\ g.mon = d.mon /\ g.year = d.year
    BY <1>2, <2>3
  <2>4. ASSUME ~(g.sec = h.sec /\ g.min = h.min /\ g.hour = h.hour)
        PROVE  g = d \/ Ahead(g, d)
    <3>1. k < 3
      BY <1>2, <2>4
    <3>2. /\ d.sec \in Minutes /\ d.min \in Minutes /\ d.hour \in Hours
          /\ g.sec \in Minutes /\ g.min \in Minutes /\ g.hour \in Hours
      BY <1>1, <1>2, Ranges
    <3>3. \/ g.sec = d.sec /\ g.min = d.min /\ g.hour = d.hour
          \/ d.sec = 0 /\ g.min = d.min /\ g.hour = d.hour
          \/ d.sec = 0 /\ d.min = 0 /\ g.hour = d.hour
      BY <1>2, <1>3, <2>1, <2>4, <3>1
    <3>4. SecondOfDay(g) >= SecondOfDay(d)
      BY <3>2, <3>3, CarriesLeaveZeros DEF SecondOfDay
    <3>5. SecondOfDay(g) = SecondOfDay(d) => g = d
      BY <1>1, <1>2, <2>3, <3>1, SameMoment
    <3> QED
      BY <1>1, <1>2, <2>3, <3>1, <3>4, <3>5, Ranges DEF Ahead
  <2>5. ASSUME g.sec = h.sec /\ g.min = h.min /\ g.hour = h.hour
        PROVE  g = h
    BY <1>2, <2>2, <2>5, SMT DEF Fields
  <2>6. ASSUME Ahead(h, c), g = h PROVE g = d \/ Ahead(g, d)
    <3>1. CASE h.mon = c.mon /\ h.mday = c.mday /\ SecondOfDay(h) > SecondOfDay(c)
      <4>1. SecondOfDay(h) >= SecondOfDay(d)
        BY <2>1, <3>1, Ranges
      <4>2. h.year = d.year /\ h.mon = d.mon /\ h.mday = d.mday
        BY <1>3, <2>1, <3>1
      <4>3. SecondOfDay(h) = SecondOfDay(d) => h = d
        BY <1>1, <4>2, SameMoment
      <4> QED
        BY <1>1, <2>6, <4>1, <4>2, <4>3, Ranges DEF Ahead
    <3> QED
      BY <2>1, <2>6, <3>1 DEF Ahead
  <2>7. SecondOfMonth(d) = SecondOfMonth(c) + 1
    <3>1. /\ SecondOfMonth(d) = DayLength * (d.mday - 1) + SecondOfDay(d)
          /\ SecondOfMonth(c) = DayLength * (c.mday - 1) + SecondOfDay(c)
          /\ SecondOfDay(c) \in Int /\ c.mday \in Mdays
      BY <1>1, Ranges
    <3> QED
      BY <2>1, <3>1 DEF DayLength, Mdays
  <2>8. Length(g) = Length(h)
    BY <2>2 DEF Length
  <2> QED
    BY <1>1, <1>2, <1>4, <2>2, <2>4, <2>5, <2>6, <2>7, <2>8
<1>6. CASE SecondOfDay(c) = DayLength - 1
  <2>1. /\ d.sec = 0 /\ d.min = 0 /\ d.hour = 0
        /\ \/ /\ c.mday < Length(c) /\ d.mday = c.mday + 1
              /\ d.mon = c.mon /\ d.year = c.year
           \/ /\ c.mday = Length(c) /\ d.mday = 1
              /\ \/ d.mon = c.mon + 1 /\ d.year = c.year
                 \/ d.mon = 1
    BY <1>6, AtMidnight
  <2>2. /\ SecondOfDay(d) = 0 /\ SecondOfDay(g) >= 0 /\ SecondOfDay(g) \in Int
        /\ g.mday \in Mdays /\ g.mon \in Mons /\ h.mday \in Mdays /\ h.mon \in Mons
        /\ c.mday \in Mdays /\ c.mon \in Mons /\ d.mday \in Mdays /\ d.mon \in Mons
        /\ Length(c) \in Mdays
    BY <1>1, <1>2, <2>1, Ranges DEF SecondOfDay, OfDay
  <2>3. g.year = d.year
    BY <1>2
  <2>4. ASSUME g.mon = d.mon /\ g.mday = d.mday PROVE g = d \/ Ahead(g, d)
    <3>1. SecondOfDay(g) = SecondOfDay(d) => g = d
      BY <1>1, <1>2, <2>3, <2>4, SameMoment
    <3> QED
      BY <2>2, <2>3, <2>4, <3>1 DEF Ahead
  <2>5. ASSUME g.mon = d.mon /\ g.mday > d.mday PROVE Ahead(g, d)
    BY <2>3, <2>5 DEF Ahead
  <2>6. ASSUME g.mon > d.mon PROVE Ahead(g, d)
    BY <2>3, <2>6 DEF Ahead
  <2>7. CASE c.mday < Length(c)
    <3>1. d.mday = c.mday + 1 /\ d.mon = c.mon /\ d.year = c.year
      BY <2>1, <2>2, <2>7 DEF Mdays
    <3>2. SecondOfMonth(d) = SecondOfMonth(c) + 1
      BY <1>1, <1>6, <2>1, <3>1, NextDay
    <3>3. CASE k < 4
      <4>1. g.mon = d.mon /\ g.mday = d.mday /\ g.mday = c.mday + 1
        BY <1>2, <3>1, <3>3
      <4>2. ~(g.mday > Length(g))
        <5>1. Length(g) = Length(d)
          BY <1>2, <4>1 DEF Length
        <5>2. d.mday <= Length(d) /\ Length(d) \in Mdays /\ d.mday \in Mdays
          BY <1>1, Ranges
        <5> QED
          BY <4>1, <5>1, <5>2 DEF Mdays
      <4>3. g = d \/ Ahead(g, d)
        BY <2>4, <4>1
      <4> QED
        BY <1>1, <1>2, <1>4, <4>2, <4>3, <3>2
    <3>4. CASE k >= 4
      <4>1. g.sec = h.sec /\ g.min = h.min /\ g.hour = h.hour /\ g.mday = h.mday
            /\ g.mon = h.mon /\ g.year = h.year
        BY <1>2, <1>3, <3>1, <3>4
      <4>2. g = h
        BY <1>2, <4>1, SMT DEF Fields
      <4>3. ASSUME Ahead(h, c) PROVE g = d \/ Ahead(g, d)
        <5>1. h.mon > c.mon \/ (h.mon = c.mon /\ h.mday > c.mday)
          <6>1. ~(SecondOfDay(h) > SecondOfDay(c))
            BY <1>6, Ranges DEF DayLength
          <6> QED
            BY <4>3, <6>1 DEF Ahead
        <5>2. g.mon > d.mon \/ (g.mon = d.mon /\ (g.mday = d.mday \/ g.mday > d.mday))
          BY <2>2, <3>1, <4>1, <5>1 DEF Mdays
        <5> QED
          BY <2>4, <2>5, <2>6, <5>2
      <4> QED
        BY <1>1, <1>2, <1>4, <4>2, <4>3, <3>2
    <3>5. k < 4 \/ k >= 4
      OBVIOUS
    <3> QED
      BY <3>3, <3>4, <3>5
  <2>8. CASE c.mday = Length(c)
    <3>1. d.mday = 1
      BY <2>1, <2>2, <2>8 DEF Mdays
    <3>2. SecondOfMonth(d) = 0
      BY <1>1, <2>2, <3>1, Ranges DEF DayLength
    <3>3. ASSUME g.mon >= d.mon PROVE g = d \/ Ahead(g, d)
      <4>1. g.mday = d.mday \/ g.mday > d.mday
        BY <2>2, <3>1 DEF Mdays
      <4>2. g.mon = d.mon \/ g.mon > d.mon
        BY <2>2, <3>3 DEF Mons
      <4> QED
        BY <2>4, <2>5, <2>6, <4>1, <4>2
    <3>4. CASE k < 5
      <4>1. g.mon >= d.mon
        BY <1>2, <2>2, <3>4 DEF Mons
      <4> QED
        BY <1>1, <1>2, <1>4, <3>2, <3>3, <4>1
    <3>5. CASE d.mon = 1
      <4>1. g.mon >= d.mon
        BY <2>2, <3>5 DEF Mons
      <4> QED
        BY <1>1, <1>2, <1>4, <3>2, <3>3, <4>1
    <3>6. CASE k >= 5 /\ d.mon = c.mon + 1 /\ d.year = c.year
      <4>1. g.sec = h.sec /\ g.min = h.min /\ g.hour = h.hour /\ g.mday = h.mday
            /\ g.mon = h.mon /\ g.year = h.year
        BY <1>2, <1>3, <3>6
      <4>2. g = h
        BY <1>2, <4>1, SMT DEF Fields
      <4>3. ASSUME Ahead(h, c) PROVE g = d \/ Ahead(g, d)
        <5>1. ~(SecondOfDay(h) > SecondOfDay(c))
          BY <1>6, Ranges DEF DayLength
        <5>2. h.mon # c.mon
          <6> SUFFICES ASSUME h.mon = c.mon PROVE FALSE
            OBVIOUS
          <6>1. h.mday > c.mday
            BY <2>2, <4>3, <5>1 DEF Ahead, Mons
          <6>2. Length(h) = Length(c)
            BY <1>3 DEF Length
          <6> QED
            BY <2>2, <2>8, <6>1, <6>2 DEF Mdays
        <5>3. h.mon > c.mon
          BY <4>3, <5>2 DEF Ahead
        <5>4. g.mon >= d.mon
          BY <2>2, <3>6, <4>1, <5>3 DEF Mons
        <5> QED
          BY <3>3, <5>4
      <4> QED
        BY <1>1, <1>2, <1>4, <3>2, <4>2, <4>3
    <3>7. k < 5 \/ k >= 5
      OBVIOUS
    <3> QED
      BY <2>1, <2>2, <2>8, <3>4, <3>5, <3>6, <3>7 DEF Mdays
  <2> QED
    BY <2>1, <2>7, <2>8
<1> QED
  BY <1>5, <1>6

---------------------------------------------------------------------------
(* What initTime has gathered.                                             *)

\* BCD_TO_BIN undoes the chip's coding.
LEMMA Decoded ==
  ASSUME NEW v \in TwoDigits
  PROVE  BCD_TO_BIN(16 * (v \div 10) + (v % 10)) = v
<1> DEFINE q == v \div 10
           r == v % 10
<1>1. q \in 0 .. 9 /\ r \in 0 .. 9 /\ v = 10 * q + r
  BY DEF TwoDigits
<1> HIDE DEF q, r
<1>2. (16 * q + r) % 16 = r /\ (16 * q + r) \div 16 = q
  BY <1>1
<1> QED
  BY <1>1, <1>2 DEF BCD_TO_BIN, q, r

\* How many registers were read, and what there would be if the others were read now.
Kept == IF read < 6 THEN read ELSE 6
Names(k) == {Registers[i] : i \in 1 .. k}
Mixed == Mix(Kept, time, rtc)

\* What was read stays, whatever the other registers show.
LEMMA MixTwice ==
  ASSUME NEW k \in 0 .. 6, NEW t, NEW c, NEW d
  PROVE  Mix(k, Mix(k, t, c), d) = Mix(k, t, d)
BY DEF Mix

\* Every register's name and place.
LEMMA NamesOf ==
  /\ Registers[1] = "sec" /\ Registers[2] = "min" /\ Registers[3] = "hour"
  /\ Registers[4] = "mday" /\ Registers[5] = "mon" /\ Registers[6] = "year"
  /\ Len(Registers) = 6
  /\ Names(0) = {} /\ Names(1) = {"sec"} /\ Names(2) = {"sec", "min"}
  /\ Names(3) = {"sec", "min", "hour"} /\ Names(4) = {"sec", "min", "hour", "mday"}
  /\ Names(5) = {"sec", "min", "hour", "mday", "mon"}
  /\ Names(6) = {"sec", "min", "hour", "mday", "mon", "year"}
<1>1. /\ Registers[1] = "sec" /\ Registers[2] = "min" /\ Registers[3] = "hour"
      /\ Registers[4] = "mday" /\ Registers[5] = "mon" /\ Registers[6] = "year"
      /\ Len(Registers) = 6
  BY DEF Registers
<1>2. /\ 1 .. 0 = {} /\ 1 .. 1 = {1} /\ 1 .. 2 = {1, 2} /\ 1 .. 3 = {1, 2, 3}
      /\ 1 .. 4 = {1, 2, 3, 4} /\ 1 .. 5 = {1, 2, 3, 4, 5} /\ 1 .. 6 = {1, 2, 3, 4, 5, 6}
  OBVIOUS
<1>3. Names(0) = {} /\ Names(1) = {"sec"} /\ Names(2) = {"sec", "min"}
  BY <1>1, <1>2, SMT DEF Names
<1>4. Names(3) = {"sec", "min", "hour"} /\ Names(4) = {"sec", "min", "hour", "mday"}
  BY <1>1, <1>2, SMT DEF Names
<1>5. Names(5) = {"sec", "min", "hour", "mday", "mon"}
  BY <1>1, <1>2, SMT DEF Names
<1>6. Names(6) = {"sec", "min", "hour", "mday", "mon", "year"}
  BY <1>1, <1>2, SMT DEF Names
<1> QED
  BY <1>1, <1>3, <1>4, <1>5, <1>6

\* u is t with the next register of c.
Gathers(u, k, t, c) ==
  LET r == Registers[k + 1]
  IN  /\ DOMAIN t = Names(k) /\ DOMAIN u = DOMAIN t \cup {r}
      /\ u[r] = c[r] /\ \A s \in DOMAIN t : s # r => u[s] = t[s]

\* To read the next register changes nothing of that.
LEMMA ReadsNext ==
  ASSUME NEW k \in 0 .. 5, NEW t, NEW c \in Fields, NEW u, Gathers(u, k, t, c),
         NEW n, n = k + 1
  PROVE  Mix(n, u, c) = Mix(k, t, c) /\ DOMAIN u = Names(n)
<1>1. k = 0 \/ k = 1 \/ k = 2 \/ k = 3 \/ k = 4 \/ k = 5
  OBVIOUS
<1>2. CASE k = 0
  BY <1>2, NamesOf, SMT DEF Mix, Gathers
<1>3. CASE k = 1
  BY <1>3, NamesOf, SMT DEF Mix, Gathers
<1>4. CASE k = 2
  BY <1>4, NamesOf, SMT DEF Mix, Gathers
<1>5. CASE k = 3
  BY <1>5, NamesOf, SMT DEF Mix, Gathers
<1>6. CASE k = 4
  BY <1>6, NamesOf, SMT DEF Mix, Gathers
<1>7. CASE k = 5
  BY <1>7, NamesOf, SMT DEF Mix, Gathers
<1> QED
  BY <1>1, <1>2, <1>3, <1>4, <1>5, <1>6, <1>7

\* Whatever the chip shows is read as it is shown.
LEMMA ReadAsShown ==
  ASSUME rtc \in Fields, NEW k \in 0 .. 5, NEW r, r = Registers[k + 1]
  PROVE  BCD_TO_BIN(Register(r)) = rtc[r]
<1>1. /\ rtc.sec \in Minutes /\ rtc.min \in Minutes /\ rtc.hour \in Hours
      /\ rtc.mday \in Mdays /\ rtc.mon \in Mons /\ rtc.year \in TwoDigits
  BY Ranges
<1>2. /\ rtc.sec \in TwoDigits /\ rtc.min \in TwoDigits /\ rtc.hour \in TwoDigits
      /\ rtc.mday \in TwoDigits /\ rtc.mon \in TwoDigits /\ rtc.year \in TwoDigits
  BY <1>1 DEF Minutes, Hours, Mdays, Mons, TwoDigits
<1>3. k = 0 \/ k = 1 \/ k = 2 \/ k = 3 \/ k = 4 \/ k = 5
  OBVIOUS
<1>4. rtc[r] \in TwoDigits
  BY <1>2, <1>3, NamesOf
<1> QED
  BY <1>4, Decoded DEF Register

\* All of the registers are what initTime gathered.
LEMMA AllRead ==
  ASSUME NEW t, NEW c, t = [s \in Names(6) |-> t[s]]
  PROVE  Mix(6, t, c) = t
BY NamesOf, SMT DEF Mix

\* What is assumed of the constants.
LEMMA Assumed ==
  /\ MaxSeconds \in Nat /\ MaxSeconds <= 27 * DayLength
  /\ \A t \in Moments : t \in Fields /\ IsMoment(t)
<1>1. MaxSeconds \in Nat /\ MaxSeconds <= 27 * DayLength
  BY SecondsAssumption DEF DayLength
<1>2. \A t \in Moments : IsMoment(t)
  BY MomentAssumption
<1>3. \A t : IsMoment(t) => t \in Fields
  BY Zenon DEF IsMoment, Fields, Minutes, Hours, Mdays, Mons, TwoDigits
<1> QED
  BY <1>1, <1>2, <1>3

\* Less than 27 days into a month there is a day left of it.
LEMMA DayLeft ==
  ASSUME NEW d \in Mdays, NEW s \in Int, s >= 0, NEW n \in Nat,
         DayLength * (d - 1) + s < n, n <= 27 * DayLength
  PROVE  d < 28
BY DEF DayLength, Mdays

\* The invariant: what is gathered so far, completed with what the chip shows now, is a
\* moment it has shown or is ahead of it; and if it is a day that its month does not
\* have, the month of the chip has begun since initTime did.
ClockInv ==
  /\ read \in 0 .. 7
  /\ rtc \in Fields /\ IsMoment(rtc)
  /\ seen \in Seq(Fields) /\ Len(seen) <= MaxSeconds + 1
  /\ Len(seen) > 0 /\ seen[Len(seen)] = rtc
  /\ time = [r \in Names(Kept) |-> time[r]]
  /\ Mixed \in Fields
  /\ (\E i \in 1 .. Len(seen) : Mixed = seen[i]) \/ Ahead(Mixed, rtc)
  /\ Mixed.mday > Length(Mixed) => SecondOfMonth(rtc) < Len(seen)
  /\ read = 7 => STARTUP_TIME = mkTime(time)

\* Before anything is read, the registers show a moment.
LEMMA ClockInvInit == ClockInit => ClockInv
<1> SUFFICES ASSUME ClockInit PROVE ClockInv
  OBVIOUS
<1>1. rtc \in Fields /\ IsMoment(rtc)
  BY Assumed DEF ClockInit
<1>2. read = 0 /\ Kept = 0 /\ Names(Kept) = {}
  BY NamesOf DEF ClockInit, Kept
<1>3. seen \in Seq(Fields) /\ Len(seen) = 1 /\ seen[1] = rtc
  BY <1>1 DEF ClockInit
<1>4. time = [r \in Names(Kept) |-> time[r]]
  BY <1>2 DEF ClockInit
<1>5. Mixed \in Fields
  BY <1>1, <1>2, SMT DEF Mixed, Mix, Fields
<1>6. Mixed = rtc
  BY <1>1, <1>2, SMT DEF Mixed, Mix, Fields
<1>7. ~(rtc.mday > Length(rtc))
  <2>1. rtc.mday \in Mdays /\ Length(rtc) \in Mdays /\ rtc.mday <= Length(rtc)
    BY <1>1, Ranges
  <2> QED
    BY <2>1 DEF Mdays
<1>8. Len(seen) <= MaxSeconds + 1
  BY <1>3, Assumed
<1> QED
  BY <1>1, <1>2, <1>3, <1>4, <1>5, <1>6, <1>7, <1>8 DEF ClockInv

\* A second passes: the registers not yet read go on.
LEMMA ClockInvSecond ==
  ASSUME ClockInv, Second
  PROVE  ClockInv'
<1> DEFINE h == Mixed
           g == Mixed'
           d == Later(rtc)
<1>1. /\ read \in 0 .. 5 /\ Kept = read /\ Kept' = read /\ rtc' = d /\ time' = time /\ read' = read
      /\ Len(seen) <= MaxSeconds /\ seen' = Append(seen, d)
  BY NamesOf DEF ClockInv, Second, Kept
<1>2. h = Mix(read, time, rtc) /\ g = Mix(read, time, d)
  BY <1>1 DEF Mixed
<1>3. h = Mix(read, h, rtc) /\ g = Mix(read, h, d)
  BY <1>1, <1>2, MixTwice
<1>4. h.mday > Length(h) => rtc.mday < Length(rtc)
  <2>1. /\ rtc.mday \in Mdays /\ Length(rtc) \in Mdays /\ Length(rtc) >= 28
        /\ SecondOfDay(rtc) \in Int /\ SecondOfDay(rtc) >= 0
        /\ SecondOfMonth(rtc) = DayLength * (rtc.mday - 1) + SecondOfDay(rtc)
    BY Ranges DEF ClockInv
  <2>2. h.mday > Length(h) => SecondOfMonth(rtc) < Len(seen)
    BY DEF ClockInv
  <2>3. Len(seen) \in Nat /\ Len(seen) <= 27 * DayLength
    <3>1. ASSUME NEW m \in Nat, Len(seen) <= m, NEW n \in Int, m <= n PROVE Len(seen) <= n
      BY <3>1, SMT DEF ClockInv
    <3>2. 27 * DayLength \in Int /\ MaxSeconds \in Nat /\ MaxSeconds <= 27 * DayLength
      BY Assumed DEF DayLength
    <3> QED
      BY <1>1, <3>1, <3>2 DEF ClockInv
  <2>4. ASSUME h.mday > Length(h) PROVE rtc.mday < 28
    BY <2>1, <2>2, <2>3, <2>4, DayLeft
  <2> QED
    BY <2>1, <2>4 DEF Mdays
<1> HIDE DEF h, g, d
<1>5. /\ d \in Fields /\ IsMoment(d) /\ g \in Fields /\ g = Mix(read, g, d)
      /\ g = h \/ g = d \/ Ahead(g, d)
      /\ Ahead(h, rtc) => g = d \/ Ahead(g, d)
      /\ \/ SecondOfMonth(d) = SecondOfMonth(rtc) + 1 /\ (g.mday > Length(g) => h.mday > Length(h))
         \/ SecondOfMonth(d) = 0
  <2>1. h \in Fields /\ rtc \in Fields /\ IsMoment(rtc)
    BY DEF ClockInv, h
  <2>2. d = Later(rtc)
    BY DEF d
  <2> QED
    BY <1>1, <1>3, <1>4, <2>1, <2>2, Onward
<1>6. /\ seen' \in Seq(Fields) /\ Len(seen') = Len(seen) + 1 /\ Len(seen) \in Nat
      /\ seen'[Len(seen')] = d /\ \A i \in 1 .. Len(seen) : seen'[i] = seen[i]
  BY <1>1, <1>5 DEF ClockInv
<1>7. (\E i \in 1 .. Len(seen') : g = seen'[i]) \/ Ahead(g, d)
  <2>1. CASE g = d
    BY <1>6, <2>1
  <2>2. CASE g = h /\ ~Ahead(h, rtc)
    <3>1. PICK i \in 1 .. Len(seen) : h = seen[i]
      BY <2>2 DEF ClockInv, h
    <3> QED
      BY <1>6, <2>2, <3>1
  <2> QED
    BY <1>5, <2>1, <2>2
<1>8. g.mday > Length(g) => SecondOfMonth(d) < Len(seen')
  <2>1. h.mday > Length(h) => SecondOfMonth(rtc) < Len(seen)
    BY DEF ClockInv, h
  <2>2. SecondOfMonth(rtc) \in Int
    <3>1. rtc.mday \in Mdays /\ SecondOfDay(rtc) \in Int
          /\ SecondOfMonth(rtc) = DayLength * (rtc.mday - 1) + SecondOfDay(rtc)
      BY Ranges DEF ClockInv
    <3> QED
      BY <3>1 DEF DayLength, Mdays
  <2> QED
    BY <1>5, <1>6, <2>1, <2>2
<1>9. time' = [r \in Names(Kept') |-> time'[r]]
  BY <1>1 DEF ClockInv
<1>10. Len(seen') <= MaxSeconds + 1
  BY <1>1, <1>6, Assumed
<1>11. g = Mixed'
  BY DEF g
<1> QED
  BY <1>1, <1>5, <1>6, <1>7, <1>8, <1>9, <1>10, <1>11 DEF ClockInv

\* A register is read: what is gathered was shown already.
LEMMA ClockInvRead ==
  ASSUME ClockInv, ReadRegister
  PROVE  ClockInv'
<1> DEFINE r == Registers[read + 1]
<1>1. /\ read \in 0 .. 5 /\ Kept = read /\ Kept' = read + 1 /\ read' = read + 1
      /\ rtc' = rtc /\ seen' = seen
      /\ time' = [s \in DOMAIN time \cup {r} |->
                    IF s = r THEN BCD_TO_BIN(Register(r)) ELSE time[s]]
  BY NamesOf DEF ClockInv, ReadRegister, Kept
<1>2. BCD_TO_BIN(Register(r)) = rtc[r]
  BY <1>1, ReadAsShown DEF ClockInv
<1>3. DOMAIN time = Names(read)
  BY <1>1 DEF ClockInv
<1>4. time' = [s \in DOMAIN time \cup {r} |-> IF s = r THEN rtc[r] ELSE time[s]]
  BY <1>1, <1>2
<1>5. Mix(read + 1, time', rtc) = Mix(read, time, rtc) /\ DOMAIN time' = Names(read + 1)
  <2>1. rtc \in Fields
    BY DEF ClockInv
  <2>2. PICK u : u = time'
    OBVIOUS
  <2>3. Gathers(u, read, time, rtc)
    BY <1>3, <1>4, <2>2 DEF Gathers
  <2>4. PICK n : n = read + 1
    OBVIOUS
  <2>5. Mix(n, u, rtc) = Mix(read, time, rtc) /\ DOMAIN u = Names(n)
    BY <1>1, <2>1, <2>3, <2>4, ReadsNext
  <2> QED
    BY <2>2, <2>4, <2>5
<1>6. Mixed' = Mixed
  BY <1>1, <1>5 DEF Mixed
<1>7. time' = [s \in Names(Kept') |-> time'[s]]
  <2>1. time' = [s \in DOMAIN time' |-> time'[s]]
    BY <1>4
  <2> QED
    BY <1>1, <1>5, <2>1
<1>8. read' \in 0 .. 7 /\ read' # 7
  BY <1>1
<1> QED
  BY <1>1, <1>6, <1>7, <1>8 DEF ClockInv

\* mkTime is called with all of the registers.
LEMMA ClockInvCompute ==
  ASSUME ClockInv, Compute
  PROVE  ClockInv'
<1>1. /\ read = 6 /\ Kept = 6 /\ Kept' = 6 /\ read' = 7 /\ rtc' = rtc /\ seen' = seen /\ time' = time
      /\ STARTUP_TIME' = mkTime(time')
  BY NamesOf DEF ClockInv, Compute, Kept
<1>2. Mixed' = Mixed
  BY <1>1 DEF Mixed
<1> QED
  BY <1>1, <1>2 DEF ClockInv

\* All of ClockInv together is inductive.
LEMMA ClockInvNext == ClockInv /\ [ClockNext]_clockVars => ClockInv'
<1> SUFFICES ASSUME ClockInv, [ClockNext]_clockVars PROVE ClockInv'
  OBVIOUS
<1>1. CASE Second
  BY <1>1, ClockInvSecond
<1>2. CASE ReadRegister
  BY <1>2, ClockInvRead
<1>3. CASE Compute
  BY <1>3, ClockInvCompute
<1>4. CASE UNCHANGED clockVars
  <2>1. read' = read /\ rtc' = rtc /\ seen' = seen /\ time' = time /\ STARTUP_TIME' = STARTUP_TIME
    BY <1>4 DEF clockVars
  <2>2. Kept' = Kept /\ Mixed' = Mixed
    BY <2>1 DEF Kept, Mixed
  <2> QED
    BY <2>1, <2>2 DEF ClockInv
<1> QED
  BY <1>1, <1>2, <1>3, <1>4 DEF ClockNext

\* The time of a reading is below 49710 days.
LEMMA FitsIn32Bits ==
  ASSUME NEW t \in Fields
  PROVE  mkTime(t)[1] < 49710
<1>1. PICK y : y = FullYear(t.year)
  OBVIOUS
<1>2. /\ mkTime(t) = <<YearDays(y) + MonthDays(y, t.mon) + t.mday - 1,
                       3600 * t.hour + 60 * t.min + t.sec>>
      /\ y \in Years
  BY <1>1, SameCalendar
<1>3. YearDays(y) \in Nat /\ YearDays(y) <= 36525
  BY <1>2, YearBounds
<1>4. MonthDays(y, t.mon) \in 0 .. 335
  <2>1. t.mon \in 1 .. 12
    BY Ranges DEF Mons
  <2>2. \/ t.mon = 1 \/ t.mon = 2 \/ t.mon = 3 \/ t.mon = 4 \/ t.mon = 5 \/ t.mon = 6 \/ t.mon = 7
        \/ t.mon = 8 \/ t.mon = 9 \/ t.mon = 10 \/ t.mon = 11 \/ t.mon = 12
    BY <2>1
  <2> QED
    BY <2>2 DEF MonthDays, month
<1>5. t.mday \in 1 .. 31
  BY Ranges DEF Mdays
<1>6. mkTime(t)[1] = YearDays(y) + MonthDays(y, t.mon) + t.mday - 1
  BY <1>2
<1>7. PICK m, n : m = 36525 /\ n = 49710
  OBVIOUS
<1>8. m \in Nat /\ n \in Nat /\ m + 365 < n
  BY <1>7
<1>9. ASSUME NEW a \in Int, NEW b \in Int, NEW c \in Int, a <= m, b <= 335, c <= 31
      PROVE  a + b + c - 1 < n
  BY <1>8, <1>9
<1>10. /\ YearDays(y) \in Int /\ MonthDays(y, t.mon) \in Int /\ t.mday \in Int
       /\ YearDays(y) <= m /\ MonthDays(y, t.mon) <= 335 /\ t.mday <= 31
  BY <1>3, <1>4, <1>5, <1>7
<1>11. mkTime(t)[1] < n
  BY <1>6, <1>9, <1>10
<1> QED
  BY <1>7, <1>11

\* STARTUP_TIME is what the calendar says of what the registers showed, or ahead
\* of the clock if they showed no moment.
LEMMA ClockInvIsRead == ClockInv => StartupTimeRead
<1> SUFFICES ASSUME ClockInv, read > Len(Registers) PROVE StartupTimeRead
  BY DEF StartupTimeRead
<1>1. read = 7 /\ Kept = 6 /\ STARTUP_TIME = mkTime(time)
  BY NamesOf DEF ClockInv, Kept
<1>2. Mixed = time
  BY <1>1, AllRead DEF Mixed, ClockInv
<1>3. time \in Fields /\ rtc \in Fields /\ IsMoment(rtc)
      /\ ((\E i \in 1 .. Len(seen) : time = seen[i]) \/ Ahead(time, rtc))
  BY <1>2 DEF ClockInv
<1>4. STARTUP_TIME[1] < 49710
  BY <1>1, <1>3, FitsIn32Bits
<1>5. STARTUP_TIME = Since1970(time)
  <2>1. PICK y : y = FullYear(time.year)
    OBVIOUS
  <2> QED
    BY <1>1, <1>3, <2>1, SameCalendar
<1>6. Ahead(time, rtc) => Before(Since1970(rtc), STARTUP_TIME)
  BY <1>1, <1>3, AheadIsLater
<1> QED
  BY <1>3, <1>4, <1>5, <1>6 DEF StartupTimeRead

\* initTime, at every moment it may be called and whichever of the registers the
\* chip changes between two reads: the registers together are a moment the chip
\* has shown, and mkTime gives what the calendar says of it, counted from midnight
\* (the comments of time.c and time.h name 08:00:00), or they are none, and the
\* kernel's clock is ahead of the chip's; and it fits in 32 bits.
THEOREM StartupTimeIsRead == ClockInit /\ [][ClockNext]_clockVars => []StartupTimeRead
<1>1. ClockInit => ClockInv
  BY ClockInvInit
<1>2. ClockInv /\ [ClockNext]_clockVars => ClockInv'
  BY ClockInvNext
<1>3. ClockInv => StartupTimeRead
  BY ClockInvIsRead
<1> QED
  BY <1>1, <1>2, <1>3, PTL
=============================================================================
