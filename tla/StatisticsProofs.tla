-------------------------- MODULE StatisticsProofs --------------------------
(***************************************************************************)
(* The statistics are right for every request of a year, day or hour and   *)
(* the page's requests reach up to now, for all instants since 1970 and    *)
(* any torrents: the arithmetic of the calendar, and what GetStatistics    *)
(* makes of it.                                                            *)
(***************************************************************************)
EXTENDS Statistics, FiniteSetTheorems, WellFoundedInduction, TLAPS

-----------------------------------------------------------------------------
(***************************************************************************)
(* The calendar: DayNumber and Fields, and the lengths of months and years *)
(* of iso8601.go.                                                          *)
(***************************************************************************)
\* The year of a day of an era is the one in which it lies; the last of the 400 is
\* longer by the day that the era has more.
LEMMA YearOfEra ==
    ASSUME NEW doe \in Int, 0 <= doe, doe <= 146096
    PROVE  /\ YearOf(doe) \in Int /\ 0 <= YearOf(doe) /\ YearOf(doe) <= 399
           /\ StartOf(YearOf(doe)) <= doe
           /\ doe < StartOf(YearOf(doe) + 1) + (IF YearOf(doe) = 399 THEN 1 ELSE 0)
<1>1. PICK a \in Int : a = doe \div 1460
  BY Z3T(20)
<1>2. PICK b \in Int : b = doe \div 36524
  BY Z3T(20)
<1>3. PICK e \in Int : e = doe \div 146096
  BY Z3T(20)
<1>4. PICK x \in Int : x = doe - a + b - e
  BY Z3T(20)
<1>5. PICK yoe \in Int : yoe = x \div 365
  BY Z3T(20)
<1>6. PICK q \in Int : q = yoe \div 4
  BY Z3T(20)
<1>7. PICK c \in Int : c = yoe \div 100
  BY Z3T(20)
<1>8. yoe = YearOf(doe)
  BY <1>1, <1>2, <1>3, <1>4, <1>5, Z3T(20) DEF YearOf
<1>9. 1460 * a <= doe /\ doe < 1460 * a + 1460 /\ a \in 0..100
  BY <1>1, Z3T(20)
<1>10. 36524 * b <= doe /\ doe < 36524 * b + 36524 /\ b \in 0..4
  BY <1>2, Z3T(20)
<1>11. (e = 0 /\ doe < 146096 /\ b \in 0..3) \/ (e = 1 /\ doe = 146096 /\ b = 4 /\ a = 100)
  BY <1>1, <1>2, <1>3, Z3T(20)
<1>12. 365 * yoe <= x /\ x < 365 * yoe + 365
  BY <1>5, Z3T(20)
<1>13. 4 * q <= yoe /\ yoe < 4 * q + 4
  BY <1>6, Z3T(20)
<1>14. 100 * c <= yoe /\ yoe < 100 * c + 100
  BY <1>7, Z3T(20)
<1>15. CASE e = 1
  <2>1. x = 145999
    BY <1>4, <1>11, <1>15, Z3T(20)
  <2>2. yoe = 399
    BY <1>12, <2>1, Z3T(20)
  <2>3. StartOf(399) = 145731 /\ StartOf(400) = 146096
    BY Z3T(20) DEF StartOf
  <2> QED
    BY <1>8, <1>11, <1>15, <2>2, <2>3, Z3T(20)
<1>16. CASE e = 0
  <2>1. c = b
    <3>1. 1460 * 25 * b <= 1460 * a
      BY <1>9, <1>10, <1>11, <1>16, Z3T(20)
    <3>2. x >= 36500 * b
      BY <1>4, <1>9, <1>10, <1>11, <1>16, Z3T(20)
    <3>3. x < 36500 * b + 36500
      BY <1>4, <1>9, <1>10, <1>11, <1>16, Z3T(20)
    <3> QED
      BY <1>10, <1>12, <1>14, <3>2, <3>3, Z3T(20)
  <2>2. q <= a /\ a <= q + 1
    BY <1>4, <1>9, <1>10, <1>12, <1>13, <1>16, Z3T(20)
  <2>3. 0 <= yoe /\ yoe <= 399
    BY <1>11, <1>14, <1>16, <2>1, Z3T(20)
  <2>4. StartOf(yoe) = 365 * yoe + q - c
    BY <1>6, <1>7, Z3T(20) DEF StartOf
  <2>5. StartOf(yoe) <= doe
    BY <1>4, <1>12, <1>16, <2>1, <2>2, <2>4, Z3T(20)
  <2>6. doe < StartOf(yoe + 1) + (IF yoe = 399 THEN 1 ELSE 0)
    <3>1. CASE yoe = 100 * c + 99
      <4>1. StartOf(yoe + 1) = 36524 * c + 36524
        <5>1. (100 * c + 100) \div 100 = c + 1 /\ (100 * c + 100) \div 4 = 25 * c + 25
          BY Z3T(20)
        <5> QED
          BY <3>1, <5>1, Z3T(20) DEF StartOf
      <4> QED
        BY <1>10, <2>1, <4>1, <2>3, Z3T(20)
    <3>2. CASE yoe # 100 * c + 99 /\ yoe = 4 * q + 3
      <4>1. (yoe + 1) \div 4 = q + 1 /\ (yoe + 1) \div 100 = c
        BY <1>14, <3>2, Z3T(20)
      <4>2. StartOf(yoe + 1) = 365 * yoe + 365 + q + 1 - c
        BY <4>1, Z3T(20) DEF StartOf
      <4> QED
        BY <1>4, <1>12, <1>16, <2>1, <2>2, <2>3, <4>2, Z3T(20)
    <3>3. CASE yoe # 4 * q + 3 /\ yoe # 100 * c + 99
      <4>1. (yoe + 1) \div 4 = q /\ (yoe + 1) \div 100 = c
        BY <1>13, <1>14, <3>3, Z3T(20)
      <4>2. StartOf(yoe + 1) = 365 * yoe + 365 + q - c
        BY <4>1, Z3T(20) DEF StartOf
      <4>3. a <= q
        BY <1>4, <1>9, <1>10, <1>12, <1>13, <1>16, <3>3, <2>2, Z3T(20)
      <4> QED
        BY <1>4, <1>12, <1>16, <2>1, <2>3, <4>2, <4>3, Z3T(20)
    <3> QED
      BY <3>1, <3>2, <3>3, Z3T(20)
  <2> QED
    BY <1>8, <2>3, <2>5, <2>6, Z3T(20)
<1> QED
  BY <1>11, <1>15, <1>16, Z3T(20)

\* The leap days up to the end of year y.
Leaps(y) == y \div 4 - y \div 100 + y \div 400

\* DayNumber of the months of a year, by the years that begin in March.
LEMMA MarchForm ==
    ASSUME NEW y \in Int, NEW m \in Int, 1 <= m, m <= 12, NEW d \in Int
    PROVE  /\ m <= 2 => DayNumber(y, m, d) = 365 * (y - 1) + Leaps(y - 1) + Gone(m + 9) + d - 719469
           /\ m > 2 => DayNumber(y, m, d) = 365 * y + Leaps(y) + Gone(m - 3) + d - 719469
           /\ DayNumber(y, m, d) \in Int
<1>1. (m - 1) \div 12 = 0 /\ (m - 1) % 12 = m - 1
  BY Z3T(20)
<1> QED
  BY <1>1, Z3T(20) DEF DayNumber, Leaps, StartOf, Gone

\* A leap year, by the rule of isLeap, is one with a day more.
LEMMA LeapsOfNext ==
    ASSUME NEW y \in Int
    PROVE  /\ Leaps(y) \in Int
           /\ isLeap(y) => Leaps(y) = Leaps(y - 1) + 1
           /\ ~isLeap(y) => Leaps(y) = Leaps(y - 1)
  BY Z3T(20) DEF Leaps, isLeap

\* Later years have at least as many leap days before them.
LEMMA LeapsGrow ==
    ASSUME NEW y \in Int, NEW z \in Int, y <= z
    PROVE  Leaps(y) <= Leaps(z)
<1>1. PICK a \in Int, b \in Int, c \in Int : a = y \div 4 /\ b = y \div 100 /\ c = y \div 400
  BY Z3T(20)
<1>2. PICK e \in Int, f \in Int, g \in Int : e = z \div 4 /\ f = z \div 100 /\ g = z \div 400
  BY Z3T(20)
<1>3. 4 * a <= y /\ y < 4 * a + 4 /\ 100 * b <= y /\ y < 100 * b + 100 /\ 400 * c <= y /\ y < 400 * c + 400
  BY <1>1, Z3T(20)
<1>4. 4 * e <= z /\ z < 4 * e + 4 /\ 100 * f <= z /\ z < 100 * f + 100 /\ 400 * g <= z /\ z < 400 * g + 400
  BY <1>2, Z3T(20)
<1>5. c <= g /\ a <= e /\ b <= f
  BY <1>3, <1>4, Z3T(20)
<1>6. e - a >= f - b
  BY <1>3, <1>4, <1>5, Z3T(20)
<1> QED
  BY <1>1, <1>2, <1>5, <1>6, Z3T(20) DEF Leaps

\* The leap days of year y.
LeapDay(y) == IF isLeap(y) THEN 1 ELSE 0

\* The day before the first one of a year.
NewYear(y) == 365 * (y - 1) + Leaps(y - 1) - 719163

\* The days of year y before its month m.
DaysBefore(m, y) ==
    CASE m = 1 -> 0
      [] m = 2 -> 31
      [] m = 3 -> 59 + LeapDay(y)
      [] m = 4 -> 90 + LeapDay(y)
      [] m = 5 -> 120 + LeapDay(y)
      [] m = 6 -> 151 + LeapDay(y)
      [] m = 7 -> 181 + LeapDay(y)
      [] m = 8 -> 212 + LeapDay(y)
      [] m = 9 -> 243 + LeapDay(y)
      [] m = 10 -> 273 + LeapDay(y)
      [] m = 11 -> 304 + LeapDay(y)
      [] m = 12 -> 334 + LeapDay(y)

\* There are twelve months.
LEMMA TwelveMonths ==
    ASSUME NEW m \in Int, 1 <= m, m <= 12
    PROVE  m \in {1, 2, 3, 4, 5, 6, 7, 8, 9, 10, 11, 12}
  BY Z3T(20)

\* DayNumber, by the years that begin in January.
LEMMA YearForm ==
    ASSUME NEW y \in Int, NEW m \in Int, 1 <= m, m <= 12, NEW d \in Int
    PROVE  /\ DayNumber(y, m, d) = NewYear(y) + DaysBefore(m, y) + d
           /\ NewYear(y) \in Int /\ DaysBefore(m, y) \in Int
           /\ DayNumber(y, m, d) \in Int
<1>1. m \in {1, 2, 3, 4, 5, 6, 7, 8, 9, 10, 11, 12}
  BY TwelveMonths, Z3T(20)
<1>2. Leaps(y) = Leaps(y - 1) + LeapDay(y) /\ Leaps(y) \in Int /\ Leaps(y - 1) \in Int /\ LeapDay(y) \in Int
  BY LeapsOfNext, Z3T(20) DEF LeapDay
<1>3. NewYear(y) \in Int /\ DaysBefore(m, y) \in Int
  BY <1>1, <1>2, Z3T(20) DEF NewYear, DaysBefore
<1>4. CASE m <= 2
  <2>1. DayNumber(y, m, d) = 365 * (y - 1) + Leaps(y - 1) + Gone(m + 9) + d - 719469
    BY <1>4, MarchForm, Z3T(20)
  <2>2. Gone(m + 9) = 306 + DaysBefore(m, y)
    BY <1>1, <1>4, Z3T(20) DEF Gone, DaysBefore
  <2> QED
    BY <1>2, <1>3, <2>1, <2>2, Z3T(20) DEF NewYear
<1>5. CASE m > 2
  <2>1. DayNumber(y, m, d) = 365 * y + Leaps(y) + Gone(m - 3) + d - 719469
    BY <1>5, MarchForm, Z3T(20)
  <2>2. Gone(m - 3) = DaysBefore(m, y) - 59 - LeapDay(y)
    BY <1>1, <1>2, <1>5, Z3T(20) DEF Gone, DaysBefore
  <2> QED
    BY <1>2, <1>3, <2>1, <2>2, Z3T(20) DEF NewYear
<1> QED
  BY <1>4, <1>5, <1>3, Z3T(20)

\* The months, with the lengths of daysOfMonth, follow each other and fill the year.
LEMMA MonthLengths ==
    ASSUME NEW y \in Int, NEW m \in Int, 1 <= m, m <= 12
    PROVE  /\ daysOfMonth(m, y) \in Int
           /\ 28 <= daysOfMonth(m, y) /\ daysOfMonth(m, y) <= 31
           /\ DaysBefore(m, y) \in Int /\ DaysBefore(m, y) >= 0
           /\ m < 12 => DaysBefore(m + 1, y) = DaysBefore(m, y) + daysOfMonth(m, y)
           /\ DaysBefore(m, y) + daysOfMonth(m, y) <= 365 + LeapDay(y)
           /\ m = 12 => DaysBefore(m, y) + daysOfMonth(m, y) = 365 + LeapDay(y)
           /\ LeapDay(y) \in {0, 1}
<1>1. m \in {1, 2, 3, 4, 5, 6, 7, 8, 9, 10, 11, 12}
  BY TwelveMonths, Z3T(20)
<1>2. LeapDay(y) \in {0, 1}
  BY Z3T(20) DEF LeapDay
<1>3. m < 12 => DaysBefore(m + 1, y) = DaysBefore(m, y) + daysOfMonth(m, y)
  <2> SUFFICES ASSUME m < 12, NEW l \in Int, l = m + 1
               PROVE  DaysBefore(l, y) = DaysBefore(m, y) + daysOfMonth(m, y)
    OBVIOUS
  <2>1. l \in {1, 2, 3, 4, 5, 6, 7, 8, 9, 10, 11, 12}
    BY TwelveMonths, Z3T(20)
  <2> QED
    BY <1>1, <1>2, <2>1, Z3T(60) DEF DaysBefore, daysOfMonth, LeapDay
<1>4. daysOfMonth(m, y) \in {28, 29, 30, 31}
  BY Z3T(20) DEF daysOfMonth
<1>5. DaysBefore(m, y) \in Int /\ DaysBefore(m, y) >= 0
  <2>1. LeapDay(y) \in Int /\ 0 <= LeapDay(y)
    BY <1>2, Z3T(20)
  <2>2. DaysBefore(m, y) \in Int
    BY <1>1, <2>1, Z3T(20) DEF DaysBefore
  <2>3. 0 <= DaysBefore(m, y)
    BY <1>1, <2>1, Z3T(20) DEF DaysBefore
  <2> QED
    BY <2>2, <2>3, Z3T(20)
<1>6. DaysBefore(m, y) + daysOfMonth(m, y) <= 365 + LeapDay(y)
  BY <1>1, <1>2, Z3T(60) DEF DaysBefore, daysOfMonth, LeapDay
<1>7. m = 12 => DaysBefore(m, y) + daysOfMonth(m, y) = 365 + LeapDay(y)
  BY <1>2, Z3T(60) DEF DaysBefore, daysOfMonth
<1>8. 28 <= daysOfMonth(m, y) /\ daysOfMonth(m, y) <= 31 /\ daysOfMonth(m, y) \in Int
  BY <1>4, Z3T(20)
<1> QED
  BY <1>2, <1>3, <1>5, <1>6, <1>7, <1>8, Z3T(20)

\* A month ends before a later one of the year begins.
LEMMA MonthsApart ==
    ASSUME NEW y \in Int, NEW m \in Int, 1 <= m, m <= 12, NEW l \in Int, m < l, l <= 12
    PROVE  DaysBefore(m, y) + daysOfMonth(m, y) <= DaysBefore(l, y)
<1>1. m \in {1, 2, 3, 4, 5, 6, 7, 8, 9, 10, 11, 12} /\ l \in {1, 2, 3, 4, 5, 6, 7, 8, 9, 10, 11, 12}
  BY TwelveMonths, Z3T(20)
<1>2. LeapDay(y) \in {0, 1}
  BY Z3T(20) DEF LeapDay
<1> QED
  BY <1>1, <1>2, Z3T(60) DEF DaysBefore, daysOfMonth, LeapDay

\* A year has 365 days, or 366 if isLeap says so.
LEMMA YearAfterYear ==
    ASSUME NEW y \in Int
    PROVE  NewYear(y) \in Int /\ NewYear(y + 1) = NewYear(y) + 365 + LeapDay(y)
<1>1. Leaps(y) = Leaps(y - 1) + LeapDay(y) /\ Leaps(y - 1) \in Int /\ LeapDay(y) \in Int
  BY LeapsOfNext, Z3T(20) DEF LeapDay
<1>2. (y + 1) - 1 = y
  OBVIOUS
<1> QED
  BY <1>1, <1>2, Z3T(20) DEF NewYear

\* Years have at least 365 days.
LEMMA YearsApart ==
    ASSUME NEW y \in Int, NEW z \in Int, y <= z
    PROVE  NewYear(y) + 365 * (z - y) <= NewYear(z)
<1>1. Leaps(y - 1) <= Leaps(z - 1) /\ Leaps(y - 1) \in Int /\ Leaps(z - 1) \in Int
  BY LeapsGrow, LeapsOfNext, Z3T(20)
<1> QED
  BY <1>1, Z3T(20) DEF NewYear

\* A date of the calendar.
IsDay(y, m, d) ==
    /\ y \in Int /\ m \in Int /\ d \in Int
    /\ 1 <= m /\ m <= 12 /\ 1 <= d /\ d <= daysOfMonth(m, y)

\* The facts about a date that are used below.
LEMMA DayFacts ==
    ASSUME NEW y, NEW m, NEW d, IsDay(y, m, d)
    PROVE  /\ y \in Int /\ m \in Int /\ d \in Int /\ 1 <= m /\ m <= 12 /\ 1 <= d /\ d <= 31
           /\ daysOfMonth(m, y) \in Int /\ d <= daysOfMonth(m, y)
           /\ DayNumber(y, m, d) = NewYear(y) + DaysBefore(m, y) + d
           /\ DayNumber(y, m, 31) = NewYear(y) + DaysBefore(m, y) + 31
           /\ NewYear(y) \in Int /\ DaysBefore(m, y) \in Int
<1>1. y \in Int /\ m \in Int /\ d \in Int /\ 1 <= m /\ m <= 12 /\ 1 <= d /\ d <= daysOfMonth(m, y)
  BY Z3T(20) DEF IsDay
<1>2. daysOfMonth(m, y) \in Int /\ daysOfMonth(m, y) <= 31
  BY <1>1, MonthLengths, Z3T(20)
<1>3. /\ DayNumber(y, m, d) = NewYear(y) + DaysBefore(m, y) + d
      /\ NewYear(y) \in Int /\ DaysBefore(m, y) \in Int
  BY <1>1, YearForm, Z3T(20)
<1>4. DayNumber(y, m, 31) = NewYear(y) + DaysBefore(m, y) + 31
  BY <1>1, YearForm, Z3T(20)
<1>5. d <= 31
  BY <1>1, <1>2, Z3T(20)
<1> QED
  BY <1>1, <1>2, <1>3, <1>4, <1>5, Z3T(20)

\* A date lies in its year.
LEMMA DayOfYear ==
    ASSUME NEW y, NEW m, NEW d, IsDay(y, m, d)
    PROVE  /\ DayNumber(y, m, d) \in Int /\ NewYear(y) \in Int /\ NewYear(y + 1) \in Int
           /\ NewYear(y) < DayNumber(y, m, d)
           /\ DayNumber(y, m, d) <= NewYear(y + 1)
<1>1. DayNumber(y, m, d) = NewYear(y) + DaysBefore(m, y) + d
  BY YearForm, Z3T(20) DEF IsDay
<1>2. NewYear(y) \in Int /\ NewYear(y + 1) = NewYear(y) + 365 + LeapDay(y)
  BY YearAfterYear, Z3T(20) DEF IsDay
<1>3. /\ DaysBefore(m, y) \in Int /\ DaysBefore(m, y) >= 0
      /\ DaysBefore(m, y) + daysOfMonth(m, y) <= 365 + LeapDay(y)
      /\ daysOfMonth(m, y) \in Int /\ LeapDay(y) \in {0, 1}
  BY MonthLengths, Z3T(20) DEF IsDay
<1> QED
  BY <1>1, <1>2, <1>3, Z3T(20) DEF IsDay

\* Of two dates the one of the earlier year comes first.
LEMMA YearsInOrder ==
    ASSUME NEW y, NEW m, NEW d, IsDay(y, m, d),
           NEW z, NEW l, NEW e, IsDay(z, l, e), y < z
    PROVE  DayNumber(y, m, d) < DayNumber(z, l, e)
<1>1. /\ DayNumber(y, m, d) \in Int /\ DayNumber(y, m, d) <= NewYear(y + 1)
      /\ NewYear(y + 1) \in Int /\ y \in Int
  BY DayOfYear, Z3T(20) DEF IsDay
<1>2. /\ DayNumber(z, l, e) \in Int /\ NewYear(z) < DayNumber(z, l, e)
      /\ NewYear(z) \in Int /\ z \in Int
  BY DayOfYear, Z3T(20) DEF IsDay
<1>3. NewYear(y + 1) + 365 * (z - (y + 1)) <= NewYear(z)
  BY <1>1, <1>2, YearsApart, Z3T(20)
<1> QED
  BY <1>1, <1>2, <1>3, Z3T(20)

\* Of two dates in a year the one of the earlier month comes first.
LEMMA MonthsInOrder ==
    ASSUME NEW y, NEW m, NEW d, IsDay(y, m, d),
           NEW l, NEW e, IsDay(y, l, e), m < l
    PROVE  DayNumber(y, m, d) < DayNumber(y, l, e)
<1>1. /\ DayNumber(y, m, d) = NewYear(y) + DaysBefore(m, y) + d
      /\ NewYear(y) \in Int /\ DaysBefore(m, y) \in Int
  BY YearForm, Z3T(20) DEF IsDay
<1>2. /\ DayNumber(y, l, e) = NewYear(y) + DaysBefore(l, y) + e
      /\ DaysBefore(l, y) \in Int
  BY YearForm, Z3T(20) DEF IsDay
<1>3. DaysBefore(m, y) + daysOfMonth(m, y) <= DaysBefore(l, y)
  BY MonthsApart, Z3T(20) DEF IsDay
<1>4. daysOfMonth(m, y) \in Int
  BY MonthLengths, Z3T(20) DEF IsDay
<1> QED
  BY <1>1, <1>2, <1>3, <1>4, Z3T(20) DEF IsDay

\* One day is only one date.
LEMMA OneDate ==
    ASSUME NEW y, NEW m, NEW d, IsDay(y, m, d),
           NEW z, NEW l, NEW e, IsDay(z, l, e), DayNumber(y, m, d) = DayNumber(z, l, e)
    PROVE  y = z /\ m = l /\ d = e
<1>1. DayNumber(y, m, d) \in Int /\ y \in Int /\ z \in Int
  BY DayOfYear, Z3T(20) DEF IsDay
<1>2. y = z
  <2>1. ~(y < z)
    BY <1>1, YearsInOrder, Z3T(20)
  <2>2. ~(z < y)
    BY <1>1, YearsInOrder, Z3T(20)
  <2> QED
    BY <1>1, <2>1, <2>2, Z3T(20)
<1>3. m = l
  <2>1. ~(m < l)
    BY <1>1, <1>2, MonthsInOrder, Z3T(20)
  <2>2. ~(l < m)
    BY <1>1, <1>2, MonthsInOrder, Z3T(20)
  <2> QED
    BY <2>1, <2>2, Z3T(20) DEF IsDay
<1>4. /\ DayNumber(y, m, d) = NewYear(y) + DaysBefore(m, y) + d
      /\ DayNumber(y, m, e) = NewYear(y) + DaysBefore(m, y) + e
      /\ NewYear(y) \in Int /\ DaysBefore(m, y) \in Int
  BY YearForm, Z3T(20) DEF IsDay
<1> QED
  BY <1>2, <1>3, <1>4, Z3T(20) DEF IsDay

\* The days before a year, by its era.
LEMMA EraForm ==
    ASSUME NEW yoe \in Int, 0 <= yoe, yoe <= 400, NEW era \in Int
    PROVE  /\ StartOf(yoe) \in Int /\ Leaps(yoe + era * 400) \in Int
           /\ 365 * (yoe + era * 400) + Leaps(yoe + era * 400)
                = StartOf(yoe) + (IF yoe = 400 THEN 1 ELSE 0) + 146097 * era
<1>1. /\ (yoe + era * 400) \div 4 = yoe \div 4 + 100 * era
      /\ (yoe + era * 400) \div 100 = yoe \div 100 + 4 * era
      /\ (yoe + era * 400) \div 400 = era + (IF yoe = 400 THEN 1 ELSE 0)
  BY Z3T(20)
<1> QED
  BY <1>1, Z3T(20) DEF StartOf, Leaps

\* Fields gives a date, and the one of the day.
THEOREM FieldsDate ==
    ASSUME NEW t, t.day \in Int
    PROVE  /\ IsDay(Fields(t).year, Fields(t).month, Fields(t).day)
           /\ DayNumber(Fields(t).year, Fields(t).month, Fields(t).day) = t.day
           /\ Fields(t).hour = t.second \div 3600
<1>1. PICK z \in Int : z = t.day + 719468
  BY Z3T(20)
<1>2. PICK era \in Int, doe \in Int : era = z \div 146097 /\ doe = z % 146097
  BY Z3T(20)
<1>3. z = 146097 * era + doe /\ 0 <= doe /\ doe <= 146096
  BY <1>2, Z3T(20)
<1>4. PICK yoe \in Int : yoe = YearOf(doe)
  BY <1>3, YearOfEra, Z3T(20)
<1>5. /\ 0 <= yoe /\ yoe <= 399
      /\ StartOf(yoe) <= doe
      /\ doe < StartOf(yoe + 1) + (IF yoe = 399 THEN 1 ELSE 0)
  BY <1>3, <1>4, YearOfEra, Z3T(20)
<1>6. PICK doy \in Int : doy = doe - StartOf(yoe)
  BY Z3T(20) DEF StartOf
<1>7. PICK yy \in Int : yy = yoe + era * 400
  BY Z3T(20)
<1>8. /\ StartOf(yoe) \in Int /\ StartOf(yoe + 1) \in Int /\ Leaps(yy) \in Int /\ Leaps(yy + 1) \in Int
      /\ 365 * yy + Leaps(yy) = StartOf(yoe) + 146097 * era
      /\ 365 * (yy + 1) + Leaps(yy + 1) = StartOf(yoe + 1) + (IF yoe = 399 THEN 1 ELSE 0) + 146097 * era
  <2>1. (yoe + 1) + era * 400 = yy + 1
    BY <1>7, Z3T(20)
  <2>2. /\ StartOf(yoe) \in Int /\ Leaps(yy) \in Int
        /\ 365 * yy + Leaps(yy) = StartOf(yoe) + (IF yoe = 400 THEN 1 ELSE 0) + 146097 * era
    BY <1>5, <1>7, EraForm, Z3T(20)
  <2>3. /\ StartOf(yoe + 1) \in Int /\ Leaps((yoe + 1) + era * 400) \in Int
        /\ 365 * ((yoe + 1) + era * 400) + Leaps((yoe + 1) + era * 400)
            = StartOf(yoe + 1) + (IF yoe + 1 = 400 THEN 1 ELSE 0) + 146097 * era
    <3>1. PICK next \in Int : next = yoe + 1 /\ 0 <= next /\ next <= 400
      BY <1>5, Z3T(20)
    <3>2. /\ StartOf(next) \in Int /\ Leaps(next + era * 400) \in Int
          /\ 365 * (next + era * 400) + Leaps(next + era * 400)
                = StartOf(next) + (IF next = 400 THEN 1 ELSE 0) + 146097 * era
      BY <3>1, EraForm, Z3T(20)
    <3> QED
      BY <3>1, <3>2, Z3T(20)
  <2> QED
    BY <1>5, <2>1, <2>2, <2>3, Z3T(20)
<1>9. 0 <= doy /\ doy < 365 + LeapDay(yy + 1) /\ LeapDay(yy + 1) \in {0, 1}
  <2>1. Leaps(yy + 1) = Leaps(yy) + LeapDay(yy + 1) /\ LeapDay(yy + 1) \in {0, 1}
    <3>1. (yy + 1) - 1 = yy /\ yy + 1 \in Int
      OBVIOUS
    <3> QED
      BY <3>1, LeapsOfNext, Z3T(20) DEF LeapDay
  <2> QED
    BY <1>5, <1>6, <1>8, <2>1, Z3T(20)
<1>10. PICK mp \in Int : mp = (5 * doy + 2) \div 153
  BY Z3T(20)
<1>11. mp \in {0, 1, 2, 3, 4, 5, 6, 7, 8, 9, 10, 11} /\ Gone(mp) <= doy /\ doy < Gone(mp + 1)
  <2>1. 0 <= doy /\ doy <= 365
    BY <1>9, Z3T(20)
  <2>2. 0 <= mp /\ mp <= 11 /\ (153 * mp + 2) \div 5 <= doy /\ doy < (153 * (mp + 1) + 2) \div 5
    BY <1>10, <2>1, Z3T(20)
  <2> QED
    BY <2>2, Z3T(20) DEF Gone
<1>12. PICK month \in Int : month = IF mp < 10 THEN mp + 3 ELSE mp - 9
  BY Z3T(20)
<1>13. PICK year \in Int : year = yy + (IF month <= 2 THEN 1 ELSE 0)
  BY Z3T(20)
<1>14. PICK day \in Int : day = doy - Gone(mp) + 1
  BY Z3T(20) DEF Gone
<1>15. Fields(t) = [year |-> year, month |-> month, day |-> day, hour |-> t.second \div 3600]
  BY <1>1, <1>2, <1>4, <1>6, <1>7, <1>10, <1>12, <1>13, <1>14, Z3T(20) DEF Fields
<1>16. 1 <= month /\ month <= 12 /\ 1 <= day
  BY <1>11, <1>12, <1>14, Z3T(20) DEF Gone
<1>17. day <= daysOfMonth(month, year)
  <2>1. CASE mp = 11
    <3>1. month = 2 /\ year = yy + 1 /\ day = doy - 336
      BY <2>1, <1>12, <1>13, <1>14, Z3T(20) DEF Gone
    <3> QED
      BY <3>1, <1>9, Z3T(20) DEF daysOfMonth, LeapDay
  <2>2. CASE mp # 11
    <3>1. month # 2 /\ day <= 31 /\ (month = 4 \/ month = 6 \/ month = 9 \/ month = 11 => day <= 30)
      BY <2>2, <1>11, <1>12, <1>14, Z3T(20) DEF Gone
    <3> QED
      BY <3>1, Z3T(20) DEF daysOfMonth
  <2> QED
    BY <2>1, <2>2, Z3T(20)
<1>18. DayNumber(year, month, day) = t.day
  <2>1. CASE mp < 10
    <3>1. month > 2 /\ year = yy /\ month - 3 = mp
      BY <2>1, <1>11, <1>12, <1>13, Z3T(20)
    <3>2. DayNumber(year, month, day) = 365 * yy + Leaps(yy) + Gone(mp) + day - 719469
      BY <3>1, <1>16, MarchForm, Z3T(20)
    <3> QED
      BY <3>2, <1>1, <1>3, <1>6, <1>8, <1>14, Z3T(20) DEF Gone
  <2>2. CASE mp >= 10
    <3>1. month <= 2 /\ year - 1 = yy /\ month + 9 = mp
      BY <2>2, <1>11, <1>12, <1>13, Z3T(20)
    <3>2. DayNumber(year, month, day) = 365 * yy + Leaps(yy) + Gone(mp) + day - 719469
      BY <3>1, <1>16, MarchForm, Z3T(20)
    <3> QED
      BY <3>2, <1>1, <1>3, <1>6, <1>8, <1>14, Z3T(20) DEF Gone
  <2> QED
    BY <2>1, <2>2, Z3T(20)
<1> QED
  BY <1>15, <1>16, <1>17, <1>18, Z3T(20) DEF IsDay

\* An instant of Go's time, to the second.
IsInstant(t) ==
    /\ t = [day |-> t.day, second |-> t.second]
    /\ t.day \in Int
    /\ t.second \in Int /\ 0 <= t.second /\ t.second < SecondsPerDay

\* time.Date of the last second of a day.
LEMMA LastSecond ==
    ASSUME NEW y, NEW m, NEW d
    PROVE  DayNumber(y, m, d) \in Int =>
                Date(y, m, d, 23, 3599) = [day |-> DayNumber(y, m, d), second |-> 86399]
<1>1. (23 * 3600 + 3599) \div 86400 = 0 /\ (23 * 3600 + 3599) % 86400 = 86399
  BY Z3T(20)
<1> QED
  BY <1>1, Z3T(20) DEF Date, SecondsPerDay

\* time.Date of the last second of an hour.
LEMMA LastOfHour ==
    ASSUME NEW y, NEW m, NEW d, DayNumber(y, m, d) \in Int, NEW k \in Int, 0 <= k, k < 24
    PROVE  Date(y, m, d, k, 3599) = [day |-> DayNumber(y, m, d), second |-> 3600 * k + 3599]
<1>1. (k * 3600 + 3599) \div 86400 = 0 /\ (k * 3600 + 3599) % 86400 = 3600 * k + 3599
  BY Z3T(20)
<1> QED
  BY <1>1, Z3T(20) DEF Date, SecondsPerDay

\* AddDate by days adds days, over the ends of months and years.
LEMMA DaysForward ==
    ASSUME NEW t, t.day \in Int, t = [day |-> t.day, second |-> t.second], NEW n \in Int
    PROVE  AddDate(t, 0, 0, n) = [day |-> t.day + n, second |-> t.second]
<1>1. PICK y, m, d : y = Fields(t).year /\ m = Fields(t).month /\ d = Fields(t).day
  OBVIOUS
<1>2. IsDay(y, m, d) /\ DayNumber(y, m, d) = t.day
  BY <1>1, FieldsDate, Z3T(20)
<1>3. /\ DayNumber(y, m, d) = NewYear(y) + DaysBefore(m, y) + d
      /\ DayNumber(y, m, d + n) = NewYear(y) + DaysBefore(m, y) + (d + n)
      /\ NewYear(y) \in Int /\ DaysBefore(m, y) \in Int
  BY <1>2, YearForm, Z3T(20) DEF IsDay
<1>4. DayNumber(y + 0, m + 0, d + n) = t.day + n
  <2>1. y + 0 = y /\ m + 0 = m /\ d \in Int
    BY <1>2, Z3T(20) DEF IsDay
  <2> QED
    BY <1>2, <1>3, <2>1, Z3T(20)
<1> QED
  BY <1>1, <1>4, Z3T(20) DEF AddDate

\* The ends of a year and of the n-th year after it are the days before new years.
LEMMA EndOfYear ==
    ASSUME NEW s, s.gran = "Year", s.year \in Int, NEW n \in Int, n >= 0
    PROVE  /\ NewYear(s.year + 1) \in Int /\ NewYear(s.year + n + 1) \in Int
           /\ EndOf(s) = [day |-> NewYear(s.year + 1), second |-> 86399]
           /\ ToTime(s, n) = [day |-> NewYear(s.year + n + 1), second |-> 86399]
<1>1. ASSUME NEW y \in Int
      PROVE  IsDay(y, 12, 31) /\ DayNumber(y, 12, 31) = NewYear(y + 1) /\ NewYear(y + 1) \in Int
  <2>1. daysOfMonth(12, y) = 31
    BY Z3T(20) DEF daysOfMonth
  <2>2. DaysBefore(12, y) = 334 + LeapDay(y) /\ LeapDay(y) \in {0, 1}
    BY Z3T(20) DEF DaysBefore, LeapDay
  <2>3. DayNumber(y, 12, 31) = NewYear(y) + DaysBefore(12, y) + 31
    BY YearForm, Z3T(20)
  <2>4. NewYear(y) \in Int /\ NewYear(y + 1) = NewYear(y) + 365 + LeapDay(y)
    BY YearAfterYear, Z3T(20)
  <2> QED
    BY <2>1, <2>2, <2>3, <2>4, Z3T(20) DEF IsDay
<1>2. EndOf(s) = [day |-> NewYear(s.year + 1), second |-> 86399]
  <2>1. EndOf(s) = Date(s.year, 12, 31, 23, 3599)
    BY Z3T(20) DEF EndOf, daysOfMonth
  <2>2. DayNumber(s.year, 12, 31) \in Int /\ DayNumber(s.year, 12, 31) = NewYear(s.year + 1)
    BY <1>1, Z3T(20)
  <2>3. Date(s.year, 12, 31, 23, 3599) = [day |-> DayNumber(s.year, 12, 31), second |-> 86399]
    BY <2>2, LastSecond, Z3T(20)
  <2> QED
    BY <2>1, <2>2, <2>3, Z3T(20)
<1>3. PICK y, m, d : y = Fields(EndOf(s)).year /\ m = Fields(EndOf(s)).month /\ d = Fields(EndOf(s)).day
  OBVIOUS
<1>4. IsDay(y, m, d) /\ DayNumber(y, m, d) = NewYear(s.year + 1)
  BY <1>1, <1>2, <1>3, FieldsDate, Z3T(20)
<1>5. y = s.year /\ m = 12 /\ d = 31
  BY <1>1, <1>4, OneDate, Z3T(20)
<1>6. ToTime(s, n) = AddDate(EndOf(s), n, 0, 0)
  BY Z3T(20) DEF ToTime
<1>7. ToTime(s, n) = [day |-> DayNumber(s.year + n, 12, 31), second |-> 86399]
  BY <1>2, <1>3, <1>5, <1>6, Z3T(20) DEF AddDate
<1>8. s.year + n \in Int
  OBVIOUS
<1> QED
  BY <1>1, <1>2, <1>7, <1>8, Z3T(20)

\* The turns of a Duration are a number, and none while the hours fit it.
LEMMA TurnsType ==
    ASSUME NEW n \in Nat
    PROVE  Turns(n) \in Nat /\ (n <= MaxHours => Turns(n) = 0)
<1>1. PICK m \in Int : m = n \div MaxHours
  BY Z3T(20) DEF MaxHours
<1> DEFINE K == {k \in 1..m : n > HalfTurn(2 * k - 1)}
<1>2. Turns(n) = Cardinality(K)
  BY <1>1 DEF Turns
<1>3. IsFiniteSet(1..m)
  BY <1>1, FS_Interval
<1>4. Cardinality(K) \in Nat
  BY <1>3, FS_Subset, FS_CardinalityType
<1>5. ASSUME n <= MaxHours PROVE K = {}
  <2> SUFFICES ASSUME NEW k \in 1..m PROVE ~(n > HalfTurn(2 * k - 1))
    OBVIOUS
  <2>1. PICK c \in Int : c = (788015 * (2 * k - 1)) \div 1000000 /\ c >= 0
    BY <1>1, Z3T(20)
  <2>2. HalfTurn(2 * k - 1) = MaxHours * (2 * k - 1) + c
    BY <2>1, Z3T(20) DEF HalfTurn
  <2> QED
    BY <1>1, <1>5, <2>1, <2>2, Z3T(20) DEF MaxHours
<1>6. n <= MaxHours => Cardinality(K) = 0
  BY <1>5, FS_EmptySet
<1> HIDE DEF K
<1> QED
  BY <1>2, <1>4, <1>6

\* The last second of hour k of a day.
LastOf(day, k) == [day |-> day, second |-> 3600 * k + 3599]

\* n hours after the last second of an hour is the last second of the n-th hour
\* after it when the hours fit a Duration, and nothing later when they do not.
LEMMA HoursForward ==
    ASSUME NEW b \in Int, NEW k \in Int, 0 <= k, k < 24, NEW n \in Nat
    PROVE  /\ n <= MaxHours => AddHours(LastOf(b, k), n) = LastOf(b + (k + n) \div 24, (k + n) % 24)
           /\ \A u : IsInstant(u) /\ ~Before(AddHours(LastOf(b, k), n), u)
                        => ~Before(LastOf(b + (k + n) \div 24, (k + n) % 24), u)
<1>0. PICK t : t = LastOf(b, k)
  OBVIOUS
<1>1. PICK g \in Nat : g = Turns(n) /\ (n <= MaxHours => g = 0)
  BY TurnsType
<1>2. PICK q \in Int, r \in Int : /\ (k + n) \div 24 = q /\ (k + n) % 24 = r
                                   /\ k + n = 24 * q + r /\ 0 <= r /\ r < 24
  BY Z3T(20)
<1>3. t.day = b /\ t.second \div 3600 = k /\ t.second % 3600 = 3599
  BY <1>0, Z3T(20) DEF LastOf
<1>4. PICK back \in Int : /\ back = 84873 * g - (-1385843 * g) \div 1953125
                          /\ back >= 0 /\ (g = 0 => back = 0)
  <2>1. PICK c \in Int : c = (-1385843 * g) \div 1953125 /\ c <= 0 /\ (g = 0 => c = 0)
    BY Z3T(20)
  <2> QED
    BY <2>1, Z3T(20)
<1>5. PICK v \in Int : v = r * 3600 + 3599 - back
  BY <1>2, <1>4, Z3T(20)
<1>6. PICK e \in Int, w \in Int : /\ e = v \div 86400 /\ w = v % 86400
                                  /\ v = 86400 * e + w /\ 0 <= w /\ w < 86400
  BY <1>5, Z3T(20)
<1>7. AddHours(t, n) = [day |-> b + q - 213503 * g + e, second |-> w]
  <2>1. PICK hours : hours = t.second \div 3600 + n /\ hours = k + n
    BY <1>3, Z3T(20)
  <2>2. PICK x : x = (hours % 24) * 3600 + (t.second % 3600)
                        - (84873 * Turns(n) - (-1385843 * Turns(n)) \div 1953125)
    OBVIOUS
  <2>3. AddHours(t, n) = [day |-> t.day + hours \div 24 - 213503 * Turns(n) + x \div SecondsPerDay,
                          second |-> x % SecondsPerDay]
    BY <2>1, <2>2, Z3T(20) DEF AddHours
  <2>4. hours \div 24 = q /\ hours % 24 = r
    BY <1>2, <2>1
  <2>5. x = v
    BY <1>1, <1>3, <1>4, <1>5, <2>2, <2>4, Z3T(20)
  <2>6. x \div SecondsPerDay = e /\ x % SecondsPerDay = w
    BY <1>6, <2>5, Z3T(20) DEF SecondsPerDay
  <2> QED
    BY <1>1, <1>3, <2>3, <2>4, <2>6, Z3T(20)
<1>8. ASSUME n <= MaxHours
      PROVE  AddHours(t, n) = LastOf(b + q, r)
  <2>1. g = 0 /\ back = 0
    BY <1>1, <1>4, <1>8
  <2>2. e = 0 /\ w = 3600 * r + 3599
    BY <1>2, <1>5, <1>6, <2>1, Z3T(20)
  <2> QED
    BY <1>2, <1>7, <2>1, <2>2, Z3T(20) DEF LastOf
<1>9. ASSUME NEW u, IsInstant(u), ~Before(AddHours(t, n), u)
      PROVE  ~Before(LastOf(b + q, r), u)
  <2>1. e <= 0 /\ (e = 0 => w <= 3600 * r + 3599)
    BY <1>2, <1>4, <1>5, <1>6, Z3T(20)
  <2>2. PICK d \in Int : /\ d = b + q - 213503 * g + e /\ d <= b + q
                         /\ (d = b + q => w <= 3600 * r + 3599)
    BY <2>1, Z3T(20)
  <2>3. ~(d < u.day \/ (d = u.day /\ w < u.second)) /\ u.day \in Int /\ u.second \in Int
    BY <1>7, <1>9, <2>2, Z3T(20) DEF Before, IsInstant
  <2> QED
    BY <1>6, <2>2, <2>3, Z3T(20) DEF Before, LastOf
<1> QED
  BY <1>0, <1>2, <1>8, <1>9

-----------------------------------------------------------------------------
(***************************************************************************)
(* The requests of the page statistics.js.                                 *)
(***************************************************************************)
\* What is that late is of a year that parseYear accepts.
LEMMA LateYears ==
    ASSUME NEW y, NEW m, NEW d, IsDay(y, m, d), DayNumber(y, m, d) > -140985
    PROVE  y > 1583
<1>1. /\ DayNumber(y, m, d) \in Int /\ DayNumber(y, m, d) <= NewYear(y + 1)
      /\ NewYear(y + 1) \in Int /\ y \in Int
  BY DayOfYear, Z3T(20) DEF IsDay
<1>2. NewYear(1584) = -140985
  BY Z3T(20) DEF NewYear, Leaps
<1>3. y + 1 <= 1584 => NewYear(y + 1) + 365 * (1584 - (y + 1)) <= NewYear(1584)
  BY <1>1, YearsApart, Z3T(20)
<1> QED
  BY <1>1, <1>2, <1>3, Z3T(20)

\* The page asks from the date of an earlier instant, as any date in a request.
LEMMA PageDate ==
    ASSUME NEW unit \in {"Hour", "Day", "Month", "Year"}, NEW from, from.day \in Int,
           from.day > -140985, from.second \in Int, 0 <= from.second, from.second < SecondsPerDay,
           NEW s, s = [gran |-> unit, year |-> Fields(from).year, month |-> Fields(from).month,
                       day |-> Fields(from).day, hour |-> Fields(from).hour]
    PROVE  /\ Accepted(s)
           /\ IsDay(s.year, s.month, s.day) /\ DayNumber(s.year, s.month, s.day) = from.day
           /\ s.hour = from.second \div 3600 /\ s.hour \in Int /\ 0 <= s.hour /\ s.hour < 24
<1>1. /\ IsDay(s.year, s.month, s.day) /\ DayNumber(s.year, s.month, s.day) = from.day
      /\ s.hour = from.second \div 3600
  BY FieldsDate, Z3T(20)
<1>2. s.year > 1583
  BY <1>1, LateYears, Z3T(20)
<1>3. s.hour \in Int /\ 0 <= s.hour /\ s.hour < 24
  BY <1>1, Z3T(20) DEF SecondsPerDay
<1>4. parseYear(s) /\ parseMonth(s) /\ parseDay(s) /\ parseHour(s)
  <2>1. daysOfMonth(s.month, s.year) \in Int
    BY <1>1, DayFacts, Z3T(20)
  <2> QED
    BY <1>1, <1>2, <1>3, <2>1, Z3T(20) DEF IsDay, parseYear, parseMonth, parseDay, parseHour
<1>5. s.gran = unit
  OBVIOUS
<1> QED
  BY <1>1, <1>3, <1>4, <1>5, Z3T(20) DEF Accepted

\* The request is accepted and t lies in its window.
Covers(s, n, t) == Accepted(s) /\ ~Before(t, EndOf(s)) /\ ~Before(ToTime(s, n), t)

\* The request of the page for n days reaches up to now.
LEMMA PageDays ==
    ASSUME NEW now, IsInstant(now), now.day >= 0, NEW n \in Int, 5 <= n, n <= 365
    PROVE  Covers(fromString(now, n, "Day"), n, now)
<1>1. PICK from : from = [day |-> now.day - n, second |-> now.second]
  OBVIOUS
<1>2. PICK s : s = fromString(now, n, "Day")
  OBVIOUS
<1>3. [now EXCEPT !.day = @ - n * unit2days("Day")] = from
  BY <1>1, Z3T(20) DEF IsInstant, unit2days
<1>4. s = [gran |-> "Day", year |-> Fields(from).year, month |-> Fields(from).month,
           day |-> Fields(from).day, hour |-> Fields(from).hour]
  BY <1>2, <1>3, Z3T(20) DEF fromString
<1>5. from.day \in Int /\ from.day > -140985 /\ from.second = now.second
  BY <1>1, Z3T(20) DEF IsInstant
<1>6. Accepted(s) /\ DayNumber(s.year, s.month, s.day) = from.day /\ s.gran = "Day"
  BY <1>4, <1>5, PageDate, Z3T(20) DEF IsInstant
<1>7. EndOf(s) = [day |-> from.day, second |-> 86399]
  BY <1>5, <1>6, LastSecond, Z3T(20) DEF EndOf
<1>8. ToTime(s, n) = [day |-> from.day + n, second |-> 86399]
  <2>1. ToTime(s, n) = AddDate(EndOf(s), 0, 0, n)
    BY <1>6, Z3T(20) DEF ToTime
  <2> QED
    BY <1>5, <1>7, <2>1, DaysForward, Z3T(20)
<1> QED
  BY <1>1, <1>2, <1>5, <1>6, <1>7, <1>8, Z3T(20) DEF Covers, Before, IsInstant, SecondsPerDay

\* The request of the page for n hours reaches up to now.
LEMMA PageHours ==
    ASSUME NEW now, IsInstant(now), now.day >= 0, NEW n \in Int, 5 <= n, n <= 365
    PROVE  Covers(fromString(now, n, "Hour"), n, now)
<1>1. PICK hours \in Int : hours = now.day * 24 + now.second \div 3600 - n
  BY Z3T(20) DEF IsInstant
<1>2. PICK q \in Int, k \in Int, sec \in Int : q = hours \div 24 /\ k = hours % 24 /\ sec = k * 3600
  BY Z3T(20)
<1>3. PICK from : from = [day |-> q, second |-> sec]
  OBVIOUS
<1>4. PICK s : s = fromString(now, n, "Hour")
  OBVIOUS
<1>5. s = [gran |-> "Hour", year |-> Fields(from).year, month |-> Fields(from).month,
           day |-> Fields(from).day, hour |-> Fields(from).hour]
  BY <1>1, <1>2, <1>4, <1>3, Z3T(20) DEF fromString
<1>6. PICK h \in Int : h = now.second \div 3600
  BY Z3T(20) DEF IsInstant
<1>7. 0 <= h /\ h < 24 /\ 3600 * h <= now.second /\ now.second < 3600 * h + 3600
  BY <1>6, Z3T(20) DEF IsInstant, SecondsPerDay
<1>8. /\ from.day \in Int /\ from.day * 24 + k = now.day * 24 + h - n /\ 0 <= k /\ k < 24
      /\ from.second = 3600 * k
  BY <1>1, <1>2, <1>6, <1>3, Z3T(20) DEF IsInstant
<1>9. from.day > -140985 /\ from.second \in Int /\ 0 <= from.second /\ from.second < SecondsPerDay
  BY <1>7, <1>8, Z3T(20) DEF IsInstant, SecondsPerDay
<1>10. /\ Accepted(s) /\ DayNumber(s.year, s.month, s.day) = from.day /\ s.gran = "Hour"
       /\ s.hour = from.second \div 3600
  BY <1>5, <1>8, <1>9, PageDate, Z3T(20)
<1>11. s.hour = k
  BY <1>8, <1>10, Z3T(20)
<1>12. EndOf(s) = [day |-> from.day, second |-> 3600 * k + 3599]
  <2>1. EndOf(s) = Date(s.year, s.month, s.day, k, 3599)
    BY <1>10, <1>11, Z3T(20) DEF EndOf
  <2> QED
    BY <1>8, <1>10, <2>1, LastOfHour, Z3T(20)
<1>13. ToTime(s, n) = [day |-> now.day, second |-> 3600 * h + 3599]
  <2>1. ToTime(s, n) = AddHours(EndOf(s), n)
    BY <1>10, Z3T(20) DEF ToTime
  <2>2. PICK j \in Int : j = now.day - from.day /\ k + n = 24 * j + h
    BY <1>8, Z3T(20) DEF IsInstant
  <2>3. n \in Nat /\ n <= MaxHours
    BY Z3T(20) DEF MaxHours
  <2>4. AddHours(LastOf(from.day, k), n) = LastOf(from.day + j, h)
    <3>1. (k + n) \div 24 = j /\ (k + n) % 24 = h
      BY <1>7, <2>2, Z3T(20)
    <3>2. PICK b \in Int : b = from.day
      BY <1>8
    <3>3. 0 <= k /\ k < 24
      BY <1>8
    <3>4. AddHours(LastOf(b, k), n) = LastOf(b + (k + n) \div 24, (k + n) % 24)
      BY <2>3, <3>3, HoursForward
    <3> QED
      BY <3>1, <3>2, <3>4
  <2>5. from.day + j = now.day
    BY <1>8, <2>2, Z3T(20) DEF IsInstant
  <2> QED
    BY <1>12, <2>1, <2>4, <2>5, Z3T(20) DEF LastOf
<1>14. from.day < now.day \/ (from.day = now.day /\ k < h)
  <2>1. now.day \in Int
    BY Z3T(20) DEF IsInstant
  <2> QED
    BY <1>7, <1>8, <2>1, Z3T(20)
<1>15. ~Before(now, EndOf(s))
  BY <1>7, <1>8, <1>12, <1>14, Z3T(20) DEF Before, IsInstant
<1>16. ~Before(ToTime(s, n), now)
  BY <1>7, <1>13, Z3T(20) DEF Before, IsInstant
<1> QED
  BY <1>4, <1>10, <1>15, <1>16, Z3T(20) DEF Covers

\* From the fourth month on months are 30 days on average, wherever they begin.
LEMMA MonthsForward ==
    ASSUME NEW y, NEW m, NEW d, IsDay(y, m, d), NEW n \in Int, n >= 4
    PROVE  /\ DayNumber(y, m + n, d) \in Int
           /\ DayNumber(y, m, d) + 30 * n <= DayNumber(y, m + n, d)
<1>1. y \in Int /\ m \in Int /\ d \in Int /\ 1 <= m /\ m <= 12
  BY Z3T(20) DEF IsDay
<1>2. PICK j \in Int, l \in Int : j = (m + n - 1) \div 12 /\ l = ((m + n - 1) % 12) + 1
  BY <1>1, Z3T(20)
<1>3. 1 <= l /\ l <= 12 /\ l = m + n - 12 * j /\ 0 <= j
  BY <1>1, <1>2, Z3T(20)
<1>4. DayNumber(y, m + n, d) = DayNumber(y + j, l, d)
  <2>1. (l - 1) \div 12 = 0 /\ ((l - 1) % 12) + 1 = l
    BY <1>3, Z3T(20)
  <2> QED
    BY <1>1, <1>2, <1>3, <2>1, Z3T(20) DEF DayNumber, StartOf, Gone
<1>5. /\ DayNumber(y, m, d) = NewYear(y) + DaysBefore(m, y) + d
      /\ NewYear(y) \in Int /\ DaysBefore(m, y) \in Int
  BY <1>1, YearForm, Z3T(20)
<1>6. PICK z \in Int : z = y + j
  BY <1>1, Z3T(20)
<1>7. /\ DayNumber(z, l, d) = NewYear(z) + DaysBefore(l, z) + d
      /\ NewYear(z) \in Int /\ DaysBefore(l, z) \in Int
  <2>1. z \in Int /\ l \in Int /\ 1 <= l /\ l <= 12 /\ d \in Int
    BY <1>1, <1>3, Z3T(20)
  <2> QED
    BY <2>1, YearForm, Z3T(20)
<1>8. m \in {1, 2, 3, 4, 5, 6, 7, 8, 9, 10, 11, 12} /\ l \in {1, 2, 3, 4, 5, 6, 7, 8, 9, 10, 11, 12}
  BY <1>1, <1>3, TwelveMonths, Z3T(20)
<1>9. LeapDay(y) \in {0, 1} /\ LeapDay(z) \in {0, 1}
  BY Z3T(20) DEF LeapDay
<1>10. CASE j = 0
  <2>1. z = y /\ l >= m + 4
    BY <1>1, <1>3, <1>6, <1>10, Z3T(20)
  <2>2. DaysBefore(l, y) >= DaysBefore(m, y) + 30 * (l - m)
    BY <1>8, <1>9, <2>1, Z3T(60) DEF DaysBefore
  <2> QED
    BY <1>1, <1>3, <1>4, <1>5, <1>6, <1>7, <1>10, <2>1, <2>2, Z3T(20)
<1>11. CASE j = 1
  <2>1. z = y + 1 /\ l >= m - 8
    BY <1>1, <1>3, <1>6, <1>11, Z3T(20)
  <2>2. NewYear(z) = NewYear(y) + 365 + LeapDay(y)
    BY <1>1, <2>1, YearAfterYear, Z3T(20)
  <2>3. DaysBefore(l, z) + LeapDay(y) + 5 >= DaysBefore(m, y) + 30 * (l - m)
    BY <1>8, <1>9, <2>1, Z3T(60) DEF DaysBefore
  <2> QED
    BY <1>1, <1>3, <1>4, <1>5, <1>6, <1>7, <1>9, <1>11, <2>1, <2>2, <2>3, Z3T(20)
<1>12. CASE j >= 2
  <2>1. NewYear(y) + 365 * j <= NewYear(z)
    <3>1. y <= z /\ z - y = j
      BY <1>1, <1>6, <1>12, Z3T(20)
    <3> QED
      BY <1>1, <3>1, YearsApart, Z3T(20)
  <2>2. DaysBefore(l, z) + 10 >= DaysBefore(m, y) + 30 * (l - m)
    BY <1>8, <1>9, Z3T(60) DEF DaysBefore
  <2> QED
    BY <1>1, <1>3, <1>4, <1>5, <1>6, <1>7, <1>12, <2>1, <2>2, Z3T(20)
<1> QED
  BY <1>3, <1>10, <1>11, <1>12, Z3T(20)

\* The request of the page for n months, of 30 days back from now and of the
\* calendar forward from the 31st of the month reached, reaches up to now.
LEMMA PageMonths ==
    ASSUME NEW now, IsInstant(now), now.day >= 0, NEW n \in Int, 5 <= n, n <= 365
    PROVE  Covers(fromString(now, n, "Month"), n, now)
<1>1. PICK from : from = [day |-> now.day - 30 * n, second |-> now.second]
  OBVIOUS
<1>2. PICK s : s = fromString(now, n, "Month")
  OBVIOUS
<1>3. [now EXCEPT !.day = @ - n * unit2days("Month")] = from
  BY <1>1, Z3T(20) DEF IsInstant, unit2days
<1>4. s = [gran |-> "Month", year |-> Fields(from).year, month |-> Fields(from).month,
           day |-> Fields(from).day, hour |-> Fields(from).hour]
  BY <1>2, <1>3, Z3T(20) DEF fromString
<1>5. from.day \in Int /\ from.day > -140985 /\ from.second = now.second
  BY <1>1, Z3T(20) DEF IsInstant
<1>6. /\ Accepted(s) /\ s.gran = "Month"
      /\ IsDay(s.year, s.month, s.day) /\ DayNumber(s.year, s.month, s.day) = from.day
  BY <1>4, <1>5, PageDate, Z3T(20) DEF IsInstant
<1>7. PICK last \in Int : /\ last = DayNumber(s.year, s.month, 31)
                          /\ from.day <= last /\ last <= from.day + 30
  <2>1. /\ s.day \in Int /\ 1 <= s.day /\ s.day <= 31
        /\ DayNumber(s.year, s.month, s.day) = NewYear(s.year) + DaysBefore(s.month, s.year) + s.day
        /\ DayNumber(s.year, s.month, 31) = NewYear(s.year) + DaysBefore(s.month, s.year) + 31
        /\ NewYear(s.year) \in Int /\ DaysBefore(s.month, s.year) \in Int
    BY <1>6, DayFacts, Z3T(20)
  <2> QED
    BY <1>5, <1>6, <2>1, Z3T(20)
<1>8. EndOf(s) = [day |-> last, second |-> 86399]
  BY <1>6, <1>7, LastSecond, Z3T(20) DEF EndOf
<1>9. PICK y, m, d : y = Fields(EndOf(s)).year /\ m = Fields(EndOf(s)).month /\ d = Fields(EndOf(s)).day
  OBVIOUS
<1>10. IsDay(y, m, d) /\ DayNumber(y, m, d) = last
  BY <1>8, <1>9, FieldsDate, Z3T(20)
<1>11. ToTime(s, n) = [day |-> DayNumber(y, m + n, d), second |-> 86399]
  <2>1. ToTime(s, n) = AddDate(EndOf(s), 0, n, 0)
    BY <1>6, Z3T(20) DEF ToTime
  <2>2. y + 0 = y /\ d + 0 = d
    BY <1>10, Z3T(20) DEF IsDay
  <2> QED
    BY <1>8, <1>9, <2>1, <2>2, Z3T(20) DEF AddDate
<1>12. DayNumber(y, m + n, d) \in Int /\ last + 30 * n <= DayNumber(y, m + n, d)
  BY <1>10, MonthsForward, Z3T(20)
<1> QED
  BY <1>1, <1>2, <1>5, <1>6, <1>7, <1>8, <1>11, <1>12, Z3T(20) DEF Covers, Before, IsInstant, SecondsPerDay

\* The request of the page for n years, of 365 days back from now and of the
\* calendar forward, reaches up to now.
LEMMA PageYears ==
    ASSUME NEW now, IsInstant(now), now.day >= 0, NEW n \in Int, 5 <= n, n <= 365
    PROVE  Covers(fromString(now, n, "Year"), n, now)
<1>1. PICK from : from = [day |-> now.day - 365 * n, second |-> now.second]
  OBVIOUS
<1>2. PICK s : s = fromString(now, n, "Year")
  OBVIOUS
<1>3. [now EXCEPT !.day = @ - n * unit2days("Year")] = from
  BY <1>1, Z3T(20) DEF IsInstant, unit2days
<1>4. s = [gran |-> "Year", year |-> Fields(from).year, month |-> Fields(from).month,
           day |-> Fields(from).day, hour |-> Fields(from).hour]
  BY <1>2, <1>3, Z3T(20) DEF fromString
<1>5. from.day \in Int /\ from.day > -140985 /\ from.second = now.second
  BY <1>1, Z3T(20) DEF IsInstant
<1>6. /\ Accepted(s) /\ s.gran = "Year" /\ s.year \in Int
      /\ IsDay(s.year, s.month, s.day) /\ DayNumber(s.year, s.month, s.day) = from.day
  BY <1>4, <1>5, PageDate, Z3T(20) DEF IsInstant, IsDay
<1>7. /\ NewYear(s.year) < from.day /\ from.day <= NewYear(s.year + 1)
      /\ NewYear(s.year) \in Int /\ NewYear(s.year + 1) \in Int
  BY <1>6, DayOfYear, Z3T(20)
<1>8. NewYear(s.year + 1) = NewYear(s.year) + 365 + LeapDay(s.year) /\ LeapDay(s.year) \in {0, 1}
  BY <1>6, YearAfterYear, Z3T(20) DEF LeapDay
<1>9. /\ EndOf(s) = [day |-> NewYear(s.year + 1), second |-> 86399]
      /\ ToTime(s, n) = [day |-> NewYear(s.year + n + 1), second |-> 86399]
      /\ NewYear(s.year + n + 1) \in Int
  BY <1>6, EndOfYear, Z3T(20)
<1>10. NewYear(s.year + 1) + 365 * n <= NewYear(s.year + n + 1)
  <2>1. PICK a \in Int, b \in Int : a = s.year + 1 /\ b = s.year + n + 1 /\ a <= b /\ b - a = n
    BY <1>6, Z3T(20)
  <2>2. NewYear(a) + 365 * (b - a) <= NewYear(b)
    BY <2>1, YearsApart, Z3T(20)
  <2> QED
    BY <2>1, <2>2, Z3T(20)
<1> QED
  BY <1>1, <1>2, <1>5, <1>6, <1>7, <1>8, <1>9, <1>10, Z3T(20) DEF Covers, Before, IsInstant, SecondsPerDay

-----------------------------------------------------------------------------
(***************************************************************************)
(* The periods of GetStatistics have numbers, and a window is an interval of*)
(* them.                                                                   *)
(***************************************************************************)
\* The dates that a request may name, other than hour 24, and their number in
\* the order of years, of days or of hours.
IsDate(c) ==
    \/ /\ c = [gran |-> "Year", year |-> c.year] /\ c.year \in Int
    \/ /\ c = [gran |-> "Day", year |-> c.year, month |-> c.month, day |-> c.day, hour |-> c.hour]
       /\ IsDay(c.year, c.month, c.day)
    \/ /\ c = [gran |-> "Hour", year |-> c.year, month |-> c.month, day |-> c.day, hour |-> c.hour]
       /\ IsDay(c.year, c.month, c.day)
       /\ c.hour \in Int /\ 0 <= c.hour /\ c.hour < 24

IndexOf(c) ==
    CASE c.gran = "Year" -> c.year
      [] c.gran = "Day"  -> DayNumber(c.year, c.month, c.day)
      [] c.gran = "Hour" -> 24 * DayNumber(c.year, c.month, c.day) + c.hour

IndexAt(gran, t) ==
    CASE gran = "Year" -> Fields(t).year
      [] gran = "Day"  -> t.day
      [] gran = "Hour" -> 24 * t.day + t.second \div 3600

\* The day after a date.
LEMMA FollowingDay ==
    ASSUME NEW gran \in {"Day", "Hour"}, NEW s,
           s = [gran |-> gran, year |-> s.year, month |-> s.month, day |-> s.day, hour |-> s.hour],
           IsDay(s.year, s.month, s.day), gran = "Hour" => ~(s.hour < 23)
    PROVE  \E y, m, d :
                /\ Following(s) = [gran |-> gran, year |-> y, month |-> m, day |-> d, hour |-> 0]
                /\ IsDay(y, m, d)
                /\ DayNumber(y, m, d) = DayNumber(s.year, s.month, s.day) + 1
<1>1. s.gran = gran /\ gran # "Year"
  OBVIOUS
<1>2. PICK y, m, d, k : y = s.year /\ m = s.month /\ d = s.day /\ k = daysOfMonth(m, y)
  OBVIOUS
<1>3. /\ IsDay(y, m, d) /\ y \in Int /\ m \in Int /\ d \in Int /\ 1 <= m /\ m <= 12
      /\ 1 <= d /\ d <= k /\ k \in Int
      /\ DayNumber(y, m, d) = NewYear(y) + DaysBefore(m, y) + d
      /\ NewYear(y) \in Int /\ DaysBefore(m, y) \in Int
  BY <1>2, DayFacts, Z3T(20)
<1>4. CASE d < k
  <2>1. Following(s) = [gran |-> gran, year |-> y, month |-> m, day |-> d + 1, hour |-> 0]
    <3>1. d # k
      BY <1>3, <1>4, Z3T(20)
    <3> QED
      BY <1>1, <1>2, <1>4, <3>1 DEF Following
  <2>2. IsDay(y, m, d + 1)
    BY <1>2, <1>3, <1>4, Z3T(20) DEF IsDay
  <2>3. DayNumber(y, m, d + 1) = NewYear(y) + DaysBefore(m, y) + (d + 1)
    BY <2>2, DayFacts, Z3T(20)
  <2>4. DayNumber(y, m, d + 1) = DayNumber(y, m, d) + 1
    BY <1>3, <2>3, Z3T(20)
  <2> QED
    BY <1>2, <2>1, <2>2, <2>4, Z3T(20)
<1>5. CASE d = k /\ m < 12
  <2>1. Following(s) = [gran |-> gran, year |-> y, month |-> m + 1, day |-> 1, hour |-> 0]
    <3>1. ~(d < k)
      BY <1>3, <1>5, Z3T(20)
    <3> QED
      BY <1>1, <1>2, <1>5, <3>1 DEF Following
  <2>2. IsDay(y, m + 1, 1)
    <3>1. m + 1 \in Int /\ 1 <= m + 1 /\ m + 1 <= 12
      BY <1>3, <1>5, Z3T(20)
    <3>2. 28 <= daysOfMonth(m + 1, y) /\ daysOfMonth(m + 1, y) \in Int
      BY <1>3, <3>1, MonthLengths, Z3T(20)
    <3> QED
      BY <1>3, <3>1, <3>2, Z3T(20) DEF IsDay
  <2>3. DayNumber(y, m + 1, 1) = NewYear(y) + DaysBefore(m + 1, y) + 1
    BY <2>2, DayFacts, Z3T(20)
  <2>4. DaysBefore(m + 1, y) = DaysBefore(m, y) + k
    BY <1>2, <1>3, <1>5, MonthLengths, Z3T(20)
  <2>5. DayNumber(y, m + 1, 1) = DayNumber(y, m, d) + 1
    BY <1>3, <1>5, <2>3, <2>4, Z3T(20)
  <2> QED
    BY <1>2, <2>1, <2>2, <2>5, Z3T(20)
<1>6. CASE d = k /\ m = 12
  <2>1. Following(s) = [gran |-> gran, year |-> y + 1, month |-> 1, day |-> 1, hour |-> 0]
    <3>1. ~(d < k) /\ ~(m < 12)
      BY <1>3, <1>6, Z3T(20)
    <3> QED
      BY <1>1, <1>2, <1>6, <3>1 DEF Following
  <2>2. IsDay(y + 1, 1, 1)
    <3>1. 28 <= daysOfMonth(1, y + 1) /\ daysOfMonth(1, y + 1) \in Int
      BY Z3T(20) DEF daysOfMonth
    <3> QED
      BY <1>3, <3>1, Z3T(20) DEF IsDay
  <2>3. DayNumber(y + 1, 1, 1) = NewYear(y + 1) + DaysBefore(1, y + 1) + 1
    BY <2>2, DayFacts, Z3T(20)
  <2>4. /\ NewYear(y + 1) = NewYear(y) + 365 + LeapDay(y)
        /\ DaysBefore(m, y) + k = 365 + LeapDay(y) /\ DaysBefore(1, y + 1) = 0
        /\ LeapDay(y) \in {0, 1}
    <3>1. DaysBefore(1, y + 1) = 0
      BY Z3T(20) DEF DaysBefore
    <3>2. DaysBefore(m, y) + k = 365 + LeapDay(y) /\ LeapDay(y) \in {0, 1}
      BY <1>2, <1>3, <1>6, MonthLengths, Z3T(20)
    <3> QED
      BY <1>3, <3>1, <3>2, YearAfterYear, Z3T(20)
  <2>5. DayNumber(y + 1, 1, 1) = DayNumber(y, m, d) + 1
    BY <1>3, <1>6, <2>3, <2>4, Z3T(20)
  <2> QED
    BY <1>2, <2>1, <2>2, <2>5, Z3T(20)
<1> QED
  BY <1>3, <1>4, <1>5, <1>6, Z3T(20)

\* The period after another one is the next one.
LEMMA FollowingDate ==
    ASSUME NEW c, IsDate(c)
    PROVE  /\ IsDate(Following(c)) /\ Following(c).gran = c.gran
           /\ IndexOf(c) \in Int /\ IndexOf(Following(c)) = IndexOf(c) + 1
           /\ c.gran = "Day" => Following(c).hour = 0
<1>1. CASE c.gran = "Year"
  <2>1. c = [gran |-> "Year", year |-> c.year] /\ c.year \in Int
    BY <1>1, Z3T(20) DEF IsDate
  <2>2. Following(c) = [gran |-> "Year", year |-> c.year + 1]
    BY <1>1, <2>1 DEF Following
  <2> QED
    BY <1>1, <2>1, <2>2, Z3T(20) DEF IsDate, IndexOf
<1>2. CASE c.gran = "Day"
  <2>1. /\ c = [gran |-> "Day", year |-> c.year, month |-> c.month, day |-> c.day, hour |-> c.hour]
        /\ IsDay(c.year, c.month, c.day)
    BY <1>2, Z3T(20) DEF IsDate
  <2>2. PICK y, m, d :
            /\ Following(c) = [gran |-> "Day", year |-> y, month |-> m, day |-> d, hour |-> 0]
            /\ IsDay(y, m, d)
            /\ DayNumber(y, m, d) = DayNumber(c.year, c.month, c.day) + 1
    BY <2>1, FollowingDay, Z3T(20)
  <2>3. DayNumber(c.year, c.month, c.day) \in Int
    BY <2>1, DayOfYear, Z3T(20)
  <2>4. IsDate(Following(c))
    BY <2>2, Z3T(20) DEF IsDate
  <2>5. IndexOf(c) = DayNumber(c.year, c.month, c.day) /\ IndexOf(Following(c)) = DayNumber(y, m, d)
    BY <1>2, <2>2, Z3T(20) DEF IndexOf
  <2> QED
    BY <1>2, <2>2, <2>3, <2>4, <2>5, Z3T(20)
<1>3. CASE c.gran = "Hour"
  <2>1. /\ c = [gran |-> "Hour", year |-> c.year, month |-> c.month, day |-> c.day, hour |-> c.hour]
        /\ IsDay(c.year, c.month, c.day) /\ c.hour \in Int /\ 0 <= c.hour /\ c.hour < 24
    BY <1>3, Z3T(20) DEF IsDate
  <2>2. DayNumber(c.year, c.month, c.day) \in Int
    BY <2>1, DayOfYear, Z3T(20)
  <2>3. CASE c.hour < 23
    <3>1. Following(c) = [gran |-> "Hour", year |-> c.year, month |-> c.month, day |-> c.day, hour |-> c.hour + 1]
      BY <1>3, <2>1, <2>3 DEF Following
    <3>2. IsDate(Following(c))
      BY <2>1, <2>3, <3>1, Z3T(20) DEF IsDate
    <3>3. /\ IndexOf(c) = 24 * DayNumber(c.year, c.month, c.day) + c.hour
          /\ IndexOf(Following(c)) = 24 * DayNumber(c.year, c.month, c.day) + (c.hour + 1)
      BY <1>3, <3>1, Z3T(20) DEF IndexOf
    <3> QED
      BY <1>3, <2>1, <2>2, <3>1, <3>2, <3>3, Z3T(20)
  <2>4. CASE ~(c.hour < 23)
    <3>1. PICK y, m, d :
            /\ Following(c) = [gran |-> "Hour", year |-> y, month |-> m, day |-> d, hour |-> 0]
            /\ IsDay(y, m, d)
            /\ DayNumber(y, m, d) = DayNumber(c.year, c.month, c.day) + 1
      BY <2>1, <2>4, FollowingDay, Z3T(20)
    <3>2. IsDate(Following(c))
      BY <3>1, Z3T(20) DEF IsDate
    <3>3. /\ IndexOf(c) = 24 * DayNumber(c.year, c.month, c.day) + c.hour
          /\ IndexOf(Following(c)) = 24 * DayNumber(y, m, d) + 0
      BY <1>3, <3>1, Z3T(20) DEF IndexOf
    <3> QED
      BY <1>3, <2>1, <2>2, <2>4, <3>1, <3>2, <3>3, Z3T(20)
  <2> QED
    BY <2>3, <2>4, Z3T(20)
<1> QED
  BY <1>1, <1>2, <1>3, Z3T(20) DEF IsDate

\* An instant lies in the period with its own number.
LEMMA PeriodByIndex ==
    ASSUME NEW c, IsDate(c), NEW t, IsInstant(t)
    PROVE  IndexAt(c.gran, t) \in Int /\ (Period(c.gran, t) = Key(c) <=> IndexAt(c.gran, t) = IndexOf(c))
<1>1. PICK y, m, d, h : y = Fields(t).year /\ m = Fields(t).month /\ d = Fields(t).day /\ h = Fields(t).hour
  OBVIOUS
<1>2. IsDay(y, m, d) /\ DayNumber(y, m, d) = t.day /\ h = t.second \div 3600
  BY <1>1, FieldsDate, Z3T(20) DEF IsInstant
<1>3. y \in Int /\ t.day \in Int
  BY <1>2, DayFacts, Z3T(20) DEF IsInstant
<1>4. h \in Int /\ 0 <= h /\ h < 24
  BY <1>2, Z3T(20) DEF IsInstant, SecondsPerDay
<1>5. CASE c.gran = "Year"
  <2>1. Period(c.gran, t) = <<y>> /\ Key(c) = <<c.year>> /\ IndexAt(c.gran, t) = y /\ IndexOf(c) = c.year
    BY <1>1, <1>5, Z3T(20) DEF Period, Key, IndexAt, IndexOf
  <2> QED
    BY <1>3, <2>1, Z3T(20)
<1>6. CASE c.gran = "Day"
  <2>1. /\ Period(c.gran, t) = <<y, m, d>> /\ Key(c) = <<c.year, c.month, c.day>>
        /\ IndexAt(c.gran, t) = t.day /\ IndexOf(c) = DayNumber(c.year, c.month, c.day)
    BY <1>1, <1>6, Z3T(20) DEF Period, Key, IndexAt, IndexOf
  <2>2. IsDay(c.year, c.month, c.day)
    BY <1>6, Z3T(20) DEF IsDate
  <2>3. t.day = DayNumber(c.year, c.month, c.day) => y = c.year /\ m = c.month /\ d = c.day
    BY <1>2, <2>2, OneDate, Z3T(20)
  <2> QED
    BY <1>2, <1>3, <2>1, <2>3, Z3T(20)
<1>7. CASE c.gran = "Hour"
  <2>1. /\ Period(c.gran, t) = <<y, m, d, h>> /\ Key(c) = <<c.year, c.month, c.day, c.hour>>
        /\ IndexAt(c.gran, t) = 24 * t.day + h
        /\ IndexOf(c) = 24 * DayNumber(c.year, c.month, c.day) + c.hour
    BY <1>1, <1>2, <1>7, Z3T(20) DEF Period, Key, IndexAt, IndexOf
  <2>2. IsDay(c.year, c.month, c.day) /\ c.hour \in Int /\ 0 <= c.hour /\ c.hour < 24
    BY <1>7, Z3T(20) DEF IsDate
  <2>3. t.day = DayNumber(c.year, c.month, c.day) => y = c.year /\ m = c.month /\ d = c.day
    BY <1>2, <2>2, OneDate, Z3T(20)
  <2>4. DayNumber(c.year, c.month, c.day) \in Int
    BY <2>2, DayOfYear, Z3T(20)
  <2>5. 24 * t.day + h = 24 * DayNumber(c.year, c.month, c.day) + c.hour
            <=> t.day = DayNumber(c.year, c.month, c.day) /\ h = c.hour
    BY <1>3, <1>4, <2>2, <2>4, Z3T(20)
  <2> QED
    BY <1>2, <1>3, <1>4, <2>1, <2>3, <2>5, Z3T(20)
<1> QED
  BY <1>5, <1>6, <1>7, Z3T(20) DEF IsDate

\* Two dates of a granularity with the same number are the same, but for the
\* hour, which a day has not.
LEMMA OneIndex ==
    ASSUME NEW b, IsDate(b), NEW c, IsDate(c), b.gran = c.gran, IndexOf(b) = IndexOf(c),
           b.gran = "Day" => b.hour = c.hour
    PROVE  b = c
<1>1. CASE b.gran = "Year"
  <2>1. b = [gran |-> "Year", year |-> b.year] /\ IndexOf(b) = b.year
    BY <1>1, Z3T(20) DEF IsDate, IndexOf
  <2>2. c.gran = "Year"
    BY <1>1, Z3T(20)
  <2>3. c = [gran |-> "Year", year |-> c.year] /\ IndexOf(c) = c.year
    BY <2>2, Z3T(20) DEF IsDate, IndexOf
  <2> QED
    BY <2>1, <2>3
<1>2. CASE b.gran = "Day"
  <2>1. /\ b = [gran |-> "Day", year |-> b.year, month |-> b.month, day |-> b.day, hour |-> b.hour]
        /\ IsDay(b.year, b.month, b.day)
    BY <1>2, Z3T(20) DEF IsDate
  <2>2. /\ c = [gran |-> "Day", year |-> c.year, month |-> c.month, day |-> c.day, hour |-> c.hour]
        /\ IsDay(c.year, c.month, c.day)
    <3>1. c.gran = "Day"
      BY <1>2, Z3T(20)
    <3> QED
      BY <3>1, Z3T(20) DEF IsDate
  <2>3. DayNumber(b.year, b.month, b.day) = DayNumber(c.year, c.month, c.day)
    BY <1>2, Z3T(20) DEF IndexOf
  <2>4. b.year = c.year /\ b.month = c.month /\ b.day = c.day
    BY <2>1, <2>2, <2>3, OneDate, Z3T(20)
  <2> QED
    BY <1>2, <2>1, <2>2, <2>4, Zenon
<1>3. CASE b.gran = "Hour"
  <2>1. /\ b = [gran |-> "Hour", year |-> b.year, month |-> b.month, day |-> b.day, hour |-> b.hour]
        /\ IsDay(b.year, b.month, b.day) /\ b.hour \in Int /\ 0 <= b.hour /\ b.hour < 24
    BY <1>3, Z3T(20) DEF IsDate
  <2>2. /\ c = [gran |-> "Hour", year |-> c.year, month |-> c.month, day |-> c.day, hour |-> c.hour]
        /\ IsDay(c.year, c.month, c.day) /\ c.hour \in Int /\ 0 <= c.hour /\ c.hour < 24
    <3>1. c.gran = "Hour"
      BY <1>3, Z3T(20)
    <3> QED
      BY <3>1, Z3T(20) DEF IsDate
  <2>3. DayNumber(b.year, b.month, b.day) \in Int /\ DayNumber(c.year, c.month, c.day) \in Int
    BY <2>1, <2>2, DayOfYear, Z3T(20)
  <2>4. 24 * DayNumber(b.year, b.month, b.day) + b.hour = 24 * DayNumber(c.year, c.month, c.day) + c.hour
    BY <1>3, Z3T(20) DEF IndexOf
  <2>5. DayNumber(b.year, b.month, b.day) = DayNumber(c.year, c.month, c.day) /\ b.hour = c.hour
    BY <2>1, <2>2, <2>3, <2>4, Z3T(20)
  <2>6. b.year = c.year /\ b.month = c.month /\ b.day = c.day
    BY <2>1, <2>2, <2>5, OneDate, Z3T(20)
  <2> QED
    BY <2>1, <2>2, <2>5, <2>6, Zenon
<1> QED
  BY <1>1, <1>2, <1>3, Z3T(20) DEF IsDate

\* The date with a number, by Fields.
DateAt(gran, i) ==
    LET f == Fields([day |-> IF gran = "Hour" THEN i \div 24 ELSE i, second |-> 0])
    IN  CASE gran = "Year" -> [gran |-> "Year", year |-> i]
          [] gran = "Day"  -> [gran |-> "Day", year |-> f.year, month |-> f.month, day |-> f.day, hour |-> 0]
          [] gran = "Hour" -> [gran |-> "Hour", year |-> f.year, month |-> f.month, day |-> f.day, hour |-> i % 24]

\* It is a date, and has that number.
LEMMA DateAtIndex ==
    ASSUME NEW gran \in {"Year", "Day", "Hour"}, NEW i \in Int
    PROVE  /\ IsDate(DateAt(gran, i)) /\ DateAt(gran, i).gran = gran /\ IndexOf(DateAt(gran, i)) = i
           /\ gran = "Day" => DateAt(gran, i).hour = 0
<1>1. CASE gran = "Year"
  BY <1>1 DEF DateAt, IsDate, IndexOf
<1>2. CASE gran = "Day"
  <2>1. PICK t : t = [day |-> i, second |-> 0]
    OBVIOUS
  <2>2. PICK y, m, d : y = Fields(t).year /\ m = Fields(t).month /\ d = Fields(t).day
    OBVIOUS
  <2>3. IsDay(y, m, d) /\ DayNumber(y, m, d) = i
    BY <2>1, <2>2, FieldsDate, Z3T(20)
  <2>4. DateAt(gran, i) = [gran |-> "Day", year |-> y, month |-> m, day |-> d, hour |-> 0]
    BY <1>2, <2>1, <2>2 DEF DateAt
  <2> QED
    BY <1>2, <2>3, <2>4, Z3T(20) DEF IsDate, IndexOf
<1>3. CASE gran = "Hour"
  <2>1. PICK q \in Int, k \in Int : q = i \div 24 /\ k = i % 24 /\ i = 24 * q + k /\ 0 <= k /\ k < 24
    BY Z3T(20)
  <2>2. PICK t : t = [day |-> q, second |-> 0]
    OBVIOUS
  <2>3. PICK y, m, d : y = Fields(t).year /\ m = Fields(t).month /\ d = Fields(t).day
    OBVIOUS
  <2>4. IsDay(y, m, d) /\ DayNumber(y, m, d) = q
    BY <2>2, <2>3, FieldsDate, Z3T(20)
  <2>5. DateAt(gran, i) = [gran |-> "Hour", year |-> y, month |-> m, day |-> d, hour |-> k]
    BY <1>3, <2>1, <2>2, <2>3 DEF DateAt
  <2>6. IsDate(DateAt(gran, i)) /\ DateAt(gran, i).gran = gran
    BY <1>3, <2>1, <2>4, <2>5, Z3T(20) DEF IsDate
  <2>7. IndexOf(DateAt(gran, i)) = 24 * q + k
    BY <1>3, <2>4, <2>5, Z3T(20) DEF IndexOf
  <2> QED
    BY <1>3, <2>1, <2>6, <2>7, Z3T(20)
<1> QED
  BY <1>1, <1>2, <1>3, Z3T(20)

\* A set of natural numbers that is not empty has a least element.
LEMMA LeastOf ==
    ASSUME NEW S \in SUBSET Nat, S # {}
    PROVE  \E x \in S : \A y \in S : x <= y
<1>1. \E x \in S : \A y \in S : ~(<<y, x>> \in OpToRel(<, Nat))
  BY NatLessThanWellFounded, WFMin
<1>2. PICK x \in S : \A y \in S : ~(y < x)
  BY <1>1 DEF OpToRel
<1> QED
  BY <1>2

\* The equation of After.
IsChain(s, n, f) == f = [i \in 0..n |-> IF i = 0 THEN Named(s) ELSE Following(f[i - 1])]

\* The periods after the one named have the numbers after its number.  There is
\* a chain of them, so After is one, and there is only one.
LEMMA AfterIndex ==
    ASSUME NEW s, IsDate(Named(s)), NEW n \in Nat, NEW i \in 0..n
    PROVE  /\ IsDate(After(s, n)[i]) /\ After(s, n)[i].gran = Named(s).gran
           /\ IndexOf(After(s, n)[i]) = IndexOf(Named(s)) + i
<1>1. PICK c, gran, b : c = Named(s) /\ gran = c.gran /\ b = IndexOf(c)
  OBVIOUS
<1>2. b \in Int /\ gran \in {"Year", "Day", "Hour"} /\ IsDate(c)
  BY <1>1, FollowingDate, Z3T(20) DEF IsDate
<1>3. PICK g : g = [j \in 0..n |-> IF j = 0 THEN c ELSE DateAt(gran, b + j)]
  OBVIOUS
<1>4. ASSUME NEW j \in 0..n
      PROVE  IsDate(g[j]) /\ g[j].gran = gran /\ IndexOf(g[j]) = b + j /\ (j # 0 /\ gran = "Day" => g[j].hour = 0)
  <2>1. CASE j = 0
    BY <1>1, <1>2, <1>3, <2>1, Z3T(20)
  <2>2. CASE j # 0
    <3>1. g[j] = DateAt(gran, b + j) /\ b + j \in Int
      BY <1>2, <1>3, <2>2, Z3T(20)
    <3> QED
      BY <1>2, <3>1, DateAtIndex, Z3T(20)
  <2> QED
    BY <2>1, <2>2, Z3T(20)
<1>5. ASSUME NEW j \in 0..n, j # 0
      PROVE  g[j] = Following(g[j - 1])
  <2>1. j - 1 \in 0..n /\ b + (j - 1) + 1 = b + j
    BY <1>2, <1>5, Z3T(20)
  <2>2. IsDate(g[j - 1]) /\ g[j - 1].gran = gran /\ IndexOf(g[j - 1]) = b + (j - 1)
    BY <1>4, <2>1, Z3T(20)
  <2>3. /\ IsDate(Following(g[j - 1])) /\ Following(g[j - 1]).gran = gran
        /\ IndexOf(Following(g[j - 1])) = b + j
        /\ gran = "Day" => Following(g[j - 1]).hour = 0
    BY <2>1, <2>2, FollowingDate, Z3T(20)
  <2> QED
    BY <1>4, <1>5, <2>3, OneIndex, Z3T(20)
<1>6. IsChain(s, n, g)
  BY <1>1, <1>3, <1>5, Z3T(20) DEF IsChain
<1>7. PICK f : f = After(s, n) /\ IsChain(s, n, f)
  <2>1. After(s, n) = CHOOSE f : IsChain(s, n, f)
    BY Z3T(20) DEF After, IsChain
  <2> QED
    BY <1>6, <2>1, Z3T(20)
<1>8. \A j \in 0..n : f[j] = g[j]
  <2> DEFINE S == {j \in 0..n : f[j] # g[j]}
  <2>1. CASE S = {}
    BY <2>1, Z3T(20)
  <2>2. CASE S # {}
    <3>1. PICK j \in S : \A l \in S : j <= l
      <4>1. S \in SUBSET Nat
        OBVIOUS
      <4> HIDE DEF S
      <4> QED
        BY <2>2, <4>1, LeastOf, Z3T(20)
    <3>2. j # 0
      BY <1>1, <1>3, <1>7, Z3T(20) DEF IsChain
    <3>3. j - 1 \in 0..n /\ j - 1 \notin S
      BY <3>1, <3>2, Z3T(20)
    <3>4. f[j - 1] = g[j - 1]
      BY <3>3, Z3T(20)
    <3>5. f[j] = Following(f[j - 1])
      BY <1>7, <3>2, Z3T(20) DEF IsChain
    <3> QED
      BY <1>5, <3>2, <3>4, <3>5, Z3T(20)
  <2> QED
    BY <2>1, <2>2, Z3T(20)
<1> QED
  BY <1>1, <1>4, <1>7, <1>8, Z3T(20)

\* ParseISO8601 accepts dates of the calendar, and hour 24.
LEMMA AcceptedDate ==
    ASSUME NEW s \in Dates, Accepted(s)
    PROVE  \/ s = [gran |-> "Year", year |-> s.year] /\ s.year \in Int
           \/ /\ s = [gran |-> "Day", year |-> s.year, month |-> s.month, day |-> s.day, hour |-> s.hour]
              /\ IsDay(s.year, s.month, s.day)
           \/ /\ s = [gran |-> "Hour", year |-> s.year, month |-> s.month, day |-> s.day, hour |-> s.hour]
              /\ IsDay(s.year, s.month, s.day)
              /\ s.hour \in Int /\ 0 <= s.hour /\ s.hour <= 24
<1>1. CASE s \in [gran : {"Year"}, year : Nat]
  BY <1>1, Z3T(20)
<1>2. CASE s \in [gran : {"Day", "Hour"}, year : Nat, month : Nat, day : Nat, hour : Nat]
  <2>1. /\ s = [gran |-> s.gran, year |-> s.year, month |-> s.month, day |-> s.day, hour |-> s.hour]
        /\ s.gran \in {"Day", "Hour"}
        /\ s.year \in Int /\ s.month \in Int /\ s.day \in Int /\ s.hour \in Int
    BY <1>2, Z3T(20)
  <2>2. parseMonth(s) /\ parseDay(s) /\ (s.gran = "Hour" => parseHour(s))
    BY <2>1, Z3T(20) DEF Accepted
  <2>3. 1 <= s.month /\ s.month <= 12
    BY <2>1, <2>2, Z3T(20) DEF parseMonth
  <2>4. daysOfMonth(s.month, s.year) \in Int
    BY <2>1, <2>3, MonthLengths, Z3T(20)
  <2>5. IsDay(s.year, s.month, s.day)
    BY <2>1, <2>2, <2>3, <2>4, Z3T(20) DEF parseDay, IsDay
  <2>6. s.gran = "Hour" => 0 <= s.hour /\ s.hour <= 24
    BY <2>1, <2>2, Z3T(20) DEF parseHour
  <2>7. CASE s.gran = "Day"
    BY <2>1, <2>5, <2>7, Z3T(20)
  <2>8. CASE s.gran = "Hour"
    BY <2>1, <2>5, <2>6, <2>8, Z3T(20)
  <2> QED
    BY <2>1, <2>7, <2>8, Z3T(20)
<1> QED
  BY <1>1, <1>2, Z3T(20) DEF Dates

\* The instant of an hour is the last second of the hour named, hour 24 included.
LEMMA NamedHour ==
    ASSUME NEW s, s.gran = "Hour",
           s = [gran |-> "Hour", year |-> s.year, month |-> s.month, day |-> s.day, hour |-> s.hour],
           IsDay(s.year, s.month, s.day), s.hour \in Int, 0 <= s.hour, s.hour <= 24
    PROVE  \E y, m, d, k :
                /\ Named(s) = [gran |-> "Hour", year |-> y, month |-> m, day |-> d, hour |-> k]
                /\ IsDay(y, m, d) /\ k \in Int /\ 0 <= k /\ k < 24
                /\ EndOf(s) = [day |-> DayNumber(y, m, d), second |-> 3600 * k + 3599]
<1>1. EndOf(s) = Date(s.year, s.month, s.day, s.hour, 3599)
  BY Z3T(20) DEF EndOf
<1>2. DayNumber(s.year, s.month, s.day) \in Int
  BY DayOfYear, Z3T(20)
<1>3. CASE s.hour < 24
  <2>1. Named(s) = s
    BY <1>3, Z3T(20) DEF Named
  <2>2. EndOf(s) = [day |-> DayNumber(s.year, s.month, s.day), second |-> 3600 * s.hour + 3599]
    BY <1>1, <1>2, <1>3, LastOfHour, Z3T(20)
  <2>3. PICK y, m, d, k : y = s.year /\ m = s.month /\ d = s.day /\ k = s.hour
    OBVIOUS
  <2>4. Named(s) = [gran |-> "Hour", year |-> y, month |-> m, day |-> d, hour |-> k]
    BY <2>1, <2>3
  <2> QED
    BY <1>3, <2>2, <2>3, <2>4, Z3T(20)
<1>4. CASE s.hour = 24
  <2>1. Named(s) = Following(s)
    BY <1>4, Z3T(20) DEF Named
  <2>2. ~(s.hour < 23)
    BY <1>4, Z3T(20)
  <2>3. PICK y, m, d :
            /\ Following(s) = [gran |-> "Hour", year |-> y, month |-> m, day |-> d, hour |-> 0]
            /\ IsDay(y, m, d)
            /\ DayNumber(y, m, d) = DayNumber(s.year, s.month, s.day) + 1
    BY <2>2, FollowingDay, Z3T(20)
  <2>4. EndOf(s) = [day |-> DayNumber(s.year, s.month, s.day) + 1, second |-> 3599]
    <3>1. (24 * 3600 + 3599) \div 86400 = 1 /\ (24 * 3600 + 3599) % 86400 = 3599
      BY Z3T(20)
    <3> QED
      BY <1>1, <1>4, <3>1, Z3T(20) DEF Date, SecondsPerDay
  <2>5. PICK k \in Int : k = 0 /\ 3600 * k + 3599 = 3599 /\ 0 <= k /\ k < 24
    BY Z3T(20)
  <2>6. Named(s) = [gran |-> "Hour", year |-> y, month |-> m, day |-> d, hour |-> k]
    BY <2>1, <2>3, <2>5, Z3T(20)
  <2>7. EndOf(s) = [day |-> DayNumber(y, m, d), second |-> 3600 * k + 3599]
    BY <2>3, <2>4, <2>5, Z3T(20)
  <2> WITNESS y, m, d, k
  <2> QED
    BY <2>3, <2>5, <2>6, <2>7, Z3T(20)
<1> QED
  BY <1>3, <1>4, Z3T(20)

\* Instants and ends of hours are in the order of their hours.
LEMMA HourOrder ==
    ASSUME NEW D \in Int, NEW k \in Int, 0 <= k, k < 24,
           NEW T \in Int, NEW h \in Int, 0 <= h, h < 24,
           NEW sec \in Int, 3600 * h <= sec, sec <= 3600 * h + 3599
    PROVE  /\ D < T \/ (D = T /\ 3600 * k + 3599 < sec) <=> 24 * D + k < 24 * T + h
           /\ ~(T < D \/ (T = D /\ sec < 3600 * k + 3599)) => 24 * D + k <= 24 * T + h
           /\ 24 * D + k < 24 * T + h => ~(T < D \/ (T = D /\ sec < 3600 * k + 3599))
<1>1. D < T \/ (D = T /\ k < h) <=> 24 * D + k < 24 * T + h
  BY Z3T(20)
<1>2. T < D \/ (T = D /\ h < k) <=> 24 * T + h < 24 * D + k
  BY Z3T(20)
<1>3. 3600 * k + 3599 < sec <=> k < h
  BY Z3T(20)
<1>4. /\ ~(sec < 3600 * k + 3599) => ~(h < k)
      /\ k < h => ~(sec < 3600 * k + 3599)
  BY Z3T(20)
<1> QED
  BY <1>1, <1>2, <1>3, <1>4, Z3T(20)

\* The answer is about the period named and the n after it; of the first one it
\* has only the last second.
LEMMA Window ==
    ASSUME NEW s \in Dates, Accepted(s), NEW n \in Nat, NEW t, IsInstant(t)
    PROVE  /\ IsDate(Named(s)) /\ Named(s).gran = s.gran
           /\ ~Before(t, EndOf(s)) /\ ~Before(ToTime(s, n), t) =>
                /\ IndexOf(Named(s)) <= IndexAt(s.gran, t)
                /\ IndexAt(s.gran, t) <= IndexOf(Named(s)) + n
           /\ /\ IndexOf(Named(s)) + 1 <= IndexAt(s.gran, t)
              /\ IndexAt(s.gran, t) <= IndexOf(Named(s)) + n
              /\ s.gran = "Hour" => n <= MaxHours
              => ~Before(t, EndOf(s)) /\ ~Before(ToTime(s, n), t)
<1>1. t.day \in Int /\ t.second \in Int /\ 0 <= t.second /\ t.second <= 86399
  BY Z3T(20) DEF IsInstant, SecondsPerDay
<1>2. CASE s = [gran |-> "Year", year |-> s.year] /\ s.year \in Int
  <2>1. Named(s) = s /\ IsDate(s) /\ s.gran = "Year"
    BY <1>2, Z3T(20) DEF Named, IsDate
  <2>2. /\ NewYear(s.year + 1) \in Int /\ NewYear(s.year + n + 1) \in Int
        /\ EndOf(s) = [day |-> NewYear(s.year + 1), second |-> 86399]
        /\ ToTime(s, n) = [day |-> NewYear(s.year + n + 1), second |-> 86399]
    BY <1>2, <2>1, EndOfYear, Z3T(20)
  <2>3. PICK y, m, d : y = Fields(t).year /\ m = Fields(t).month /\ d = Fields(t).day
    OBVIOUS
  <2>4. IsDay(y, m, d) /\ DayNumber(y, m, d) = t.day
    BY <1>1, <2>3, FieldsDate, Z3T(20)
  <2>5. y \in Int /\ NewYear(y) < t.day /\ t.day <= NewYear(y + 1) /\ NewYear(y) \in Int /\ NewYear(y + 1) \in Int
    BY <2>4, DayOfYear, DayFacts, Z3T(20)
  <2>6. IndexOf(Named(s)) = s.year /\ IndexAt(s.gran, t) = y
    BY <2>1, <2>3, Z3T(20) DEF IndexOf, IndexAt
  <2>7. ASSUME NEW a \in Int, NEW b \in Int, a <= b
        PROVE  NewYear(a) <= NewYear(b) /\ NewYear(a) \in Int /\ NewYear(b) \in Int
    <3>1. NewYear(a) + 365 * (b - a) <= NewYear(b) /\ NewYear(a) \in Int /\ NewYear(b) \in Int
      BY <2>7, YearsApart, YearAfterYear, Z3T(20)
    <3> QED
      BY <2>7, <3>1, Z3T(20)
  <2>8. /\ y < s.year => NewYear(y + 1) <= NewYear(s.year)
        /\ s.year + 1 <= y => NewYear(s.year + 1) <= NewYear(y)
        /\ s.year + n < y => NewYear(s.year + n + 1) <= NewYear(y)
        /\ y <= s.year + n => NewYear(y + 1) <= NewYear(s.year + n + 1)
    <3>1. y + 1 \in Int /\ s.year + 1 \in Int /\ s.year + n + 1 \in Int /\ s.year + n \in Int
      BY <1>2, <2>5, Z3T(20)
    <3>2. y < s.year => NewYear(y + 1) <= NewYear(s.year)
      BY <1>2, <2>5, <2>7, <3>1, Z3T(20)
    <3>3. s.year + 1 <= y => NewYear(s.year + 1) <= NewYear(y)
      BY <1>2, <2>5, <2>7, <3>1, Z3T(20)
    <3>4. s.year + n < y => NewYear(s.year + n + 1) <= NewYear(y)
      <4>1. s.year + n < y => s.year + n + 1 <= y
        BY <1>2, <2>5, <3>1, Z3T(20)
      <4> QED
        BY <2>5, <2>7, <3>1, <4>1, Z3T(20)
    <3>5. y <= s.year + n => NewYear(y + 1) <= NewYear(s.year + n + 1)
      <4>1. y <= s.year + n => y + 1 <= s.year + n + 1
        BY <1>2, <2>5, <3>1, Z3T(20)
      <4> QED
        BY <2>7, <3>1, <4>1, Z3T(20)
    <3> QED
      BY <3>2, <3>3, <3>4, <3>5, Z3T(20)
  <2>9. NewYear(s.year + 1) = NewYear(s.year) + 365 + LeapDay(s.year) /\ LeapDay(s.year) \in {0, 1} /\ NewYear(s.year) \in Int
    BY <1>2, YearAfterYear, Z3T(20) DEF LeapDay
  <2>10. ~Before(t, EndOf(s)) /\ ~Before(ToTime(s, n), t) => s.year <= y /\ y <= s.year + n
    BY <1>1, <1>2, <2>2, <2>5, <2>8, <2>9, Z3T(20) DEF Before
  <2>11. s.year + 1 <= y /\ y <= s.year + n => ~Before(t, EndOf(s)) /\ ~Before(ToTime(s, n), t)
    BY <1>1, <1>2, <2>2, <2>5, <2>8, Z3T(20) DEF Before
  <2> QED
    BY <2>1, <2>6, <2>10, <2>11, Z3T(20)
<1>3. CASE /\ s = [gran |-> "Day", year |-> s.year, month |-> s.month, day |-> s.day, hour |-> s.hour]
           /\ IsDay(s.year, s.month, s.day)
  <2>1. Named(s) = s /\ IsDate(s) /\ s.gran = "Day"
    BY <1>3, Z3T(20) DEF Named, IsDate
  <2>2. PICK b \in Int : b = DayNumber(s.year, s.month, s.day)
    BY <1>3, DayOfYear, Z3T(20)
  <2>3. EndOf(s) = [day |-> b, second |-> 86399]
    <3>1. EndOf(s) = Date(s.year, s.month, s.day, 23, 3599)
      BY <2>1, Z3T(20) DEF EndOf
    <3> QED
      BY <2>2, <3>1, LastSecond, Z3T(20)
  <2>4. ToTime(s, n) = [day |-> b + n, second |-> 86399]
    <3>1. ToTime(s, n) = AddDate(EndOf(s), 0, 0, n)
      BY <2>1, Z3T(20) DEF ToTime
    <3> QED
      BY <2>3, <3>1, DaysForward, Z3T(20)
  <2>5. IndexOf(Named(s)) = b /\ IndexAt(s.gran, t) = t.day
    BY <2>1, <2>2, Z3T(20) DEF IndexOf, IndexAt
  <2>6. ~Before(t, EndOf(s)) /\ ~Before(ToTime(s, n), t) => b <= t.day /\ t.day <= b + n
    BY <1>1, <2>3, <2>4, Z3T(20) DEF Before
  <2>7. b + 1 <= t.day /\ t.day <= b + n => ~Before(t, EndOf(s)) /\ ~Before(ToTime(s, n), t)
    BY <1>1, <2>3, <2>4, Z3T(20) DEF Before
  <2> QED
    BY <2>1, <2>5, <2>6, <2>7, Z3T(20)
<1>4. CASE /\ s = [gran |-> "Hour", year |-> s.year, month |-> s.month, day |-> s.day, hour |-> s.hour]
           /\ IsDay(s.year, s.month, s.day)
           /\ s.hour \in Int /\ 0 <= s.hour /\ s.hour <= 24
  <2>0. s.gran = "Hour"
    BY <1>4, Z3T(20)
  <2>1. PICK y, m, d, k :
            /\ Named(s) = [gran |-> "Hour", year |-> y, month |-> m, day |-> d, hour |-> k]
            /\ IsDay(y, m, d) /\ k \in Int /\ 0 <= k /\ k < 24
            /\ EndOf(s) = [day |-> DayNumber(y, m, d), second |-> 3600 * k + 3599]
    BY <1>4, <2>0, NamedHour, Z3T(20)
  <2>2. PICK b \in Int : b = DayNumber(y, m, d)
    BY <2>1, DayOfYear, Z3T(20)
  <2>3. PICK q \in Int, r \in Int : /\ q = (k + n) \div 24 /\ r = (k + n) % 24
                                   /\ k + n = 24 * q + r /\ 0 <= r /\ r < 24
    BY <2>1, Z3T(20)
  <2>4. PICK end : /\ end = [day |-> b + q, second |-> 3600 * r + 3599]
                   /\ n <= MaxHours => ToTime(s, n) = end
                   /\ ~Before(ToTime(s, n), t) => ~Before(end, t)
    <3>1. ToTime(s, n) = AddHours(EndOf(s), n)
      BY <2>0, Z3T(20) DEF ToTime
    <3>2. EndOf(s) = LastOf(b, k)
      BY <2>1, <2>2, Z3T(20) DEF LastOf
    <3>3. /\ n <= MaxHours => AddHours(LastOf(b, k), n) = LastOf(b + q, r)
          /\ ~Before(AddHours(LastOf(b, k), n), t) => ~Before(LastOf(b + q, r), t)
      BY <2>1, <2>3, HoursForward
    <3> QED
      BY <3>1, <3>2, <3>3, Z3T(20) DEF LastOf
  <2>5. PICK h \in Int : /\ h = t.second \div 3600 /\ 0 <= h /\ h < 24
                         /\ 3600 * h <= t.second /\ t.second <= 3600 * h + 3599
    BY <1>1, Z3T(20)
  <2>6. IndexOf(Named(s)) = 24 * b + k /\ IndexAt(s.gran, t) = 24 * t.day + h
    BY <2>0, <2>1, <2>2, <2>5, Z3T(20) DEF IndexOf, IndexAt
  <2>7. IsDate(Named(s)) /\ Named(s).gran = s.gran
    BY <2>0, <2>1, Z3T(20) DEF IsDate
  <2>8. /\ ~Before(t, EndOf(s)) => 24 * b + k <= 24 * t.day + h
        /\ 24 * b + k < 24 * t.day + h => ~Before(t, EndOf(s))
    <3>1. Before(t, EndOf(s)) <=> t.day < b \/ (t.day = b /\ t.second < 3600 * k + 3599)
      BY <2>1, <2>2, Z3T(20) DEF Before
    <3> QED
      BY <1>1, <2>1, <2>2, <2>5, <3>1, HourOrder, Z3T(20)
  <2>9. Before(end, t) <=> 24 * b + k + n < 24 * t.day + h
    <3>1. PICK e \in Int : e = b + q /\ 24 * b + k + n = 24 * e + r
      BY <2>1, <2>3, Z3T(20)
    <3>2. Before(end, t) <=> e < t.day \/ (e = t.day /\ 3600 * r + 3599 < t.second)
      BY <2>4, <3>1, Z3T(20) DEF Before
    <3>3. e < t.day \/ (e = t.day /\ 3600 * r + 3599 < t.second) <=> 24 * e + r < 24 * t.day + h
      <4>1. PICK T \in Int, sec \in Int : T = t.day /\ sec = t.second
        BY <1>1, Z3T(20)
      <4>2. e < T \/ (e = T /\ 3600 * r + 3599 < sec) <=> 24 * e + r < 24 * T + h
        BY <2>3, <2>5, <4>1, HourOrder, Z3T(20)
      <4> QED
        BY <4>1, <4>2, Z3T(20)
    <3> QED
      BY <3>1, <3>2, <3>3, Z3T(20)
  <2> QED
    BY <1>1, <2>0, <2>1, <2>2, <2>4, <2>5, <2>6, <2>7, <2>8, <2>9, Z3T(20)
<1> QED
  BY <1>2, <1>3, <1>4, AcceptedDate, Z3T(20)

-----------------------------------------------------------------------------
(***************************************************************************)
(* The answers.                                                            *)
(***************************************************************************)
\* A torrent with files that a request covers is in the answer, in its period.
LEMMA Counted ==
    ASSUME NEW rows, NEW h \in DOMAIN rows, rows[h].files > 0, NEW s, NEW n \in Int,
           n > 0, n <= MaxInt32, Covers(s, n, rows[h].discovered)
    PROVE  Period(s.gran, rows[h].discovered) \in DOMAIN apiStatistics(rows, s, <<n>>, {}).NDiscovered
<1>1. Valid(s, <<n>>) /\ Periods(<<n>>) = n
  BY DEF Valid, Covers, Periods
<1>2. apiStatistics(rows, s, <<n>>, {}) = GetStatistics(rows, s, n, {})
  BY <1>1 DEF apiStatistics
<1> QED
  BY <1>2 DEF GetStatistics, Covers

\* The answer to a request of a client is right for any rows, those that the loop
\* over them lost left out.
LEMMA AnswerCounts ==
    ASSUME NEW rows,
           \A h \in DOMAIN rows : IsInstant(rows[h].discovered) /\ rows[h].files > 0,
           NEW s \in Dates, NEW nStr, nStr = << >> \/ nStr[1] \in Int, Valid(s, nStr),
           NEW lost
    PROVE  CountsFollowing(rows, s, nStr, lost)
<1> DEFINE n == Periods(nStr)
           after == After(s, n)
<1>1. n \in Nat
  BY DEF Periods, Valid
<1> HIDE DEF n, after
<1>2. Accepted(s)
  BY DEF Valid
<1>3. PICK c, b : c = Named(s) /\ b = IndexOf(c)
  OBVIOUS
<1> DEFINE time(h) == rows[h].discovered
           chosen == {h \in DOMAIN rows : /\ rows[h].files > 0
                                          /\ ~Before(time(h), EndOf(s))
                                          /\ ~Before(ToTime(s, n), time(h))}
           period(h) == Period(s.gran, time(h))
           group(k) == {h \in chosen : period(h) = k}
           keys == {period(h) : h \in chosen} \ lost
           all(k) == {h \in DOMAIN rows : period(h) = k}
           answer == apiStatistics(rows, s, nStr, lost)
           fits == s.gran = "Hour" => n <= MaxHours
<1>4. /\ answer.NDiscovered = [k \in keys |-> Cardinality(group(k))]
      /\ answer.NFiles = [k \in keys |-> FilesOf(rows, group(k))]
  <2>1. answer = GetStatistics(rows, s, n, lost)
    BY DEF apiStatistics, n
  <2> QED
    BY <2>1 DEF GetStatistics
<1>5. ASSUME NEW h \in DOMAIN rows
      PROVE  /\ IsDate(c) /\ c.gran = s.gran
             /\ h \in chosen => b <= IndexAt(s.gran, time(h)) /\ IndexAt(s.gran, time(h)) <= b + n
             /\ b + 1 <= IndexAt(s.gran, time(h)) /\ IndexAt(s.gran, time(h)) <= b + n /\ fits => h \in chosen
  BY <1>1, <1>2, <1>3, Window
<1>6. ASSUME NEW h \in DOMAIN rows, NEW i \in 0..n
      PROVE  /\ IndexAt(s.gran, time(h)) \in Int /\ b \in Int
             /\ period(h) = Key(after[i]) <=> IndexAt(s.gran, time(h)) = b + i
  <2>1. IsDate(c) /\ c.gran = s.gran /\ IsInstant(time(h))
    BY <1>5
  <2>2. IsDate(after[i]) /\ after[i].gran = s.gran /\ IndexOf(after[i]) = b + i
    BY <1>1, <1>3, <2>1, AfterIndex DEF after
  <2>3. b \in Int
    BY <1>3, <2>1, FollowingDate
  <2> QED
    BY <2>1, <2>2, <2>3, PeriodByIndex
<1>7. ASSUME NEW k \in keys PROVE \E i \in 0..n : k = Key(after[i])
  <2>0. PICK h \in chosen : k = period(h)
    OBVIOUS
  <2>1. h \in DOMAIN rows
    OBVIOUS
  <2>2. b <= IndexAt(s.gran, time(h)) /\ IndexAt(s.gran, time(h)) <= b + n
    BY <1>5, <2>1
  <2>3. IndexAt(s.gran, time(h)) \in Int /\ b \in Int
    <3>1. 0 \in 0..n
      BY <1>1
    <3> QED
      BY <1>6, <2>1, <3>1
  <2>4. PICK i \in 0..n : IndexAt(s.gran, time(h)) = b + i
    <3>1. PICK i \in Int : i = IndexAt(s.gran, time(h)) - b
      BY <2>3
    <3>2. i \in 0..n /\ IndexAt(s.gran, time(h)) = b + i
      BY <1>1, <2>2, <2>3, <3>1
    <3> QED
      BY <3>2
  <2>5. period(h) = Key(after[i])
    BY <1>6, <2>1, <2>4
  <2> QED
    BY <2>0, <2>5
<1>8. ASSUME NEW i \in 1..n, fits
       PROVE  all(Key(after[i])) = group(Key(after[i]))
  <2> SUFFICES ASSUME NEW h \in DOMAIN rows, period(h) = Key(after[i])
               PROVE  h \in chosen
    OBVIOUS
  <2>1. IndexAt(s.gran, time(h)) = b + i /\ b \in Int
    BY <1>6
  <2>2. b + 1 <= b + i /\ b + i <= b + n
    BY <1>1, <2>1
  <2> QED
    BY <1>5, <1>8, <2>1, <2>2
<1>9. ASSUME NEW i \in 1..n, fits, NEW k, k = Key(after[i])
      PROVE  IF k \in DOMAIN answer.NDiscovered
             THEN /\ answer.NDiscovered[k] = Cardinality(all(k))
                  /\ answer.NFiles[k] = FilesOf(rows, all(k))
             ELSE k \in lost \/ all(k) = {}
  <2>1. all(k) = group(k)
    BY <1>8, <1>9
  <2>2. DOMAIN answer.NDiscovered = keys
    BY <1>4
  <2>3. CASE k \in keys
    <3>1. answer.NDiscovered[k] = Cardinality(group(k)) /\ answer.NFiles[k] = FilesOf(rows, group(k))
      BY <1>4, <2>3
    <3> QED
      BY <2>1, <2>2, <2>3, <3>1
  <2>4. CASE k \notin keys
    <3>1. k \in lost \/ group(k) = {}
      BY <2>4
    <3> QED
      BY <2>1, <2>2, <2>4, <3>1
  <2> QED
    BY <2>3, <2>4
<1>10. \A k \in DOMAIN answer.NDiscovered : \E i \in 0..n : k = Key(after[i])
  BY <1>4, <1>7
<1> QED
  BY <1>9, <1>10 DEF CountsFollowing, n, after
=============================================================================
