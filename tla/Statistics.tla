----------------------------- MODULE Statistics -----------------------------
(***************************************************************************)
(* Statistics of the torrents discovered: ParseISO8601 of iso8601.go,      *)
(* GetStatistics of sqlite3.go, apiStatistics of magneticow and the        *)
(* request that the page statistics.js makes.                              *)
(*                                                                         *)
(* An instant is a day, counted from 1970-01-01, and a second of that day  *)
(* (UTC).  A date in a request is the numbers that the regular expression  *)
(* of its format picks out of the string; the format is its granularity.   *)
(* The sizes summed per period are summed like the files.                  *)
(***************************************************************************)
EXTENDS Integers, FiniteSets, FiniteSetsExt

Granularity == {"Year", "Month", "Week", "Day", "Hour"}
SecondsPerDay == 86400

-----------------------------------------------------------------------------
(* Go's package time, as far as it is used here.                           *)

\* Years begin in March here, so that a leap day is the last of its year.  The
\* days before year y of an era of 400 years, the year of day doe of an era, and
\* the days of a year before its month mm.
StartOf(y) == 365 * y + y \div 4 - y \div 100
YearOf(doe) == (doe - doe \div 1460 + doe \div 36524 - doe \div 146096) \div 365
Gone(mm) == (153 * mm + 2) \div 5

\* The day of a date.  Months count on past December; days may be any number.
DayNumber(year, month, day) ==
    LET y == year + (month - 1) \div 12
        m == ((month - 1) % 12) + 1
        yy == IF m <= 2 THEN y - 1 ELSE y
        mm == IF m <= 2 THEN m + 9 ELSE m - 3
    IN  StartOf(yy) + yy \div 400 + Gone(mm) + day - 719469

\* time.Date, with its normalisation of an hour past the end of the day.
Date(year, month, day, hour, rest) ==
    LET s == hour * 3600 + rest
    IN  [day |-> DayNumber(year, month, day) + s \div SecondsPerDay,
         second |-> s % SecondsPerDay]

\* The calendar fields of an instant.
Fields(t) ==
    LET z == t.day + 719468
        era == z \div 146097
        doe == z % 146097
        yoe == YearOf(doe)
        doy == doe - StartOf(yoe)
        mp == (5 * doy + 2) \div 153
        month == IF mp < 10 THEN mp + 3 ELSE mp - 9
    IN  [year  |-> yoe + era * 400 + (IF month <= 2 THEN 1 ELSE 0),
         month |-> month,
         day   |-> doy - Gone(mp) + 1,
         hour  |-> t.second \div 3600]

AddDate(t, years, months, days) ==
    LET f == Fields(t)
    IN  [t EXCEPT !.day = DayNumber(f.year + years, f.month + months, f.day + days)]

\* A Duration is an int64 of nanoseconds: n hours fit it up to MaxHours, and
\* HalfTurn(m) is the whole hours in m * 2^63 nanoseconds, m <= 837 (a larger m is
\* more than 32 bits of hours).  The product
\* time.Duration(n) * time.Hour is 2^64 nanoseconds short for every turn of n.
MaxHours == 2562047
HalfTurn(m) == MaxHours * m + (788015 * m) \div 1000000
Turns(n) == Cardinality({k \in 1..(n \div MaxHours) : n > HalfTurn(2 * k - 1)})

\* The whole seconds of t.Add(time.Duration(n) * time.Hour): 2^64 nanoseconds are
\* 213503 days and 84873 1385843/1953125 seconds.
AddHours(t, n) ==
    LET hours == t.second \div 3600 + n
        k == Turns(n)
        s == (hours % 24) * 3600 + (t.second % 3600)
                - (84873 * k - (-1385843 * k) \div 1953125)
    IN  [day |-> t.day + hours \div 24 - 213503 * k + s \div SecondsPerDay,
         second |-> s % SecondsPerDay]

Before(t, u) == t.day < u.day \/ (t.day = u.day /\ t.second < u.second)

-----------------------------------------------------------------------------
(* iso8601.go                                                              *)

isLeap(year) == year % 4 = 0 /\ (year % 100 # 0 \/ year % 400 = 0)

daysOfMonth(month, year) ==
    CASE month = 2 -> IF isLeap(year) THEN 29 ELSE 28
      [] month \in {4, 6, 9, 11} -> 30
      [] OTHER -> 31

parseYear(s)  == s.year > 1583
parseMonth(s) == s.month \in 1..12
parseWeek(s)  == s.week \in 1..53
parseDay(s)   == s.day \in 1..daysOfMonth(s.month, s.year)
parseHour(s)  == s.hour \in 0..24

Accepted(s) ==
    /\ parseYear(s)
    /\ s.gran \in {"Month", "Day", "Hour"} => parseMonth(s)
    /\ s.gran = "Week" => parseWeek(s)
    /\ s.gran \in {"Day", "Hour"} => parseDay(s)
    /\ s.gran = "Hour" => parseHour(s)

\* Variant: the first second of the day or hour instead of its last
BugEndOf(s) ==
    CASE s.gran = "Year"  -> Date(s.year, 12, 31, 0, 0)
      [] s.gran = "Month" -> Date(s.year, s.month, 31, 0, 0)
      [] s.gran = "Week"  -> Date(s.year, 1, s.week * 7, 0, 0)
      [] s.gran = "Day"   -> Date(s.year, s.month, s.day, 0, 0)
      [] s.gran = "Hour"  -> Date(s.year, s.month, s.day, s.hour, 0)

\* The instant that ParseISO8601 returns: the last second of the period.  A
\* month is taken to have 31 days, a week to be seven days of the year.
EndOf(s) ==
    CASE s.gran = "Year"  -> Date(s.year, 12, daysOfMonth(12, s.year), 23, 3599)
      [] s.gran = "Month" -> Date(s.year, s.month, 31, 23, 3599)
      [] s.gran = "Week"  -> Date(s.year, 1, s.week * 7, 23, 3599)
      [] s.gran = "Day"   -> Date(s.year, s.month, s.day, 23, 3599)
      [] s.gran = "Hour"  -> Date(s.year, s.month, s.day, s.hour, 3599)

-----------------------------------------------------------------------------
(* GetStatistics                                                           *)

ToTime(s, n) ==
    LET t == EndOf(s)
    IN  CASE s.gran = "Year"  -> AddDate(t, n, 0, 0)
          [] s.gran = "Month" -> AddDate(t, 0, n, 0)
          [] s.gran = "Week"  -> AddDate(t, 0, 0, 7 * n)
          [] s.gran = "Day"   -> AddDate(t, 0, 0, n)
          [] s.gran = "Hour"  -> AddHours(t, n)

\* strftime: the period of an instant, as the key of a group.  Weeks begin on
\* Monday, and the days before the first one are week 0.
Period(gran, t) ==
    LET f == Fields(t)
    IN  CASE gran = "Year"  -> <<f.year>>
          [] gran = "Month" -> <<f.year, f.month>>
          [] gran = "Week"  -> <<f.year, (t.day - DayNumber(f.year, 1, 1) + 7 - ((t.day + 3) % 7)) \div 7>>
          [] gran = "Day"   -> <<f.year, f.month, f.day>>
          [] gran = "Hour"  -> <<f.year, f.month, f.day, f.hour>>

FilesOf(rows, H) == MapThenSumSet(LAMBDA h : rows[h].files, H)

\* The torrents with files between the two instants, grouped by their periods.
\* The loop over the groups ends at an error as it does at the last of them, and
\* rows.Err() is not asked: `lost' are the periods that were not read.
GetStatistics(rows, s, n, lost) ==
    LET fromTime == EndOf(s)
        toTime == ToTime(s, n)
        chosen == {h \in DOMAIN rows : /\ rows[h].files > 0
                                       /\ ~Before(rows[h].discovered, fromTime)
                                       /\ ~Before(toTime, rows[h].discovered)}
        period(h) == Period(s.gran, rows[h].discovered)
        group(k) == {h \in chosen : period(h) = k}
        keys == {period(h) : h \in chosen} \ lost
    IN  [NDiscovered |-> [k \in keys |-> Cardinality(group(k))],
         NFiles |-> [k \in keys |-> FilesOf(rows, group(k))]]

\* apiStatistics: the parameter n may be missing (nStr is empty), and has to be
\* positive, and fit 32 bits, when it is there.  A bad request is answered
\* without statistics.
MaxInt32 == 2147483647
Valid(s, nStr) == Accepted(s) /\ (nStr # << >> => nStr[1] > 0 /\ nStr[1] <= MaxInt32)
Periods(nStr) == IF nStr = << >> THEN 0 ELSE nStr[1]

apiStatistics(rows, s, nStr, lost) ==
    IF Valid(s, nStr)
    THEN GetStatistics(rows, s, Periods(nStr), lost)
    ELSE [NDiscovered |-> << >>, NFiles |-> << >>]

\* Variant: a year of 366 days
Bugunit2days(unit) ==
    CASE unit = "Day" -> 1 [] unit = "Week" -> 7 [] unit = "Month" -> 30 [] unit = "Year" -> 366
unit2days(unit) ==
    CASE unit = "Day" -> 1 [] unit = "Week" -> 7 [] unit = "Month" -> 30 [] unit = "Year" -> 365

\* statistics.js: the date that the page asks from, n units before now.
fromString(now, n, unit) ==
    LET hours == now.day * 24 + now.second \div 3600 - n
        from == IF unit = "Hour"
                THEN [day |-> hours \div 24, second |-> (hours % 24) * 3600]
                ELSE [now EXCEPT !.day = @ - n * unit2days(unit)]
        f == Fields(from)
    IN  [gran |-> unit, year |-> f.year, month |-> f.month, day |-> f.day, hour |-> f.hour]

-----------------------------------------------------------------------------
(* What the numbers should be.                                             *)

\* The years, days and hours that a request may name; a number is its digits.
Dates ==
    [gran : {"Year"}, year : Nat]
        \cup [gran : {"Day", "Hour"}, year : Nat, month : Nat, day : Nat, hour : Nat]

\* The hour, day or year after another one, by the lengths of the months that
\* dates in requests are held against.
Following(s) ==
    CASE s.gran = "Year" -> [s EXCEPT !.year = @ + 1]
      [] s.gran = "Hour" /\ s.hour < 23 -> [s EXCEPT !.hour = @ + 1]
      [] OTHER ->
            LET d == [s EXCEPT !.hour = 0]
            IN  CASE s.day < daysOfMonth(s.month, s.year) -> [d EXCEPT !.day = @ + 1]
                  [] s.day = daysOfMonth(s.month, s.year) /\ s.month < 12 ->
                        [d EXCEPT !.day = 1, !.month = @ + 1]
                  [] OTHER -> [d EXCEPT !.day = 1, !.month = 1, !.year = @ + 1]

\* Hour 24 of a day, which is accepted, is hour 0 of the next day.
Named(s) == IF s.gran = "Hour" /\ s.hour = 24 THEN Following(s) ELSE s

Key(s) ==
    CASE s.gran = "Year" -> <<s.year>>
      [] s.gran = "Day"  -> <<s.year, s.month, s.day>>
      [] s.gran = "Hour" -> <<s.year, s.month, s.day, s.hour>>

\* The period that a date names and the n periods after it.
After(s, n) ==
    LET after[i \in 0..n] == IF i = 0 THEN Named(s) ELSE Following(after[i - 1])
    IN  after

\* The answer to a request for n years, days or hours mentions no period but the
\* one named and the n after it.  As long as n hours fit a Duration, it counts
\* all the torrents of each of the n periods after the one named, with all their
\* files; a period that it leaves out has no torrents, or was not read.
CountsFollowing(rows, s, nStr, lost) ==
    LET answer == apiStatistics(rows, s, nStr, lost)
        n == Periods(nStr)
        after == After(s, n)
        all(k) == {h \in DOMAIN rows : Period(s.gran, rows[h].discovered) = k}
    IN  /\ \A k \in DOMAIN answer.NDiscovered : \E i \in 0..n : k = Key(after[i])
        /\ (s.gran = "Hour" => n <= MaxHours) =>
            \A i \in 1..n :
                LET k == Key(after[i])
                IN  IF k \in DOMAIN answer.NDiscovered
                    THEN /\ answer.NDiscovered[k] = Cardinality(all(k))
                         /\ answer.NFiles[k] = FilesOf(rows, all(k))
                    ELSE k \in lost \/ all(k) = {}
=============================================================================
