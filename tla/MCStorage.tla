------------------------------ MODULE MCStorage ------------------------------
(* A small instance of Storage, with statistics over its torrents, for TLC. *)
EXTENDS Persistence

CONSTANTS h1, h2, h3

MCHash == {h1, h2, h3}
MCZeroSized == {h3}
MCBadName == {h3}
MCBadPath == {h2}

\* The ends of a year, of a leap February and of a February of 28 days in a
\* year that four divides.
MCInstants ==
    {Date(2015, 12, 31, 23, 3599), Date(2016, 1, 1, 0, 0), Date(2016, 2, 29, 12, 0),
     Date(2016, 3, 1, 0, 0), Date(2016, 3, 31, 23, 3599), Date(2100, 3, 1, 1, 0)}

YearAt(y) == [gran |-> "Year", year |-> y]
DayAt(y, m, d) == [gran |-> "Day", year |-> y, month |-> m, day |-> d, hour |-> 0]
HourAt(y, m, d, h) == [gran |-> "Hour", year |-> y, month |-> m, day |-> d, hour |-> h]

\* 1583, 29 February 2015 and n = 0 are refused; 3000000 hours become a negative
\* Duration, 5124096 hours one of 25 minutes.
MCRequests ==
    [from : {YearAt(2015)}, n : {<< >>}]
    \cup [from : {YearAt(1583), YearAt(2014), YearAt(2099)}, n : {<<2>>}]
    \cup [from : {DayAt(2015, 2, 29), DayAt(2015, 12, 30), DayAt(2016, 2, 27),
                  DayAt(2016, 2, 29), DayAt(2100, 2, 27)}, n : {<<2>>}]
    \cup [from : {HourAt(2015, 12, 31, 21), HourAt(2015, 12, 31, 24), HourAt(2016, 2, 29, 23),
                  HourAt(2100, 2, 28, 23)}, n : {<<2>>}]
    \cup [from : {HourAt(2015, 12, 31, 23)}, n : {<<0>>, <<3000000>>, <<5124096>>}]

MCPageN == {5, 24, 365}
=============================================================================
