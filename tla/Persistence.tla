---------------------------- MODULE Persistence ----------------------------
(***************************************************************************)
(* The statistics that magneticow computes, over the torrents that the     *)
(* processes of Storage have committed.  GetStatistics only reads, so what *)
(* it answers to a request is a function of the database.                  *)
(***************************************************************************)
EXTENDS Storage, Statistics

CONSTANTS Requests, \* dates and numbers of periods that clients ask for
          PageN     \* the n that statistics.html invites a user to choose

\* Torrents are added after 1970, at the time of the system's clock.
ASSUME PersistenceAssumption ==
    /\ \A t \in Instants : /\ t = [day |-> t.day, second |-> t.second]
                           /\ t.day \in Nat
                           /\ t.second \in Nat /\ t.second < SecondsPerDay
    /\ \A q \in Requests :
        q.from \in Dates /\ (q.n = << >> \/ q.n[1] \in Int)
    /\ \A n \in PageN : n \in Nat /\ 5 <= n /\ n <= 365

\* The periods in which torrents were discovered: the groups that may be lost when
\* the loop over the rows of GetStatistics ends early.
DiscoveredIn(gran) == {Period(gran, db.rows[h].discovered) : h \in DOMAIN db.rows}

\* apiStatistics, over SQLite (PostgreSQL's GetStatistics is not implemented):
\* for years, days and hours no period is mentioned but the one named and the n
\* after it, over the ends of years and leap days, whatever n, also one whose
\* hours overflow a Duration.  While they do not, every torrent of each of the n
\* periods is counted in its own period: a period is counted in full or, when
\* the loop over the rows ended early, not mentioned.
\* Hour 24 of a day names hour 0 of the next one.
\* (Not for months, whose last day is taken to be the 31st, nor for weeks.)
StatisticsCount ==
    engine = "sqlite3" =>
        \A q \in Requests : Valid(q.from, q.n) =>
            \A lost \in SUBSET DiscoveredIn(q.from.gran) :
                CountsFollowing(db.rows, q.from, q.n, lost)

\* statistics.js, load, over SQLite: the page's request, made when a torrent was
\* discovered, is accepted and covers that torrent: the n units counted back from
\* now reach up to now again, whatever the lengths of the months and years in
\* between.  The answer is one whose rows were read to the end.  5 and 365 are the
\* min and max of the page's input element; load itself does not hold n to them.
PageReachesNow ==
    engine = "sqlite3" =>
        \A h \in DOMAIN db.rows, unit \in {"Hour", "Day", "Month", "Year"}, n \in PageN :
            LET now == db.rows[h].discovered
            IN  Period(unit, now) \in
                    DOMAIN apiStatistics(db.rows, fromString(now, n, unit), <<n>>, {}).NDiscovered
=============================================================================
