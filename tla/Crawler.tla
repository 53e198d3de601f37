------------------------------ MODULE Crawler -------------------------------
(***************************************************************************)
(* What magneticod promises, without goroutines, channels and locks: a     *)
(* bounded set of torrents is being fetched; what has been fetched is      *)
(* pending until it is consumed; consuming a torrent stores it, or drops   *)
(* it when it is stored already or has no contents; nothing is stored that *)
(* was not fetched, and nothing stored is ever forgotten.  This is the     *)
(* promise over SQLite; over PostgreSQL more torrents are dropped, those   *)
(* with a name or a path that is not UTF-8.                                *)
(***************************************************************************)
EXTENDS Naturals, FiniteSets

CONSTANTS InfoHash, MaxNLeeches, ZeroSized

VARIABLES up, fetching, pending, stored

Start(h) ==
    /\ up /\ h \notin fetching /\ Cardinality(fetching) < MaxNLeeches
    /\ fetching' = fetching \cup {h}
    /\ UNCHANGED <<up, pending, stored>>

Fetch(h) ==
    /\ up /\ h \in fetching
    /\ pending' = pending \cup {h}
    /\ UNCHANGED <<up, fetching, stored>>

Release(h) ==
    /\ up /\ h \in fetching
    /\ fetching' = fetching \ {h}
    /\ UNCHANGED <<up, pending, stored>>

\* Another copy of h may be pending behind the one consumed.
Consume(h) ==
    /\ up /\ h \in pending
    /\ pending' \in {pending, pending \ {h}}
    /\ stored' = stored \cup ({h} \ ZeroSized)
    /\ UNCHANGED <<up, fetching>>

\* The process ends; what was pending is lost.
Stop ==
    /\ up /\ up' = FALSE
    /\ pending' = {}
    /\ UNCHANGED <<fetching, stored>>

Init == up = TRUE /\ fetching = {} /\ pending = {} /\ stored \subseteq InfoHash

Next == Stop \/ \E h \in InfoHash : Start(h) \/ Fetch(h) \/ Release(h) \/ Consume(h)

Spec == Init /\ [][Next]_<<up, fetching, pending, stored>>
=============================================================================
