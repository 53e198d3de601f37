------------------------------- MODULE Paging -------------------------------
(***************************************************************************)
(* Paging through torrents: a client keeps a cursor the way torrents.js    *)
(* does, apiTorrents passes it on, and QueryTorrents of sqlite3.go turns   *)
(* it into a condition on rows, while magneticod adds torrents.            *)
(* torrents.js itself asks for RELEVANCE ascending or DISCOVERED_ON        *)
(* descending with the default limit; other clients of the API choose.     *)
(*                                                                         *)
(* The torrents are those that match the page's query.  Ordering by        *)
(* N_FILES is like ordering by TOTAL_SIZE; N_SEEDERS and N_LEECHERS are    *)
(* like UPDATED_ON, by which orderOn cannot order.                         *)
(***************************************************************************)
EXTENDS Integers, Sequences, FiniteSets, SequencesExt

CONSTANTS
    Size, Rank,   \* values of total_size and of bm25()
    MaxTorrents,  \* bound on the number of torrents
    MaxTime,      \* bound on the clock, in seconds
    MaxLimit      \* bound on the torrents per page a client asks for

OrderBy == {"RELEVANCE", "TOTAL_SIZE", "DISCOVERED_ON", "UPDATED_ON"}
Start == [id |-> 0]  \* no lastID and no lastOrderedValue

ASSUME PagingAssumption ==
    /\ Size \subseteq Nat \ {0} /\ Rank \subseteq Int
    /\ MaxTorrents \in Nat /\ MaxTime \in Nat \ {0} /\ MaxLimit \in Nat \ {0}

VARIABLES
    torrents,  \* the rows; the id of a row is its index
    now,       \* the clock of the server
    view,      \* the page: orderBy, ascending, epoch, limit, its button
    cursor,    \* lastID and lastOrderedValue, or Start
    shown,     \* the ids of the torrents shown so far
    present,   \* history: how many torrents there were when the page was opened
    rowsFailed \* history: reading rows failed halfway

vars == <<torrents, now, view, cursor, shown, present, rowsFailed>>

Init ==
    /\ torrents = << >>
    /\ now = 1
    /\ view = [button |-> "closed"]
    /\ cursor = Start
    /\ shown = << >>
    /\ present = 0
    /\ rowsFailed = FALSE

(***************************************************************************)
(* The server's side.                                                      *)
(***************************************************************************)
\* AddNewTorrent, and the trigger that sets modified_on to discovered_on.  A
\* new row changes the statistics that bm25 ranks all rows by.
AddNewTorrent(size) ==
    /\ Len(torrents) < MaxTorrents
    /\ \E rank \in [1..(Len(torrents) + 1) -> Rank] :
          LET row == [size |-> size, discovered |-> now, rank |-> 0]
          IN  torrents' = [i \in 1..(Len(torrents) + 1) |->
                              [Append(torrents, row)[i] EXCEPT !.rank = rank[i]]]
    /\ UNCHANGED <<now, view, cursor, shown, present, rowsFailed>>

Clock ==
    /\ now < MaxTime /\ now' = now + 1
    /\ UNCHANGED <<torrents, view, cursor, shown, present, rowsFailed>>

orderOn(i) ==
    CASE view.orderBy = "RELEVANCE" -> torrents[i].rank
      [] view.orderBy = "TOTAL_SIZE" -> torrents[i].size
      [] view.orderBy = "DISCOVERED_ON" -> torrents[i].discovered

\* The row (v, i) comes before (w, j) in the order of the page.
Before(v, i, w, j) ==
    IF view.ascending THEN v < w \/ (v = w /\ i < j) ELSE v > w \/ (v = w /\ i > j)

\* Variant: the row that the cursor stands on is included.
BugPastCursor(i) == cursor.id = 0 \/ cursor.id = i \/ Before(cursor.value, cursor.id, orderOn(i), i)

\* Variant: the two columns are compared one by one.
BugPastCursorByColumn(i) ==
    \/ cursor.id = 0
    \/ IF view.ascending THEN orderOn(i) > cursor.value /\ i > cursor.id
                         ELSE orderOn(i) < cursor.value /\ i < cursor.id

PastCursor(i) == cursor.id = 0 \/ Before(cursor.value, cursor.id, orderOn(i), i)

Eligible(i) == torrents[i].discovered <= view.epoch

\* ORDER BY: the k-th row is the one that k - 1 rows come before.
Ahead(ids, i) == {j \in ids : Before(orderOn(j), j, orderOn(i), i)}
InOrder(ids) ==
    [k \in 1..Cardinality(ids) |-> CHOOSE i \in ids : Cardinality(Ahead(ids, i)) = k - 1]

\* The ids of the rows that the SELECT yields.
QueryTorrents ==
    LET ids == {i \in DOMAIN torrents : Eligible(i) /\ PastCursor(i)}
        n == Cardinality(ids)
    IN  SubSeq(InOrder(ids), 1, IF n < view.limit THEN n ELSE view.limit)

(***************************************************************************)
(* The page.  Its epoch comes from the clock of the browser.               *)
(***************************************************************************)
Onload(orderBy, ascending, epoch, limit) ==
    /\ view.button = "closed"
    /\ view' = [button |-> "loading", orderBy |-> orderBy, ascending |-> ascending,
                epoch |-> epoch, limit |-> limit]
    /\ present' = Len(torrents)
    /\ UNCHANGED <<torrents, now, cursor, shown, rowsFailed>>

\* The button is disabled whilst loading.
Load ==
    /\ view.button = "ready"
    /\ view' = [view EXCEPT !.button = "loading"]
    /\ UNCHANGED <<torrents, now, cursor, shown, present, rowsFailed>>

\* Variant: the cursor stays on the first torrent of the page.
BugCursorOf(page) == [id |-> page[1], value |-> orderOn(page[1])]

CursorOf(page) == [id |-> Last(page), value |-> orderOn(Last(page))]

\* An empty page ends the list; any other moves the cursor.
Show(page) ==
    IF page = << >>
    THEN view' = [view EXCEPT !.button = "no more"] /\ UNCHANGED <<cursor, shown>>
    ELSE /\ view' = [view EXCEPT !.button = "ready"]
         /\ cursor' = CursorOf(page)
         /\ shown' = shown \o page

Respond ==
    /\ view.button = "loading" /\ view.orderBy # "UPDATED_ON"
    /\ Show(QueryTorrents)
    /\ UNCHANGED <<torrents, now, present, rowsFailed>>

\* rows.Next fails: the rows read so far are returned, and no error.
RespondPartly ==
    /\ view.button = "loading" /\ view.orderBy # "UPDATED_ON"
    /\ \E n \in 0..(Len(QueryTorrents) - 1) : Show(SubSeq(QueryTorrents, 1, n))
    /\ rowsFailed' = TRUE
    /\ UNCHANGED <<torrents, now, present>>

\* An error, or a panic (closing rows that are nil, or in orderOn): the page
\* alerts and the cursor stays.
RespondError ==
    /\ view.button = "loading"
    /\ view' = [view EXCEPT !.button = "ready"]
    /\ UNCHANGED <<torrents, now, cursor, shown, present, rowsFailed>>

-----------------------------------------------------------------------------
Next ==
    \/ \E s \in Size : AddNewTorrent(s)
    \/ Clock
    \/ \E o \in OrderBy, a \in BOOLEAN, e \in 1..MaxTime, l \in 1..MaxLimit : Onload(o, a, e, l)
    \/ Load \/ Respond \/ RespondPartly \/ RespondError

Spec == Init /\ [][Next]_vars

-----------------------------------------------------------------------------
\* Every variable has its type, and the cursor stands on the last torrent shown.
TypeOK ==
    /\ torrents \in Seq([size : Size, discovered : 1..MaxTime, rank : Rank])
    /\ now \in 1..MaxTime
    /\ view.button \in {"closed", "loading", "ready", "no more"}
    /\ shown \in Seq(DOMAIN torrents)
    /\ cursor.id = IF shown = << >> THEN 0 ELSE Last(shown)
    /\ present \in 0..Len(torrents)
    /\ rowsFailed \in BOOLEAN

\* Rows have a fixed place in the order, if it is by relevance only as long as
\* none is added.
Stable ==
    /\ view.button # "closed"
    /\ view.orderBy = "RELEVANCE" => Len(torrents) = present
    /\ view.orderBy # "UPDATED_ON"

\* Over all pages, and whatever is added meanwhile, torrents are shown in
\* strictly the order asked for; in particular none is shown twice.
ShownInOrder ==
    Stable => \A i, j \in DOMAIN shown : i < j =>
        Before(orderOn(shown[i]), shown[i], orderOn(shown[j]), shown[j])

\* A torrent that was there when the page was opened, and that the cursor has
\* passed, was shown: equal values at the end of a page, additions and pages
\* cut short do not make it disappear.
NothingSkipped ==
    Stable /\ cursor.id # 0 =>
        \A i \in 1..present :
            Eligible(i) /\ ~Before(cursor.value, cursor.id, orderOn(i), i)
                => \E k \in DOMAIN shown : shown[k] = i

\* "No More Results" is said when all torrents that were there when the page was
\* opened have been shown, unless reading rows failed, which QueryTorrents does
\* not report.
EndIsEnd ==
    Stable /\ view.button = "no more" /\ ~rowsFailed =>
        \A i \in 1..present : Eligible(i) => \E k \in DOMAIN shown : shown[k] = i
=============================================================================
