---------------------------- MODULE PagingProofs ----------------------------
(***************************************************************************)
(* Proofs about Paging: torrents are shown in order, none is skipped, and  *)
(* the end is the end, for any number of torrents, values, times and       *)
(* limits.                                                                 *)
(***************************************************************************)
EXTENDS Paging, FiniteSetTheorems, TLAPS

(***************************************************************************)
(* The order of rows.                                                      *)
(***************************************************************************)
Precedes(i, j) == Before(orderOn(i), i, orderOn(j), j)

Comparable(ids) == ids \subseteq Int /\ \A i \in ids : orderOn(i) \in Int

\* The id breaks ties: the order of rows is strict and total.
LEMMA StrictTotalOrder ==
    ASSUME NEW ids, Comparable(ids)
    PROVE  /\ \A i \in ids : ~Precedes(i, i)
           /\ \A i, j \in ids : i = j \/ Precedes(i, j) \/ Precedes(j, i)
           /\ \A i, j, k \in ids : Precedes(i, j) /\ Precedes(j, k) => Precedes(i, k)
  BY DEF Comparable, Precedes, Before

\* A row has fewer rows ahead of it than a row that it precedes, and than there
\* are rows.
LEMMA AheadCounts ==
    ASSUME NEW ids, Comparable(ids), IsFiniteSet(ids)
    PROVE  /\ \A i \in ids : Cardinality(Ahead(ids, i)) \in 0..(Cardinality(ids) - 1)
           /\ \A i, j \in ids : Precedes(i, j) =>
                 Cardinality(Ahead(ids, i)) < Cardinality(Ahead(ids, j))
<1>1. \A i, j \in ids : j \in Ahead(ids, i) <=> Precedes(j, i)
  BY DEF Ahead, Precedes
<1>2. Cardinality(ids) \in Nat
  BY FS_CardinalityType
<1>3. ASSUME NEW S \in SUBSET ids
      PROVE  IsFiniteSet(S) /\ Cardinality(S) \in Nat
  BY <1>3, FS_Subset, FS_CardinalityType
<1>4. \A i \in ids : Ahead(ids, i) \in SUBSET ids
  BY DEF Ahead
<1>5. ASSUME NEW i \in ids
      PROVE  Cardinality(Ahead(ids, i)) \in 0..(Cardinality(ids) - 1)
  <2>1. i \notin Ahead(ids, i)
    BY <1>1, StrictTotalOrder
  <2>2. Cardinality(Ahead(ids, i)) <= Cardinality(ids) /\ Cardinality(Ahead(ids, i)) # Cardinality(ids)
    BY <1>4, <2>1, FS_Subset
  <2> QED
    BY <1>2, <1>3, <1>4, <2>2
<1>6. ASSUME NEW i \in ids, NEW j \in ids, Precedes(i, j)
      PROVE  Cardinality(Ahead(ids, i)) < Cardinality(Ahead(ids, j))
  <2>1. \A k \in ids : Precedes(k, i) => Precedes(k, j)
    BY <1>6, StrictTotalOrder
  <2>2. Ahead(ids, i) \in SUBSET Ahead(ids, j)
    BY <1>1, <1>4, <2>1
  <2>3. i \in Ahead(ids, j) /\ i \notin Ahead(ids, i)
    BY <1>1, <1>6, StrictTotalOrder
  <2>4. /\ Cardinality(Ahead(ids, i)) <= Cardinality(Ahead(ids, j))
        /\ Cardinality(Ahead(ids, i)) # Cardinality(Ahead(ids, j))
    BY <1>3, <1>4, <2>2, <2>3, FS_Subset
  <2> QED
    BY <1>3, <1>4, <2>4
<1> QED
  BY <1>5, <1>6

\* InOrder lists every row once, each row before those that it precedes: as many
\* rows as places have different numbers of rows ahead, so each place has one.
LEMMA InOrderSorts ==
    ASSUME NEW ids, Comparable(ids), IsFiniteSet(ids)
    PROVE  /\ InOrder(ids) \in Seq(ids) /\ Len(InOrder(ids)) = Cardinality(ids)
           /\ \A k \in 1..Cardinality(ids) : Cardinality(Ahead(ids, InOrder(ids)[k])) = k - 1
           /\ \A i \in ids : /\ Cardinality(Ahead(ids, i)) + 1 \in 1..Cardinality(ids)
                             /\ InOrder(ids)[Cardinality(Ahead(ids, i)) + 1] = i
           /\ \A k, l \in 1..Cardinality(ids) : k < l => Precedes(InOrder(ids)[k], InOrder(ids)[l])
<1> DEFINE n == Cardinality(ids)
           rank == [i \in ids |-> Cardinality(Ahead(ids, i))]
<1>1. n \in Nat
  BY FS_CardinalityType
<1>2. \A i, j \in ids : Cardinality(Ahead(ids, i)) = Cardinality(Ahead(ids, j)) => i = j
  <2>1. ASSUME NEW i \in ids, NEW j \in ids,
               Cardinality(Ahead(ids, i)) = Cardinality(Ahead(ids, j)), i # j
        PROVE  FALSE
    <3>1. Precedes(i, j) \/ Precedes(j, i)
      BY <2>1, StrictTotalOrder
    <3>2. /\ Cardinality(Ahead(ids, i)) \in Int
          /\ \/ Cardinality(Ahead(ids, i)) < Cardinality(Ahead(ids, j))
             \/ Cardinality(Ahead(ids, j)) < Cardinality(Ahead(ids, i))
      BY <3>1, AheadCounts
    <3> QED
      BY <2>1, <3>2
  <2> QED
    BY <2>1
<1>3. \A k \in 0..(n - 1) : \E i \in ids : Cardinality(Ahead(ids, i)) = k
  <2>1. rank \in [ids -> 0..(n - 1)]
    BY AheadCounts
  <2>2. rank \in Injection(ids, 0..(n - 1))
    BY <1>2, <2>1 DEF Injection, IsInjective
  <2>3. IsFiniteSet(0..(n - 1)) /\ Cardinality(0..(n - 1)) = n
    <3>1. 0 \in Int /\ n - 1 \in Int
      BY <1>1
    <3>2. /\ IsFiniteSet(0..(n - 1))
          /\ Cardinality(0..(n - 1)) = IF 0 > n - 1 THEN 0 ELSE (n - 1) - 0 + 1
      BY <3>1, FS_Interval
    <3> QED
      BY <1>1, <3>2
  <2>4. rank \in Surjection(ids, 0..(n - 1))
    BY <2>2, <2>3, FS_Injection
  <2> QED
    BY <2>4 DEF Surjection
<1>4. ASSUME NEW k \in 1..n
      PROVE  InOrder(ids)[k] \in ids /\ Cardinality(Ahead(ids, InOrder(ids)[k])) = k - 1
  <2>1. k - 1 \in 0..(n - 1)
    BY <1>1
  <2>2. \E i \in ids : Cardinality(Ahead(ids, i)) = k - 1
    BY <1>3, <2>1
  <2>3. InOrder(ids)[k] = CHOOSE i \in ids : Cardinality(Ahead(ids, i)) = k - 1
    BY DEF InOrder
  <2> QED
    BY <2>2, <2>3
<1>5. InOrder(ids) \in Seq(ids) /\ Len(InOrder(ids)) = n
  <2>1. InOrder(ids) \in [1..n -> ids]
    BY <1>4 DEF InOrder
  <2> QED
    BY <1>1, <2>1
<1>6. ASSUME NEW i \in ids
      PROVE  /\ Cardinality(Ahead(ids, i)) + 1 \in 1..n
             /\ InOrder(ids)[Cardinality(Ahead(ids, i)) + 1] = i
  <2>1. Cardinality(Ahead(ids, i)) \in 0..(n - 1)
    BY AheadCounts
  <2>2. PICK k \in 1..n : k = Cardinality(Ahead(ids, i)) + 1
    BY <1>1, <2>1
  <2>3. Cardinality(Ahead(ids, InOrder(ids)[k])) = Cardinality(Ahead(ids, i))
    BY <1>1, <1>4, <2>1, <2>2
  <2> QED
    BY <1>2, <1>4, <2>2, <2>3
<1>7. ASSUME NEW k \in 1..n, NEW l \in 1..n, k < l
      PROVE  Precedes(InOrder(ids)[k], InOrder(ids)[l])
  <2>1. PICK i \in ids : i = InOrder(ids)[k] /\ Cardinality(Ahead(ids, i)) = k - 1
    BY <1>4
  <2>2. PICK j \in ids : j = InOrder(ids)[l] /\ Cardinality(Ahead(ids, j)) = l - 1
    BY <1>4
  <2>3. ~Precedes(j, i) /\ i # j
    <3>1. Precedes(j, i) => Cardinality(Ahead(ids, j)) < Cardinality(Ahead(ids, i))
      BY AheadCounts
    <3> QED
      BY <1>1, <1>7, <2>1, <2>2, <3>1
  <2> QED
    BY <2>1, <2>2, <2>3, StrictTotalOrder
<1> QED
  BY <1>4, <1>5, <1>6, <1>7

-----------------------------------------------------------------------------
(***************************************************************************)
(* The inductive invariant.  The properties of a page are not inductive    *)
(* alone: nothing is on a page that is closed, and as long as the order    *)
(* holds still, the value kept in the cursor is that of its row.           *)
(***************************************************************************)
Row == [size : Size, discovered : 1..MaxTime, rank : Rank]
View == [button : {"loading", "ready", "no more"}, orderBy : OrderBy,
         ascending : BOOLEAN, epoch : 1..MaxTime, limit : 1..MaxLimit]

ViewInv ==
    \/ /\ view = [button |-> "closed"]
       /\ cursor = Start /\ shown = << >> /\ present = 0
    \/ view \in View

CursorInv == Stable /\ cursor.id # 0 => cursor.value = orderOn(cursor.id)

PageInv == CursorInv /\ ShownInOrder /\ NothingSkipped

PagingInv == TypeOK /\ ViewInv /\ PageInv /\ EndIsEnd

LEMMA Shapes ==
    ASSUME TypeOK
    PROVE  /\ torrents \in Seq(Row) /\ Len(torrents) \in Nat /\ DOMAIN torrents = 1..Len(torrents)
           /\ shown \in Seq(DOMAIN torrents) /\ Len(shown) \in Nat /\ DOMAIN shown = 1..Len(shown)
           /\ present \in 0..Len(torrents)
           /\ shown = << >> => cursor.id = 0
           /\ shown # << >> => /\ Len(shown) \in 1..Len(shown) /\ cursor.id = shown[Len(shown)]
                              /\ cursor.id \in DOMAIN torrents /\ cursor.id # 0
<1>1. torrents \in Seq(Row) /\ shown \in Seq(DOMAIN torrents) /\ present \in 0..Len(torrents)
  BY DEF TypeOK, Row
<1>2. cursor.id = IF shown = << >> THEN 0 ELSE shown[Len(shown)]
  BY DEF TypeOK, Last
<1>3. Len(torrents) \in Nat /\ DOMAIN torrents = 1..Len(torrents)
  BY <1>1
<1>4. Len(shown) \in Nat /\ DOMAIN shown = 1..Len(shown) /\ (shown # << >> => Len(shown) > 0)
  BY <1>1
<1>5. shown # << >> => Len(shown) \in 1..Len(shown)
  BY <1>4
<1>6. shown # << >> => shown[Len(shown)] \in DOMAIN torrents
  BY <1>1, <1>4, <1>5
<1> QED
  BY <1>1, <1>2, <1>3, <1>4, <1>5, <1>6

\* Every column that can be ordered by holds integers.
LEMMA RowsComparable ==
    ASSUME TypeOK, view \in View, view.orderBy # "UPDATED_ON", NEW ids \in SUBSET DOMAIN torrents
    PROVE  Comparable(ids) /\ IsFiniteSet(ids)
<1>1. torrents \in Seq(Row) /\ DOMAIN torrents = 1..Len(torrents) /\ Len(torrents) \in Nat
  BY Shapes
<1>2. \A i \in ids : torrents[i] \in Row
  BY <1>1
<1>3. \A i \in ids : torrents[i].rank \in Int /\ torrents[i].size \in Int /\ torrents[i].discovered \in Int
  <2>1. ASSUME NEW r \in Row
        PROVE  r.rank \in Rank /\ r.size \in Size /\ r.discovered \in 1..MaxTime
    BY DEF Row
  <2>2. Rank \subseteq Int /\ Size \subseteq Int /\ 1..MaxTime \subseteq Int
    BY PagingAssumption
  <2> QED
    BY <1>2, <2>1, <2>2
<1>4. view.orderBy \in {"RELEVANCE", "TOTAL_SIZE", "DISCOVERED_ON"}
  BY DEF View, OrderBy
<1>5. \A i \in ids : orderOn(i) \in Int
  BY <1>3, <1>4 DEF orderOn
<1>6. IsFiniteSet(1..Len(torrents))
  BY <1>1, FS_Interval
<1>7. IsFiniteSet(ids)
  BY <1>1, <1>6, FS_Subset
<1> QED
  BY <1>1, <1>5, <1>7 DEF Comparable

\* A step that leaves cursor and page alone, and the order if it holds still
\* after it, keeps what is said of the page.
LEMMA PageKept ==
    ASSUME TypeOK, PageInv, UNCHANGED <<cursor, shown, present>>,
           Stable' => /\ Stable /\ view'.ascending = view.ascending
                      /\ \A i \in DOMAIN torrents : orderOn(i)' = orderOn(i) /\ Eligible(i)' = Eligible(i)
    PROVE  PageInv'
<1> SUFFICES ASSUME Stable' PROVE PageInv'
  BY DEF PageInv, CursorInv, ShownInOrder, NothingSkipped
<1>1. /\ Stable /\ view'.ascending = view.ascending
      /\ \A i \in DOMAIN torrents : orderOn(i)' = orderOn(i) /\ Eligible(i)' = Eligible(i)
  OBVIOUS
<1>2. /\ \A k \in DOMAIN shown : shown[k] \in DOMAIN torrents
      /\ cursor.id # 0 => cursor.id \in DOMAIN torrents
      /\ \A i \in 1..present : i \in DOMAIN torrents
  BY Shapes
<1>3. CursorInv'
  BY <1>1, <1>2 DEF PageInv, CursorInv
<1>4. ShownInOrder'
  BY <1>1, <1>2 DEF PageInv, ShownInOrder, Before
<1>5. NothingSkipped'
  BY <1>1, <1>2 DEF PageInv, NothingSkipped, Before
<1> QED
  BY <1>3, <1>4, <1>5 DEF PageInv

(***************************************************************************)
(* A response: the first m of the rows that are past the cursor.           *)
(***************************************************************************)
Rest == {i \in DOMAIN torrents : Eligible(i) /\ PastCursor(i)}
FirstOf(m) == SubSeq(InOrder(Rest), 1, m)

LEMMA PageContents ==
    ASSUME TypeOK, view \in View, view.orderBy # "UPDATED_ON", NEW m \in 0..Cardinality(Rest)
    PROVE  /\ FirstOf(m) \in Seq(Rest) /\ Len(FirstOf(m)) = m
           /\ \A k \in 1..m : FirstOf(m)[k] = InOrder(Rest)[k] /\ k \in 1..Cardinality(Rest)
<1>1. Comparable(Rest) /\ IsFiniteSet(Rest)
  BY RowsComparable DEF Rest
<1>2. InOrder(Rest) \in Seq(Rest) /\ Len(InOrder(Rest)) = Cardinality(Rest) /\ Cardinality(Rest) \in Nat
  BY <1>1, InOrderSorts, FS_CardinalityType
<1>3. ASSUME NEW s \in Seq(Rest), Len(s) = Cardinality(Rest)
      PROVE  /\ SubSeq(s, 1, m) \in Seq(Rest) /\ Len(SubSeq(s, 1, m)) = m
             /\ \A k \in 1..m : SubSeq(s, 1, m)[k] = s[k] /\ k \in 1..Cardinality(Rest)
  BY <1>2, <1>3
<1> QED
  BY <1>2, <1>3 DEF FirstOf

\* What a query yields is such a page; it is empty only when nothing is left.
LEMMA QueryIsPage ==
    ASSUME TypeOK, view \in View, view.orderBy # "UPDATED_ON"
    PROVE  \E m \in 0..Cardinality(Rest) : QueryTorrents = FirstOf(m) /\ (m = 0 => Rest = {})
<1>1. IsFiniteSet(Rest)
  BY RowsComparable DEF Rest
<1>2. Cardinality(Rest) \in Nat /\ (Cardinality(Rest) = 0 => Rest = {})
  BY <1>1, FS_CardinalityType, FS_EmptySet
<1> DEFINE m == IF Cardinality(Rest) < view.limit THEN Cardinality(Rest) ELSE view.limit
<1>3. view.limit \in 1..MaxLimit
  BY DEF View
<1>4. m \in 0..Cardinality(Rest) /\ (m = 0 => Cardinality(Rest) = 0)
  BY <1>2, <1>3
<1>5. QueryTorrents = FirstOf(m)
  BY DEF QueryTorrents, FirstOf, Rest
<1> QED
  BY <1>2, <1>4, <1>5

\* Rows, values and order are the same after a response.
LEMMA SameRows ==
    ASSUME torrents' = torrents, view'.orderBy = view.orderBy, view'.epoch = view.epoch, NEW i
    PROVE  orderOn(i)' = orderOn(i) /\ Eligible(i)' = Eligible(i)
  BY DEF orderOn, Eligible

\* An empty page: what was there when the page was opened and is not past the
\* cursor has been shown, and nothing else is left.
LEMMA ShowNothing ==
    ASSUME PagingInv, view.button = "loading", Show(<< >>),
           UNCHANGED <<torrents, now, present>>, rowsFailed' \in BOOLEAN, Rest = {} \/ rowsFailed'
    PROVE  PagingInv'
<1>1. TypeOK /\ view \in View /\ PageInv
  BY DEF PagingInv, ViewInv
<1>2. view' = [view EXCEPT !.button = "no more"] /\ UNCHANGED <<cursor, shown>>
  BY DEF Show
<1>3. /\ view' \in View /\ view'.button = "no more" /\ view'.orderBy = view.orderBy
      /\ view'.ascending = view.ascending /\ view'.epoch = view.epoch
  BY <1>1, <1>2 DEF View
<1>4. \A i : orderOn(i)' = orderOn(i) /\ Eligible(i)' = Eligible(i)
  BY <1>3, SameRows
<1>5. Stable' => Stable
  BY <1>3 DEF Stable
<1>6. PageInv'
  BY <1>1, <1>2, <1>3, <1>4, <1>5, PageKept
<1>7. TypeOK'
  BY <1>1, <1>2, <1>3 DEF TypeOK
<1>8. ASSUME Stable', ~rowsFailed', NEW i \in 1..present, Eligible(i)
      PROVE  \E k \in DOMAIN shown : shown[k] = i
  <2>1. i \in DOMAIN torrents
    BY <1>1, Shapes
  <2>2. ~PastCursor(i)
    BY <1>8, <2>1 DEF Rest
  <2>3. cursor.id # 0 /\ ~Before(cursor.value, cursor.id, orderOn(i), i)
    BY <2>2 DEF PastCursor
  <2> QED
    BY <1>1, <1>5, <1>8, <2>3 DEF PageInv, NothingSkipped
<1>9. EndIsEnd'
  BY <1>2, <1>4, <1>8 DEF EndIsEnd
<1> QED
  BY <1>3, <1>6, <1>7, <1>9 DEF PagingInv, ViewInv

\* Another page: its rows come after the cursor, hence after all that is shown,
\* and up to the new cursor none is left out.
LEMMA ShowMore ==
    ASSUME PagingInv, view.button = "loading", view.orderBy # "UPDATED_ON",
           NEW m \in 1..Cardinality(Rest), Show(FirstOf(m)),
           UNCHANGED <<torrents, now, present>>, rowsFailed' \in BOOLEAN
    PROVE  PagingInv'
<1> DEFINE page == FirstOf(m)
           a == Len(shown)
<1>1. TypeOK /\ view \in View /\ PageInv
  BY DEF PagingInv, ViewInv
<1>2. Comparable(Rest) /\ IsFiniteSet(Rest) /\ Cardinality(Rest) \in Nat
  BY <1>1, RowsComparable, FS_CardinalityType DEF Rest
<1>3. /\ page \in Seq(Rest) /\ Len(page) = m /\ DOMAIN page = 1..m
      /\ \A k \in 1..m : page[k] = InOrder(Rest)[k] /\ k \in 1..Cardinality(Rest)
  <2>1. m \in 0..Cardinality(Rest)
    BY <1>2
  <2>2. /\ page \in Seq(Rest) /\ Len(page) = m
        /\ \A k \in 1..m : page[k] = InOrder(Rest)[k] /\ k \in 1..Cardinality(Rest)
    BY <1>1, <2>1, PageContents
  <2> QED
    BY <2>2
<1> HIDE DEF page
<1>4. m \in Nat /\ m > 0 /\ page # << >> /\ \A k \in 1..m : page[k] \in Rest
  BY <1>2, <1>3
<1>5. /\ view' = [view EXCEPT !.button = "ready"] /\ shown' = shown \o page
      /\ cursor' = [id |-> page[m], value |-> orderOn(page[m])]
  BY <1>3, <1>4 DEF Show, CursorOf, Last, page
<1>6. /\ view' \in View /\ view'.button = "ready" /\ view'.orderBy = view.orderBy
      /\ view'.ascending = view.ascending /\ view'.epoch = view.epoch
  BY <1>1, <1>5 DEF View
<1>7. \A i : orderOn(i)' = orderOn(i) /\ Eligible(i)' = Eligible(i)
  BY <1>6, SameRows
<1>8. /\ a \in Nat /\ DOMAIN shown = 1..a /\ shown \in Seq(DOMAIN torrents)
      /\ page \in Seq(DOMAIN torrents)
  <2>1. Rest \subseteq DOMAIN torrents
    BY DEF Rest
  <2> QED
    BY <1>1, <1>3, <2>1, Shapes
<1>9. /\ shown' \in Seq(DOMAIN torrents) /\ Len(shown') = a + m /\ DOMAIN shown' = 1..(a + m)
      /\ \A k \in 1..a : shown'[k] = shown[k]
      /\ \A k \in 1..m : shown'[a + k] = page[k]
  BY <1>3, <1>5, <1>8
<1>10. cursor'.id = page[m] /\ cursor'.value = orderOn(page[m]) /\ m \in 1..m
  BY <1>4, <1>5
<1>11. TypeOK'
  <2>1. shown' # << >> /\ Last(shown') = page[m]
    BY <1>4, <1>8, <1>9 DEF Last
  <2> QED
    BY <1>1, <1>6, <1>9, <1>10, <2>1 DEF TypeOK
<1>12. EndIsEnd'
  BY <1>6 DEF EndIsEnd
<1>13. ASSUME Stable'
       PROVE  PageInv'
  <2>1. Stable
    BY <1>6, <1>13, <1>1 DEF Stable, View
  <2>2. CursorInv'
    BY <1>7, <1>10 DEF CursorInv
  <2>3. \A i, j : (Before(orderOn(i), i, orderOn(j), j))' <=> Precedes(i, j)
    BY <1>6, <1>7 DEF Before, Precedes
  <2>4. Comparable(DOMAIN torrents)
    BY <1>1, RowsComparable
  <2>5. \A k, l \in 1..m : k < l => Precedes(page[k], page[l])
    BY <1>2, <1>3, InOrderSorts
  <2>6. ASSUME NEW k \in 1..a, NEW l \in 1..m
        PROVE  Precedes(shown[k], page[l])
    <3>1. /\ shown # << >> /\ a \in 1..a /\ cursor.id = shown[a] /\ cursor.id # 0
          /\ shown[k] \in DOMAIN torrents /\ shown[a] \in DOMAIN torrents
          /\ page[l] \in DOMAIN torrents
      <4>1. a \in 1..a /\ shown # << >>
        BY <1>8
      <4>2. cursor.id = shown[a] /\ cursor.id # 0
        BY <1>1, <4>1, Shapes
      <4>3. shown[k] \in DOMAIN torrents /\ shown[a] \in DOMAIN torrents
        BY <1>8, <4>1
      <4>4. page[l] \in DOMAIN torrents
        BY <1>3, <1>8
      <4> QED
        BY <4>1, <4>2, <4>3, <4>4
    <3>2. cursor.value = orderOn(shown[a])
      BY <1>1, <2>1, <3>1 DEF PageInv, CursorInv
    <3>3. PastCursor(page[l])
      BY <1>4 DEF Rest
    <3>4. Precedes(shown[a], page[l])
      BY <3>1, <3>2, <3>3 DEF PastCursor, Precedes
    <3>5. k = a \/ Precedes(shown[k], shown[a])
      <4>1. \A i, j \in 1..a : i < j => Precedes(shown[i], shown[j])
        BY <1>1, <1>8, <2>1 DEF PageInv, ShownInOrder, Precedes
      <4>2. a \in Nat
        BY <1>8
      <4> HIDE DEF a
      <4>3. k = a \/ k < a
        BY <4>2
      <4> QED
        BY <3>1, <4>1, <4>3
    <3> QED
      BY <2>4, <3>1, <3>4, <3>5, StrictTotalOrder
  <2>7. ASSUME NEW i \in 1..(a + m), NEW j \in 1..(a + m), i < j
        PROVE  Precedes(shown'[i], shown'[j])
    <3>1. CASE j \in 1..a
      <4>1. i \in 1..a /\ shown'[i] = shown[i] /\ shown'[j] = shown[j]
        BY <1>8, <1>9, <2>7, <3>1
      <4> QED
        BY <1>1, <1>8, <2>1, <2>7, <3>1, <4>1 DEF PageInv, ShownInOrder, Precedes
    <3>2. CASE i \in 1..a /\ j \notin 1..a
      <4>1. j - a \in 1..m /\ a + (j - a) = j
        BY <1>4, <1>8, <3>2
      <4>2. shown'[j] = page[j - a] /\ shown'[i] = shown[i]
        BY <1>9, <3>2, <4>1
      <4> QED
        BY <2>6, <3>2, <4>1, <4>2
    <3>3. CASE i \notin 1..a /\ j \notin 1..a
      <4>1. j - a \in 1..m /\ a + (j - a) = j /\ i - a \in 1..m /\ a + (i - a) = i /\ i - a < j - a
        BY <1>4, <1>8, <2>7, <3>3
      <4>2. shown'[j] = page[j - a] /\ shown'[i] = page[i - a]
        BY <1>9, <4>1
      <4> QED
        BY <2>5, <4>1, <4>2
    <3> QED
      BY <3>1, <3>2, <3>3
  <2>8. ShownInOrder'
    BY <1>9, <2>3, <2>7 DEF ShownInOrder
  <2>9. ASSUME NEW i \in 1..present, Eligible(i), ~Precedes(page[m], i)
        PROVE  \E k \in 1..(a + m) : shown'[k] = i
    <3>1. i \in DOMAIN torrents
      BY <1>1, Shapes
    <3>2. CASE PastCursor(i)
      <4>1. i \in Rest
        BY <2>9, <3>1, <3>2 DEF Rest
      <4>2. PICK k \in 1..Cardinality(Rest) : InOrder(Rest)[k] = i
        BY <1>2, <4>1, InOrderSorts
      <4>3. ~(m < k)
        BY <1>2, <1>3, <1>10, <2>9, <4>2, InOrderSorts
      <4>4. k \in 1..m /\ a + k \in 1..(a + m)
        BY <1>2, <1>4, <1>8, <4>2, <4>3
      <4>5. shown'[a + k] = i
        BY <1>3, <1>9, <4>2, <4>4
      <4> QED
        BY <4>4, <4>5
    <3>3. CASE ~PastCursor(i)
      <4>1. cursor.id # 0 /\ ~Before(cursor.value, cursor.id, orderOn(i), i)
        BY <3>3 DEF PastCursor
      <4>2. PICK k \in 1..a : shown[k] = i
        BY <1>1, <1>8, <2>1, <2>9, <4>1 DEF PageInv, NothingSkipped
      <4>3. k \in 1..(a + m) /\ shown'[k] = i
        BY <1>4, <1>8, <1>9, <4>2
      <4> QED
        BY <4>3
    <3> QED
      BY <3>2, <3>3
  <2>10. \A i : (Before(cursor.value, cursor.id, orderOn(i), i))' <=> Precedes(page[m], i)
    BY <1>6, <1>7, <1>10 DEF Before, Precedes
  <2>11. NothingSkipped'
    BY <1>7, <1>9, <2>9, <2>10 DEF NothingSkipped
  <2> QED
    BY <2>2, <2>8, <2>11 DEF PageInv
<1>14. PageInv'
  BY <1>13 DEF PageInv, CursorInv, ShownInOrder, NothingSkipped
<1> QED
  BY <1>6, <1>11, <1>12, <1>14 DEF PagingInv, ViewInv

-----------------------------------------------------------------------------
\* A new row, and with it new ranks: the order holds still after it only if it
\* is not by relevance, and then no value in it has changed.
LEMMA AddStep ==
    ASSUME PagingInv, NEW size \in Size, AddNewTorrent(size)
    PROVE  PagingInv'
<1> DEFINE n == Len(torrents) + 1
<1>1. TypeOK /\ ViewInv /\ PageInv /\ EndIsEnd
  BY DEF PagingInv
<1>2. /\ torrents \in Seq(Row) /\ Len(torrents) \in Nat /\ DOMAIN torrents = 1..Len(torrents)
      /\ shown \in Seq(DOMAIN torrents) /\ present \in 0..Len(torrents)
  BY <1>1, Shapes
<1>3. UNCHANGED <<now, view, cursor, shown, present, rowsFailed>>
  BY DEF AddNewTorrent
<1>4. PICK rank \in [1..n -> Rank] :
         torrents' = [i \in 1..n |->
            [Append(torrents, [size |-> size, discovered |-> now, rank |-> 0])[i] EXCEPT !.rank = rank[i]]]
  BY DEF AddNewTorrent
<1> DEFINE all == Append(torrents, [size |-> size, discovered |-> now, rank |-> 0])
<1>5. /\ \A i \in DOMAIN torrents : all[i] = torrents[i]
      /\ all[n] = [size |-> size, discovered |-> now, rank |-> 0]
  BY <1>2
<1>6. n \in Nat /\ DOMAIN torrents' = 1..n /\ DOMAIN torrents \subseteq 1..n
      /\ \A i \in 1..n : i = n \/ i \in DOMAIN torrents
  BY <1>2, <1>4
<1>7. \A i \in DOMAIN torrents : torrents'[i] = [torrents[i] EXCEPT !.rank = rank[i]]
  BY <1>4, <1>5, <1>6
<1>8. torrents'[n] = [size |-> size, discovered |-> now, rank |-> rank[n]]
  <2>1. n \in 1..n
    BY <1>2
  <2>2. torrents'[n] = [all[n] EXCEPT !.rank = rank[n]]
    BY <1>4, <2>1
  <2> HIDE DEF n, all
  <2> QED
    BY <1>5, <2>2
<1>9. \A i \in DOMAIN torrents : torrents[i] \in Row
  BY <1>2
<1> HIDE DEF n, all
<1>10. ASSUME NEW i \in DOMAIN torrents
       PROVE  /\ torrents'[i] \in Row
              /\ torrents'[i].size = torrents[i].size
              /\ torrents'[i].discovered = torrents[i].discovered
  <2>1. rank[i] \in Rank
    BY <1>6
  <2> QED
    BY <1>7, <1>9, <2>1 DEF Row
<1>11. torrents'[n] \in Row
  <2>1. now \in 1..MaxTime /\ rank[n] \in Rank
    <3>1. n \in 1..n
      BY <1>2 DEF n
    <3> QED
      BY <1>1, <3>1 DEF TypeOK
  <2> QED
    BY <1>8, <2>1 DEF Row
<1>12. torrents' \in Seq(Row) /\ Len(torrents') = n
  <2>1. torrents' \in [1..n -> Row]
    BY <1>4, <1>6, <1>10, <1>11
  <2> QED
    BY <1>6, <2>1
<1>13. TypeOK'
  <2>1. shown \in Seq(DOMAIN torrents')
    BY <1>2, <1>6
  <2>2. present \in 0..n
    BY <1>2 DEF n
  <2> QED
    BY <1>1, <1>3, <1>12, <2>1, <2>2 DEF TypeOK, Row
<1>14. ASSUME Stable'
       PROVE  /\ Stable
              /\ \A i \in DOMAIN torrents : orderOn(i)' = orderOn(i) /\ Eligible(i)' = Eligible(i)
  <2>1. view.orderBy # "RELEVANCE"
    <3>1. n # present
      BY <1>2 DEF n
    <3> QED
      BY <1>3, <1>12, <1>14, <3>1 DEF Stable
  <2>2. Stable
    BY <1>3, <1>14, <2>1 DEF Stable
  <2>3. view.orderBy \in {"TOTAL_SIZE", "DISCOVERED_ON"}
    <3>1. view \in View /\ view.orderBy # "UPDATED_ON"
      BY <1>1, <2>2 DEF ViewInv, Stable
    <3> QED
      BY <2>1, <3>1 DEF View, OrderBy
  <2> QED
    BY <1>3, <1>10, <2>2, <2>3 DEF orderOn, Eligible
<1>15. PageInv'
  BY <1>1, <1>3, <1>14, PageKept
<1>16. \A i \in 1..present : i \in DOMAIN torrents
  BY <1>2
<1>17. EndIsEnd'
  BY <1>1, <1>3, <1>14, <1>16 DEF EndIsEnd
<1> QED
  BY <1>1, <1>3, <1>13, <1>15, <1>17 DEF PagingInv, ViewInv

\* Opening a page, on which nothing is shown yet.
LEMMA OpenStep ==
    ASSUME PagingInv, NEW o \in OrderBy, NEW b \in BOOLEAN, NEW e \in 1..MaxTime, NEW l \in 1..MaxLimit,
           Onload(o, b, e, l)
    PROVE  PagingInv'
<1>1. TypeOK /\ cursor = Start /\ shown = << >>
  BY DEF PagingInv, ViewInv, View, Onload
<1>2. /\ view' = [button |-> "loading", orderBy |-> o, ascending |-> b, epoch |-> e, limit |-> l]
      /\ present' = Len(torrents) /\ UNCHANGED <<torrents, now, cursor, shown, rowsFailed>>
  BY DEF Onload
<1>3. view' \in View /\ view'.button = "loading"
  BY <1>2 DEF View
<1>4. cursor'.id = 0 /\ DOMAIN shown' = {}
  BY <1>1, <1>2 DEF Start
<1>5. present' \in 0..Len(torrents')
  BY <1>1, <1>2, Shapes
<1>6. TypeOK'
  BY <1>1, <1>2, <1>3, <1>5 DEF TypeOK
<1> QED
  BY <1>3, <1>4, <1>6 DEF PagingInv, ViewInv, PageInv, CursorInv, ShownInOrder, NothingSkipped, EndIsEnd

\* The button is pressed, or a response fails.
LEMMA ButtonStep ==
    ASSUME PagingInv, view.button # "closed", NEW button \in {"loading", "ready"},
           view' = [view EXCEPT !.button = button],
           UNCHANGED <<torrents, now, cursor, shown, present, rowsFailed>>
    PROVE  PagingInv'
<1>1. TypeOK /\ view \in View /\ PageInv
  BY DEF PagingInv, ViewInv
<1>2. /\ view' \in View /\ view'.button = button /\ view'.orderBy = view.orderBy
      /\ view'.ascending = view.ascending /\ view'.epoch = view.epoch
  BY <1>1 DEF View
<1>3. \A i : orderOn(i)' = orderOn(i) /\ Eligible(i)' = Eligible(i)
  BY <1>2, SameRows
<1>4. Stable' => Stable
  BY <1>2 DEF Stable
<1>5. PageInv'
  BY <1>1, <1>2, <1>3, <1>4, PageKept
<1>6. TypeOK'
  BY <1>1, <1>2 DEF TypeOK
<1>7. EndIsEnd'
  BY <1>2 DEF EndIsEnd
<1> QED
  BY <1>2, <1>5, <1>6, <1>7 DEF PagingInv, ViewInv

LEMMA RespondStep ==
    ASSUME PagingInv, Respond \/ RespondPartly
    PROVE  PagingInv'
<1>1. /\ view.button = "loading" /\ view.orderBy # "UPDATED_ON"
      /\ UNCHANGED <<torrents, now, present>>
  BY DEF Respond, RespondPartly
<1>2. TypeOK /\ view \in View /\ rowsFailed \in BOOLEAN
  BY <1>1 DEF PagingInv, ViewInv, TypeOK
<1>3. PICK m \in 0..Cardinality(Rest) : QueryTorrents = FirstOf(m) /\ (m = 0 => Rest = {})
  BY <1>1, <1>2, QueryIsPage
<1>4. Len(FirstOf(m)) = m /\ IsFiniteSet(Rest) /\ Cardinality(Rest) \in Nat
  BY <1>1, <1>2, PageContents, RowsComparable, FS_CardinalityType DEF Rest
<1>5. ASSUME NEW k \in 0..m, Show(FirstOf(k)), rowsFailed' \in BOOLEAN,
             k = 0 => Rest = {} \/ rowsFailed'
      PROVE  PagingInv'
  <2>1. CASE k = 0
    <3>1. FirstOf(0) = << >>
      <4>1. 0 \in 0..Cardinality(Rest)
        BY <1>4
      <4> QED
        BY <1>1, <1>2, <4>1, PageContents
    <3> QED
      BY <1>1, <1>5, <2>1, <3>1, ShowNothing
  <2>2. CASE k # 0
    <3>1. k \in 1..Cardinality(Rest)
      BY <1>4, <2>2
    <3> QED
      BY <1>1, <1>5, <3>1, ShowMore
  <2> QED
    BY <2>1, <2>2
<1>6. CASE Respond
  <2>1. Show(FirstOf(m)) /\ rowsFailed' = rowsFailed
    BY <1>3, <1>6 DEF Respond
  <2>2. m \in 0..m
    BY <1>4
  <2> QED
    BY <1>2, <1>3, <1>5, <2>1, <2>2
<1>7. CASE RespondPartly
  <2>1. rowsFailed' = TRUE
    BY <1>7 DEF RespondPartly
  <2>2. PICK k \in 0..(m - 1) : Show(SubSeq(FirstOf(m), 1, k))
    BY <1>3, <1>4, <1>7 DEF RespondPartly
  <2>3. k \in 0..m /\ k \in 0..Cardinality(Rest)
    BY <1>4
  <2>4. SubSeq(FirstOf(m), 1, k) = FirstOf(k)
    <3>1. InOrder(Rest) \in Seq(Rest) /\ Len(InOrder(Rest)) = Cardinality(Rest)
      BY <1>1, <1>2, RowsComparable, InOrderSorts DEF Rest
    <3>2. ASSUME NEW s \in Seq(Rest), Len(s) = Cardinality(Rest)
          PROVE  SubSeq(SubSeq(s, 1, m), 1, k) = SubSeq(s, 1, k)
      BY <1>4, <2>3, <3>2
    <3> QED
      BY <3>1, <3>2 DEF FirstOf
  <2> QED
    BY <1>5, <2>1, <2>2, <2>3, <2>4
<1> QED
  BY <1>6, <1>7

LEMMA PagingInvariant == Spec => []PagingInv
<1>1. Init => PagingInv
  <2> SUFFICES ASSUME Init PROVE PagingInv
    OBVIOUS
  <2>1. TypeOK
    <3>1. torrents \in Seq(Row) /\ shown \in Seq(DOMAIN torrents) /\ present \in 0..Len(torrents)
      BY DEF Init
    <3>2. now \in 1..MaxTime
      BY PagingAssumption DEF Init
    <3>3. rowsFailed \in BOOLEAN
      BY DEF Init
    <3> QED
      BY <3>1, <3>2, <3>3 DEF Init, TypeOK, Row, Start
  <2>2. view.button = "closed"
    BY DEF Init
  <2> QED
    BY <2>1, <2>2 DEF Init, PagingInv, ViewInv, PageInv, CursorInv, ShownInOrder, NothingSkipped,
                      EndIsEnd, Stable
<1>2. PagingInv /\ [Next]_vars => PagingInv'
  <2> SUFFICES ASSUME PagingInv, [Next]_vars PROVE PagingInv'
    OBVIOUS
  <2>1. CASE \E s \in Size : AddNewTorrent(s)
    BY <2>1, AddStep
  <2>2. CASE Clock \/ UNCHANGED vars
    <3>1. UNCHANGED <<torrents, view, cursor, shown, present, rowsFailed>>
      BY <2>2 DEF Clock, vars
    <3>2. now' \in 1..MaxTime
      <4>1. now \in 1..MaxTime /\ MaxTime \in Nat
        BY PagingAssumption DEF PagingInv, TypeOK
      <4>2. now' = now \/ (now < MaxTime /\ now' = now + 1)
        BY <2>2 DEF Clock, vars
      <4> QED
        BY <4>1, <4>2
    <3>3. TypeOK'
      BY <3>1, <3>2 DEF PagingInv, TypeOK
    <3>4. \A i : orderOn(i)' = orderOn(i) /\ Eligible(i)' = Eligible(i)
      BY <3>1, SameRows
    <3>5. Stable' = Stable
      BY <3>1 DEF Stable
    <3>6. PageInv'
      BY <3>1, <3>4, <3>5, PageKept DEF PagingInv
    <3>7. EndIsEnd'
      BY <3>1, <3>4, <3>5 DEF PagingInv, EndIsEnd
    <3> QED
      BY <3>1, <3>3, <3>6, <3>7 DEF PagingInv, ViewInv
  <2>3. CASE \E o \in OrderBy, a \in BOOLEAN, e \in 1..MaxTime, l \in 1..MaxLimit : Onload(o, a, e, l)
    BY <2>3, OpenStep
  <2>4. CASE Load
    BY <2>4, ButtonStep DEF Load
  <2>5. CASE Respond \/ RespondPartly
    BY <2>5, RespondStep
  <2>6. CASE RespondError
    BY <2>6, ButtonStep DEF RespondError
  <2> QED
    BY <2>1, <2>2, <2>3, <2>4, <2>5, <2>6 DEF Next
<1> QED
  BY <1>1, <1>2, PTL DEF Spec

\* The rows, the page and the cursor keep their types, and the cursor stands on
\* the last torrent shown.
THEOREM PagingTypeCorrect == Spec => []TypeOK
<1>1. PagingInv => TypeOK
  BY DEF PagingInv
<1> QED
  BY <1>1, PagingInvariant, PTL

\* Whatever limit and order a client chooses, and whatever magneticod adds
\* between two pages, QueryTorrents never repeats a torrent nor goes back.
THEOREM ShownInOrderTheorem == Spec => []ShownInOrder
<1>1. PagingInv => ShownInOrder
  BY DEF PagingInv, PageInv
<1> QED
  BY <1>1, PagingInvariant, PTL

\* The condition on (value, id) skips no torrent that was there, also where
\* values are equal at the end of a page and where a page was cut short.
THEOREM NothingSkippedTheorem == Spec => []NothingSkipped
<1>1. PagingInv => NothingSkipped
  BY DEF PagingInv, PageInv
<1> QED
  BY <1>1, PagingInvariant, PTL

\* When the page says that there is no more, all that was there has been shown.
THEOREM EndIsEndTheorem == Spec => []EndIsEnd
<1>1. PagingInv => EndIsEnd
  BY DEF PagingInv
<1> QED
  BY <1>1, PagingInvariant, PTL
=============================================================================
