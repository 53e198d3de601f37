--------------------------- MODULE StorageProofs ----------------------------
(***************************************************************************)
(* Proofs about Storage for every set of torrents, every number of files   *)
(* and both back ends: what is committed is a whole database of one        *)
(* version, no committed torrent is lost, and the statistics of it are     *)
(* right.                                                                  *)
(***************************************************************************)
EXTENDS Persistence, StatisticsProofs

\* The shape of a database, and of the rows of its torrents.
Row == [discovered : Instants, files : Nat, indexed : Nat, modified : {"default", "set"}]

IsDb(d) ==
    /\ d = [schema |-> d.schema, version |-> d.version, rows |-> d.rows]
    /\ d.version \in 0..3
    /\ d.rows = [h \in DOMAIN d.rows |-> d.rows[h]]
    /\ \A h \in DOMAIN d.rows : d.rows[h] \in Row

\* The triggers of version 3 have seen the row, and before it there were none.
Indexed(r, v) == IF v = 3 THEN r.indexed = 1 /\ r.modified = "set" ELSE r.indexed = 0

\* A database of its version, with all rows complete but that of `partial'.
WholeBut(d, partial) ==
    /\ IsDb(d)
    /\ d.schema = SchemaOf(d.version)
    /\ \A h \in DOMAIN d.rows : Indexed(d.rows[h], d.version) /\ (h = partial \/ d.rows[h].files = NFiles)

Whole(d) ==
    /\ IsDb(d)
    /\ d.schema = SchemaOf(d.version)
    /\ \A h \in DOMAIN d.rows : Indexed(d.rows[h], d.version) /\ d.rows[h].files = NFiles

\* The row of a torrent that was indexed is a row.
LEMMA PopulatedRow ==
    ASSUME NEW r \in Row
    PROVE  [r EXCEPT !.indexed = @ + 1, !.modified = "set"] \in Row
  <1>1. r.indexed + 1 \in Nat
    BY DEF Row
  <1>2. PICK n \in Nat : n = r.indexed + 1
    BY <1>1
  <1>3. [r EXCEPT !.indexed = n, !.modified = "set"] \in Row
    BY DEF Row
  <1> QED BY <1>2, <1>3

\* An upgrade makes of a whole database one of the next version, with the same
\* torrents.
LEMMA UpgradeKeepsWhole ==
    ASSUME NEW d, Whole(d), d.version < 3
    PROVE  /\ Whole(Upgraded(d))
           /\ Upgraded(d).version = d.version + 1
           /\ DOMAIN Upgraded(d).rows = DOMAIN d.rows
  <1>1. d.version \in {0, 1, 2}
    BY DEF Whole, IsDb
  <1> DEFINE Shape == [schema : {d.schema}, version : {d.version}, rows : {d.rows}]
  <1>0. d \in Shape
    BY DEF Whole, IsDb
  <1>2. CASE d.version = 0
    <2>1. Upgraded(d) = [schema |-> d.schema \cup {"info_hash_index"}, version |-> 1, rows |-> d.rows]
      <3>1. Upgraded(d) = UpgradeFrom0(d)
        BY <1>2 DEF Upgraded
      <3> QED BY <1>0, <3>1 DEF UpgradeFrom0
    <2> QED BY <1>2, <2>1 DEF Whole, IsDb, SchemaOf, Indexed
  <1>3. CASE d.version = 1
    <2>1. Upgraded(d) = [schema |-> d.schema \cup {"readme_index"}, version |-> 2, rows |-> d.rows]
      <3>1. Upgraded(d) = UpgradeFrom1(d)
        BY <1>3 DEF Upgraded
      <3> QED BY <1>0, <3>1 DEF UpgradeFrom1
    <2> QED BY <1>3, <2>1 DEF Whole, IsDb, SchemaOf, Indexed
  <1>4. CASE d.version = 2
    <2>1. Upgraded(d) = [schema |-> d.schema \cup {"torrents_idx"}, version |-> 3, rows |-> Populate(d.rows)]
      BY <1>4 DEF Upgraded, UpgradeFrom2
    <2>2. DOMAIN Populate(d.rows) = DOMAIN d.rows
      BY DEF Populate
    <2>3. Populate(d.rows) = [h \in DOMAIN Populate(d.rows) |-> Populate(d.rows)[h]]
      BY DEF Populate
    <2>4. ASSUME NEW h \in DOMAIN d.rows
          PROVE  /\ Populate(d.rows)[h] \in Row
                 /\ Indexed(Populate(d.rows)[h], 3) /\ Populate(d.rows)[h].files = NFiles
      <3>1. Populate(d.rows)[h] = [d.rows[h] EXCEPT !.indexed = @ + 1, !.modified = "set"]
        BY DEF Populate
      <3>2. d.rows[h] \in Row /\ d.rows[h].indexed = 0 /\ d.rows[h].files = NFiles
        BY <1>4 DEF Whole, IsDb, Indexed
      <3>3. Populate(d.rows)[h] \in Row
        BY <3>1, <3>2, PopulatedRow
      <3>4. /\ Populate(d.rows)[h].indexed = 1 /\ Populate(d.rows)[h].modified = "set"
            /\ Populate(d.rows)[h].files = NFiles
        BY <3>1, <3>2 DEF Row
      <3> QED BY <3>3, <3>4 DEF Indexed
    <2>5. SchemaOf(3) = SchemaOf(2) \cup {"torrents_idx"}
      BY DEF SchemaOf
    <2>6. Upgraded(d).version = 3 /\ Upgraded(d).rows = Populate(d.rows)
          /\ Upgraded(d).schema = SchemaOf(3)
      BY <1>4, <2>1, <2>5 DEF Whole
    <2>7. IsDb(Upgraded(d))
      BY <2>1, <2>2, <2>3, <2>4, <2>6 DEF IsDb
    <2> QED BY <1>4, <2>2, <2>4, <2>6, <2>7 DEF Whole
  <1> QED BY <1>1, <1>2, <1>3, <1>4

-----------------------------------------------------------------------------
(***************************************************************************)
(* The inductive invariant.                                                *)
(***************************************************************************)
SettingUp == {"down", "begin", "trgm", "create", "migrate"}
Places == {"down", "begin", "trgm", "create", "migrate",
           "idle", "add", "size", "exists", "looking", "insert", "files"}

TypeInv ==
    /\ engine \in {"sqlite3", "postgres"}
    /\ lock \in Process \cup {NoProc}
    /\ pc \in [Process -> Places]
    /\ tx = [p \in Process |-> tx[p]]

\* What is committed is no database yet or a whole one; a call that has looked
\* for its torrent has found the tables.
DbInv ==
    /\ db = FreshDb \/ Whole(db)
    /\ db.version <= LatestVersion(engine)
    /\ pc[Daemon] \in {"looking", "insert"} => "tables" \in db.schema

IsTx(t) == t = [snapshot |-> t.snapshot, work |-> t.work]

\* What a transaction would commit replaces what is committed now.
Succeeds(d) == DOMAIN db.rows \subseteq DOMAIN d.rows /\ db.version <= d.version

\* A setup in its transaction has a whole database, its own one only if it has
\* the write lock, and otherwise that of its snapshot, which may be old.
SetupInv(p) ==
    pc[p] = "migrate" =>
        /\ IsTx(tx[p])
        /\ Whole(tx[p].work) /\ tx[p].work.version <= LatestVersion(engine)
        /\ lock = p => Succeeds(tx[p].work)
        /\ lock # p => tx[p].work = tx[p].snapshot /\ tx[p].work.version <= db.version

\* AddNewTorrent writes with the lock, and one row is not complete.
AddInv ==
    pc[Daemon] = "files" =>
        /\ lock = Daemon /\ IsTx(tx[Daemon])
        /\ WholeBut(tx[Daemon].work, item) /\ item \in DOMAIN tx[Daemon].work.rows
        /\ tx[Daemon].work.version <= LatestVersion(engine)
        /\ Succeeds(tx[Daemon].work)

LockInv == \A p \in Process : lock = p => pc[p] = "migrate" \/ (p = Daemon /\ pc[p] = "files")

ServeInv ==
    \A p \in Process :
        /\ pc[p] = "trgm" => engine = "postgres"
        /\ engine = "sqlite3" /\ pc[p] \notin SettingUp => db.version = 3

Inv == TypeInv /\ DbInv /\ (\A p \in Process : SetupInv(p)) /\ AddInv /\ LockInv /\ ServeInv

(***************************************************************************)
(* The kinds of steps: what a step does to the database, the lock and the  *)
(* transactions.                                                           *)
(***************************************************************************)
\* A process goes from one place outside of its transaction to another.
Moves(p, w) ==
    /\ UNCHANGED <<engine, db, lock, tx>>
    /\ pc[p] # "migrate" /\ pc[p] # "files"
    /\ w \in Places /\ w # "migrate" /\ w # "files"
    /\ pc' = [pc EXCEPT ![p] = w]
    /\ w = "looking" => "tables" \in db.schema
    /\ w = "insert" => p # Daemon \/ pc[Daemon] = "looking"
    /\ w = "trgm" => engine = "postgres"
    /\ w \notin SettingUp => pc[p] \notin SettingUp
    /\ p = Daemon \/ UNCHANGED item

\* A transaction, if there is one, is rolled back.
Abandons(p) ==
    /\ UNCHANGED <<engine, db>>
    /\ tx' = [tx EXCEPT ![p] = NoTx]
    /\ lock' = Unlocked(p)
    /\ \/ pc' = [pc EXCEPT ![p] = "down"]
       \/ pc' = [pc EXCEPT ![p] = "idle"] /\ (pc[p] \notin SettingUp \/ engine = "postgres")
    /\ p = Daemon \/ UNCHANGED item

Idles == UNCHANGED <<engine, db, lock, tx, pc, item>>

\* Every step is of one of these kinds.
LEMMA StepKinds ==
    ASSUME TypeInv, ServeInv, [Next]_vars
    PROVE  \/ \E p \in Process : Abandons(p) \/ \E w \in Places : Moves(p, w)
           \/ \E p \in Process : SetupCreate(p) \/ SetupUpgrade(p) \/ SetupCommit(p)
           \/ \E now \in Instants : AddInsert(now)
           \/ AddFile \/ AddCommit \/ Idles
  <1> USE DEF TypeInv
  <1>p. Daemon \in Process /\ Web \in Process
    BY DEF Process
  <1>w. \A p, w : Moves(p, w) => w \in Places
    BY DEF Moves
  <1>1. CASE UNCHANGED vars
    BY <1>1 DEF vars, Idles
  <1>2. CASE Query \/ CloseRows
    BY <1>2 DEF Query, CloseRows, Idles
  <1>3. ASSUME NEW h \in Hash, AddNewTorrent(h)
        PROVE  Moves(Daemon, "add")
    BY <1>3, <1>p DEF AddNewTorrent, Goto, Moves, SettingUp, Places
  <1>4. ASSUME NEW p \in Process, Start(p)
        PROVE  Moves(p, "begin")
    BY <1>4 DEF Start, Goto, Moves, SettingUp, Places
  <1>5. ASSUME NEW p \in Process, Stop(p)
        PROVE  Abandons(p)
    BY <1>5 DEF Stop, Goto, Abandons
  <1>6. ASSUME NEW p \in Process, SetupBegin(p)
        PROVE  Moves(p, "trgm") \/ Moves(p, "create")
    <2>1. CASE engine = "postgres"
      BY <1>6, <2>1 DEF SetupBegin, Goto, Moves, SettingUp, Places
    <2>2. CASE engine # "postgres"
      BY <1>6, <2>2 DEF SetupBegin, Goto, Moves, SettingUp, Places
    <2> QED BY <2>1, <2>2
  <1>7. ASSUME NEW p \in Process, SetupTrgm(p)
        PROVE  Moves(p, "create")
    BY <1>7 DEF SetupTrgm, Goto, Moves, SettingUp, Places
  <1>8. ASSUME NEW p \in Process, SetupTrgmUnread(p)
        PROVE  Abandons(p)
    BY <1>8 DEF SetupTrgmUnread, Goto, Rollback, Abandons, ServeInv
  <1>9. ASSUME AddBegin
        PROVE  Moves(Daemon, "size")
    BY <1>9, <1>p DEF AddBegin, Goto, Moves, SettingUp, Places
  <1>10. ASSUME AddSize
         PROVE  Moves(Daemon, "exists") \/ Abandons(Daemon)
    <2>1. CASE item \in ZeroSized
      BY <1>10, <1>p, <2>1 DEF AddSize, Return, Rollback, Goto, Abandons, SettingUp
    <2>2. CASE item \notin ZeroSized
      BY <1>10, <1>p, <2>2 DEF AddSize, Goto, Moves, SettingUp, Places
    <2> QED BY <2>1, <2>2
  <1>11. ASSUME AddExistsQuery
         PROVE  Moves(Daemon, "looking")
    BY <1>11, <1>p DEF AddExistsQuery, Goto, Moves, SettingUp, Places
  <1>12. ASSUME AddExists
         PROVE  Moves(Daemon, "insert") \/ Abandons(Daemon)
    <2>1. CASE Rollback(Daemon, 2) /\ Return /\ UNCHANGED db
      BY <1>12, <1>p, <2>1 DEF AddExists, Return, Rollback, Goto, Abandons, SettingUp
    <2>2. CASE Goto(Daemon, "insert") /\ UNCHANGED <<engine, db, lock, item, tx, reads>>
      BY <1>12, <1>p, <2>2 DEF AddExists, Goto, Moves, SettingUp, Places
    <2> QED BY <1>12, <2>1, <2>2 DEF AddExists
  <1> QED
    BY <1>w, <1>1, <1>2, <1>3, <1>4, <1>5, <1>6, <1>7, <1>8, <1>9, <1>10, <1>11, <1>12, <1>p
    DEF Next, SetupStep, AddStep, Fail

(***************************************************************************)
(* Each kind of step preserves the invariant.                              *)
(***************************************************************************)
\* Outside of transactions nothing is said but where the process is.
LEMMA MovesInv ==
    ASSUME Inv, NEW q \in Process, NEW w, Moves(q, w)
    PROVE  Inv'
  <1>1. /\ UNCHANGED <<engine, db, lock, tx>>
        /\ pc' \in [Process -> Places] /\ pc'[q] = w
        /\ \A p \in Process : p # q => pc'[p] = pc[p]
    BY DEF Moves, Inv, TypeInv
  <1>2. w # "migrate" /\ w # "files" /\ pc[q] # "migrate" /\ pc[q] # "files"
    BY DEF Moves
  <1>d. Daemon \in Process
    BY DEF Process
  <1>3. TypeInv'
    BY <1>1 DEF Inv, TypeInv
  <1>4. DbInv'
    BY <1>1, <1>2, <1>d DEF Inv, DbInv, Moves
  <1>5. \A p \in Process : SetupInv(p)'
    BY <1>1, <1>2 DEF Inv, SetupInv, Succeeds
  <1>6. AddInv'
    <2>1. CASE q = Daemon
      BY <1>1, <1>2, <2>1 DEF AddInv
    <2>2. CASE q # Daemon
      BY <1>1, <1>d, <2>2 DEF Inv, AddInv, Succeeds, Moves
    <2> QED BY <2>1, <2>2
  <1>7. LockInv'
    BY <1>1, <1>2 DEF Inv, LockInv
  <1>8. ServeInv'
    BY <1>1, <1>2 DEF Inv, ServeInv, Moves
  <1> QED BY <1>3, <1>4, <1>5, <1>6, <1>7, <1>8 DEF Inv

\* A rollback, or the end of a process, leaves the others as they are.
LEMMA AbandonsInv ==
    ASSUME Inv, NEW q \in Process, Abandons(q)
    PROVE  Inv'
  <1>1. /\ UNCHANGED <<engine, db>>
        /\ pc' \in [Process -> Places] /\ pc'[q] \in {"down", "idle"}
        /\ tx' = [p \in Process |-> tx'[p]]
        /\ \A p \in Process : p # q => pc'[p] = pc[p] /\ tx'[p] = tx[p]
    BY DEF Abandons, Inv, TypeInv, Places
  <1>2. lock' # q /\ (lock' = lock \/ (lock = q /\ lock' = NoProc)) /\ NoProc \notin Process
    BY StorageAssumption DEF Abandons, Unlocked, Process
  <1>d. Daemon \in Process
    BY DEF Process
  <1>3. TypeInv'
    BY <1>1, <1>2 DEF Inv, TypeInv
  <1>4. DbInv'
    BY <1>1, <1>d DEF Inv, DbInv
  <1>5. \A p \in Process : SetupInv(p)'
    BY <1>1, <1>2 DEF Inv, SetupInv, Succeeds
  <1>6. AddInv'
    <2>1. CASE q = Daemon
      BY <1>1, <2>1 DEF AddInv
    <2>2. CASE q # Daemon
      BY <1>1, <1>2, <1>d, <2>2 DEF Inv, AddInv, Succeeds, Abandons
    <2> QED BY <2>1, <2>2
  <1>7. LockInv'
    BY <1>1, <1>2 DEF Inv, LockInv
  <1>8. ServeInv'
    BY <1>1 DEF Inv, ServeInv, Abandons, SettingUp
  <1> QED BY <1>3, <1>4, <1>5, <1>6, <1>7, <1>8 DEF Inv

\* A database with tables is not the empty one, and a whole one has tables.
LEMMA Tables ==
    /\ "tables" \notin FreshDb.schema
    /\ \A d : Whole(d) => "tables" \in d.schema
    /\ FreshDb.version = 0 /\ DOMAIN FreshDb.rows = {}
  BY DEF FreshDb, NoRows, Whole, SchemaOf

\* CREATE TABLE IF NOT EXISTS begins with a whole database, or makes one.
LEMMA SetupCreateInv ==
    ASSUME Inv, NEW q \in Process, SetupCreate(q)
    PROVE  Inv'
  <1> DEFINE t == tx'[q]
  <1>1. /\ UNCHANGED <<engine, db, item>>
        /\ pc[q] = "create"
        /\ pc' \in [Process -> Places] /\ pc'[q] = "migrate"
        /\ tx' = [p \in Process |-> tx'[p]]
        /\ \A p \in Process : p # q => pc'[p] = pc[p] /\ tx'[p] = tx[p]
    <2>1. /\ UNCHANGED <<engine, db, item>> /\ pc[q] = "create"
          /\ pc' = [pc EXCEPT ![q] = "migrate"]
      BY DEF SetupCreate, Goto
    <2>2. \E v : tx' = [tx EXCEPT ![q] = v]
      BY DEF SetupCreate, Snapshot
    <2> QED BY <2>1, <2>2 DEF Inv, TypeInv, Places
  <1>d. Daemon \in Process /\ NoProc \notin Process
    BY StorageAssumption DEF Process
  <1>2. lock # q
    BY <1>1 DEF Inv, LockInv
  <1>3. /\ IsTx(t) /\ Whole(t.work) /\ t.work.version = db.version
        /\ DOMAIN t.work.rows = DOMAIN db.rows
        /\ \/ lock' = lock /\ t.work = t.snapshot
           \/ lock = NoProc /\ lock' = q
    <2>1. CASE "tables" \in db.schema
      <3>1. lock' = lock /\ t = [snapshot |-> db, work |-> db]
        BY <2>1 DEF SetupCreate, Snapshot, Inv, TypeInv
      <3>2. Whole(db)
        BY <2>1, Tables DEF Inv, DbInv
      <3> QED BY <3>1, <3>2 DEF IsTx
    <2>2. CASE "tables" \notin db.schema
      <3>1. db = FreshDb
        BY <2>2, Tables DEF Inv, DbInv
      <3>2. lock = NoProc /\ lock' = q /\ t = [snapshot |-> db, work |-> [db EXCEPT !.schema = @ \cup {"tables"}]]
        BY <2>2 DEF SetupCreate, Inv, TypeInv
      <3>3. t.work = [schema |-> {"tables"}, version |-> 0, rows |-> NoRows]
        BY <3>1, <3>2 DEF FreshDb
      <3>4. Whole(t.work)
        BY <3>3 DEF Whole, IsDb, NoRows, SchemaOf
      <3> QED BY <3>1, <3>2, <3>3, <3>4 DEF IsTx, FreshDb
    <2> QED BY <2>1, <2>2
  <1>3b. db.version \in Nat
    BY DEF Inv, DbInv, Whole, IsDb, FreshDb
  <1>4. TypeInv'
    BY <1>1, <1>3 DEF Inv, TypeInv
  <1>5. DbInv'
    BY <1>1, <1>d DEF Inv, DbInv
  <1>6. \A p \in Process : SetupInv(p)'
    <2>1. SetupInv(q)'
      BY <1>1, <1>2, <1>3, <1>3b DEF Inv, DbInv, SetupInv, Succeeds, TypeInv
    <2>2. ASSUME NEW p \in Process, p # q
          PROVE  SetupInv(p)'
      BY <1>1, <1>3, <1>d, <2>2 DEF Inv, SetupInv, Succeeds
    <2> QED BY <2>1, <2>2
  <1>7. AddInv'
    <2>1. CASE q = Daemon
      BY <1>1, <2>1 DEF AddInv
    <2>2. CASE q # Daemon
      BY <1>1, <1>3, <1>d, <2>2 DEF Inv, AddInv, Succeeds
    <2> QED BY <2>1, <2>2
  <1>8. LockInv'
    BY <1>1, <1>3 DEF Inv, LockInv
  <1>9. ServeInv'
    BY <1>1 DEF Inv, ServeInv, SettingUp
  <1> QED BY <1>4, <1>5, <1>6, <1>7, <1>8, <1>9 DEF Inv

\* One step of the upgrade: only with the lock, which is only to be had on a
\* database that is still that of the snapshot.
LEMMA SetupUpgradeInv ==
    ASSUME Inv, NEW q \in Process, SetupUpgrade(q)
    PROVE  Inv'
  <1> DEFINE d == tx[q].work
             e == Upgraded(tx[q].work)
  <1>1. /\ UNCHANGED <<engine, db, item, pc>>
        /\ pc[q] = "migrate" /\ d.version < LatestVersion(engine) /\ CanWrite(q)
        /\ lock' = q /\ tx' = [tx EXCEPT ![q].work = e]
    BY DEF SetupUpgrade, Write
  <1>d. Daemon \in Process /\ NoProc \notin Process
    BY StorageAssumption DEF Process
  <1>2. IsTx(tx[q]) /\ Whole(d) /\ d.version \in Nat
    <2>1. IsTx(tx[q]) /\ Whole(d)
      BY <1>1 DEF Inv, SetupInv
    <2> QED BY <2>1 DEF Whole, IsDb
  <1>3. engine = "sqlite3" /\ LatestVersion(engine) = 3
    BY <1>1, <1>2 DEF LatestVersion, Inv, TypeInv
  <1>4. Whole(e) /\ e.version = d.version + 1 /\ DOMAIN e.rows = DOMAIN d.rows
    BY <1>1, <1>2, <1>3, UpgradeKeepsWhole
  <1>5. tx' = [p \in Process |-> tx'[p]] /\ IsTx(tx'[q]) /\ tx'[q].work = e
        /\ \A p \in Process : p # q => tx'[p] = tx[p]
    <2>1. tx[q] \in [snapshot : {tx[q].snapshot}, work : {tx[q].work}]
      BY <1>2 DEF IsTx
    <2>2. tx'[q] = [tx[q] EXCEPT !.work = e]
      BY <1>1 DEF Inv, TypeInv
    <2>3. tx'[q] = [snapshot |-> tx[q].snapshot, work |-> e]
      BY <2>1, <2>2
    <2>4. tx' = [p \in Process |-> tx'[p]] /\ \A p \in Process : p # q => tx'[p] = tx[p]
      BY <1>1 DEF Inv, TypeInv
    <2> QED BY <2>3, <2>4 DEF IsTx
  <1>6. DOMAIN db.rows \subseteq DOMAIN d.rows /\ db.version <= d.version /\ db.version \in Nat
    <2>1. db.version \in Nat
      BY DEF Inv, DbInv, Whole, IsDb, FreshDb
    <2>2. CASE lock = q
      BY <1>1, <2>1, <2>2 DEF Inv, SetupInv, Succeeds
    <2>3. CASE lock # q
      <3>1. lock = NoProc /\ db = tx[q].snapshot /\ d = tx[q].snapshot
        BY <1>1, <1>3, <2>3 DEF CanWrite, Inv, SetupInv
      <3> QED BY <2>1, <3>1
    <2> QED BY <2>2, <2>3
  <1>7. lock = q \/ lock = NoProc
    BY <1>1 DEF CanWrite
  <1> HIDE DEF d, e
  <1>8. TypeInv'
    BY <1>1, <1>5 DEF Inv, TypeInv
  <1>9. DbInv'
    BY <1>1 DEF Inv, DbInv
  <1>10. \A p \in Process : SetupInv(p)'
    <2>1. SetupInv(q)'
      BY <1>1, <1>2, <1>3, <1>4, <1>5, <1>6 DEF SetupInv, Succeeds
    <2>2. ASSUME NEW p \in Process, p # q
          PROVE  SetupInv(p)'
      BY <1>1, <1>5, <1>7, <1>d, <2>2 DEF Inv, SetupInv, Succeeds
    <2> QED BY <2>1, <2>2
  <1>11. AddInv'
    BY <1>1, <1>7, <1>d DEF Inv, AddInv, Succeeds
  <1>12. LockInv'
    BY <1>1 DEF LockInv
  <1>13. ServeInv'
    BY <1>1 DEF Inv, ServeInv
  <1> QED BY <1>8, <1>9, <1>10, <1>11, <1>12, <1>13 DEF Inv

\* Whatever a transaction with the lock commits replaces what was committed; of
\* one without the lock nothing changes.
LEMMA CommitInv ==
    ASSUME Inv, NEW q \in Process, NEW held, Commit(q, held), UNCHANGED engine, Goto(q, "idle"),
           lock = q => Whole(tx[q].work) /\ Succeeds(tx[q].work)
                       /\ tx[q].work.version <= LatestVersion(engine),
           q = Daemon \/ UNCHANGED item,
           engine = "sqlite3" /\ pc[q] \in SettingUp => db'.version = 3
    PROVE  Inv' /\ DOMAIN db.rows \subseteq DOMAIN db'.rows
  <1>1. /\ pc' \in [Process -> Places] /\ pc'[q] = "idle"
        /\ tx' = [p \in Process |-> tx'[p]]
        /\ \A p \in Process : p # q => pc'[p] = pc[p] /\ tx'[p] = tx[p]
    BY DEF Commit, Rollback, Goto, Inv, TypeInv, Places
  <1>2. lock' # q /\ (lock' = lock \/ (lock = q /\ lock' = NoProc)) /\ NoProc \notin Process
    BY StorageAssumption DEF Commit, Rollback, Unlocked, Process
  <1>3. db' = IF lock = q THEN tx[q].work ELSE db
    BY DEF Commit
  <1>4. db.version \in Nat
    BY DEF Inv, DbInv, Whole, IsDb, FreshDb
  <1>5. /\ DOMAIN db.rows \subseteq DOMAIN db'.rows
        /\ db'.version \in Nat /\ db.version <= db'.version /\ db'.version <= LatestVersion(engine)
        /\ db' = FreshDb \/ Whole(db')
        /\ "tables" \in db.schema => "tables" \in db'.schema
    <2>1. CASE lock = q
      BY <1>3, <2>1, Tables DEF Succeeds, Whole, IsDb
    <2>2. CASE lock # q
      BY <1>3, <1>4, <2>2 DEF Inv, DbInv
    <2> QED BY <2>1, <2>2
  <1>d. Daemon \in Process
    BY DEF Process
  <1>6. TypeInv'
    BY <1>1, <1>2 DEF Inv, TypeInv
  <1>7. DbInv'
    BY <1>1, <1>5, <1>d DEF Inv, DbInv
  <1>8. \A p \in Process : SetupInv(p)'
    <2>1. SetupInv(q)'
      BY <1>1 DEF SetupInv
    <2>2. ASSUME NEW p \in Process, p # q, pc[p] = "migrate"
          PROVE  SetupInv(p)'
      <3>1. CASE lock = q
        <4>1. IsTx(tx[p]) /\ Whole(tx[p].work) /\ tx[p].work.version <= LatestVersion(engine)
              /\ tx[p].work = tx[p].snapshot /\ tx[p].work.version <= db.version
          BY <2>2, <3>1 DEF Inv, SetupInv
        <4>2. lock' = NoProc /\ lock' # p /\ tx'[p] = tx[p]
          BY <1>1, <1>2, <2>2, <3>1
        <4>3. tx[p].work.version \in Nat
          BY <4>1 DEF Whole, IsDb
        <4>4. tx[p].work.version <= db'.version
          BY <1>4, <1>5, <4>1, <4>3
        <4> QED BY <4>1, <4>2, <4>4 DEF SetupInv
      <3>2. CASE lock # q
        BY <1>1, <1>2, <1>3, <2>2, <3>2 DEF Inv, SetupInv, Succeeds
      <3> QED BY <3>1, <3>2
    <2> QED BY <1>1, <2>1, <2>2 DEF SetupInv
  <1>9. AddInv'
    <2>1. CASE q = Daemon
      BY <1>1, <2>1 DEF AddInv
    <2>2. CASE q # Daemon
      BY <1>1, <1>2, <1>3, <1>d, <2>2 DEF Inv, AddInv, Succeeds
    <2> QED BY <2>1, <2>2
  <1>10. LockInv'
    BY <1>1, <1>2 DEF Inv, LockInv
  <1>11. ServeInv'
    <2>1. engine = "sqlite3" => LatestVersion(engine) = 3
      BY DEF LatestVersion
    <2> QED BY <1>1, <1>4, <1>5, <2>1 DEF Inv, ServeInv, SettingUp
  <1> QED BY <1>5, <1>6, <1>7, <1>8, <1>9, <1>10, <1>11 DEF Inv

\* setupDatabase commits the latest version, or finds it committed.
LEMMA SetupCommitInv ==
    ASSUME Inv, NEW q \in Process, SetupCommit(q)
    PROVE  Inv' /\ DOMAIN db.rows \subseteq DOMAIN db'.rows
  <1>1. /\ Commit(q, SetupHeld) /\ UNCHANGED <<engine, item>> /\ Goto(q, "idle")
        /\ pc[q] = "migrate" /\ tx[q].work.version = LatestVersion(engine)
    BY DEF SetupCommit
  <1>2. /\ Whole(tx[q].work) /\ tx[q].work.version <= LatestVersion(engine)
        /\ lock = q => Succeeds(tx[q].work)
        /\ lock # q => tx[q].work.version <= db.version
    BY <1>1 DEF Inv, SetupInv
  <1>3. ASSUME engine = "sqlite3"
        PROVE  db'.version = 3
    <2>1. LatestVersion(engine) = 3 /\ db.version \in Nat /\ db.version <= 3
      BY <1>3 DEF LatestVersion, Inv, DbInv, Whole, IsDb, FreshDb
    <2>2. db' = IF lock = q THEN tx[q].work ELSE db
      BY <1>1 DEF Commit
    <2> QED BY <1>1, <1>2, <2>1, <2>2
  <1> QED BY <1>1, <1>2, <1>3, CommitInv

\* INSERT INTO torrents: a row without files in a database that was whole.
LEMMA AddInsertInv ==
    ASSUME Inv, NEW now \in Instants, AddInsert(now)
    PROVE  Inv'
  <1> DEFINE r == Inserted(db, now)
             rows == [h \in DOMAIN db.rows \cup {item} |-> IF h = item THEN r ELSE db.rows[h]]
             e == [schema |-> db.schema, version |-> db.version, rows |-> rows]
  <1>d. Daemon \in Process /\ NoProc \notin Process
    BY StorageAssumption DEF Process
  <1>1. /\ UNCHANGED <<engine, db, item>> /\ lock = NoProc /\ lock' = Daemon
        /\ pc[Daemon] = "insert" /\ pc' = [pc EXCEPT ![Daemon] = "files"]
    BY DEF AddInsert, Goto
  <1>2. Whole(db)
    BY <1>1, Tables DEF Inv, DbInv
  <1>3. tx' = [tx EXCEPT ![Daemon] = [snapshot |-> db, work |-> e]]
    <2>1. db \in [schema : {db.schema}, version : {db.version}, rows : {db.rows}]
      BY <1>2 DEF Whole, IsDb
    <2>2. [db EXCEPT !.rows = rows] = e
      BY <2>1
    <2>3. [db EXCEPT !.rows = [h \in DOMAIN @ \cup {item} |-> IF h = item THEN r ELSE @[h]]] = e
      BY <2>2
    <2> QED BY <2>3 DEF AddInsert
  <1>4. r \in Row /\ Indexed(r, db.version)
    <2>1. db.version \in 0..3 /\ ("torrents_idx" \in db.schema <=> db.version = 3)
      BY <1>2 DEF Whole, IsDb, SchemaOf
    <2> QED BY <2>1 DEF Inserted, Row, Indexed
  <1> HIDE DEF r
  <1>5. /\ DOMAIN rows = DOMAIN db.rows \cup {item}
        /\ \A h \in DOMAIN rows : /\ rows[h] \in Row /\ Indexed(rows[h], db.version)
                                  /\ h = item \/ rows[h].files = NFiles
    BY <1>2, <1>4 DEF Whole, IsDb
  <1>6. rows = [h \in DOMAIN rows |-> rows[h]]
    OBVIOUS
  <1>7. WholeBut(e, item) /\ item \in DOMAIN e.rows
    <2> HIDE DEF rows
    <2>1. e.schema = db.schema /\ e.version = db.version /\ e.rows = rows
      OBVIOUS
    <2>2. db.version \in 0..3 /\ db.schema = SchemaOf(db.version)
      BY <1>2 DEF Whole, IsDb
    <2>3. IsDb(e)
      BY <1>5, <1>6, <2>1, <2>2 DEF IsDb
    <2> QED BY <1>5, <2>1, <2>2, <2>3 DEF WholeBut
  <1>8. Succeeds(e) /\ e.version = db.version
    BY <1>2 DEF Succeeds, Whole, IsDb
  <1> HIDE DEF e
  <1>9. /\ pc' \in [Process -> Places] /\ pc'[Daemon] = "files"
        /\ tx' = [p \in Process |-> tx'[p]] /\ tx'[Daemon] = [snapshot |-> db, work |-> e]
        /\ \A p \in Process : p # Daemon => pc'[p] = pc[p] /\ tx'[p] = tx[p]
    BY <1>1, <1>3, <1>d DEF Inv, TypeInv, Places
  <1>10. TypeInv'
    BY <1>1, <1>9, <1>d DEF Inv, TypeInv
  <1>11. DbInv'
    BY <1>1, <1>9 DEF Inv, DbInv
  <1>12. \A p \in Process : SetupInv(p)'
    BY <1>1, <1>9, <1>d DEF Inv, SetupInv, Succeeds
  <1>13. AddInv'
    BY <1>1, <1>7, <1>8, <1>9 DEF Inv, DbInv, AddInv, Succeeds, IsTx
  <1>14. LockInv'
    BY <1>1, <1>9 DEF LockInv
  <1>15. ServeInv'
    BY <1>1, <1>9 DEF Inv, ServeInv, SettingUp
  <1> QED BY <1>10, <1>11, <1>12, <1>13, <1>14, <1>15 DEF Inv

\* The row of a torrent with another number of files is a row.
LEMMA RowWithFiles ==
    ASSUME NEW r \in Row, NEW n \in Nat
    PROVE  /\ [r EXCEPT !.files = n] \in Row
           /\ [r EXCEPT !.files = n].indexed = r.indexed
           /\ [r EXCEPT !.files = n].modified = r.modified
  BY DEF Row

\* INSERT INTO files adds to the row that is not complete, or gives up.
LEMMA AddFileInv ==
    ASSUME Inv, AddFile
    PROVE  Inv'
  <1> DEFINE d == tx[Daemon].work
             n == d.rows[item].files + 1
             row == [d.rows[item] EXCEPT !.files = n]
             rows == [d.rows EXCEPT ![item] = row]
             e == [schema |-> d.schema, version |-> d.version, rows |-> rows]
  <1>d. Daemon \in Process /\ NoProc \notin Process
    BY StorageAssumption DEF Process
  <1>1. pc[Daemon] = "files"
    BY DEF AddFile
  <1>2. CASE Rollback(Daemon, 1) /\ Return /\ UNCHANGED db
    <2>1. Abandons(Daemon)
      BY <1>1, <1>2 DEF Rollback, Return, Goto, Abandons, SettingUp
    <2> QED BY <1>d, <2>1, AbandonsInv
  <1>3. CASE /\ Write(Daemon, [d EXCEPT !.rows[item].files = n])
             /\ UNCHANGED <<engine, db, pc, item, open, reads>>
    <2>1. /\ lock = Daemon /\ IsTx(tx[Daemon])
          /\ WholeBut(d, item) /\ item \in DOMAIN d.rows
          /\ d.version <= LatestVersion(engine) /\ Succeeds(d)
      BY <1>1 DEF Inv, AddInv
    <2>2. /\ d \in [schema : {d.schema}, version : {d.version}, rows : {d.rows}]
          /\ d.rows = [h \in DOMAIN d.rows |-> d.rows[h]]
          /\ d.version \in 0..3 /\ d.schema = SchemaOf(d.version)
          /\ d.rows[item] \in Row /\ d.rows[item].files \in Nat
      BY <2>1 DEF WholeBut, IsDb, Row
    <2>3. [d EXCEPT !.rows[item].files = n] = e
      <3>1. [d EXCEPT !.rows[item].files = n] = [d EXCEPT !.rows = rows]
        OBVIOUS
      <3>2. [d EXCEPT !.rows = rows] = e
        BY <2>2
      <3> QED BY <3>1, <3>2
    <2>4. tx[Daemon] \in [snapshot : {tx[Daemon].snapshot}, work : {d}]
      BY <2>1 DEF IsTx
    <2>5. lock' = Daemon /\ tx' = [tx EXCEPT ![Daemon].work = e]
      BY <1>3, <2>3 DEF Write
    <2>6. tx'[Daemon] = [snapshot |-> tx[Daemon].snapshot, work |-> e]
      <3>1. tx'[Daemon] = [tx[Daemon] EXCEPT !.work = e]
        BY <1>d, <2>5 DEF Inv, TypeInv
      <3> QED BY <2>4, <3>1
    <2>7. tx' = [p \in Process |-> tx'[p]] /\ \A p \in Process : p # Daemon => tx'[p] = tx[p]
      BY <1>d, <2>5 DEF Inv, TypeInv
    <2>8. row \in Row /\ Indexed(row, d.version)
      <3>1. n \in Nat
        BY <2>2
      <3>2. row \in Row /\ row.indexed = d.rows[item].indexed /\ row.modified = d.rows[item].modified
        BY <2>2, <3>1, RowWithFiles
      <3>3. Indexed(d.rows[item], d.version)
        BY <2>1 DEF WholeBut
      <3> QED BY <3>2, <3>3 DEF Indexed
    <2> HIDE DEF row
    <2>9. /\ DOMAIN rows = DOMAIN d.rows /\ rows = [h \in DOMAIN rows |-> rows[h]]
          /\ rows[item] = row /\ \A h \in DOMAIN rows : h # item => rows[h] = d.rows[h]
      BY <2>1, <2>2
    <2> HIDE DEF rows
    <2>10. \A h \in DOMAIN rows : /\ rows[h] \in Row /\ Indexed(rows[h], d.version)
                                  /\ h = item \/ rows[h].files = NFiles
      BY <2>1, <2>8, <2>9 DEF WholeBut, IsDb
    <2>11. e.schema = d.schema /\ e.version = d.version /\ e.rows = rows
      OBVIOUS
    <2>12. WholeBut(e, item) /\ item \in DOMAIN e.rows /\ Succeeds(e)
      <3>1. IsDb(e)
        BY <2>2, <2>9, <2>10, <2>11 DEF IsDb
      <3> QED BY <2>1, <2>2, <2>9, <2>10, <2>11, <3>1 DEF WholeBut, Succeeds
    <2> HIDE DEF d, e
    <2>13. TypeInv'
      BY <1>3, <1>d, <2>5, <2>7 DEF Inv, TypeInv
    <2>14. DbInv'
      BY <1>3 DEF Inv, DbInv
    <2>15. \A p \in Process : SetupInv(p)'
      BY <1>1, <1>3, <2>1, <2>5, <2>7 DEF Inv, SetupInv, Succeeds
    <2>16. AddInv'
      BY <1>3, <2>1, <2>5, <2>6, <2>11, <2>12 DEF AddInv, Succeeds, IsTx
    <2>17. LockInv'
      BY <1>1, <1>3, <2>5 DEF LockInv
    <2>18. ServeInv'
      BY <1>3 DEF Inv, ServeInv
    <2> QED BY <2>13, <2>14, <2>15, <2>16, <2>17, <2>18 DEF Inv
  <1> QED BY <1>2, <1>3 DEF AddFile

\* With the last file the torrent is whole, and so is what is committed.
LEMMA AddCommitInv ==
    ASSUME Inv, AddCommit
    PROVE  Inv' /\ DOMAIN db.rows \subseteq DOMAIN db'.rows
  <1>1. /\ Commit(Daemon, 1) /\ UNCHANGED engine /\ Goto(Daemon, "idle")
        /\ pc[Daemon] = "files" /\ tx[Daemon].work.rows[item].files = NFiles
    BY DEF AddCommit, Return, FilesWritten
  <1>2. /\ WholeBut(tx[Daemon].work, item) /\ Succeeds(tx[Daemon].work)
        /\ tx[Daemon].work.version <= LatestVersion(engine)
    BY <1>1 DEF Inv, AddInv
  <1>3. Whole(tx[Daemon].work)
    BY <1>1, <1>2 DEF WholeBut, Whole
  <1>4. Daemon \in Process /\ pc[Daemon] \notin SettingUp
    BY <1>1 DEF Process, SettingUp
  <1> QED BY <1>1, <1>2, <1>3, <1>4, CommitInv

\* A database of an earlier release is a whole one.
LEMMA OldDbWhole ==
    ASSUME NEW e \in {"sqlite3", "postgres"}, NEW d \in OldDb(e)
    PROVE  (d = FreshDb \/ Whole(d)) /\ d.version <= LatestVersion(e)
  <1>1. CASE d = FreshDb
    BY <1>1 DEF FreshDb, LatestVersion
  <1>2. CASE d # FreshDb
    <2>1. PICK v \in 0..LatestVersion(e), times \in UNION {[H -> Instants] : H \in SUBSET (Hash \ ZeroSized)} :
              d = [schema  |-> SchemaOf(v), version |-> v,
                   rows    |-> [h \in DOMAIN times |-> [discovered |-> times[h],
                                                       files    |-> NFiles,
                                                       indexed  |-> IF v = 3 THEN 1 ELSE 0,
                                                       modified |-> IF v = 3 THEN "set" ELSE "default"]]]
      BY <1>2 DEF OldDb
    <2>2. v \in 0..3 /\ v <= LatestVersion(e)
      BY DEF LatestVersion
    <2>3. \A h \in DOMAIN times : times[h] \in Instants
      OBVIOUS
    <2>4. d.schema = SchemaOf(v) /\ d.version = v /\ DOMAIN d.rows = DOMAIN times
          /\ d.rows = [h \in DOMAIN d.rows |-> d.rows[h]]
          /\ d = [schema |-> d.schema, version |-> d.version, rows |-> d.rows]
      BY <2>1
    <2>5. ASSUME NEW h \in DOMAIN d.rows
          PROVE  d.rows[h] \in Row /\ Indexed(d.rows[h], v) /\ d.rows[h].files = NFiles
      <3>1. d.rows[h] = [discovered |-> times[h], files |-> NFiles,
                         indexed  |-> IF v = 3 THEN 1 ELSE 0,
                         modified |-> IF v = 3 THEN "set" ELSE "default"]
        BY <2>1, <2>4
      <3> QED BY <2>3, <2>4, <3>1, StorageAssumption DEF Row, Indexed
    <2> QED BY <2>2, <2>4, <2>5 DEF Whole, IsDb
  <1> QED BY <1>1, <1>2

\* The invariant holds when both processes are down.
LEMMA InitInv == Init => Inv
  <1> SUFFICES ASSUME Init PROVE Inv
    OBVIOUS
  <1>1. engine \in {"sqlite3", "postgres"} /\ NoProc \notin Process /\ Daemon \in Process
    BY StorageAssumption DEF Init, Process
  <1>2. /\ lock = NoProc /\ pc = [p \in Process |-> "down"] /\ tx = [p \in Process |-> NoTx]
        /\ db \in OldDb(engine)
    BY DEF Init
  <1>3. TypeInv
    BY <1>1, <1>2 DEF TypeInv, Places
  <1>4. DbInv
    BY <1>1, <1>2, OldDbWhole DEF DbInv
  <1> QED BY <1>1, <1>2, <1>3, <1>4 DEF Inv, SetupInv, AddInv, LockInv, ServeInv, SettingUp

\* The invariant is inductive, and no step loses a torrent that was committed.
LEMMA StepInv ==
    ASSUME Inv, [Next]_vars
    PROVE  Inv' /\ DOMAIN db.rows \subseteq DOMAIN db'.rows
  <1>1. \/ \E p \in Process : Abandons(p) \/ \E w \in Places : Moves(p, w)
        \/ \E p \in Process : SetupCreate(p) \/ SetupUpgrade(p) \/ SetupCommit(p)
        \/ \E now \in Instants : AddInsert(now)
        \/ AddFile \/ AddCommit \/ Idles
    BY StepKinds DEF Inv
  <1>2. ASSUME NEW p \in Process, NEW w, Moves(p, w)
        PROVE  Inv' /\ db' = db
    BY <1>2, MovesInv DEF Moves
  <1>3. ASSUME NEW p \in Process, Abandons(p)
        PROVE  Inv' /\ db' = db
    BY <1>3, AbandonsInv DEF Abandons
  <1>4. ASSUME NEW p \in Process, SetupCreate(p)
        PROVE  Inv' /\ db' = db
    BY <1>4, SetupCreateInv DEF SetupCreate
  <1>5. ASSUME NEW p \in Process, SetupUpgrade(p)
        PROVE  Inv' /\ db' = db
    BY <1>5, SetupUpgradeInv DEF SetupUpgrade
  <1>6. ASSUME NEW now \in Instants, AddInsert(now)
        PROVE  Inv' /\ db' = db
    BY <1>6, AddInsertInv DEF AddInsert
  <1>7. ASSUME AddFile
        PROVE  Inv' /\ db' = db
    BY <1>7, AddFileInv DEF AddFile
  <1>8. ASSUME Idles
        PROVE  Inv' /\ db' = db
    BY <1>8 DEF Idles, Inv, TypeInv, DbInv, SetupInv, AddInv, LockInv, ServeInv, Succeeds
  <1> QED BY <1>1, <1>2, <1>3, <1>4, <1>5, <1>6, <1>7, <1>8, SetupCommitInv, AddCommitInv

\* The invariant holds in every reachable state.
LEMMA Invariance == Spec => []Inv
  BY InitInv, StepInv, PTL DEF Spec

-----------------------------------------------------------------------------
\* setupDatabase leaves, in every state of the database file, the objects of its
\* user_version: no crash between two steps of an upgrade and no second process
\* that upgrades at the same time is seen in it.
THEOREM SchemaTheorem == Spec => []SchemaMatchesVersion
  <1>1. Inv => SchemaMatchesVersion
    BY DEF Inv, DbInv, Whole, SchemaMatchesVersion
  <1> QED BY <1>1, Invariance, PTL

\* A process that makeSqlite3Database has returned to finds version 3, also when
\* the other process made the upgrade.
THEOREM LatestSchemaTheorem == Spec => []ServesLatestSchema
  <1>1. Inv => ServesLatestSchema
    BY DEF Inv, TypeInv, ServeInv, ServesLatestSchema, SettingUp, LatestVersion
  <1> QED BY <1>1, Invariance, PTL

\* AddNewTorrent and the upgrade to version 3 never show a reader a torrent that
\* lacks files, is indexed not once, or has no modified_on.
THEOREM TorrentsWholeTheorem == Spec => []TorrentsWhole
  <1>1. Inv => TorrentsWhole
    BY Tables DEF Inv, DbInv, Whole, Indexed, TorrentsWhole
  <1> QED BY <1>1, Invariance, PTL

\* No step of either process, whatever it upgrades, rolls back or commits, loses a
\* torrent that was committed.
THEOREM TorrentsKeptTheorem == Spec => TorrentsKept
  <1>1. Inv /\ [Next]_vars => [DOMAIN db.rows \subseteq DOMAIN db'.rows]_vars
    BY StepInv
  <1> QED BY <1>1, Invariance, PTL DEF Spec, TorrentsKept

-----------------------------------------------------------------------------
(***************************************************************************)
(* The pool's accounts and the torrent in hand.                            *)
(***************************************************************************)
\* Held, by back end and place.
HeldAt(e, w) ==
    CASE w \in {"down", "begin", "idle", "add"} -> 0
      [] w \in {"trgm", "size", "exists", "insert", "files"} -> 1
      [] w = "looking" -> 2
      [] OTHER -> IF e = "postgres" THEN 2 ELSE 1

Reading(p) == IF p = Web THEN reads ELSE 0

PoolInv ==
    /\ engine \in Engines
    /\ open \in [Process -> Nat] /\ reads \in Nat
    /\ \A p \in Process : open[p] = HeldAt(engine, pc[p]) + Reading(p) /\ open[p] <= MaxOpenConns

\* The call that a torrent was given to has it, and one that looks for it or
\* writes it knows that it is not empty.
ItemInv ==
    /\ item \in Hash \cup {NoHash}
    /\ pc[Daemon] \in {"add", "size", "exists", "looking", "insert", "files"} => item \in Hash
    /\ pc[Daemon] \in {"exists", "looking", "insert", "files"} => item \notin ZeroSized

\* Only such torrents are in the database, and in what may be committed.
Stored(d) == DOMAIN d.rows \subseteq Hash \ ZeroSized

StoredInv ==
    /\ Stored(db)
    /\ \A p \in Process : pc[p] = "migrate" \/ (p = Daemon /\ pc[p] = "files") => Stored(tx[p].work)

\* A step of process p that balances its own account.
Balances(p) ==
    /\ UNCHANGED engine
    /\ open' \in [Process -> Nat] /\ reads' \in Nat
    /\ \A q \in Process : q # p => UNCHANGED <<pc[q], open[q]>>
    /\ p = Web \/ UNCHANGED reads
    /\ open'[p] = HeldAt(engine, pc'[p]) + Reading(p)' /\ open'[p] <= MaxOpenConns

LEMMA BalancesPool ==
    ASSUME PoolInv, NEW p \in Process, Balances(p)
    PROVE  PoolInv'
<1>1. ASSUME NEW q \in Process, q # p
      PROVE  open'[q] = HeldAt(engine', pc'[q]) + Reading(q)' /\ open'[q] <= MaxOpenConns
  BY <1>1 DEF PoolInv, Balances, Reading, Process
<1> QED
  BY <1>1 DEF PoolInv, Balances

\* A connection more or less, with the place that it goes with.
LEMMA AccountStep ==
    ASSUME TypeInv, PoolInv, NEW p \in Process, NEW w \in Places, NEW n \in Nat,
           UNCHANGED <<engine, reads>>, Goto(p, w), open' = [open EXCEPT ![p] = n],
           n = HeldAt(engine, w) + Reading(p), n <= MaxOpenConns
    PROVE  PoolInv'
<1>1. Balances(p)
  <2>1. /\ pc'[p] = w /\ open'[p] = n /\ open' \in [Process -> Nat]
        /\ \A q \in Process : q # p => UNCHANGED <<pc[q], open[q]>>
    BY DEF TypeInv, PoolInv, Goto
  <2>2. Reading(p)' = Reading(p)
    BY DEF Reading
  <2> QED
    BY <2>1, <2>2 DEF Balances, PoolInv
<1> QED
  BY <1>1, BalancesPool

\* Every step keeps the accounts.
LEMMA PoolStep ==
    ASSUME Inv, PoolInv, [Next]_vars
    PROVE  PoolInv'
<1>0. /\ TypeInv /\ Daemon \in Process /\ Web \in Process /\ Daemon # Web /\ MaxOpenConns = 3
      /\ \A p \in Process : pc[p] = "trgm" => engine = "postgres"
  BY StorageAssumption DEF Inv, ServeInv, Process, MaxOpenConns
<1>1. ASSUME NEW p \in Process
      PROVE  /\ open[p] \in Nat /\ Reading(p) \in Nat
             /\ open[p] = HeldAt(engine, pc[p]) + Reading(p) /\ open[p] <= 3
  BY <1>0 DEF PoolInv, Reading
<1>2. ASSUME NEW p \in Process, NEW w \in Places, NEW n \in Nat, UNCHANGED <<engine, reads>>, Goto(p, w),
             open' = [open EXCEPT ![p] = n], n = HeldAt(engine, w) + Reading(p), n <= 3
      PROVE  PoolInv'
  BY <1>0, <1>2, AccountStep
<1>3. \A p \in Process : Goto(p, pc[p]) <=> pc' = pc
  BY <1>0 DEF Goto, TypeInv
<1>4. \A p \in Process : UNCHANGED open => open' = [open EXCEPT ![p] = open[p]]
  BY DEF PoolInv
<1>5. ASSUME NEW p \in Process, NEW w \in Places, UNCHANGED <<engine, reads, open>>, Goto(p, w),
             HeldAt(engine, w) = HeldAt(engine, pc[p])
      PROVE  PoolInv'
  BY <1>1, <1>2, <1>4, <1>5
<1>6. ASSUME UNCHANGED <<engine, reads, open, pc>>
      PROVE  PoolInv'
  BY <1>6 DEF PoolInv, Reading
<1>7. ASSUME NEW p \in Process, Start(p) \/ SetupCreate(p)
      PROVE  PoolInv'
  BY <1>5, <1>7 DEF Start, SetupCreate, HeldAt, Places
<1>8. ASSUME NEW p \in Process, SetupBegin(p)
      PROVE  PoolInv'
  <2>1. /\ UNCHANGED <<engine, reads>> /\ pc[p] = "begin" /\ open[p] < 3
        /\ open' = [open EXCEPT ![p] = open[p] + 1]
        /\ Goto(p, IF engine = "postgres" THEN "trgm" ELSE "create")
    BY <1>0, <1>8 DEF SetupBegin, Acquire
  <2>2. HeldAt(engine, "begin") = 0 /\ (IF engine = "postgres" THEN "trgm" ELSE "create") \in Places
        /\ HeldAt(engine, IF engine = "postgres" THEN "trgm" ELSE "create") = 1
    BY DEF HeldAt, Places
  <2>3. PICK w \in Places : w = IF engine = "postgres" THEN "trgm" ELSE "create"
    BY <2>2
  <2>4. PICK n \in Nat : n = open[p] + 1
    BY <1>1
  <2>5. n = HeldAt(engine, w) + Reading(p) /\ n <= 3
    BY <1>1, <2>1, <2>2, <2>3, <2>4
  <2> QED
    BY <1>2, <2>1, <2>3, <2>4, <2>5
<1>9. ASSUME NEW p \in Process, SetupTrgm(p)
      PROVE  PoolInv'
  <2>1. /\ UNCHANGED <<engine, reads>> /\ pc[p] = "trgm" /\ open[p] < 3
        /\ open' = [open EXCEPT ![p] = open[p] + 1] /\ Goto(p, "create")
    BY <1>0, <1>9 DEF SetupTrgm, Acquire
  <2>2. HeldAt(engine, "trgm") = 1 /\ HeldAt(engine, "create") = 2 /\ "create" \in Places
    BY <1>0, <2>1 DEF HeldAt, Places
  <2>3. PICK n \in Nat : n = open[p] + 1
    BY <1>1
  <2>4. n = HeldAt(engine, "create") + Reading(p) /\ n <= 3
    BY <1>1, <2>1, <2>2, <2>3
  <2> QED
    BY <1>2, <2>1, <2>2, <2>3, <2>4
<1>10. ASSUME NEW p \in Process, NEW held \in Nat, HeldAt(engine, pc[p]) = held,
              Rollback(p, held), Goto(p, "idle"), UNCHANGED <<engine, reads>>
       PROVE  PoolInv'
  <2>1. open' = [open EXCEPT ![p] = open[p] - held]
    BY <1>10 DEF Rollback
  <2>2. HeldAt(engine, "idle") = 0 /\ "idle" \in Places
    BY DEF HeldAt, Places
  <2>3. open[p] - held = HeldAt(engine, "idle") + Reading(p) /\ Reading(p) \in Nat
    BY <1>1, <1>10, <2>2
  <2>4. PICK n \in Nat : n = open[p] - held
    BY <2>2, <2>3
  <2>5. n = HeldAt(engine, "idle") + Reading(p) /\ n <= 3
    BY <1>1, <1>10, <2>3, <2>4
  <2> QED
    BY <1>2, <1>10, <2>1, <2>2, <2>4, <2>5
<1>11. ASSUME NEW p \in Process, SetupTrgmUnread(p)
       PROVE  PoolInv'
  BY <1>10, <1>11 DEF SetupTrgmUnread, HeldAt
<1>12. ASSUME NEW p \in Process, SetupUpgrade(p)
       PROVE  PoolInv'
  BY <1>6, <1>12 DEF SetupUpgrade
<1>13. ASSUME NEW p \in Process, SetupCommit(p)
       PROVE  PoolInv'
  <2>1. HeldAt(engine, pc[p]) = SetupHeld /\ SetupHeld \in Nat
    BY <1>13 DEF SetupCommit, HeldAt, SetupHeld
  <2> QED
    BY <1>10, <1>13, <2>1 DEF SetupCommit, Commit
<1>14. ASSUME NEW p \in Process, Stop(p)
       PROVE  PoolInv'
  <2>1. /\ UNCHANGED engine /\ Goto(p, "down") /\ open' = [open EXCEPT ![p] = 0]
        /\ reads' = IF p = Web THEN 0 ELSE reads
    BY <1>14 DEF Stop
  <2>2. HeldAt(engine, "down") = 0
    BY DEF HeldAt
  <2>3. /\ pc'[p] = "down" /\ open'[p] = 0 /\ open' \in [Process -> Nat] /\ reads' \in Nat
        /\ \A q \in Process : q # p => UNCHANGED <<pc[q], open[q]>>
    BY <1>0, <2>1 DEF TypeInv, PoolInv, Goto
  <2>4. Reading(p)' = 0
    BY <2>1 DEF Reading
  <2>5. Balances(p)
    BY <1>0, <2>1, <2>2, <2>3, <2>4 DEF Balances
  <2> QED
    BY <2>5, BalancesPool
<1>15. ASSUME NEW h \in Hash, AddNewTorrent(h)
       PROVE  PoolInv'
  BY <1>0, <1>5, <1>15 DEF AddNewTorrent, HeldAt, Places
<1>16. CASE AddBegin
  <2>1. /\ UNCHANGED <<engine, reads>> /\ pc[Daemon] = "add" /\ open[Daemon] < 3
        /\ open' = [open EXCEPT ![Daemon] = open[Daemon] + 1] /\ Goto(Daemon, "size")
    BY <1>0, <1>16 DEF AddBegin, Acquire
  <2>2. HeldAt(engine, "add") = 0 /\ HeldAt(engine, "size") = 1 /\ "size" \in Places
    BY DEF HeldAt, Places
  <2>3. PICK n \in Nat : n = open[Daemon] + 1
    BY <1>0, <1>1
  <2>4. n = HeldAt(engine, "size") + Reading(Daemon) /\ n <= 3
    BY <1>0, <1>1, <2>1, <2>2, <2>3
  <2> QED
    BY <1>0, <1>2, <2>1, <2>2, <2>3, <2>4
<1>17. CASE AddSize
  <2>1. CASE Rollback(Daemon, 1) /\ Return
    BY <1>0, <1>10, <1>17, <2>1 DEF AddSize, Return, HeldAt
  <2>2. CASE Goto(Daemon, "exists") /\ UNCHANGED <<engine, reads, open>>
    BY <1>0, <1>5, <1>17, <2>2 DEF AddSize, HeldAt, Places
  <2> QED
    BY <1>17, <2>1, <2>2 DEF AddSize
<1>18. CASE AddExistsQuery
  <2>1. /\ UNCHANGED <<engine, reads>> /\ pc[Daemon] = "exists" /\ open[Daemon] < 3
        /\ open' = [open EXCEPT ![Daemon] = open[Daemon] + 1] /\ Goto(Daemon, "looking")
    BY <1>0, <1>18 DEF AddExistsQuery, Acquire
  <2>2. HeldAt(engine, "exists") = 1 /\ HeldAt(engine, "looking") = 2 /\ "looking" \in Places
    BY DEF HeldAt, Places
  <2>3. PICK n \in Nat : n = open[Daemon] + 1
    BY <1>0, <1>1
  <2>4. n = HeldAt(engine, "looking") + Reading(Daemon) /\ n <= 3
    BY <1>0, <1>1, <2>1, <2>2, <2>3
  <2> QED
    BY <1>0, <1>2, <2>1, <2>2, <2>3, <2>4
<1>19. CASE AddExists
  <2>1. CASE Rollback(Daemon, 2) /\ Return
    BY <1>0, <1>10, <1>19, <2>1 DEF AddExists, Return, HeldAt
  <2>2. CASE /\ Goto(Daemon, "insert") /\ UNCHANGED <<engine, reads>>
             /\ open' = [open EXCEPT ![Daemon] = open[Daemon] - 1]
    <3>1. HeldAt(engine, "looking") = 2 /\ HeldAt(engine, "insert") = 1 /\ "insert" \in Places
      BY DEF HeldAt, Places
    <3>2. pc[Daemon] = "looking"
      BY <1>19 DEF AddExists
    <3>3. open[Daemon] - 1 = HeldAt(engine, "insert") + Reading(Daemon) /\ open[Daemon] - 1 \in Nat
      BY <1>0, <1>1, <3>1, <3>2
    <3>4. PICK n \in Nat : n = open[Daemon] - 1
      BY <3>3
    <3>5. n = HeldAt(engine, "insert") + Reading(Daemon) /\ n <= 3
      BY <1>0, <1>1, <3>3, <3>4
    <3> QED
      BY <1>0, <1>2, <2>2, <3>1, <3>4, <3>5
  <2> QED
    BY <1>19, <2>1, <2>2 DEF AddExists
<1>20. ASSUME NEW now \in Instants, AddInsert(now)
       PROVE  PoolInv'
  BY <1>0, <1>5, <1>20 DEF AddInsert, HeldAt, Places
<1>21. CASE AddFile
  <2>1. CASE Rollback(Daemon, 1) /\ Return
    BY <1>0, <1>10, <1>21, <2>1 DEF AddFile, Return, HeldAt
  <2>2. CASE UNCHANGED <<engine, db, pc, item, open, reads>>
    BY <1>6, <2>2
  <2> QED
    BY <1>21, <2>1, <2>2 DEF AddFile
<1>22. CASE AddCommit
  BY <1>0, <1>10, <1>22 DEF AddCommit, Commit, Return, HeldAt
<1>23. CASE Query \/ CloseRows
  <2>1. UNCHANGED <<engine, pc>>
    BY <1>23 DEF Query, CloseRows
  <2>2. PICK n \in {open[Web] + 1, open[Web] - 1} :
          open' = [open EXCEPT ![Web] = n] /\ n - open[Web] = reads' - reads /\ n <= 3 /\ reads' \in Nat
    <3>1. open[Web] \in Nat /\ reads \in Nat /\ open[Web] <= 3
      BY <1>0, <1>1 DEF PoolInv
    <3>2. CASE Query
      BY <1>0, <3>1, <3>2 DEF Query, Acquire
    <3>3. CASE CloseRows
      BY <1>0, <3>1, <3>3 DEF CloseRows
    <3> QED
      BY <1>23, <3>2, <3>3
  <2>3. HeldAt(engine, pc[Web]) \in Nat
    BY DEF HeldAt
  <2>4. Reading(Web) = reads /\ Reading(Web)' = reads'
    BY DEF Reading
  <2>5. n = HeldAt(engine, pc[Web]) + reads' /\ n \in Nat
    BY <1>0, <1>1, <2>2, <2>3, <2>4
  <2>6. /\ open'[Web] = n /\ open' \in [Process -> Nat]
        /\ \A q \in Process : q # Web => open'[q] = open[q]
    BY <1>0, <2>2, <2>5 DEF PoolInv
  <2>7. Balances(Web)
    BY <1>0, <2>1, <2>2, <2>4, <2>5, <2>6 DEF Balances
  <2> QED
    BY <1>0, <2>7, BalancesPool
<1>24. CASE UNCHANGED vars
  BY <1>6, <1>24 DEF vars
<1> QED
  BY <1>7, <1>8, <1>9, <1>11, <1>12, <1>13, <1>14, <1>15, <1>16, <1>17, <1>18, <1>19, <1>20, <1>21,
     <1>22, <1>23, <1>24 DEF Next, SetupStep, AddStep, Fail

\* The torrent in hand, from one step to the next.
LEMMA ItemStep ==
    ASSUME Inv, ItemInv, [Next]_vars
    PROVE  ItemInv'
<1>0. pc \in [Process -> Places] /\ Daemon \in Process /\ ZeroSized \subseteq Hash /\ NoHash \notin Hash
  BY StorageAssumption DEF Inv, TypeInv, Process
<1> DEFINE Others == {"down", "begin", "trgm", "create", "migrate", "idle"}
<1>1. ASSUME NEW p \in Process, NEW w \in Others, Goto(p, w), item' \in {item, NoHash},
             p # Daemon => item' = item
      PROVE  ItemInv'
  <2>1. CASE p = Daemon
    <3>1. pc'[Daemon] = w
      BY <1>0, <1>1, <2>1 DEF Goto
    <3> QED
      BY <1>1, <3>1 DEF ItemInv
  <2>2. CASE p # Daemon
    <3>1. pc'[Daemon] = pc[Daemon] /\ item' = item
      BY <1>0, <1>1, <2>2 DEF Goto
    <3> QED
      BY <3>1 DEF ItemInv
  <2> QED
    BY <2>1, <2>2
<1>2. ASSUME NEW p \in Process, Start(p) \/ SetupBegin(p) \/ SetupTrgm(p) \/ SetupTrgmUnread(p)
                                \/ SetupCreate(p) \/ SetupCommit(p) \/ Stop(p)
      PROVE  ItemInv'
  <2>1. CASE Start(p)
    BY <1>1, <2>1 DEF Start
  <2>2. CASE SetupBegin(p)
    BY <1>1, <2>2 DEF SetupBegin
  <2>3. CASE SetupTrgm(p) \/ SetupTrgmUnread(p)
    BY <1>1, <2>3 DEF SetupTrgm, SetupTrgmUnread
  <2>4. CASE SetupCreate(p) \/ SetupCommit(p)
    BY <1>1, <2>4 DEF SetupCreate, SetupCommit
  <2>5. CASE Stop(p)
    BY <1>1, <2>5 DEF Stop
  <2> QED
    BY <1>2, <2>1, <2>2, <2>3, <2>4, <2>5
<1>3. ASSUME UNCHANGED <<pc, item>>
      PROVE  ItemInv'
  BY <1>3 DEF ItemInv
<1>4. ASSUME Return
      PROVE  ItemInv'
  BY <1>0, <1>1, <1>4 DEF Return
<1>5. ASSUME NEW h \in Hash, AddNewTorrent(h)
      PROVE  ItemInv'
  <2>1. pc'[Daemon] = "add" /\ item' = h
    BY <1>0, <1>5 DEF AddNewTorrent, Goto
  <2> QED
    BY <2>1 DEF ItemInv
<1>6. ASSUME NEW w, Goto(Daemon, w), item' = item, item \in Hash,
             w \in {"exists", "looking", "insert", "files"} => item \notin ZeroSized
      PROVE  ItemInv'
  <2>1. pc'[Daemon] = w
    BY <1>0, <1>6 DEF Goto
  <2> QED
    BY <1>6, <2>1 DEF ItemInv
<1>7. CASE AddBegin
  BY <1>6, <1>7 DEF AddBegin, ItemInv
<1>8. CASE AddSize
  BY <1>4, <1>6, <1>8 DEF AddSize, ItemInv
<1>9. CASE AddExistsQuery \/ AddExists
  BY <1>4, <1>6, <1>9 DEF AddExistsQuery, AddExists, ItemInv
<1>10. ASSUME NEW now \in Instants, AddInsert(now)
       PROVE  ItemInv'
  BY <1>6, <1>10 DEF AddInsert, ItemInv
<1>11. CASE AddFile \/ AddCommit
  BY <1>3, <1>4, <1>11 DEF AddFile, AddCommit
<1>12. ASSUME NEW p \in Process, SetupUpgrade(p)
       PROVE  ItemInv'
  BY <1>3, <1>12 DEF SetupUpgrade
<1>13. CASE Query \/ CloseRows \/ UNCHANGED vars
  BY <1>3, <1>13 DEF Query, CloseRows, vars
<1> QED
  BY <1>2, <1>5, <1>7, <1>8, <1>9, <1>10, <1>11, <1>12, <1>13 DEF Next, SetupStep, AddStep, Fail

\* What is stored, from one step to the next.
LEMMA StoredStep ==
    ASSUME Inv, ItemInv, StoredInv, [Next]_vars
    PROVE  StoredInv'
<1>0. /\ pc \in [Process -> Places] /\ tx = [p \in Process |-> tx[p]]
      /\ Daemon \in Process /\ Web \in Process
  BY DEF Inv, TypeInv, Process
<1>1. ASSUME NEW p \in Process, NEW w, w # "migrate", w # "files", Goto(p, w), Stored(db'),
             \A q \in Process : q # p => tx'[q] = tx[q]
      PROVE  StoredInv'
  <2>1. pc'[p] = w /\ \A q \in Process : q # p => pc'[q] = pc[q]
    BY <1>0, <1>1 DEF Goto
  <2> QED
    BY <1>1, <2>1 DEF StoredInv
<1>2. ASSUME UNCHANGED <<db, tx, pc>>
      PROVE  StoredInv'
  BY <1>2 DEF StoredInv
<1>3. ASSUME UNCHANGED tx \/ \E p \in Process : tx' = [tx EXCEPT ![p] = NoTx]
      PROVE  UNCHANGED tx \/ \E p \in Process : \A q \in Process : q # p => tx'[q] = tx[q]
  BY <1>0, <1>3
<1>4. ASSUME NEW p \in Process, NEW held, Rollback(p, held)
      PROVE  \A q \in Process : q # p => tx'[q] = tx[q]
  BY <1>0, <1>4 DEF Rollback
<1>5. ASSUME NEW p \in Process, NEW held, Commit(p, held)
      PROVE  Stored(db') /\ \A q \in Process : q # p => tx'[q] = tx[q]
  <2>1. db' = IF lock = p THEN tx[p].work ELSE db
    BY <1>5 DEF Commit
  <2>2. lock = p => Stored(tx[p].work)
    BY DEF Inv, LockInv, StoredInv
  <2> QED
    BY <1>4, <1>5, <2>1, <2>2 DEF Commit, StoredInv
<1>6. Stored(db)
  BY DEF StoredInv
<1>7. ASSUME NEW p \in Process, Start(p) \/ SetupBegin(p) \/ SetupTrgm(p)
      PROVE  StoredInv'
  BY <1>1, <1>6, <1>7 DEF Start, SetupBegin, SetupTrgm
<1>8. ASSUME NEW p \in Process, SetupTrgmUnread(p)
      PROVE  StoredInv'
  BY <1>1, <1>4, <1>6, <1>8 DEF SetupTrgmUnread
<1>9. ASSUME NEW p \in Process, Stop(p)
      PROVE  StoredInv'
  <2>1. \A q \in Process : q # p => tx'[q] = tx[q]
    BY <1>0, <1>9 DEF Stop
  <2> QED
    BY <1>1, <1>6, <1>9, <2>1 DEF Stop
<1>10. ASSUME NEW p \in Process, SetupCommit(p)
       PROVE  StoredInv'
  BY <1>1, <1>5, <1>10 DEF SetupCommit
<1>11. ASSUME NEW p \in Process, NEW d, Stored(d), UNCHANGED db,
              \A q \in Process : q # p => pc'[q] = pc[q] /\ tx'[q] = tx[q],
              tx'[p].work = d
       PROVE  StoredInv'
  BY <1>6, <1>11 DEF StoredInv
<1>12. ASSUME NEW p \in Process, SetupCreate(p)
       PROVE  StoredInv'
  <2> DEFINE made == [db EXCEPT !.schema = @ \cup {"tables"}]
  <2>1. UNCHANGED db /\ \A q \in Process : q # p => pc'[q] = pc[q]
    BY <1>0, <1>12 DEF SetupCreate, Goto
  <2>2. \E d \in {db, made} : tx' = [tx EXCEPT ![p] = [snapshot |-> db, work |-> d]]
    BY <1>12 DEF SetupCreate, Snapshot
  <2>3. PICK d \in {db, made} : tx' = [tx EXCEPT ![p] = [snapshot |-> db, work |-> d]]
    BY <2>2
  <2>4. Stored(d)
    <3>1. db = [schema |-> db.schema, version |-> db.version, rows |-> db.rows]
      BY DEF Inv, DbInv, Whole, IsDb, FreshDb
    <3>2. made.rows = db.rows
      BY <3>1
    <3> QED
      BY <1>6, <2>3, <3>2 DEF Stored
  <2>5. tx'[p].work = d /\ \A q \in Process : q # p => tx'[q] = tx[q]
    BY <1>0, <2>3
  <2> QED
    BY <1>11, <2>1, <2>4, <2>5
<1>13. ASSUME NEW p \in Process, SetupUpgrade(p)
       PROVE  StoredInv'
  <2> DEFINE d == tx[p].work
  <2>1. /\ UNCHANGED <<db, pc>> /\ tx' = [tx EXCEPT ![p].work = Upgraded(d)]
        /\ pc[p] = "migrate" /\ d.version < LatestVersion(engine)
    BY <1>13 DEF SetupUpgrade, Write
  <2>2. IsTx(tx[p]) /\ Whole(d) /\ Stored(d)
    BY <2>1 DEF Inv, SetupInv, StoredInv
  <2>3. d.version < 3
    <3>1. d.version \in Nat
      BY <2>2 DEF Whole, IsDb
    <3> QED
      BY <2>1, <3>1 DEF LatestVersion
  <2>4. Stored(Upgraded(d))
    BY <2>2, <2>3, UpgradeKeepsWhole DEF Stored
  <2>5. tx[p] \in [snapshot : {tx[p].snapshot}, work : {tx[p].work}]
    BY <2>2 DEF IsTx
  <2>6. tx'[p].work = Upgraded(d) /\ \A q \in Process : q # p => tx'[q] = tx[q]
    BY <1>0, <2>1, <2>5
  <2> QED
    BY <1>11, <2>1, <2>4, <2>6
<1>14. ASSUME NEW h \in Hash, AddNewTorrent(h)
       PROVE  StoredInv'
  BY <1>0, <1>1, <1>6, <1>14 DEF AddNewTorrent
<1>15. CASE AddBegin \/ AddExistsQuery
  BY <1>0, <1>1, <1>6, <1>15 DEF AddBegin, AddExistsQuery
<1>16. ASSUME NEW held, Rollback(Daemon, held), Return, UNCHANGED db
       PROVE  StoredInv'
  BY <1>0, <1>1, <1>4, <1>6, <1>16 DEF Return
<1>17. CASE AddSize
  BY <1>0, <1>1, <1>6, <1>16, <1>17 DEF AddSize
<1>18. CASE AddExists
  BY <1>0, <1>1, <1>6, <1>16, <1>18 DEF AddExists
<1>19. ASSUME NEW now \in Instants, AddInsert(now)
       PROVE  StoredInv'
  <2> DEFINE rows == [h \in DOMAIN db.rows \cup {item} |->
                        IF h = item THEN Inserted(db, now) ELSE db.rows[h]]
             d == [db EXCEPT !.rows = rows]
  <2>1. /\ UNCHANGED db /\ \A q \in Process : q # Daemon => pc'[q] = pc[q]
        /\ tx' = [tx EXCEPT ![Daemon] = [snapshot |-> db, work |-> d]]
    BY <1>0, <1>19 DEF AddInsert, Goto
  <2>2. item \in Hash \ ZeroSized
    BY <1>19 DEF AddInsert, ItemInv
  <2>3. IsDb(db)
    BY <1>19 DEF Inv, DbInv, Whole, IsDb, FreshDb, NoRows
  <2>4. db \in [schema : {db.schema}, version : {db.version}, rows : {db.rows}]
    BY <2>3 DEF IsDb
  <2>5. d.rows = rows
    BY <2>4
  <2>6. Stored(d)
    BY <1>6, <2>2, <2>5 DEF Stored
  <2>7. tx'[Daemon].work = d /\ \A q \in Process : q # Daemon => tx'[q] = tx[q]
    BY <1>0, <2>1
  <2> QED
    BY <1>0, <1>11, <2>1, <2>6, <2>7
<1>20. CASE AddFile
  <2> DEFINE w == tx[Daemon].work
             n == w.rows[item].files
             d == [w EXCEPT !.rows[item].files = n + 1]
  <2>1. CASE Rollback(Daemon, 1) /\ Return /\ UNCHANGED db
    BY <1>16, <2>1
  <2>2. CASE tx' = [tx EXCEPT ![Daemon].work = d] /\ UNCHANGED <<db, pc>>
    <3>1. IsTx(tx[Daemon]) /\ IsDb(w) /\ Stored(w)
      BY <1>0, <1>20 DEF AddFile, Inv, AddInv, WholeBut, StoredInv
    <3>2. w \in [schema : {w.schema}, version : {w.version}, rows : {w.rows}]
      BY <3>1 DEF IsDb
    <3>3. d.rows = [w.rows EXCEPT ![item].files = n + 1]
      BY <3>2
    <3>4. Stored(d)
      BY <3>1, <3>3 DEF Stored
    <3>5. tx[Daemon] \in [snapshot : {tx[Daemon].snapshot}, work : {tx[Daemon].work}]
      BY <3>1 DEF IsTx
    <3> HIDE DEF d
    <3>6. tx'[Daemon].work = d /\ \A q \in Process : q # Daemon => tx'[q] = tx[q]
      BY <1>0, <2>2, <3>5
    <3> QED
      BY <1>0, <1>11, <2>2, <3>4, <3>6
  <2> QED
    BY <1>20, <2>1, <2>2 DEF AddFile, Write
<1>21. CASE AddCommit
  BY <1>0, <1>1, <1>5, <1>21 DEF AddCommit, Return
<1>22. CASE Query \/ CloseRows \/ UNCHANGED vars
  BY <1>2, <1>22 DEF Query, CloseRows, vars
<1> QED
  BY <1>7, <1>8, <1>9, <1>10, <1>12, <1>13, <1>14, <1>15, <1>17, <1>18, <1>19, <1>20, <1>21, <1>22
  DEF Next, SetupStep, AddStep, Fail

LEMMA InitAccounts == Init => PoolInv /\ ItemInv /\ StoredInv
<1> SUFFICES ASSUME Init PROVE PoolInv /\ ItemInv /\ StoredInv
  OBVIOUS
<1>1. PoolInv
  BY StorageAssumption DEF Init, PoolInv, HeldAt, Reading, Process, MaxOpenConns
<1>2. ItemInv
  BY DEF Init, ItemInv, Process
<1>3. Stored(db)
  <2>1. CASE db = FreshDb
    BY <2>1 DEF Stored, FreshDb, NoRows
  <2>2. CASE db # FreshDb
    <3>1. PICK v \in 0..LatestVersion(engine),
               times \in UNION {[H -> Instants] : H \in SUBSET (Hash \ ZeroSized)} :
             db = [schema  |-> SchemaOf(v), version |-> v,
                   rows    |-> [h \in DOMAIN times |->
                                  [discovered |-> times[h],
                                   files    |-> NFiles,
                                   indexed  |-> IF v = 3 THEN 1 ELSE 0,
                                   modified |-> IF v = 3 THEN "set" ELSE "default"]]]
      BY <2>2 DEF Init, OldDb
    <3>2. DOMAIN db.rows = DOMAIN times
      BY <3>1
    <3>3. DOMAIN times \subseteq Hash \ ZeroSized
      OBVIOUS
    <3> QED
      BY <3>2, <3>3 DEF Stored
  <2> QED
    BY <2>1, <2>2
<1>4. StoredInv
  BY <1>3 DEF Init, StoredInv
<1> QED
  BY <1>1, <1>2, <1>4

\* Both back ends' pools (sql.DB) have exactly the connections in use that the
\* calls in progress and the result sets not yet closed account for, at most
\* MaxOpenConns of them, whatever a call returns early with; a torrent without a
\* byte is never stored, and the write lock is held by an open transaction.
THEOREM StorageTypeCorrect == Spec => []TypeOK
<1>1. Inv /\ PoolInv /\ ItemInv /\ StoredInv => TypeOK
  <2> SUFFICES ASSUME Inv, PoolInv, ItemInv, StoredInv PROVE TypeOK
    OBVIOUS
  <2>1. db.version \in 0..3
    BY DEF Inv, DbInv, Whole, IsDb, FreshDb
  <2>2. ASSUME NEW p \in Process
        PROVE  /\ open[p] = Held(p) + (IF p = Web THEN reads ELSE 0)
               /\ open[p] \in 0..MaxOpenConns
    <3>1. HeldAt(engine, pc[p]) = Held(p)
      BY DEF HeldAt, Held, SetupHeld
    <3>2. open[p] \in Nat /\ open[p] <= MaxOpenConns /\ open[p] = Held(p) + Reading(p)
      BY <3>1 DEF PoolInv
    <3> QED
      BY <3>2 DEF Reading, MaxOpenConns
  <2>3. ASSUME NEW p \in Process, lock = p
        PROVE  tx[p] # NoTx
    <3>1. IsTx(tx[p])
      BY <2>3 DEF Inv, LockInv, SetupInv, AddInv
    <3>2. "work" \in DOMAIN tx[p]
      BY <3>1 DEF IsTx
    <3> QED
      BY <3>2 DEF NoTx
  <2> QED
    BY <2>1, <2>2, <2>3 DEF TypeOK, PoolInv, ItemInv, StoredInv, Stored, Inv, TypeInv
<1>2. Spec => [](Inv /\ PoolInv /\ ItemInv /\ StoredInv)
  BY Invariance, InitAccounts, PoolStep, ItemStep, StoredStep, PTL DEF Spec
<1> QED
  BY <1>1, <1>2, PTL

-----------------------------------------------------------------------------
(***************************************************************************)
(* The statistics over what is committed, by the lemmas of                 *)
(* StatisticsProofs.                                                       *)
(***************************************************************************)
\* What is committed has been discovered at an instant and has its files.
LEMMA RowsCommitted ==
    ASSUME Inv, NEW h \in DOMAIN db.rows
    PROVE  IsInstant(db.rows[h].discovered) /\ db.rows[h].discovered.day >= 0 /\ db.rows[h].files > 0
<1>1. db # FreshDb
  BY DEF FreshDb, NoRows
<1>2. db.rows[h] \in Row /\ db.rows[h].files = NFiles
  BY <1>1 DEF Inv, DbInv, Whole, IsDb
<1>3. NFiles \in Nat /\ NFiles > 0
  BY StorageAssumption
<1>4. db.rows[h].discovered \in Instants
  BY <1>2 DEF Row
<1>5. IsInstant(db.rows[h].discovered) /\ db.rows[h].discovered.day >= 0
  BY <1>4, PersistenceAssumption DEF IsInstant
<1> QED
  BY <1>2, <1>3, <1>5

\* apiStatistics counts right: what StatisticsCount says of the requests of a run
\* holds of any, and of any instants and any groups not read.  Nothing later than
\* the n-th period after the one named lies in the window of GetStatistics, even
\* when the hours overflow; and when they do not, all of each period does.
THEOREM StatisticsCountTheorem == Spec => []StatisticsCount
<1>1. Inv => StatisticsCount
  <2> SUFFICES ASSUME Inv, NEW q \in Requests, Valid(q.from, q.n), NEW lost
               PROVE  CountsFollowing(db.rows, q.from, q.n, lost)
    BY DEF StatisticsCount
  <2>1. q.from \in Dates /\ (q.n = << >> \/ q.n[1] \in Int)
    BY PersistenceAssumption
  <2>2. \A h \in DOMAIN db.rows : IsInstant(db.rows[h].discovered) /\ db.rows[h].files > 0
    BY RowsCommitted
  <2> QED
    BY <2>1, <2>2, AnswerCounts
<1> QED
  BY <1>1, Invariance, PTL

\* statistics.js asks for a window that reaches up to now: PageReachesNow holds of
\* any instant since 1970 and every n from 5 to 365, the limits of the page's input.
THEOREM PageReachesNowTheorem == Spec => []PageReachesNow
<1>1. Inv => PageReachesNow
  <2> SUFFICES ASSUME Inv, NEW h \in DOMAIN db.rows,
                      NEW unit \in {"Hour", "Day", "Month", "Year"}, NEW n \in PageN,
                      NEW now, now = db.rows[h].discovered
               PROVE  Period(unit, now) \in
                        DOMAIN apiStatistics(db.rows, fromString(now, n, unit), <<n>>, {}).NDiscovered
    BY DEF PageReachesNow
  <2>1. IsInstant(now) /\ now.day >= 0 /\ db.rows[h].files > 0
    BY RowsCommitted
  <2>2. n \in Int /\ 5 <= n /\ n <= 365 /\ n > 0 /\ n <= MaxInt32
    BY PersistenceAssumption, Z3T(20) DEF MaxInt32
  <2>3. Covers(fromString(now, n, unit), n, now)
    BY <2>1, <2>2, PageHours, PageDays, PageMonths, PageYears, Z3T(20)
  <2>4. fromString(now, n, unit).gran = unit
    BY DEF fromString
  <2> QED
    BY <2>1, <2>2, <2>3, <2>4, Counted
<1> QED
  BY <1>1, Invariance, PTL
=============================================================================
