------------------------------- MODULE Storage -------------------------------
(***************************************************************************)
(* The SQL back ends of pkg/persistence: sqlite3.go and postgres.go.       *)
(*                                                                         *)
(* Two processes open one database, magneticod (Daemon) and magneticow     *)
(* (Web).  Each has a pool of MaxOpenConns connections, runs setupDatabase *)
(* when it starts (it creates the tables and, for SQLite, upgrades the     *)
(* schema step by step in one transaction) and then serves calls: the      *)
(* daemon adds torrents one after another, magneticow answers requests     *)
(* that read.  A process may stop at any point, by a crash or because an   *)
(* error of a call is fatal to it, and may be started again.               *)
(*                                                                         *)
(* A transaction is a private copy of the database, made from a snapshot.  *)
(* There is one write lock.  In SQLite (WAL) a transaction takes it with   *)
(* its first statement that writes, and cannot when the database has       *)
(* changed since its snapshot.  In PostgreSQL the only writers that meet   *)
(* are two setups creating the same tables, and the second one waits.      *)
(***************************************************************************)
EXTENDS Naturals

CONSTANTS Hash,        \* info hashes of the torrents the daemon fetches
          ZeroSized,   \* those whose files have a total size of zero
          BadName,     \* those whose name is not UTF-8
          BadPath,     \* those whose last file has a path that is not UTF-8
          NFiles,      \* the number of files of a torrent
          Instants,    \* the times at which torrents are added
          Engines,     \* the back ends to check: "sqlite3", "postgres"
          Daemon, Web, \* the two processes
          NoHash, NoProc

ASSUME StorageAssumption ==
    /\ ZeroSized \subseteq Hash /\ BadName \subseteq Hash /\ BadPath \subseteq Hash
    /\ NFiles \in Nat \ {0}
    /\ Engines \subseteq {"sqlite3", "postgres"}
    /\ Daemon # Web /\ NoHash \notin Hash /\ NoProc \notin {Daemon, Web}

Process == {Daemon, Web}

VARIABLES
    engine,   \* the back end in use
    db,       \* the committed database: schema objects, version, torrents
    lock,     \* the process whose transaction has the write lock, or NoProc
    pc,       \* where a process is in setupDatabase or AddNewTorrent
    item,     \* the torrent that AddNewTorrent is called with
    tx,       \* the open transaction: its snapshot and its own copy
    open,     \* connections of the pool in use
    reads     \* requests of magneticow that have a result set open

vars == <<engine, db, lock, pc, item, tx, open, reads>>

-----------------------------------------------------------------------------
(* The schema.  A row of torrents is when it was discovered, its number of   *)
(* rows in files, how often it is in the full-text index, and whether its    *)
(* modified_on is set or has the default, a day of the year 3000.            *)

\* Variant: a single connection, which a call that needs a second one waits for
BugMaxOpenConns == 1
MaxOpenConns == 3

NoRows == [h \in {} |-> 0]
NoTx == << >>

FreshDb == [schema |-> {}, version |-> 0, rows |-> NoRows]

LatestVersion(e) == IF e = "sqlite3" THEN 3 ELSE 0

SchemaOf(v) ==
    {"tables"} \cup (IF v >= 1 THEN {"info_hash_index"} ELSE {})
               \cup (IF v >= 2 THEN {"readme_index"} ELSE {})
               \cup (IF v >= 3 THEN {"torrents_idx"} ELSE {})

\* The triggers of version 3 index a new row and give it its modified_on.  What
\* they do together when one statement fires them all is SQLite's and FTS5's
\* doing; that it comes to one entry in the index is assumed here.
Inserted(d, now) ==
    [discovered |-> now,
     files    |-> 0,
     indexed  |-> IF "torrents_idx" \in d.schema THEN 1 ELSE 0,
     modified |-> IF "torrents_idx" \in d.schema THEN "set" ELSE "default"]

\* Variant: the upgrade creates the table anew, without its rows
BugPopulate(rows) == NoRows

\* The rows that are there are put into the index and get a modified_on.
Populate(rows) ==
    [h \in DOMAIN rows |-> [rows[h] EXCEPT !.indexed = @ + 1, !.modified = "set"]]

UpgradeFrom0(d) ==
    [d EXCEPT !.schema = @ \cup {"info_hash_index"}, !.version = 1]

UpgradeFrom1(d) ==
    [d EXCEPT !.schema = @ \cup {"readme_index"}, !.version = 2]

UpgradeFrom2(d) ==
    [schema |-> d.schema \cup {"torrents_idx"}, version |-> 3, rows |-> Populate(d.rows)]

Upgraded(d) ==
    CASE d.version = 0 -> UpgradeFrom0(d)
      [] d.version = 1 -> UpgradeFrom1(d)
      [] d.version = 2 -> UpgradeFrom2(d)

\* The databases a process may find: none, or one of an earlier release.
OldDb(e) ==
    {FreshDb} \cup
    {[schema  |-> SchemaOf(v), version |-> v,
      rows    |-> [h \in DOMAIN times |-> [discovered |-> times[h],
                                          files    |-> NFiles,
                                          indexed  |-> IF v = 3 THEN 1 ELSE 0,
                                          modified |-> IF v = 3 THEN "set" ELSE "default"]]] :
        v \in 0..LatestVersion(e),
        times \in UNION {[H -> Instants] : H \in SUBSET (Hash \ ZeroSized)}}

Init ==
    /\ engine \in Engines
    /\ db \in OldDb(engine)
    /\ lock = NoProc
    /\ pc = [p \in Process |-> "down"]
    /\ item = NoHash
    /\ tx = [p \in Process |-> NoTx]
    /\ open = [p \in Process |-> 0]
    /\ reads = 0

-----------------------------------------------------------------------------
(* Connections and transactions.                                           *)

\* A connection from the pool; the caller waits while all are in use.
Acquire(p) ==
    /\ open[p] < MaxOpenConns
    /\ open' = [open EXCEPT ![p] = @ + 1]

Goto(p, where) == pc' = [pc EXCEPT ![p] = where]

\* The first statement of a transaction sees the database as it is now.
Snapshot(p) == tx' = [tx EXCEPT ![p] = [snapshot |-> db, work |-> db]]

\* A statement that writes needs the lock and, in SQLite, a snapshot that is not
\* stale.
CanWrite(p) ==
    \/ lock = p
    \/ lock = NoProc /\ (engine = "sqlite3" => db = tx[p].snapshot)

\* A statement that writes, in the transaction's own copy.
Write(p, d) ==
    /\ lock' = p
    /\ tx' = [tx EXCEPT ![p].work = d]

Unlocked(p) == IF lock = p THEN NoProc ELSE lock

\* tx.Rollback of the deferred call, and the result sets closed with it: all
\* the connections of the call go back to the pool.
\* Variant: an early return that leaves the transaction open
BugRollback(p, held) ==
    /\ tx' = [tx EXCEPT ![p] = NoTx]
    /\ lock' = Unlocked(p)
    /\ open' = open
Rollback(p, held) ==
    /\ tx' = [tx EXCEPT ![p] = NoTx]
    /\ lock' = Unlocked(p)
    /\ open' = [open EXCEPT ![p] = @ - held]

\* tx.Commit: what the transaction wrote becomes the database.
Commit(p, held) ==
    /\ db' = IF lock = p THEN tx[p].work ELSE db
    /\ Rollback(p, held)

-----------------------------------------------------------------------------
(* setupDatabase.                                                          *)

\* The process starts; the pool is opened and pinged, the PRAGMAs are executed.
Start(p) ==
    /\ pc[p] = "down"
    /\ Goto(p, "begin")
    /\ UNCHANGED <<engine, db, lock, item, tx, open, reads>>

SetupBegin(p) ==
    /\ pc[p] = "begin"
    /\ Acquire(p)
    /\ Goto(p, IF engine = "postgres" THEN "trgm" ELSE "create")
    /\ UNCHANGED <<engine, db, lock, item, tx, reads>>

\* PostgreSQL only: is pg_trgm installed?  The question takes a second
\* connection and keeps it until setupDatabase returns.
SetupTrgm(p) ==
    /\ pc[p] = "trgm"
    /\ Acquire(p)
    /\ Goto(p, "create")
    /\ UNCHANGED <<engine, db, lock, item, tx, reads>>

\* The result set of that question fails: setupDatabase returns the outer err,
\* which is nil, and the process goes on without having set anything up.
SetupTrgmUnread(p) ==
    /\ pc[p] = "trgm"
    /\ open[p] < MaxOpenConns
    /\ Goto(p, "idle")
    /\ Rollback(p, 1)
    /\ UNCHANGED <<engine, db, item, reads>>

SetupHeld == IF engine = "postgres" THEN 2 ELSE 1

\* CREATE TABLE IF NOT EXISTS: writes only when the tables are not there yet.
SetupCreate(p) ==
    /\ pc[p] = "create"
    /\ Goto(p, "migrate")
    /\ \/ /\ "tables" \in db.schema
          /\ Snapshot(p)
          /\ UNCHANGED lock
       \/ /\ "tables" \notin db.schema
          /\ lock = NoProc
          /\ lock' = p
          /\ tx' = [tx EXCEPT ![p] =
                       [snapshot |-> db, work |-> [db EXCEPT !.schema = @ \cup {"tables"}]]]
    /\ UNCHANGED <<engine, db, item, open, reads>>

\* One case of the switch over user_version, which was read in the transaction.
\* Variant: the statements of an upgrade are executed on the database, one by
\* one, and not in the transaction
BugSetupUpgrade(p) ==
    /\ pc[p] = "migrate"
    /\ tx[p].work.version < LatestVersion(engine)
    /\ CanWrite(p)
    /\ \/ db' = [db EXCEPT !.schema = Upgraded(tx[p].work).schema]
       \/ db' = db
    /\ Write(p, Upgraded(tx[p].work))
    /\ UNCHANGED <<engine, pc, item, open, reads>>
SetupUpgrade(p) ==
    /\ pc[p] = "migrate"
    /\ tx[p].work.version < LatestVersion(engine)
    /\ CanWrite(p)
    /\ Write(p, Upgraded(tx[p].work))
    /\ UNCHANGED <<engine, db, pc, item, open, reads>>

\* Variant: the upgrade stops after the step it started with
BugSetupCommit(p) ==
    /\ pc[p] = "migrate"
    /\ tx[p].work.version = LatestVersion(engine) \/ lock = p
    /\ Commit(p, SetupHeld)
    /\ Goto(p, "idle")
    /\ UNCHANGED <<engine, item, reads>>
SetupCommit(p) ==
    /\ pc[p] = "migrate"
    /\ tx[p].work.version = LatestVersion(engine)
    /\ Commit(p, SetupHeld)
    /\ Goto(p, "idle")
    /\ UNCHANGED <<engine, item, reads>>

-----------------------------------------------------------------------------
(* AddNewTorrent, called by the daemon's main loop for one torrent at a     *)
(* time.                                                                    *)

AddNewTorrent(h) ==
    /\ pc[Daemon] = "idle"
    /\ ~(engine = "postgres" /\ h \in BadName)    \* ignored at once
    /\ item' = h
    /\ Goto(Daemon, "add")
    /\ UNCHANGED <<engine, db, lock, tx, open, reads>>

AddBegin ==
    /\ pc[Daemon] = "add"
    /\ Acquire(Daemon)
    /\ Goto(Daemon, "size")
    /\ UNCHANGED <<engine, db, lock, item, tx, reads>>

\* The call returns: nothing is left of it but what it committed.
Return ==
    /\ Goto(Daemon, "idle")
    /\ item' = NoHash
    /\ UNCHANGED <<engine, reads>>

AddSize ==
    /\ pc[Daemon] = "size"
    /\ \/ item \in ZeroSized /\ Rollback(Daemon, 1) /\ Return /\ UNCHANGED db
       \/ /\ item \notin ZeroSized
          /\ Goto(Daemon, "exists")
          /\ UNCHANGED <<engine, db, lock, item, tx, open, reads>>

\* DoesTorrentExist asks on a connection of its own, while the transaction
\* keeps the first one.
AddExistsQuery ==
    /\ pc[Daemon] = "exists"
    /\ "tables" \in db.schema
    /\ Acquire(Daemon)
    /\ Goto(Daemon, "looking")
    /\ UNCHANGED <<engine, db, lock, item, tx, reads>>

\* Its answer.  When the result set cannot be read the answer is "no".
AddExists ==
    /\ pc[Daemon] = "looking"
    /\ \/ item \in DOMAIN db.rows /\ Rollback(Daemon, 2) /\ Return /\ UNCHANGED db
       \/ /\ Goto(Daemon, "insert")
          /\ open' = [open EXCEPT ![Daemon] = @ - 1]
          /\ UNCHANGED <<engine, db, lock, item, tx, reads>>

\* INSERT INTO torrents.  A hash that is there already is an error (UNIQUE).
AddInsert(now) ==
    /\ pc[Daemon] = "insert"
    /\ lock = NoProc
    /\ item \notin DOMAIN db.rows
    /\ lock' = Daemon
    /\ tx' = [tx EXCEPT ![Daemon] =
                 [snapshot |-> db,
                  work |-> [db EXCEPT !.rows = [h \in DOMAIN @ \cup {item} |->
                                IF h = item THEN Inserted(db, now) ELSE @[h]]]]]
    /\ Goto(Daemon, "files")
    /\ UNCHANGED <<engine, db, item, open, reads>>

\* INSERT INTO files, for one file after the other.
AddFile ==
    LET n == tx[Daemon].work.rows[item].files
        unwritable == engine = "postgres" /\ item \in BadPath /\ n = NFiles - 1
    IN  /\ pc[Daemon] = "files"
        /\ n < NFiles
        /\ \/ unwritable /\ Rollback(Daemon, 1) /\ Return /\ UNCHANGED db
           \/ /\ ~unwritable
              /\ Write(Daemon, [tx[Daemon].work EXCEPT !.rows[item].files = n + 1])
              /\ UNCHANGED <<engine, db, pc, item, open, reads>>

\* Variant: the transaction is committed once the torrent's row is written
BugFilesWritten(h) == TRUE
FilesWritten(h) == tx[Daemon].work.rows[h].files = NFiles

AddCommit ==
    /\ pc[Daemon] = "files"
    /\ FilesWritten(item)
    /\ Commit(Daemon, 1)
    /\ Return

-----------------------------------------------------------------------------
(* The requests of magneticow: GetTorrent, GetFiles, GetNumberOfTorrents and *)
(* the others each have one result set open, and close it when they return.  *)

Query ==
    /\ pc[Web] = "idle"
    /\ Acquire(Web)
    /\ reads' = reads + 1
    /\ UNCHANGED <<engine, db, lock, pc, item, tx>>

CloseRows ==
    /\ reads > 0
    /\ reads' = reads - 1
    /\ open' = [open EXCEPT ![Web] = @ - 1]
    /\ UNCHANGED <<engine, db, lock, pc, item, tx>>

\* The process ends: a crash or, for setupDatabase and AddNewTorrent, any error
\* of a statement (both are fatal to the process), a busy database included.
Stop(p) ==
    /\ pc[p] # "down"
    /\ Goto(p, "down")
    /\ tx' = [tx EXCEPT ![p] = NoTx]
    /\ lock' = Unlocked(p)
    /\ open' = [open EXCEPT ![p] = 0]
    /\ item' = IF p = Daemon THEN NoHash ELSE item
    /\ reads' = IF p = Web THEN 0 ELSE reads
    /\ UNCHANGED <<engine, db>>

\* A statement that cannot have the write lock, or not any more, or that is
\* refused, fails after at most the busy timeout.
Refused(p) ==
    \/ pc[p] = "create" /\ "tables" \notin db.schema /\ lock # NoProc
    \/ /\ pc[p] = "migrate"
       /\ tx[p].work.version < LatestVersion(engine)
       /\ ~CanWrite(p)
    \/ pc[p] = "exists" /\ "tables" \notin db.schema /\ open[p] < MaxOpenConns
    \/ pc[p] = "insert" /\ (lock # NoProc \/ item \in DOMAIN db.rows)

Fail(p) == Refused(p) /\ Stop(p)

SetupStep(p) ==
    \/ SetupBegin(p) \/ SetupTrgm(p) \/ SetupTrgmUnread(p) \/ SetupCreate(p)
    \/ SetupUpgrade(p) \/ SetupCommit(p)

AddStep ==
    \/ AddBegin \/ AddSize \/ AddExistsQuery \/ AddExists
    \/ \E now \in Instants : AddInsert(now)
    \/ AddFile \/ AddCommit

Next ==
    \/ \E p \in Process : Start(p) \/ SetupStep(p) \/ Fail(p) \/ Stop(p)
    \/ \E h \in Hash : AddNewTorrent(h)
    \/ AddStep
    \/ Query \/ CloseRows

\* A call that has begun goes on as long as it can; nothing has to start.
Fairness ==
    /\ \A p \in Process : WF_vars(SetupStep(p) \/ Fail(p))
    /\ WF_vars(AddStep \/ Fail(Daemon))
    /\ WF_vars(CloseRows)

Spec == Init /\ [][Next]_vars /\ Fairness

-----------------------------------------------------------------------------
(* Properties.                                                             *)

\* The connections a process holds, by where it is.
Held(p) ==
    CASE pc[p] \in {"down", "begin", "idle", "add"} -> 0
      [] pc[p] \in {"trgm", "size", "exists", "insert", "files"} -> 1
      [] pc[p] = "looking" -> 2
      [] OTHER -> SetupHeld

\* The types and, with them, the pool's accounts: the connections in use are
\* exactly those of the call in progress and of the open result sets, never
\* more than MaxOpenConns; no early return of a call keeps one.
TypeOK ==
    /\ engine \in Engines
    /\ db.version \in 0..3 /\ DOMAIN db.rows \subseteq Hash \ ZeroSized
    /\ lock \in Process \cup {NoProc}
    /\ item \in Hash \cup {NoHash}
    /\ \A p \in Process :
        /\ open[p] = Held(p) + (IF p = Web THEN reads ELSE 0)
        /\ open[p] \in 0..MaxOpenConns
        /\ lock = p => tx[p] # NoTx

\* setupDatabase: in every state of the database file its objects are those of
\* its user_version, wherever a process was stopped in an upgrade and whichever
\* of two processes that upgrade together came first.
SchemaMatchesVersion ==
    db = FreshDb \/ db.schema = SchemaOf(db.version)

\* A process that has opened the SQLite database serves the latest schema, also
\* when the other one did the upgrade.  (For PostgreSQL SetupTrgmUnread breaks it.)
ServesLatestSchema ==
    \A p \in Process :
        (engine = "sqlite3" /\ pc[p] \notin {"down", "begin", "create", "migrate"})
            => db.version = LatestVersion(engine)

\* AddNewTorrent and the upgrade to version 3: a reader never sees a torrent
\* without all of its files, or one that search misses or finds twice, or one
\* with the placeholder of year 3000 as its modified_on.  For the index this is
\* about old rows, which the upgrade puts there, and new ones, which the triggers
\* do (see Inserted): no row is left to neither or to both.
TorrentsWhole ==
    \A h \in DOMAIN db.rows :
        /\ db.rows[h].files = NFiles
        /\ db.version = 3 => db.rows[h].indexed = 1 /\ db.rows[h].modified = "set"

\* A torrent that was committed stays, whatever the other process upgrades.
TorrentsKept == [][DOMAIN db.rows \subseteq DOMAIN db'.rows]_vars

\* setupDatabase and AddNewTorrent return (or end the process): neither waits
\* for ever for a connection that it holds itself, or for the write lock.
CallsReturn ==
    \A p \in Process : pc[p] \notin {"down", "idle"} ~> pc[p] \in {"down", "idle"}
=============================================================================
