----------------------------- MODULE Magneticod -----------------------------
(***************************************************************************)
(* The daemon: the event loop of cmd/magneticod/main.go, the output        *)
(* channel of the DHT manager that feeds it, the metadata sink it fills    *)
(* and drains, and the torrents of the SQLite database it writes.  (On     *)
(* PostgreSQL AddNewTorrent also leaves out, without an error, torrents    *)
(* with a name or a path that is not UTF-8; module Storage has both.)      *)
(*                                                                         *)
(* A crash of the process is the end of the behaviour and a restart a new  *)
(* behaviour that starts with the torrents stored so far: Init allows any. *)
(***************************************************************************)
EXTENDS MetadataSink

CONSTANTS
    OutputCap,  \* capacity of the manager's output channel
    ZeroSized   \* the info hashes of torrents whose files are all empty

ASSUME DaemonAssumption == OutputCap \in Nat \ {0} /\ ZeroSized \subseteq InfoHash

VARIABLES
    output,      \* the manager's output channel
    pc,          \* where the event loop is
    item,        \* what it holds: a Result, an info hash (a Metadata), or NoCall
    stored,      \* the torrents table, by info hash
    interrupted, \* a signal waits in interruptChan
    fetched,     \* history: what leeches have handed to flush
    dbFailed     \* history: a database operation failed

vars == <<sinkVars, output, pc, item, stored, interrupted, fetched, dbFailed>>

Init ==
    /\ SinkInit
    /\ output = << >>
    /\ pc = "select"
    /\ item = NoCall
    /\ stored \in SUBSET (InfoHash \ ZeroSized)
    /\ interrupted = FALSE
    /\ fetched = {}
    /\ dbFailed = FALSE

Running == pc \notin {"fatal", "exited"}

(***************************************************************************)
(* The DHT side.                                                           *)
(***************************************************************************)
\* A result that finds the channel full is dropped.
onIndexingResult(res) ==
    /\ Running
    /\ output' = IF Len(output) < OutputCap THEN Append(output, res) ELSE output
    /\ UNCHANGED <<sinkVars, pc, item, stored, interrupted, fetched, dbFailed>>

(***************************************************************************)
(* The database.  A query may fail, and a failure while reading the answer *)
(* makes DoesTorrentExist answer FALSE without an error.                   *)
(***************************************************************************)
Goto(label, i) == pc' = label /\ item' = i

Fatal ==
    /\ Goto("fatal", NoCall)
    /\ dbFailed' = TRUE
    /\ UNCHANGED <<sinkVars, stored>>

\* DoesTorrentExist(h) answers b and dbFailed' records whether a row was lost.
DoesTorrentExist(h, b) ==
    \/ b = (h \in stored) /\ UNCHANGED dbFailed
    \/ b = FALSE /\ dbFailed' = TRUE

(***************************************************************************)
(* The event loop.                                                         *)
(***************************************************************************)
SelectOutput ==
    /\ pc = "select" /\ output # << >>
    /\ output' = Tail(output)
    /\ Goto("exists", Head(output))
    /\ UNCHANGED <<sinkVars, stored, interrupted, fetched, dbFailed>>

\* Variant: Sink is called in a goroutine of its own.
BugCheckExists ==
    /\ pc = "exists"
    /\ \/ Fatal
       \/ /\ DoesTorrentExist(item.infoHash, TRUE)
          /\ Goto("select", NoCall)
          /\ UNCHANGED <<sinkVars, stored>>
       \/ /\ DoesTorrentExist(item.infoHash, FALSE)
          /\ SinkCall(item)
          /\ Goto("select", NoCall)
          /\ UNCHANGED stored
    /\ UNCHANGED <<output, interrupted, fetched>>

CheckExists ==
    /\ pc = "exists"
    /\ \/ Fatal
       \/ /\ DoesTorrentExist(item.infoHash, TRUE)
          /\ Goto("select", NoCall)
          /\ UNCHANGED <<sinkVars, stored>>
       \/ /\ DoesTorrentExist(item.infoHash, FALSE)
          /\ SinkCall(item)
          /\ Goto("sink", NoCall)
          /\ UNCHANGED stored
    /\ UNCHANGED <<output, interrupted, fetched>>

\* Sink returns and so does the loop.
Sink ==
    /\ pc = "sink"
    /\ \/ Lock("caller") /\ UNCHANGED pc
       \/ (SinkIgnore \/ \E l \in LeechId : SinkAdmit(l)) /\ pc' = "select"
    /\ UNCHANGED <<output, item, stored, interrupted, fetched, dbFailed>>

SelectDrain ==
    /\ pc = "select" /\ Drain
    /\ Goto("add", Head(drain))
    /\ UNCHANGED <<output, stored, interrupted, fetched, dbFailed>>

\* Variant: no second look into the database.
BugAddNewTorrentCheck ==
    /\ pc = "add"
    /\ \/ item \in ZeroSized /\ Goto("select", NoCall)
       \/ item \notin ZeroSized /\ Goto("insert", item)
    /\ UNCHANGED <<sinkVars, stored, output, interrupted, fetched, dbFailed>>

\* Variant: a torrent is skipped when it does not exist yet.
BugAddNewTorrentSkips ==
    /\ pc = "add"
    /\ \/ item \notin stored /\ Goto("select", NoCall)
       \/ item \in stored /\ Goto("insert", item)
    /\ UNCHANGED <<sinkVars, stored, output, interrupted, fetched, dbFailed>>

\* AddNewTorrent up to the INSERT: Begin, the test of the total size, and the
\* second look into the database.  An early return rolls back and is no error.
AddNewTorrentCheck ==
    /\ pc = "add"
    /\ \/ Fatal
       \/ /\ item \in ZeroSized
          /\ Goto("select", NoCall)
          /\ UNCHANGED <<sinkVars, stored, dbFailed>>
       \/ /\ item \notin ZeroSized
          /\ \/ DoesTorrentExist(item, TRUE) /\ Goto("select", NoCall)
             \/ DoesTorrentExist(item, FALSE) /\ Goto("insert", item)
          /\ UNCHANGED <<sinkVars, stored>>
    /\ UNCHANGED <<output, interrupted, fetched>>

\* INSERT and COMMIT.  info_hash is UNIQUE: inserting it twice is an error.
AddNewTorrentInsert ==
    /\ pc = "insert"
    /\ \/ Fatal
       \/ /\ item \in stored
          /\ Goto("fatal", NoCall)
          /\ UNCHANGED <<sinkVars, stored, dbFailed>>
       \/ /\ item \notin stored
          /\ stored' = stored \cup {item}
          /\ Goto("select", NoCall)
          /\ UNCHANGED <<sinkVars, dbFailed>>
    /\ UNCHANGED <<output, interrupted, fetched>>

Interrupt ==
    /\ Running /\ ~interrupted
    /\ interrupted' = TRUE
    /\ UNCHANGED <<sinkVars, output, pc, item, stored, fetched, dbFailed>>

\* trawlingManager.Terminate, the end of the loop, database.Close and the end
\* of main, which takes every goroutine with it.  The sink is not drained.
SelectInterrupt ==
    /\ pc = "select" /\ interrupted
    /\ interrupted' = FALSE
    /\ Goto("exited", NoCall)
    /\ UNCHANGED <<sinkVars, output, stored, fetched, dbFailed>>

(***************************************************************************)
(* The goroutines of the sink.                                             *)
(***************************************************************************)
SinkGoroutine ==
    /\ Running
    /\ Status \/ \E l \in LeechId : Leeching(l)
    /\ fetched' = fetched \cup
          {leech[l].infoHash : l \in {l \in LeechId : At(l, "running") /\ At(l, "send")'}}
    /\ UNCHANGED <<output, pc, item, stored, interrupted, dbFailed>>

EventLoop ==
    \/ SelectOutput \/ CheckExists \/ Sink
    \/ SelectDrain \/ AddNewTorrentCheck \/ AddNewTorrentInsert
    \/ SelectInterrupt

Next ==
    \/ \E res \in Result : onIndexingResult(res)
    \/ EventLoop
    \/ Interrupt
    \/ SinkGoroutine

Spec == Init /\ [][Next]_vars

(***************************************************************************)
(* Fairness: that of MetadataSink for the leeches and the ticker.  The     *)
(* loop always finishes the case it selected, and select chooses at random *)
(* among its ready cases, so one that stays ready is chosen in the end;    *)
(* nothing makes a result or a signal arrive.                              *)
(***************************************************************************)
Run(A) == A /\ SinkGoroutine

Fairness ==
    /\ SF_vars(SelectDrain)
    /\ SF_vars(Sink /\ Lock("caller"))
    /\ WF_vars(Sink /\ mx = "caller")
    /\ WF_vars(CheckExists \/ AddNewTorrentCheck \/ AddNewTorrentInsert)
    /\ WF_vars(Run(StatusUnlock))
    /\ \A l \in LeechId :
          /\ SF_vars(Run(Lock(l)))
          /\ SF_vars(Run(FlushSend(l)))
          /\ WF_vars(Run(FlushEnter(l) \/ LeechFails(l)
                         \/ FlushDelete(l) \/ OnLeechErrorBody(l)))

FairSpec == Spec /\ Fairness

-----------------------------------------------------------------------------
(***************************************************************************)
(* Properties.                                                             *)
(***************************************************************************)
\* Every variable has its type and the output channel keeps to its capacity.  The
\* loop holds a result before Sink and a metadata in AddNewTorrent, and is the
\* only caller of the sink: a call to Sink is in progress just when it waits there.
TypeOK ==
    /\ SinkTypeOK
    /\ output \in Seq(Result) /\ Len(output) <= OutputCap
    /\ pc \in {"select", "exists", "sink", "add", "insert", "fatal", "exited"}
    /\ pc = "exists" => item \in Result
    /\ pc \in {"add", "insert"} => item \in InfoHash
    /\ pc \notin {"exists", "add", "insert"} => item = NoCall
    /\ call # NoCall <=> pc = "sink"
    /\ stored \subseteq InfoHash
    /\ interrupted \in BOOLEAN
    /\ fetched \subseteq InfoHash
    /\ dbFailed \in BOOLEAN

\* The race described in AddNewTorrent (a torrent whose metadata waits in the
\* channel is not in the database yet, is sunk again and fetched twice) never
\* kills the daemon: the event loop dies only of a failure of the database.
RaceIsNotFatal == pc = "fatal" => dbFailed

\* Copies of metadata on their way from a leech to the database.
InFlight(h) ==
    \/ \E l \in LeechId : At(l, "send") /\ leech[l].infoHash = h
    \/ \E i \in 1..Len(drain) : drain[i] = h
    \/ pc \in {"add", "insert"} /\ item = h

\* As long as the daemon runs, metadata that a leech has fetched is on its way
\* to the database or in it; AddNewTorrent of sqlite3.go drops only torrents
\* without contents (that of postgres.go also those that are not UTF-8).
NothingFetchedIsLost ==
    Running => \A h \in fetched \ ZeroSized : h \in stored \/ InFlight(h)

\* What is fetched is stored, unless the daemon ends first.
FetchedIsStored ==
    \A h \in InfoHash \ ZeroSized : h \in fetched ~> h \in stored \/ ~Running

\* The loop comes back to its select for ever, until the daemon ends: neither
\* Sink nor the database can hold it, so signals are always heard.
LoopReturns == pc # "select" ~> pc = "select" \/ ~Running

\* The daemon is a Crawler: fetching is the table of the sink, pending what is
\* on its way to the database.
C == INSTANCE Crawler WITH
        up <- Running,
        fetching <- DOMAIN incoming,
        pending <- IF Running THEN {h \in InfoHash : InFlight(h)} ELSE {}

IsCrawler == C!Spec
=============================================================================
