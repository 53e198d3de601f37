-------------------------- MODULE MagneticodProofs --------------------------
(***************************************************************************)
(* What holds of the daemon for every set of info hashes, peers and        *)
(* leeches, every cap and every channel capacity, whatever the database    *)
(* fails at: its event loop survives the race between sinking and storing, *)
(* loses nothing that was fetched, and implements Crawler.                 *)
(***************************************************************************)
EXTENDS Magneticod, MetadataSinkProofs

-----------------------------------------------------------------------------
(***************************************************************************)
(* The sink inside the daemon, which never terminates it.                  *)
(***************************************************************************)
SinkInv == JobInv /\ ~terminated /\ ~panicked

\* What the event loop holds at each of its places.  A torrent about to be
\* inserted has contents and, unless the database failed to say so, is new.
LoopInv ==
    /\ pc \in {"select", "exists", "sink", "add", "insert", "fatal", "exited"}
    /\ pc = "exists" => item \in Result
    /\ pc \in {"add", "insert"} => item \in InfoHash
    /\ pc \notin {"exists", "add", "insert"} => item = NoCall
    /\ call # NoCall <=> pc = "sink"
    /\ pc = "insert" => item \notin ZeroSized
    /\ pc = "insert" /\ item \in stored => dbFailed
    /\ pc = "fatal" => dbFailed

DataInv ==
    /\ output \in Seq(Result) /\ Len(output) <= OutputCap
    /\ stored \subseteq InfoHash
    /\ interrupted \in BOOLEAN
    /\ fetched \subseteq InfoHash
    /\ dbFailed \in BOOLEAN

DaemonInv == SinkInv /\ LoopInv /\ DataInv

\* A step of the daemon is a step of the sink, or leaves the sink alone.
LEMMA SinkSteps ==
    ASSUME DaemonInv, [Next]_vars
    PROVE  [SinkNext]_sinkVars
<1> ~panicked
  BY DEF DaemonInv, SinkInv
<1>1. CASE UNCHANGED vars
  BY <1>1 DEF vars
<1>2. ASSUME NEW res \in Result, onIndexingResult(res) PROVE UNCHANGED sinkVars
  BY <1>2 DEF onIndexingResult
<1>3. CASE SelectOutput
  BY <1>3 DEF SelectOutput
<1>4. CASE CheckExists
  <2>1. item \in Result
    BY <1>4 DEF CheckExists, DaemonInv, LoopInv
  <2> QED
    BY <1>4, <2>1 DEF CheckExists, Fatal, SinkNext
<1>5. CASE Sink
  BY <1>5 DEF Sink, SinkNext, Sinking
<1>6. CASE SelectDrain
  BY <1>6 DEF SelectDrain, SinkNext
<1>7. CASE AddNewTorrentCheck
  BY <1>7 DEF AddNewTorrentCheck, Fatal
<1>8. CASE AddNewTorrentInsert
  BY <1>8 DEF AddNewTorrentInsert, Fatal
<1>9. CASE Interrupt
  BY <1>9 DEF Interrupt
<1>10. CASE SelectInterrupt
  BY <1>10 DEF SelectInterrupt
<1>11. CASE SinkGoroutine
  BY <1>11 DEF SinkGoroutine, SinkNext
<1> QED
  BY <1>1, <1>2, <1>3, <1>4, <1>5, <1>6, <1>7, <1>8, <1>9, <1>10, <1>11 DEF Next, EventLoop

\* Nothing in the daemon closes the channel, so nothing panics.
LEMMA NeverTerminated ==
    ASSUME DaemonInv, [Next]_vars
    PROVE  ~terminated' /\ ~panicked'
<1> ~terminated /\ ~panicked
  BY DEF DaemonInv, SinkInv
<1>1. CASE UNCHANGED sinkVars
  BY <1>1 DEF sinkVars
<1>2. ASSUME NEW g, Lock(g) PROVE ~terminated' /\ ~panicked'
  BY <1>2 DEF Lock
<1>3. ASSUME NEW res, SinkCall(res) PROVE ~terminated' /\ ~panicked'
  BY <1>3 DEF SinkCall
<1>4. CASE SinkIgnore \/ Drain \/ StatusUnlock
  BY <1>4 DEF SinkIgnore, Drain, StatusUnlock
<1>5. ASSUME NEW l \in LeechId, SinkAdmit(l) \/ flush(l) \/ onLeechError(l)
      PROVE  ~terminated' /\ ~panicked'
  BY <1>5 DEF SinkAdmit, flush, onLeechError, FlushEnter, FlushSend, FlushDelete,
              LeechFails, OnLeechErrorBody
<1>6. CASE Next
  <2>1. ASSUME NEW res \in Result, onIndexingResult(res) PROVE UNCHANGED sinkVars
    BY <2>1 DEF onIndexingResult
  <2>2. CASE SelectOutput \/ AddNewTorrentCheck \/ AddNewTorrentInsert \/ Interrupt \/ SelectInterrupt
    BY <1>1, <2>2 DEF SelectOutput, AddNewTorrentCheck, AddNewTorrentInsert, Interrupt,
                      SelectInterrupt, Fatal
  <2>3. CASE CheckExists
    BY <1>1, <1>3, <2>3 DEF CheckExists, Fatal
  <2>4. CASE Sink
    BY <1>2, <1>4, <1>5, <2>4 DEF Sink
  <2>5. CASE SelectDrain
    BY <1>4, <2>5 DEF SelectDrain
  <2>6. CASE SinkGoroutine
    BY <1>2, <1>4, <1>5, <2>6 DEF SinkGoroutine, Status, Leeching
  <2> QED
    BY <1>1, <1>6, <2>1, <2>2, <2>3, <2>4, <2>5, <2>6 DEF Next, EventLoop
<1> QED
  BY <1>1, <1>6 DEF vars

LEMMA SinkInvStep ==
    ASSUME DaemonInv, [Next]_vars
    PROVE  SinkInv'
  BY SinkSteps, NeverTerminated, JobStep DEF DaemonInv, SinkInv

-----------------------------------------------------------------------------
(***************************************************************************)
(* The event loop and its data.                                            *)
(***************************************************************************)
LEMMA LoopInvStep ==
    ASSUME DaemonInv, [Next]_vars
    PROVE  LoopInv'
<1> LoopInv
  BY DEF DaemonInv
<1> USE DEF LoopInv
<1>0. SinkGoroutine => UNCHANGED call
  BY DEF SinkGoroutine, Status, Leeching, Lock, StatusUnlock, flush, FlushEnter, FlushSend,
         FlushDelete, onLeechError, LeechFails, OnLeechErrorBody
<1>1. CASE UNCHANGED <<pc, item, stored, dbFailed, call>>
  BY <1>1
<1>2. CASE SelectOutput
  <2>1. Head(output) \in Result
    BY <1>2, HeadTail DEF SelectOutput, DaemonInv, DataInv
  <2> QED
    BY <1>2, <2>1 DEF SelectOutput, Goto, sinkVars
<1>3. CASE CheckExists
  <2>1. ~terminated /\ item \in Result /\ item # NoCall
    BY <1>3, NamesAssumption DEF CheckExists, DaemonInv, SinkInv
  <2> QED
    BY <1>3, <2>1 DEF CheckExists, Fatal, Goto, DoesTorrentExist, SinkCall, sinkVars
<1>4. CASE Sink
  BY <1>4 DEF Sink, Lock, SinkIgnore, SinkAdmit
<1>5. CASE SelectDrain
  <2>1. Head(drain) \in InfoHash
    BY <1>5, HeadTail DEF SelectDrain, Drain, DaemonInv, SinkInv, JobInv, SinkTypeOK
  <2> QED
    BY <1>5, <2>1 DEF SelectDrain, Drain, Goto
<1>6. CASE AddNewTorrentCheck
  BY <1>6 DEF AddNewTorrentCheck, Fatal, Goto, DoesTorrentExist, sinkVars
<1>7. CASE AddNewTorrentInsert
  BY <1>7 DEF AddNewTorrentInsert, Fatal, Goto, sinkVars
<1>8. CASE SelectInterrupt
  BY <1>8 DEF SelectInterrupt, Goto, sinkVars
<1> QED
  BY <1>0, <1>1, <1>2, <1>3, <1>4, <1>5, <1>6, <1>7, <1>8
     DEF Next, EventLoop, vars, sinkVars, onIndexingResult, Interrupt, SinkGoroutine

LEMMA DataInvStep ==
    ASSUME DaemonInv, [Next]_vars
    PROVE  DataInv'
<1> LoopInv /\ DataInv
  BY DEF DaemonInv
<1>1. output' \in Seq(Result) /\ Len(output') <= OutputCap
  <2>1. CASE output' = output
    BY <2>1 DEF DataInv
  <2>2. ASSUME NEW res \in Result, Len(output) < OutputCap, output' = Append(output, res)
        PROVE  output' \in Seq(Result) /\ Len(output') <= OutputCap
    BY <2>2, DaemonAssumption DEF DataInv
  <2>3. CASE output # << >> /\ output' = Tail(output)
    BY <2>3, HeadTail, DaemonAssumption DEF DataInv
  <2> QED
    BY <2>1, <2>2, <2>3 DEF Next, EventLoop, vars, onIndexingResult, SelectOutput, CheckExists, Sink,
       SelectDrain, AddNewTorrentCheck, AddNewTorrentInsert, SelectInterrupt, Interrupt, SinkGoroutine
<1>2. stored' \subseteq InfoHash
  <2>1. stored' = stored \/ (pc = "insert" /\ stored' = stored \cup {item})
    BY DEF Next, EventLoop, vars, onIndexingResult, SelectOutput, CheckExists, Sink, Fatal,
       SelectDrain, AddNewTorrentCheck, AddNewTorrentInsert, SelectInterrupt, Interrupt, SinkGoroutine
  <2> QED
    BY <2>1 DEF LoopInv, DataInv
<1>3. fetched' \subseteq InfoHash
  <2>1. \A l \in LeechId : At(l, "running") => leech[l].infoHash \in InfoHash
    BY DEF At, Live, DaemonInv, SinkInv, JobInv, SinkTypeOK, Leeches
  <2>2. CASE fetched' = fetched
    BY <2>2 DEF DataInv
  <2>3. CASE SinkGoroutine
    BY <2>1, <2>3 DEF SinkGoroutine, DataInv
  <2> QED
    BY <2>2, <2>3 DEF Next, EventLoop, vars, onIndexingResult, SelectOutput, CheckExists, Sink,
       SelectDrain, AddNewTorrentCheck, AddNewTorrentInsert, SelectInterrupt, Interrupt
<1>4. interrupted' \in BOOLEAN
  <2>1. interrupted' = interrupted \/ interrupted' = TRUE \/ interrupted' = FALSE
    BY DEF Next, EventLoop, vars, onIndexingResult, SelectOutput, CheckExists, Sink,
       SelectDrain, AddNewTorrentCheck, AddNewTorrentInsert, SelectInterrupt, Interrupt, SinkGoroutine
  <2> QED
    BY <2>1, Zenon DEF DataInv
<1>5. dbFailed' \in BOOLEAN
  <2>1. dbFailed' = dbFailed \/ dbFailed' = TRUE
    BY DEF Next, EventLoop, vars, onIndexingResult, SelectOutput, CheckExists, Sink, Fatal, DoesTorrentExist,
       SelectDrain, AddNewTorrentCheck, AddNewTorrentInsert, SelectInterrupt, Interrupt, SinkGoroutine
  <2> QED
    BY <2>1, Zenon DEF DataInv
<1> QED
  BY <1>1, <1>2, <1>3, <1>4, <1>5, Zenon DEF DataInv

LEMMA DaemonInvariant == Spec => []DaemonInv
<1>1. ASSUME Init PROVE DaemonInv
  <2>1. SinkInv
    BY <1>1, JobInit DEF Init, SinkInv, SinkInit
  <2>2. LoopInv
    BY <1>1 DEF Init, SinkInit, LoopInv
  <2>3. /\ output \in Seq(Result) /\ Len(output) <= OutputCap
        /\ stored \subseteq InfoHash
        /\ fetched \subseteq InfoHash
    BY <1>1, DaemonAssumption DEF Init
  <2>4. interrupted \in BOOLEAN /\ dbFailed \in BOOLEAN
    BY <1>1, Zenon DEF Init
  <2> QED
    BY <2>1, <2>2, <2>3, <2>4, Zenon DEF DaemonInv, DataInv
<1>2. DaemonInv /\ [Next]_vars => DaemonInv'
  BY SinkInvStep, LoopInvStep, DataInvStep DEF DaemonInv
<1> QED
  BY <1>1, <1>2, PTL DEF Spec

\* Every reachable state of the daemon is well typed: neither of its two channels
\* holds more than its capacity, the loop holds at each place what it needs
\* there, and nobody else calls Sink.
THEOREM DaemonTypeCorrect == Spec => []TypeOK
<1>1. ASSUME DaemonInv PROVE TypeOK
  <2>1. SinkTypeOK
    BY <1>1 DEF DaemonInv, SinkInv, JobInv
  <2> QED
    BY <1>1, <2>1, Zenon DEF DaemonInv, LoopInv, DataInv, TypeOK
<1> QED
  BY <1>1, DaemonInvariant, PTL

\* The race that AddNewTorrent describes never ends the daemon: the loop dies only
\* of a failure of the database, however often a torrent is fetched again.
THEOREM RaceIsNotFatalTheorem == Spec => []RaceIsNotFatal
<1>1. DaemonInv => RaceIsNotFatal
  BY DEF DaemonInv, LoopInv, RaceIsNotFatal
<1> QED
  BY <1>1, DaemonInvariant, PTL

-----------------------------------------------------------------------------
(***************************************************************************)
(* Metadata between a leech and the event loop: what a step of the sink    *)
(* does to it, and to the table.                                           *)
(***************************************************************************)
Sending == {h \in InfoHash : \E l \in LeechId : At(l, "send") /\ leech[l].infoHash = h}
Queued == {h \in InfoHash : \E i \in 1..Len(drain) : drain[i] = h}
OnWay == Sending \cup Queued

Quiet == DOMAIN incoming' = DOMAIN incoming /\ OnWay' = OnWay

\* Appending to a channel adds one metadata, receiving from it takes one.
LEMMA ChannelContents ==
    ASSUME NEW q \in Seq(InfoHash)
    PROVE  /\ \A h \in InfoHash, x \in InfoHash :
                 (\E i \in 1..Len(Append(q, x)) : Append(q, x)[i] = h)
                    <=> h = x \/ \E i \in 1..Len(q) : q[i] = h
           /\ q # << >> => \A h \in InfoHash :
                 (\E i \in 1..Len(q) : q[i] = h)
                    <=> h = Head(q) \/ \E i \in 1..Len(Tail(q)) : Tail(q)[i] = h
<1>1. ASSUME NEW h \in InfoHash, NEW x \in InfoHash
      PROVE  (\E i \in 1..Len(Append(q, x)) : Append(q, x)[i] = h)
                <=> h = x \/ \E i \in 1..Len(q) : q[i] = h
  <2> DEFINE a == Append(q, x)
  <2>1. /\ Len(a) = Len(q) + 1 /\ Len(q) \in Nat /\ a[Len(q) + 1] = x
        /\ \A i \in 1..Len(q) : a[i] = q[i]
    OBVIOUS
  <2> HIDE DEF a
  <2>2. \A i \in 1..Len(a) : i \in 1..Len(q) \/ i = Len(q) + 1
    BY <2>1
  <2>3. 1..Len(q) \subseteq 1..Len(a) /\ Len(q) + 1 \in 1..Len(a)
    BY <2>1
  <2>4. (\E i \in 1..Len(a) : a[i] = h) <=> h = x \/ \E i \in 1..Len(q) : q[i] = h
    BY <2>1, <2>2, <2>3
  <2> QED
    BY <2>4 DEF a
<1>2. ASSUME q # << >>, NEW h \in InfoHash
      PROVE  (\E i \in 1..Len(q) : q[i] = h)
                <=> h = Head(q) \/ \E i \in 1..Len(Tail(q)) : Tail(q)[i] = h
  <2> DEFINE t == Tail(q)
  <2>1. /\ Head(q) = q[1] /\ Len(t) = Len(q) - 1 /\ Len(q) \in Nat /\ Len(q) >= 1
        /\ \A i \in 1..Len(t) : t[i] = q[i + 1]
    BY <1>2, HeadTail
  <2> HIDE DEF t
  <2>2. \A i \in 1..Len(q) : i = 1 \/ (i - 1 \in 1..Len(t) /\ q[i] = t[i - 1])
    BY <2>1
  <2>3. 1 \in 1..Len(q) /\ \A i \in 1..Len(t) : i + 1 \in 1..Len(q)
    BY <2>1
  <2>4. (\E i \in 1..Len(q) : q[i] = h) <=> h = Head(q) \/ \E i \in 1..Len(t) : t[i] = h
    BY <2>1, <2>2, <2>3
  <2> QED
    BY <2>4 DEF t
<1> QED
  BY <1>1, <1>2

\* A step that changes the one leech l, which is in flight neither before nor
\* after, leaves alone what is being sent.
LEMMA SameSending ==
    ASSUME SinkTypeOK, NEW l \in LeechId,
           \A m \in LeechId \ {l} : leech'[m] = leech[m],
           ~At(l, "send"), ~At(l, "send")'
    PROVE  Sending' = Sending
  BY DEF Sending, At, Live

\* The goroutines and calls of the sink, with what each does.
LEMMA SinkEffects ==
    ASSUME SinkInv
    PROVE  /\ \A g \in LeechId \cup {"caller", "status"} : Lock(g) => Quiet
           /\ \A res \in Result : SinkCall(res) => Quiet
           /\ SinkIgnore \/ StatusUnlock => Quiet
           /\ \A l \in LeechId :
                 /\ SinkAdmit(l) =>
                       /\ call.infoHash \in InfoHash \ DOMAIN incoming
                       /\ Cardinality(DOMAIN incoming) < MaxNLeeches
                       /\ DOMAIN incoming' = DOMAIN incoming \cup {call.infoHash}
                       /\ OnWay' = OnWay
                 /\ FlushEnter(l) =>
                       /\ leech[l].infoHash \in InfoHash \cap DOMAIN incoming
                       /\ DOMAIN incoming' = DOMAIN incoming
                       /\ OnWay' = OnWay \cup {leech[l].infoHash}
                 /\ FlushSend(l) \/ LeechFails(l) => Quiet
                 /\ FlushDelete(l) \/ OnLeechErrorBody(l) =>
                       \/ Quiet
                       \/ /\ leech[l].infoHash \in InfoHash \cap DOMAIN incoming
                          /\ DOMAIN incoming' = DOMAIN incoming \ {leech[l].infoHash}
                          /\ OnWay' = OnWay
           /\ Drain =>
                 /\ Head(drain) \in InfoHash
                 /\ DOMAIN incoming' = DOMAIN incoming
                 /\ OnWay = OnWay' \cup {Head(drain)}
<1> USE NamesAssumption DEF Quiet
<1> JobInv /\ SinkTypeOK /\ ~terminated
  BY DEF SinkInv, JobInv, SinkTypeOK
<1>0. \A l \in LeechId : Live(l) => /\ leech[l] \in Leeches
                                     /\ leech[l].infoHash \in InfoHash \cap DOMAIN incoming
  BY DEF Live, SinkTypeOK, Leeches, JobInv, OneLeechPerEntry
<1>1. ASSUME incoming' = incoming, leech' = leech, drain' = drain PROVE Quiet
  BY <1>1 DEF OnWay, Sending, Queued, At, Live
<1>2. ASSUME NEW g \in LeechId \cup {"caller", "status"}, Lock(g) PROVE Quiet
  BY <1>1, <1>2 DEF Lock
<1>3. ASSUME NEW res \in Result, SinkCall(res) PROVE Quiet
  BY <1>1, <1>3 DEF SinkCall
<1>4. ASSUME SinkIgnore \/ StatusUnlock PROVE Quiet
  BY <1>1, <1>4 DEF SinkIgnore, StatusUnlock
<1>5. ASSUME NEW l \in LeechId, SinkAdmit(l)
      PROVE  /\ call.infoHash \in InfoHash \ DOMAIN incoming
             /\ Cardinality(DOMAIN incoming) < MaxNLeeches
             /\ DOMAIN incoming' = DOMAIN incoming \cup {call.infoHash}
             /\ OnWay' = OnWay
  <2>1. /\ call.infoHash \in InfoHash \ DOMAIN incoming
        /\ Cardinality(DOMAIN incoming) < MaxNLeeches
    BY <1>5 DEF SinkAdmit, Admits, SinkTypeOK, HolderWants, Result
  <2>2. DOMAIN incoming' = DOMAIN incoming \cup {call.infoHash}
    BY <1>5 DEF SinkAdmit, Register, Put
  <2>3. /\ \A m \in LeechId \ {l} : leech'[m] = leech[m]
        /\ ~At(l, "send") /\ ~At(l, "send")'
    BY <1>5 DEF SinkAdmit, SinkTypeOK, At, Live
  <2>4. Sending' = Sending /\ Queued' = Queued
    BY <1>5, <2>3, SameSending DEF SinkAdmit, Queued
  <2> QED
    BY <2>1, <2>2, <2>4 DEF OnWay
<1>6. ASSUME NEW l \in LeechId, FlushEnter(l)
      PROVE  /\ leech[l].infoHash \in InfoHash \cap DOMAIN incoming
             /\ DOMAIN incoming' = DOMAIN incoming
             /\ OnWay' = OnWay \cup {leech[l].infoHash}
  <2> DEFINE h == leech[l].infoHash
  <2>1. leech[l] \in Leeches /\ h \in InfoHash \cap DOMAIN incoming
    BY <1>0, <1>6 DEF FlushEnter, At
  <2>2. leech'[l] = [leech[l] EXCEPT !.state = "send"]
    BY <1>6 DEF FlushEnter, SinkTypeOK
  <2>3. leech'[l] \in Leeches /\ leech'[l].state = "send" /\ leech'[l].infoHash = h
    BY <2>1, <2>2 DEF Leeches, LeechState
  <2>4. \A m \in LeechId \ {l} : leech'[m] = leech[m]
    BY <1>6 DEF FlushEnter, SinkTypeOK
  <2>5. At(l, "send")' /\ ~At(l, "send")
    BY <1>6, <2>3 DEF At, Live, FlushEnter
  <2>6. Sending' = Sending \cup {h}
    BY <2>1, <2>3, <2>4, <2>5 DEF Sending, At, Live
  <2>7. Queued' = Queued
    BY <1>6 DEF FlushEnter, Queued
  <2> QED
    BY <1>6, <2>1, <2>6, <2>7 DEF FlushEnter, OnWay
<1>7. ASSUME NEW l \in LeechId, FlushSend(l) PROVE Quiet
  <2> DEFINE h == leech[l].infoHash
  <2>1. leech[l] \in Leeches /\ h \in InfoHash
    BY <1>0, <1>7 DEF FlushSend, At
  <2>2. leech'[l] = [leech[l] EXCEPT !.state = "delete"]
    BY <1>7 DEF FlushSend, SinkTypeOK
  <2>3. leech'[l] \in Leeches /\ leech'[l].state = "delete"
    BY <2>1, <2>2 DEF Leeches, LeechState
  <2>4. \A m \in LeechId \ {l} : leech'[m] = leech[m]
    BY <1>7 DEF FlushSend, SinkTypeOK
  <2>5. ~At(l, "send")' /\ At(l, "send")
    BY <1>7, <2>3 DEF At, Live, FlushSend
  <2>6. Sending = Sending' \cup {h}
    BY <2>1, <2>4, <2>5 DEF Sending, At, Live
  <2>7. drain \in Seq(InfoHash) /\ drain' = Append(drain, h)
    BY <1>7 DEF FlushSend, Send, SinkTypeOK
  <2>8. Queued' = Queued \cup {h}
    BY <2>1, <2>7, ChannelContents DEF Queued
  <2> QED
    BY <1>7, <2>6, <2>8 DEF FlushSend, OnWay
<1>8. ASSUME NEW l \in LeechId, LeechFails(l) PROVE Quiet
  <2>1. leech[l] \in Leeches
    BY <1>0, <1>8 DEF LeechFails, At
  <2>2. leech'[l] = [leech[l] EXCEPT !.state = "error"]
    BY <1>8 DEF LeechFails, SinkTypeOK
  <2>3. leech'[l] \in Leeches /\ leech'[l].state = "error"
    BY <2>1, <2>2 DEF Leeches, LeechState
  <2>4. \A m \in LeechId \ {l} : leech'[m] = leech[m]
    BY <1>8 DEF LeechFails, SinkTypeOK
  <2>5. Sending' = Sending
    BY <1>8, <2>3, <2>4, SameSending DEF At, LeechFails
  <2> QED
    BY <1>8, <2>5 DEF LeechFails, OnWay, Queued
<1>9. ASSUME NEW l \in LeechId, FlushDelete(l) \/ OnLeechErrorBody(l)
      PROVE  \/ Quiet
             \/ /\ leech[l].infoHash \in InfoHash \cap DOMAIN incoming
                /\ DOMAIN incoming' = DOMAIN incoming \ {leech[l].infoHash}
                /\ OnWay' = OnWay
  <2> DEFINE h == leech[l].infoHash
  <2>1. leech[l] \in Leeches /\ h \in InfoHash \cap DOMAIN incoming /\ ~At(l, "send")
    BY <1>0, <1>9 DEF FlushDelete, OnLeechErrorBody, At
  <2>2. \A m \in LeechId \ {l} : leech'[m] = leech[m]
    BY <1>9 DEF FlushDelete, OnLeechErrorBody, SinkTypeOK
  <2>3. Queued' = Queued
    BY <1>9 DEF FlushDelete, OnLeechErrorBody, Queued
  <2>4. CASE leech' = [leech EXCEPT ![l] = NoLeech] /\ Unregister(h)
    <3>1. ~At(l, "send")'
      BY <2>4 DEF At, Live, SinkTypeOK
    <3>2. DOMAIN incoming' = DOMAIN incoming \ {h}
      BY <2>4 DEF Unregister, Delete, Restrict
    <3> QED
      BY <2>1, <2>2, <2>3, <3>1, <3>2, SameSending DEF OnWay
  <2>5. CASE /\ HasUntried(h) /\ incoming' = [incoming EXCEPT ![h] = Tail(@)]
             /\ leech' = [leech EXCEPT ![l].state = "running", ![l].peer = Head(incoming[h])]
    <3>1. Head(incoming[h]) \in Peer
      BY <2>1, <2>5, HeadTail DEF HasUntried, SinkTypeOK
    <3>2. leech'[l] = [leech[l] EXCEPT !.state = "running", !.peer = Head(incoming[h])]
      BY <2>5 DEF SinkTypeOK
    <3>3. leech'[l] \in Leeches /\ leech'[l].state = "running"
      BY <2>1, <3>1, <3>2 DEF Leeches, LeechState
    <3>4. ~At(l, "send")'
      BY <3>3 DEF At, Live
    <3>5. DOMAIN incoming' = DOMAIN incoming
      BY <2>5
    <3> QED
      BY <2>1, <2>2, <2>3, <3>4, <3>5, SameSending DEF OnWay
  <2> QED
    BY <1>9, <2>4, <2>5 DEF FlushDelete, OnLeechErrorBody
<1>10. ASSUME Drain
       PROVE  /\ Head(drain) \in InfoHash
              /\ DOMAIN incoming' = DOMAIN incoming
              /\ OnWay = OnWay' \cup {Head(drain)}
  <2>1. drain \in Seq(InfoHash) /\ drain # << >> /\ drain' = Tail(drain)
    BY <1>10 DEF Drain, SinkTypeOK
  <2>2. Head(drain) \in InfoHash
    BY <2>1, HeadTail
  <2>3. Queued = Queued' \cup {Head(drain)}
    BY <2>1, <2>2, ChannelContents DEF Queued
  <2>4. Sending' = Sending
    BY <1>10 DEF Drain, Sending, At, Live
  <2> QED
    BY <1>10, <2>2, <2>3, <2>4 DEF Drain, OnWay
<1> QED
  BY <1>2, <1>3, <1>4, <1>5, <1>6, <1>7, <1>8, <1>9, <1>10

-----------------------------------------------------------------------------
(***************************************************************************)
(* The daemon implements Crawler.                                          *)
(***************************************************************************)
AtLoop == IF pc \in {"add", "insert"} THEN {item} ELSE {}
Pending == IF Running THEN {h \in InfoHash : InFlight(h)} ELSE {}

\* What is pending is on its way to the loop or in its hands.
LEMMA PendingSet ==
    /\ LoopInv => Pending = IF Running THEN OnWay \cup AtLoop ELSE {}
    /\ LoopInv' => Pending' = IF Running' THEN OnWay' \cup AtLoop' ELSE {}
<1>1. LoopInv => {h \in InfoHash : InFlight(h)} = OnWay \cup AtLoop
  BY DEF LoopInv, InFlight, OnWay, Sending, Queued, AtLoop
<1>2. LoopInv' => {h \in InfoHash : InFlight(h)}' = OnWay' \cup AtLoop'
  BY DEF LoopInv, InFlight, OnWay, Sending, Queued, AtLoop
<1> QED
  BY <1>1, <1>2 DEF Pending

\* One step of Crawler, in the daemon's variables.
CrawlerStep ==
    \/ Running' = Running /\ DOMAIN incoming' = DOMAIN incoming /\ Pending' = Pending /\ stored' = stored
    \/ /\ Running /\ ~Running' /\ Pending' = {}
       /\ DOMAIN incoming' = DOMAIN incoming /\ stored' = stored
    \/ /\ Running /\ Running'
       /\ \E h \in InfoHash :
             \/ /\ h \notin DOMAIN incoming /\ Cardinality(DOMAIN incoming) < MaxNLeeches
                /\ DOMAIN incoming' = DOMAIN incoming \cup {h}
                /\ Pending' = Pending /\ stored' = stored
             \/ /\ h \in DOMAIN incoming /\ DOMAIN incoming' = DOMAIN incoming
                /\ Pending' = Pending \cup {h} /\ stored' = stored
             \/ /\ h \in DOMAIN incoming /\ DOMAIN incoming' = DOMAIN incoming \ {h}
                /\ Pending' = Pending /\ stored' = stored
             \/ /\ h \in Pending /\ DOMAIN incoming' = DOMAIN incoming
                /\ Pending' \in {Pending, Pending \ {h}}
                /\ stored' = stored \cup ({h} \ ZeroSized)

\* Every step of the daemon is a step of Crawler: leaving the loop stops it,
\* admitting starts a fetch, flush ends one, and storing or skipping consumes.
LEMMA DaemonStep ==
    ASSUME DaemonInv, DaemonInv', [Next]_vars
    PROVE  CrawlerStep
<1> SinkInv /\ LoopInv /\ LoopInv'
  BY DEF DaemonInv
<1>0. /\ Pending = IF Running THEN OnWay \cup AtLoop ELSE {}
      /\ Pending' = IF Running' THEN OnWay' \cup AtLoop' ELSE {}
  BY PendingSet
<1>a. ASSUME UNCHANGED <<sinkVars, pc, item, stored>> PROVE CrawlerStep
  <2>1. OnWay' = OnWay /\ AtLoop' = AtLoop /\ Running' = Running /\ DOMAIN incoming' = DOMAIN incoming
    BY <1>a DEF sinkVars, OnWay, Sending, Queued, At, Live, AtLoop, Running
  <2> QED
    BY <1>0, <1>a, <2>1 DEF CrawlerStep
<1>b. ASSUME Running, UNCHANGED <<sinkVars, stored>>, pc' \in {"fatal", "exited"} PROVE CrawlerStep
  <2>1. ~Running' /\ DOMAIN incoming' = DOMAIN incoming
    BY <1>b DEF sinkVars, Running
  <2> QED
    BY <1>0, <1>b, <2>1 DEF CrawlerStep
<1>c. ASSUME Running, Running', Quiet, AtLoop' = AtLoop, stored' = stored PROVE CrawlerStep
  BY <1>0, <1>c DEF CrawlerStep, Quiet
<1>d. ASSUME UNCHANGED sinkVars PROVE Quiet
  BY <1>d DEF sinkVars, Quiet, OnWay, Sending, Queued, At, Live
<1>1. CASE UNCHANGED vars
  BY <1>a, <1>1 DEF vars
<1>2. ASSUME NEW res \in Result, onIndexingResult(res) PROVE CrawlerStep
  BY <1>a, <1>2 DEF onIndexingResult
<1>3. CASE SelectOutput
  BY <1>3, <1>c, <1>d DEF SelectOutput, Goto, AtLoop, Running
<1>4. CASE CheckExists
  <2>1. CASE Fatal
    BY <1>4, <1>b, <2>1 DEF CheckExists, Fatal, Goto, Running
  <2>2. CASE pc' = "select" /\ UNCHANGED <<sinkVars, stored>>
    BY <1>4, <1>c, <1>d, <2>2 DEF CheckExists, AtLoop, Running
  <2>3. CASE SinkCall(item) /\ pc' = "sink" /\ UNCHANGED stored
    <3>1. Quiet
      BY <1>4, <2>3, SinkEffects DEF CheckExists, LoopInv
    <3> QED
      BY <1>4, <1>c, <2>3, <3>1 DEF CheckExists, AtLoop, Running
  <2> QED
    BY <1>4, <2>1, <2>2, <2>3 DEF CheckExists, Goto
<1>5. CASE Sink
  <2>1. Running /\ Running' /\ AtLoop' = AtLoop /\ AtLoop = {} /\ stored' = stored
    BY <1>5 DEF Sink, Running, AtLoop
  <2>2. CASE Lock("caller") \/ SinkIgnore
    BY <1>c, <2>1, <2>2, SinkEffects
  <2>3. ASSUME NEW l \in LeechId, SinkAdmit(l) PROVE CrawlerStep
    BY <1>0, <2>1, <2>3, SinkEffects DEF CrawlerStep
  <2> QED
    BY <1>5, <2>2, <2>3 DEF Sink
<1>6. CASE SelectDrain
  <2>1. /\ Running /\ Running' /\ AtLoop' = {Head(drain)} /\ AtLoop = {} /\ stored' = stored
    BY <1>6 DEF SelectDrain, Goto, Running, AtLoop
  <2>2. OnWay = OnWay' \cup {Head(drain)} /\ DOMAIN incoming' = DOMAIN incoming
    BY <1>6, SinkEffects DEF SelectDrain
  <2> QED
    BY <1>0, <2>1, <2>2 DEF CrawlerStep
<1>7. CASE AddNewTorrentCheck
  <2>1. Running /\ AtLoop = {item} /\ item \in InfoHash
    BY <1>7 DEF AddNewTorrentCheck, Running, AtLoop, LoopInv
  <2>2. CASE Fatal
    BY <1>b, <2>1, <2>2 DEF Fatal, Goto
  <2>3. CASE /\ UNCHANGED <<sinkVars, stored>> /\ pc' = "select"
             /\ item \in ZeroSized \/ item \in stored
    <3>1. Running' /\ AtLoop' = {} /\ Quiet
      BY <1>d, <2>3 DEF Running, AtLoop
    <3> QED
      BY <1>0, <2>1, <2>3, <3>1 DEF CrawlerStep, Quiet
  <2>4. CASE UNCHANGED <<sinkVars, stored>> /\ pc' = "insert" /\ item' = item
    BY <1>c, <1>d, <2>1, <2>4 DEF Running, AtLoop
  <2> QED
    BY <1>7, <2>2, <2>3, <2>4 DEF AddNewTorrentCheck, DoesTorrentExist, Goto
<1>8. CASE AddNewTorrentInsert
  <2>1. Running /\ AtLoop = {item} /\ item \in InfoHash \ ZeroSized
    BY <1>8 DEF AddNewTorrentInsert, Running, AtLoop, LoopInv
  <2>2. CASE UNCHANGED <<sinkVars, stored>> /\ pc' = "fatal"
    BY <1>b, <2>1, <2>2
  <2>3. CASE UNCHANGED sinkVars /\ pc' = "select" /\ stored' = stored \cup {item}
    <3>1. Running' /\ AtLoop' = {} /\ Quiet
      BY <1>d, <2>3 DEF Running, AtLoop
    <3> QED
      BY <1>0, <2>1, <2>3, <3>1 DEF CrawlerStep, Quiet
  <2> QED
    BY <1>8, <2>2, <2>3 DEF AddNewTorrentInsert, Fatal, Goto
<1>9. CASE Interrupt
  BY <1>a, <1>9 DEF Interrupt
<1>10. CASE SelectInterrupt
  BY <1>b, <1>10 DEF SelectInterrupt, Goto, Running
<1>11. CASE SinkGoroutine
  <2>1. Running /\ Running' /\ AtLoop' = AtLoop /\ stored' = stored
    BY <1>11 DEF SinkGoroutine, Running, AtLoop
  <2>2. CASE Status
    BY <1>c, <2>1, <2>2, SinkEffects DEF Status
  <2>3. ASSUME NEW l \in LeechId, Leeching(l) PROVE CrawlerStep
    <3> DEFINE h == leech[l].infoHash
    <3>1. CASE Lock(l) \/ FlushSend(l) \/ LeechFails(l)
      BY <1>c, <2>1, <3>1, SinkEffects
    <3>2. CASE FlushEnter(l)
      <4>1. h \in InfoHash \cap DOMAIN incoming /\ DOMAIN incoming' = DOMAIN incoming
            /\ OnWay' = OnWay \cup {h}
        BY <3>2, SinkEffects
      <4>2. Pending' = Pending \cup {h}
        BY <1>0, <2>1, <4>1
      <4> QED
        BY <2>1, <4>1, <4>2 DEF CrawlerStep
    <3>3. CASE FlushDelete(l) \/ OnLeechErrorBody(l)
      <4>1. \/ Quiet
            \/ /\ h \in InfoHash \cap DOMAIN incoming
               /\ DOMAIN incoming' = DOMAIN incoming \ {h}
               /\ OnWay' = OnWay
        BY <3>3, SinkEffects
      <4>2. OnWay' = OnWay => Pending' = Pending
        BY <1>0, <2>1
      <4> QED
        BY <1>c, <2>1, <4>1, <4>2 DEF CrawlerStep
    <3> QED
      BY <2>3, <3>1, <3>2, <3>3 DEF Leeching, flush, onLeechError
  <2> QED
    BY <1>11, <2>2, <2>3 DEF SinkGoroutine
<1> QED
  BY <1>1, <1>2, <1>3, <1>4, <1>5, <1>6, <1>7, <1>8, <1>9, <1>10, <1>11 DEF Next, EventLoop

\* The daemon, with all its goroutines, channels and locks, implements Crawler:
\* whatever it stores it has fetched, what is fetched is pending until it is stored
\* or dropped, no more than maxNLeeches torrents are fetched at a time.
THEOREM DaemonIsCrawler == Spec => IsCrawler
<1>1. ASSUME Init PROVE C!Init
  <2>1. DOMAIN incoming = {} /\ Running
    BY <1>1 DEF Init, SinkInit, Running
  <2>2. \A h \in InfoHash : ~InFlight(h)
    BY <1>1 DEF Init, SinkInit, InFlight, At, Live
  <2> QED
    BY <1>1, <2>1, <2>2, Zenon DEF Init, C!Init
<1>2. ASSUME DaemonInv, DaemonInv', [Next]_vars
      PROVE  [C!Next]_<<Running, DOMAIN incoming,
                        IF Running THEN {h \in InfoHash : InFlight(h)} ELSE {}, stored>>
  <2> DEFINE F == DOMAIN incoming
  <2>1. CASE UNCHANGED <<Running, F, Pending, stored>>
    BY <2>1 DEF Pending
  <2>2. CASE /\ Running /\ ~Running' /\ Pending' = {} /\ F' = F /\ stored' = stored
    <3>1. C!Stop
      BY <2>2 DEF C!Stop, Pending
    <3> QED
      BY <3>1 DEF C!Next
  <2>3. ASSUME Running, Running', NEW h \in InfoHash,
               h \notin F, Cardinality(F) < MaxNLeeches, F' = F \cup {h},
               Pending' = Pending, stored' = stored
        PROVE  C!Next
    <3>0. C!Cardinality(F) = Cardinality(F)
      BY Zenon DEF C!Cardinality, Cardinality
    <3>1. C!Start(h) <=> /\ Running /\ h \notin F /\ Cardinality(F) < MaxNLeeches
                         /\ F' = F \cup {h} /\ UNCHANGED <<Running, Pending, stored>>
      BY <3>0, Zenon DEF C!Start, Pending
    <3>2. UNCHANGED <<Running, Pending, stored>>
      BY <2>3
    <3>3. C!Start(h)
      BY <2>3, <3>1, <3>2, Zenon
    <3> QED
      BY <3>3 DEF C!Next
  <2>4. ASSUME Running, Running', NEW h \in InfoHash,
               h \in F, F' = F, Pending' = Pending \cup {h}, stored' = stored
        PROVE  C!Next
    <3>1. C!Fetch(h)
      BY <2>4 DEF C!Fetch, Pending
    <3> QED
      BY <3>1 DEF C!Next
  <2>5. ASSUME Running, Running', NEW h \in InfoHash,
               h \in F, F' = F \ {h}, Pending' = Pending, stored' = stored
        PROVE  C!Next
    <3>1. C!Release(h)
      BY <2>5 DEF C!Release, Pending
    <3> QED
      BY <3>1 DEF C!Next
  <2>6. ASSUME Running, Running', NEW h \in InfoHash,
               h \in Pending, F' = F, Pending' \in {Pending, Pending \ {h}},
               stored' = stored \cup ({h} \ ZeroSized)
        PROVE  C!Next
    <3>1. C!Consume(h)
      BY <2>6 DEF C!Consume, Pending
    <3> QED
      BY <3>1 DEF C!Next
  <2>7. CrawlerStep
    BY <1>2, DaemonStep
  <2> QED
    BY <2>1, <2>2, <2>3, <2>4, <2>5, <2>6, <2>7 DEF CrawlerStep
<1> QED
  BY <1>1, <1>2, DaemonInvariant, PTL DEF Spec, IsCrawler, C!Spec

-----------------------------------------------------------------------------
(***************************************************************************)
(* Nothing fetched is lost, as Crawler drops from what is pending only     *)
(* what it stores, what is stored and what has no contents.                *)
(***************************************************************************)
\* What a step adds to the history of fetched metadata is pending afterwards: a
\* leech keeps its info hash when it enters flush.
LEMMA FetchedIsPending ==
    ASSUME DaemonInv, DaemonInv', [Next]_vars, Running'
    PROVE  fetched' \subseteq fetched \cup Pending'
<1>1. CASE fetched' = fetched
  BY <1>1
<1>2. CASE SinkGoroutine
  <2> SUFFICES ASSUME NEW l \in LeechId, At(l, "running"), At(l, "send")'
               PROVE  leech[l].infoHash \in Pending'
    BY <1>2 DEF SinkGoroutine
  <2>1. SinkInv /\ JobInv /\ SinkTypeOK /\ ~terminated
    BY DEF DaemonInv, SinkInv, JobInv, SinkTypeOK
  <2>2. leech'[l].infoHash = leech[l].infoHash
    <3>1. [SinkNext]_sinkVars
      BY SinkSteps
    <3>2. CASE SameJobs
      BY <3>2 DEF SameJobs, At
    <3>3. ASSUME NEW m \in LeechId, Quits(m) \/ Starts(m) \/ Continues(m) \/ Ends(m)
          PROVE  leech'[l].infoHash = leech[l].infoHash
      BY <2>1, <3>3 DEF Quits, Starts, Continues, Ends, At, Live, SinkTypeOK
    <3> QED
      BY <2>1, <3>1, <3>2, <3>3, StepKinds
  <2>3. leech[l].infoHash \in InfoHash
    BY <2>1 DEF At, Live, SinkTypeOK, Leeches
  <2>4. leech[l].infoHash \in OnWay'
    BY <2>2, <2>3 DEF OnWay, Sending
  <2> QED
    BY <2>4, PendingSet DEF DaemonInv
<1> QED
  BY <1>1, <1>2 DEF Next, EventLoop, vars, onIndexingResult, SelectOutput, CheckExists, Sink,
     SelectDrain, AddNewTorrentCheck, AddNewTorrentInsert, SelectInterrupt, Interrupt

\* As long as the daemon runs, what a leech has fetched is on its way to the
\* database or in it, unless it has no contents.
THEOREM NothingFetchedIsLostTheorem == Spec => []NothingFetchedIsLost
<1> DEFINE Kept == Running => \A h \in fetched \ ZeroSized : h \in stored \/ h \in Pending
<1>1. DaemonInv => (NothingFetchedIsLost <=> Kept)
  BY DEF DaemonInv, DataInv, NothingFetchedIsLost, Pending
<1>2. Init => Kept
  BY DEF Init
<1>3. ASSUME DaemonInv, DaemonInv', Kept, [Next]_vars PROVE Kept'
  <2> SUFFICES ASSUME Running', NEW h \in fetched' \ ZeroSized
               PROVE  h \in stored' \/ h \in Pending'
    OBVIOUS
  <2>1. CASE h \in Pending'
    BY <2>1
  <2>2. CASE h \in fetched
    <3>1. CrawlerStep
      BY <1>3, DaemonStep
    <3>2. Running
      BY <3>1 DEF CrawlerStep
    <3>3. h \in stored \/ h \in Pending
      BY <1>3, <2>2, <3>2
    <3> QED
      BY <3>1, <3>3 DEF CrawlerStep
  <2> QED
    BY <1>3, <2>1, <2>2, FetchedIsPending
<1> QED
  BY <1>1, <1>2, <1>3, DaemonInvariant, PTL DEF Spec
=============================================================================
