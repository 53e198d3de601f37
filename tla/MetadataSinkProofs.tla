------------------------- MODULE MetadataSinkProofs -------------------------
(***************************************************************************)
(* What holds of the metadata sink for every set of info hashes, peers and *)
(* goroutines, every cap and every channel capacity, Terminate included.   *)
(***************************************************************************)
EXTENDS MetadataSink, FiniteSetTheorems, TLAPS

-----------------------------------------------------------------------------
(***************************************************************************)
(* The table as a partial function.                                        *)
(***************************************************************************)
\* Put and Delete change the table at one info hash only.
LEMMA TableUpdates ==
    ASSUME NEW S, NEW D \in SUBSET S, NEW V, NEW m \in [D -> V], NEW k \in S, NEW v \in V
    PROVE  /\ Put(m, k, v) \in [D \cup {k} -> V]
           /\ Put(m, k, v)[k] = v
           /\ \A x \in D \ {k} : Put(m, k, v)[x] = m[x]
           /\ Delete(m, k) \in [D \ {k} -> V]
           /\ \A x \in D \ {k} : Delete(m, k)[x] = m[x]
  BY DEF Put, Delete, Restrict

\* The head and the tail of a nonempty sequence.
LEMMA HeadTail ==
    ASSUME NEW S, NEW s \in Seq(S), s # << >>
    PROVE  /\ Head(s) \in S /\ Head(s) = s[1]
           /\ Tail(s) \in Seq(S) /\ Len(Tail(s)) = Len(s) - 1
           /\ \A i \in 1..Len(Tail(s)) : Tail(s)[i] = s[i + 1]
           /\ Len(s) \in Nat /\ Len(s) >= 1
  OBVIOUS

\* A callback moves a leech to another state; onLeechError also gives it a peer.
LEMMA LeechUpdates ==
    ASSUME NEW r \in Leeches, NEW s \in LeechState, NEW p \in Peer
    PROVE  /\ [r EXCEPT !.state = s] \in Leeches
           /\ [r EXCEPT !.state = s, !.peer = p] \in Leeches
  BY DEF Leeches

-----------------------------------------------------------------------------
(***************************************************************************)
(* Types.                                                                  *)
(***************************************************************************)
LEMMA TypeInit == SinkInit => SinkTypeOK
<1> SUFFICES ASSUME SinkInit PROVE SinkTypeOK
  OBVIOUS
<1>1. drain \in Seq(InfoHash) /\ Len(drain) <= DrainCap
  BY BoundsAssumption DEF SinkInit
<1>2. DOMAIN incoming = {} /\ DOMAIN offered = {}
  BY DEF SinkInit
<1>3. HolderWants
  BY NamesAssumption DEF SinkInit, HolderWants
<1>4. /\ incoming \in [DOMAIN incoming -> Seq(Peer)]
      /\ offered \in [DOMAIN incoming -> Seq(Peer)]
  BY <1>2 DEF SinkInit
<1>5. /\ DOMAIN incoming \subseteq InfoHash
      /\ leech \in [LeechId -> Leeches \cup {NoLeech}]
      /\ owed \in [InfoHash -> Int]
      /\ mx \in LeechId \cup {"none", "caller", "status"}
      /\ call \in Result \cup {NoCall}
  BY <1>2 DEF SinkInit
<1>6. terminated \in BOOLEAN /\ panicked \in BOOLEAN
  BY Zenon DEF SinkInit
<1> QED
  BY <1>1, <1>3, <1>4, <1>5, <1>6, Zenon DEF SinkTypeOK

LEMMA TypeStep == SinkTypeOK /\ [SinkNext]_sinkVars => SinkTypeOK'
<1> SUFFICES ASSUME SinkTypeOK, [SinkNext]_sinkVars PROVE SinkTypeOK'
  OBVIOUS
<1> USE NamesAssumption, BoundsAssumption, PeerListsAssumption
    DEF SinkTypeOK, HolderWants, Live, At
<1>1. CASE UNCHANGED sinkVars
  BY <1>1 DEF sinkVars
<1>2. ASSUME NEW g \in LeechId \cup {"caller", "status"}, Lock(g) PROVE SinkTypeOK'
  BY <1>2 DEF Lock, Wants
<1>3. ASSUME NEW res \in Result, SinkCall(res) PROVE SinkTypeOK'
  BY <1>3 DEF SinkCall
<1>4. ASSUME NEW l \in LeechId, SinkAdmit(l) PROVE SinkTypeOK'
  <2>1. /\ call \in Result /\ call.infoHash \in InfoHash
        /\ call.peerAddrs \in Seq(Peer) /\ call.peerAddrs # << >>
    BY <1>4 DEF SinkAdmit, Admits, Result
  <2>2. Head(call.peerAddrs) \in Peer /\ Tail(call.peerAddrs) \in Seq(Peer)
    BY <2>1, HeadTail
  <2>3. /\ incoming' \in [DOMAIN incoming \cup {call.infoHash} -> Seq(Peer)]
        /\ offered' \in [DOMAIN incoming \cup {call.infoHash} -> Seq(Peer)]
    BY <1>4, <2>1, <2>2, TableUpdates DEF SinkAdmit, Register, Untried
  <2>4. leech' \in [LeechId -> Leeches \cup {NoLeech}]
    BY <1>4, <2>1, <2>2 DEF SinkAdmit, Leeches, LeechState
  <2> QED
    BY <1>4, <2>1, <2>3, <2>4 DEF SinkAdmit
<1>5. CASE SinkIgnore
  BY <1>5 DEF SinkIgnore
<1>6. CASE Drain
  <2>1. CASE terminated
    BY <1>6, <2>1 DEF Drain
  <2>2. CASE ~terminated
    <3>1. drain # << >> /\ drain' = Tail(drain)
      BY <1>6, <2>2 DEF Drain
    <3>2. drain' \in Seq(InfoHash) /\ Len(drain') <= DrainCap
      BY <3>1, HeadTail
    <3> QED
      BY <1>6, <2>2, <3>2 DEF Drain
  <2> QED
    BY <2>1, <2>2
<1>7. CASE Terminate
  BY <1>7 DEF Terminate
<1>8. ASSUME NEW l \in LeechId, FlushEnter(l) PROVE SinkTypeOK'
  <2>1. leech[l] \in Leeches /\ leech[l].infoHash \in InfoHash /\ leech[l].peer \in Peer
    BY <1>8 DEF FlushEnter, Leeches
  <2>2. [leech[l] EXCEPT !.state = "send"] \in Leeches
    BY <2>1, LeechUpdates DEF LeechState
  <2>3. leech' \in [LeechId -> Leeches \cup {NoLeech}]
    BY <1>8, <2>2 DEF FlushEnter
  <2>4. owed' \in [InfoHash -> Int]
    BY <1>8, <2>1 DEF FlushEnter
  <2>5. HolderWants'
    BY <1>8 DEF FlushEnter
  <2> QED
    BY <1>8, <2>3, <2>4, <2>5 DEF FlushEnter
<1>9. ASSUME NEW l \in LeechId, FlushSend(l) PROVE SinkTypeOK'
  <2>1. leech[l] \in Leeches /\ leech[l].infoHash \in InfoHash /\ leech[l].peer \in Peer
    BY <1>9 DEF FlushSend, Leeches
  <2>2. [leech[l] EXCEPT !.state = "delete"] \in Leeches
    BY <2>1, LeechUpdates DEF LeechState
  <2>3. leech' \in [LeechId -> Leeches \cup {NoLeech}]
    BY <1>9, <2>2 DEF FlushSend
  <2>4. drain' \in Seq(InfoHash) /\ Len(drain') <= DrainCap
    <3>1. CASE drain' = drain
      BY <3>1
    <3>2. CASE Len(drain) < DrainCap /\ drain' = Append(drain, leech[l].infoHash)
      BY <2>1, <3>2
    <3> QED
      BY <1>9, <3>1, <3>2 DEF FlushSend, Send
  <2>5. HolderWants'
    BY <1>9 DEF FlushSend
  <2> QED
    BY <1>9, <2>3, <2>4, <2>5 DEF FlushSend
<1>10. ASSUME NEW l \in LeechId, FlushDelete(l) PROVE SinkTypeOK'
  <2>1. leech[l].infoHash \in InfoHash
    BY <1>10 DEF FlushDelete, Leeches
  <2>2. /\ incoming' \in [DOMAIN incoming \ {leech[l].infoHash} -> Seq(Peer)]
        /\ offered' \in [DOMAIN incoming \ {leech[l].infoHash} -> Seq(Peer)]
    BY <1>10, <2>1 DEF FlushDelete, Unregister, Delete, Restrict
  <2> QED
    BY <1>10, <2>2 DEF FlushDelete
<1>11. ASSUME NEW l \in LeechId, LeechFails(l) PROVE SinkTypeOK'
  BY <1>11 DEF LeechFails, Leeches, LeechState
<1>12. ASSUME NEW l \in LeechId, OnLeechErrorBody(l) PROVE SinkTypeOK'
  <2> DEFINE h == leech[l].infoHash
  <2>1. h \in InfoHash
    BY <1>12 DEF OnLeechErrorBody, Leeches
  <2>2. CASE HasUntried(h)
    <3>1. /\ h \in DOMAIN incoming
          /\ Head(incoming[h]) \in Peer /\ Tail(incoming[h]) \in Seq(Peer)
      BY <2>2, HeadTail DEF HasUntried
    <3>2. incoming' \in [DOMAIN incoming -> Seq(Peer)]
      BY <1>12, <2>2, <3>1 DEF OnLeechErrorBody
    <3>3. leech' \in [LeechId -> Leeches \cup {NoLeech}]
      <4>1. leech[l] \in Leeches
        BY <1>12 DEF OnLeechErrorBody
      <4>2. [leech[l] EXCEPT !.state = "running", !.peer = Head(incoming[h])] \in Leeches
        BY <3>1, <4>1, LeechUpdates DEF LeechState
      <4> QED
        BY <1>12, <2>2, <4>2 DEF OnLeechErrorBody
    <3> QED
      BY <1>12, <2>2, <3>2, <3>3 DEF OnLeechErrorBody
  <2>3. CASE ~HasUntried(h)
    <3>1. /\ incoming' \in [DOMAIN incoming \ {h} -> Seq(Peer)]
          /\ offered' \in [DOMAIN incoming \ {h} -> Seq(Peer)]
      BY <1>12, <2>1, <2>3 DEF OnLeechErrorBody, Unregister, Delete, Restrict
    <3> QED
      BY <1>12, <2>3, <3>1 DEF OnLeechErrorBody
  <2> QED
    BY <2>2, <2>3
<1>13. CASE StatusUnlock
  BY <1>13 DEF StatusUnlock
<1> QED
  BY <1>1, <1>2, <1>3, <1>4, <1>5, <1>6, <1>7, <1>8, <1>9, <1>10, <1>11, <1>12, <1>13
     DEF SinkNext, Sinking, Leeching, Status, flush, onLeechError

\* Every reachable state of the sink is well typed; in particular the channel
\* never holds more than its capacity, and no return from Sink, flush or
\* onLeechError leaves the mutex locked.
THEOREM TypeCorrect == SinkSpec => []SinkTypeOK
  BY TypeInit, TypeStep, PTL DEF SinkSpec

-----------------------------------------------------------------------------
(***************************************************************************)
(* What a step does to the table and to the leeches' jobs.  Most steps do  *)
(* nothing to either; the others are one of four.                          *)
(***************************************************************************)
SameJobs ==
    /\ incoming' = incoming /\ offered' = offered
    /\ terminated => terminated'
    /\ \A l \in LeechId :
          /\ Live(l)' <=> Live(l)
          /\ Live(l) => /\ leech'[l].infoHash = leech[l].infoHash
                        /\ leech'[l].peer = leech[l].peer

Quits(l) ==
    /\ incoming' = incoming /\ offered' = offered
    /\ terminated /\ terminated'
    /\ leech' = [leech EXCEPT ![l] = NoLeech]

Starts(l) ==
    LET h == call.infoHash
    IN  /\ h \in InfoHash /\ h \notin DOMAIN incoming
        /\ call.peerAddrs \in Seq(Peer) /\ call.peerAddrs # << >>
        /\ Cardinality(DOMAIN incoming) < MaxNLeeches
        /\ incoming' = Put(incoming, h, Tail(call.peerAddrs))
        /\ offered' = Put(offered, h, call.peerAddrs)
        /\ ~Live(l) /\ Live(l)'
        /\ leech'[l].infoHash = h /\ leech'[l].peer = Head(call.peerAddrs)
        /\ \A m \in LeechId \ {l} : leech'[m] = leech[m]
        /\ terminated' = terminated

Continues(l) ==
    LET h == leech[l].infoHash
    IN  /\ Live(l) /\ Live(l)' /\ HasUntried(h)
        /\ incoming' = [incoming EXCEPT ![h] = Tail(@)] /\ offered' = offered
        /\ leech'[l].infoHash = h /\ leech'[l].peer = Head(incoming[h])
        /\ \A m \in LeechId \ {l} : leech'[m] = leech[m]
        /\ terminated' = terminated

Ends(l) ==
    LET h == leech[l].infoHash
    IN  /\ Live(l)
        /\ leech[l].state = "delete" \/ (leech[l].state = "error" /\ ~HasUntried(h))
        /\ incoming' = Delete(incoming, h) /\ offered' = Delete(offered, h)
        /\ leech' = [leech EXCEPT ![l] = NoLeech]
        /\ terminated' = terminated

\* Moving a leech to another state leaves its job alone.
LEMMA StateChange ==
    ASSUME SinkTypeOK, NEW l \in LeechId, NEW s \in LeechState, Live(l),
           leech' = [leech EXCEPT ![l].state = s],
           incoming' = incoming, offered' = offered, terminated => terminated'
    PROVE  SameJobs
<1>1. leech[l] \in Leeches /\ leech[l].peer \in Peer
  BY DEF Live, SinkTypeOK, Leeches
<1>2. leech'[l] = [leech[l] EXCEPT !.state = s]
  BY DEF SinkTypeOK
<1>3. /\ leech'[l] \in Leeches
      /\ leech'[l].infoHash = leech[l].infoHash
      /\ leech'[l].peer = leech[l].peer
  BY <1>1, <1>2 DEF Leeches
<1>4. \A m \in LeechId \ {l} : leech'[m] = leech[m]
  BY DEF SinkTypeOK
<1> QED
  BY <1>3, <1>4, NamesAssumption DEF SameJobs, Live

\* Every step of the sink is one of these.
LEMMA StepKinds ==
    ASSUME SinkTypeOK, [SinkNext]_sinkVars
    PROVE  \/ SameJobs
           \/ \E l \in LeechId : Quits(l) \/ Starts(l) \/ Continues(l) \/ Ends(l)
<1> USE NamesAssumption DEF Live, At
<1> SinkTypeOK
  BY DEF SinkTypeOK
<1>1. CASE UNCHANGED sinkVars
  BY <1>1 DEF sinkVars, SameJobs
<1>2. ASSUME NEW g \in LeechId \cup {"caller", "status"}, Lock(g) PROVE SameJobs
  BY <1>2 DEF Lock, SameJobs
<1>3. ASSUME NEW res \in Result, SinkCall(res) PROVE SameJobs
  BY <1>3 DEF SinkCall, SameJobs
<1>4. ASSUME NEW l \in LeechId, SinkAdmit(l) PROVE Starts(l)
  <2>1. call \in Result /\ call.infoHash \in InfoHash /\ call.peerAddrs \in Seq(Peer)
    BY <1>4, PeerListsAssumption DEF SinkAdmit, SinkTypeOK, HolderWants, Result
  <2>2. Head(call.peerAddrs) \in Peer
    BY <1>4, <2>1, HeadTail DEF SinkAdmit, Admits
  <2>3. leech'[l] = [state |-> "running", infoHash |-> call.infoHash,
                     peer |-> Head(call.peerAddrs)]
    BY <1>4 DEF SinkAdmit, SinkTypeOK
  <2>4. leech'[l] \in Leeches
    BY <2>1, <2>2, <2>3 DEF Leeches, LeechState
  <2>5. \A m \in LeechId \ {l} : leech'[m] = leech[m]
    BY <1>4 DEF SinkAdmit, SinkTypeOK
  <2>6. Live(l)' /\ leech'[l].infoHash = call.infoHash /\ leech'[l].peer = Head(call.peerAddrs)
    BY <2>3, <2>4
  <2> QED
    BY <1>4, <2>1, <2>5, <2>6 DEF SinkAdmit, Admits, Register, Untried, Starts
<1>5. CASE SinkIgnore
  BY <1>5 DEF SinkIgnore, SameJobs
<1>6. CASE Drain
  BY <1>6 DEF Drain, SameJobs
<1>7. CASE Terminate
  BY <1>7 DEF Terminate, SameJobs
<1>8. ASSUME NEW l \in LeechId, FlushEnter(l) PROVE SameJobs \/ Quits(l)
  <2>2. CASE leech' = [leech EXCEPT ![l].state = "send"]
    BY <1>8, <2>2, StateChange DEF FlushEnter, LeechState
  <2>3. CASE terminated /\ leech' = [leech EXCEPT ![l] = NoLeech]
    BY <1>8, <2>3 DEF FlushEnter, Quits
  <2> QED
    BY <1>8, <2>2, <2>3 DEF FlushEnter
<1>9. ASSUME NEW l \in LeechId, FlushSend(l) PROVE SameJobs
  <2>2. CASE leech' = [leech EXCEPT ![l].state = "delete"]
    BY <1>9, <2>2, StateChange DEF FlushSend, LeechState
  <2>3. CASE leech' = leech
    BY <1>9, <2>3 DEF FlushSend, SameJobs
  <2> QED
    BY <1>9, <2>2, <2>3 DEF FlushSend
<1>10. ASSUME NEW l \in LeechId, FlushDelete(l) PROVE Ends(l)
  BY <1>10 DEF FlushDelete, Unregister, Ends
<1>11. ASSUME NEW l \in LeechId, LeechFails(l) PROVE SameJobs
  BY <1>11, StateChange DEF LeechFails, LeechState
<1>12. ASSUME NEW l \in LeechId, OnLeechErrorBody(l) PROVE Continues(l) \/ Ends(l)
  <2> DEFINE h == leech[l].infoHash
  <2>1. CASE HasUntried(h)
    <3>1. leech[l] \in Leeches /\ Head(incoming[h]) \in Peer
      BY <1>12, <2>1, HeadTail DEF OnLeechErrorBody, HasUntried, SinkTypeOK
    <3>2. leech'[l] = [leech[l] EXCEPT !.state = "running", !.peer = Head(incoming[h])]
      BY <1>12, <2>1 DEF OnLeechErrorBody, SinkTypeOK
    <3>3. leech'[l] \in Leeches /\ leech'[l].infoHash = h /\ leech'[l].peer = Head(incoming[h])
      BY <3>1, <3>2 DEF Leeches, LeechState
    <3>4. \A m \in LeechId \ {l} : leech'[m] = leech[m]
      BY <1>12, <2>1 DEF OnLeechErrorBody, SinkTypeOK
    <3> QED
      BY <1>12, <2>1, <3>3, <3>4 DEF OnLeechErrorBody, Continues
  <2>2. CASE ~HasUntried(h)
    BY <1>12, <2>2 DEF OnLeechErrorBody, Unregister, Ends
  <2> QED
    BY <2>1, <2>2
<1>13. CASE StatusUnlock
  BY <1>13 DEF StatusUnlock, SameJobs
<1> QED
  BY <1>1, <1>2, <1>3, <1>4, <1>5, <1>6, <1>7, <1>8, <1>9, <1>10, <1>11, <1>12, <1>13
     DEF SinkNext, Sinking, Leeching, Status, flush, onLeechError

-----------------------------------------------------------------------------
(***************************************************************************)
(* Entries and leeches.  The cap that Sink tests bounds the table; that    *)
(* entries and leeches are in bijection makes it bound the leeches.        *)
(***************************************************************************)
TableCapped ==
    /\ IsFiniteSet(DOMAIN incoming)
    /\ Cardinality(DOMAIN incoming) <= MaxNLeeches

JobInv == SinkTypeOK /\ OneLeechPerEntry /\ TableCapped

LEMMA JobInit == SinkInit => JobInv
<1> SUFFICES ASSUME SinkInit PROVE JobInv
  OBVIOUS
<1>1. DOMAIN incoming = {} /\ \A l \in LeechId : ~Live(l)
  BY DEF SinkInit, Live
<1>2. TableCapped
  BY <1>1, FS_EmptySet, BoundsAssumption DEF TableCapped
<1>3. OneLeechPerEntry
  BY <1>1, <1>2 DEF OneLeechPerEntry, TableCapped
<1> QED
  BY <1>2, <1>3, TypeInit DEF JobInv

LEMMA JobStep == JobInv /\ [SinkNext]_sinkVars => JobInv'
<1> SUFFICES ASSUME JobInv, [SinkNext]_sinkVars PROVE OneLeechPerEntry' /\ TableCapped'
  BY TypeStep DEF JobInv
<1> SinkTypeOK /\ OneLeechPerEntry /\ TableCapped
  BY DEF JobInv
<1>1. CASE SameJobs
  <2>1. TableCapped'
    BY <1>1 DEF SameJobs, TableCapped
  <2>2. OneLeechPerEntry'
    BY <1>1, <2>1 DEF SameJobs, OneLeechPerEntry, TableCapped
  <2> QED
    BY <2>1, <2>2
<1>2. ASSUME NEW l \in LeechId, Quits(l) PROVE OneLeechPerEntry' /\ TableCapped'
  <2>1. \A m \in LeechId : Live(m)' => Live(m) /\ leech'[m] = leech[m]
    BY <1>2 DEF Quits, Live, SinkTypeOK
  <2>2. TableCapped'
    BY <1>2 DEF Quits, TableCapped
  <2>3. OneLeechPerEntry'
    BY <1>2, <2>1, <2>2 DEF Quits, OneLeechPerEntry, TableCapped
  <2> QED
    BY <2>2, <2>3
<1>3. ASSUME NEW l \in LeechId, Starts(l) PROVE OneLeechPerEntry' /\ TableCapped'
  <2> DEFINE h == call.infoHash
  <2>1. DOMAIN incoming' = DOMAIN incoming \cup {h} /\ h \notin DOMAIN incoming
    BY <1>3 DEF Starts, Put
  <2>2. TableCapped'
    <3>1. IsFiniteSet(DOMAIN incoming) /\ Cardinality(DOMAIN incoming) \in Nat
      BY FS_CardinalityType DEF TableCapped
    <3>2. /\ IsFiniteSet(DOMAIN incoming \cup {h})
          /\ Cardinality(DOMAIN incoming \cup {h}) = Cardinality(DOMAIN incoming) + 1
      BY <2>1, <3>1, FS_AddElement
    <3> QED
      BY <1>3, <2>1, <3>1, <3>2, BoundsAssumption DEF Starts, TableCapped
  <2>3. \A m \in LeechId \ {l} : (Live(m)' <=> Live(m)) /\ leech'[m] = leech[m]
    BY <1>3 DEF Starts, Live
  <2>4. OneLeechPerEntry'
    BY <1>3, <2>1, <2>2, <2>3 DEF Starts, OneLeechPerEntry, TableCapped
  <2> QED
    BY <2>2, <2>4
<1>4. ASSUME NEW l \in LeechId, Continues(l) PROVE OneLeechPerEntry' /\ TableCapped'
  <2>1. DOMAIN incoming' = DOMAIN incoming
    BY <1>4 DEF Continues
  <2>2. \A m \in LeechId : (Live(m)' <=> Live(m)) /\ leech'[m].infoHash = leech[m].infoHash
    BY <1>4 DEF Continues, Live
  <2>3. TableCapped'
    BY <2>1 DEF TableCapped
  <2>4. OneLeechPerEntry'
    BY <1>4, <2>1, <2>2, <2>3 DEF Continues, OneLeechPerEntry, TableCapped
  <2> QED
    BY <2>3, <2>4
<1>5. ASSUME NEW l \in LeechId, Ends(l) PROVE OneLeechPerEntry' /\ TableCapped'
  <2> DEFINE h == leech[l].infoHash
  <2>1. DOMAIN incoming' = DOMAIN incoming \ {h}
    BY <1>5 DEF Ends, Delete, Restrict
  <2>2. TableCapped'
    <3>1. IsFiniteSet(DOMAIN incoming) /\ Cardinality(DOMAIN incoming) \in Nat
      BY FS_CardinalityType DEF TableCapped
    <3>2. /\ IsFiniteSet(DOMAIN incoming \ {h})
          /\ Cardinality(DOMAIN incoming \ {h}) \in {Cardinality(DOMAIN incoming),
                                                     Cardinality(DOMAIN incoming) - 1}
      BY <3>1, FS_RemoveElement
    <3> QED
      BY <2>1, <3>1, <3>2, BoundsAssumption DEF TableCapped
  <2>3. ~Live(l)' /\ \A m \in LeechId \ {l} : (Live(m)' <=> Live(m)) /\ leech'[m] = leech[m]
    BY <1>5 DEF Ends, Live, SinkTypeOK
  <2>4. OneLeechPerEntry'
    BY <1>5, <2>1, <2>2, <2>3 DEF Ends, OneLeechPerEntry, TableCapped
  <2> QED
    BY <2>2, <2>4
<1> QED
  BY <1>1, <1>2, <1>3, <1>4, <1>5, StepKinds

LEMMA JobInvariant == SinkSpec => []JobInv
  BY JobInit, JobStep, PTL DEF SinkSpec

\* At any time the entries of the table and the leeches at work correspond one
\* to one: no info hash is fetched by two leeches, none is left without one; and
\* the table keeps to its cap.
THEOREM OneLeechPerEntryTheorem == SinkSpec => []OneLeechPerEntry
<1>1. JobInv => OneLeechPerEntry
  BY DEF JobInv
<1> QED
  BY <1>1, JobInvariant, PTL

\* No more than maxNLeeches leeches are ever at work.
THEOREM LeechesCappedTheorem == SinkSpec => []LeechesCapped
<1>1. JobInv => LeechesCapped
  <2> SUFFICES ASSUME JobInv PROVE LeechesCapped
    OBVIOUS
  <2> DEFINE W == {l \in LeechId : Live(l)}
             f == [l \in W |-> leech[l].infoHash]
  <2>1. f \in Injection(W, DOMAIN incoming)
    BY DEF JobInv, OneLeechPerEntry, Injection, IsInjective
  <2>2. IsFiniteSet(W) /\ Cardinality(W) <= Cardinality(DOMAIN incoming)
    BY <2>1, FS_Injection DEF JobInv, TableCapped
  <2>3. Cardinality(W) \in Nat /\ Cardinality(DOMAIN incoming) \in Nat
    BY <2>2, FS_CardinalityType DEF JobInv, TableCapped
  <2> QED
    BY <2>2, <2>3, BoundsAssumption DEF LeechesCapped, JobInv, TableCapped
<1> QED
  BY <1>1, JobInvariant, PTL

-----------------------------------------------------------------------------
(***************************************************************************)
(* The order in which peers are tried.                                     *)
(***************************************************************************)
\* What PeersTriedInOrder says of one list: `peer' stands in `list' just
\* before its suffix `rest'.
StandsBefore(peer, list, rest) ==
    LET n == Len(list) - Len(rest)
    IN  /\ n >= 1
        /\ peer = list[n]
        /\ \A i \in 1..Len(rest) : rest[i] = list[n + i]

\* The head of a list stands before its tail, and the head of the rest before
\* the tail of the rest.
LEMMA NextStandsBefore ==
    ASSUME NEW list \in Seq(Peer)
    PROVE  /\ list # << >> => StandsBefore(Head(list), list, Tail(list))
           /\ \A peer \in Peer, rest \in Seq(Peer) :
                 StandsBefore(peer, list, rest) /\ rest # << >>
                    => StandsBefore(Head(rest), list, Tail(rest))
<1>1. ASSUME list # << >> PROVE StandsBefore(Head(list), list, Tail(list))
  <2> DEFINE t == Tail(list)
  <2>1. /\ Len(list) - Len(t) = 1
        /\ Head(list) = list[1]
        /\ \A i \in 1..Len(t) : t[i] = list[1 + i]
    BY <1>1, HeadTail
  <2> HIDE DEF t
  <2>2. StandsBefore(Head(list), list, t)
    BY <2>1 DEF StandsBefore
  <2> QED
    BY <2>2 DEF t
<1>2. ASSUME NEW peer \in Peer, NEW rest \in Seq(Peer),
             StandsBefore(peer, list, rest), rest # << >>
      PROVE  StandsBefore(Head(rest), list, Tail(rest))
  <2> DEFINE t == Tail(rest)
             n == Len(list) - Len(rest)
  <2>1. /\ Head(rest) = rest[1] /\ Len(t) = Len(rest) - 1 /\ Len(rest) >= 1
        /\ \A i \in 1..Len(t) : t[i] = rest[i + 1]
        /\ Len(rest) \in Nat /\ Len(list) \in Nat
    BY <1>2, HeadTail
  <2> HIDE DEF t
  <2>2. /\ n >= 1 /\ n \in Int
        /\ \A i \in 1..Len(rest) : rest[i] = list[n + i]
    BY <1>2, <2>1 DEF StandsBefore
  <2>3. Len(list) - Len(t) = n + 1
    BY <2>1
  <2>4. Head(rest) = list[n + 1]
    BY <2>1, <2>2
  <2>5. ASSUME NEW i \in 1..Len(t) PROVE t[i] = list[(n + 1) + i]
    <3>1. i + 1 \in 1..Len(rest) /\ n + (i + 1) = (n + 1) + i
      BY <2>1, <2>2
    <3>2. t[i] = rest[i + 1] /\ rest[i + 1] = list[n + (i + 1)]
      BY <2>1, <2>2, <3>1
    <3> QED
      BY <3>1, <3>2
  <2>6. n + 1 >= 1
    BY <2>2
  <2> HIDE DEF n
  <2>7. StandsBefore(Head(rest), list, t)
    BY <2>3, <2>4, <2>5, <2>6 DEF StandsBefore
  <2> QED
    BY <2>7 DEF t
<1> QED
  BY <1>1, <1>2

LEMMA PeersStep == JobInv /\ PeersTriedInOrder /\ [SinkNext]_sinkVars => PeersTriedInOrder'
<1> DEFINE Ok(l) == StandsBefore(leech[l].peer, offered[leech[l].infoHash],
                                 incoming[leech[l].infoHash])
<1>0. /\ PeersTriedInOrder <=> \A l \in LeechId : Live(l) => Ok(l)
      /\ PeersTriedInOrder' <=> \A l \in LeechId : Live(l)' => Ok(l)'
  BY DEF PeersTriedInOrder, StandsBefore
<1> SUFFICES ASSUME JobInv, [SinkNext]_sinkVars, NEW m \in LeechId, Live(m)',
                    \A l \in LeechId : Live(l) => Ok(l)
             PROVE  Ok(m)'
  BY <1>0
<1> SinkTypeOK /\ OneLeechPerEntry
  BY DEF JobInv
<1>1. CASE SameJobs
  BY <1>1 DEF SameJobs
<1>2. ASSUME NEW l \in LeechId, Quits(l) PROVE Ok(m)'
  BY <1>2 DEF Quits, Live, SinkTypeOK
<1>3. ASSUME NEW l \in LeechId, Starts(l) PROVE Ok(m)'
  <2> DEFINE h == call.infoHash
  <2>1. /\ offered'[h] = call.peerAddrs /\ incoming'[h] = Tail(call.peerAddrs)
        /\ \A x \in DOMAIN incoming : offered'[x] = offered[x] /\ incoming'[x] = incoming[x]
    BY <1>3 DEF Starts, Put, SinkTypeOK
  <2>2. CASE m = l
    <3>1. leech'[m].infoHash = h /\ leech'[m].peer = Head(call.peerAddrs)
      BY <1>3, <2>2 DEF Starts
    <3>2. StandsBefore(Head(call.peerAddrs), call.peerAddrs, Tail(call.peerAddrs))
      BY <1>3, NextStandsBefore DEF Starts
    <3> QED
      BY <2>1, <3>1, <3>2
  <2>3. CASE m # l
    <3>1. leech'[m] = leech[m] /\ Live(m) /\ leech[m].infoHash \in DOMAIN incoming
      BY <1>3, <2>3 DEF Starts, Live, OneLeechPerEntry
    <3> QED
      BY <2>1, <3>1
  <2> QED
    BY <2>2, <2>3
<1>4. ASSUME NEW l \in LeechId, Continues(l) PROVE Ok(m)'
  <2> DEFINE h == leech[l].infoHash
  <2>1. h \in DOMAIN incoming /\ incoming[h] # << >>
    BY <1>4 DEF Continues, HasUntried
  <2>2. /\ offered' = offered /\ incoming'[h] = Tail(incoming[h])
        /\ \A x \in DOMAIN incoming \ {h} : incoming'[x] = incoming[x]
    BY <1>4, <2>1 DEF Continues, SinkTypeOK
  <2>3. CASE m = l
    <3>1. leech'[m].infoHash = h /\ leech'[m].peer = Head(incoming[h])
      BY <1>4, <2>3 DEF Continues
    <3>2. leech[l].peer \in Peer /\ Ok(l) /\ offered[h] \in Seq(Peer) /\ incoming[h] \in Seq(Peer)
      BY <1>4, <2>1 DEF Continues, Live, SinkTypeOK, Leeches
    <3>3. StandsBefore(Head(incoming[h]), offered[h], Tail(incoming[h]))
      BY <2>1, <3>2, NextStandsBefore
    <3> QED
      BY <2>2, <3>1, <3>3
  <2>4. CASE m # l
    <3>1. leech'[m] = leech[m] /\ Live(m)
      BY <1>4, <2>4 DEF Continues, Live
    <3>2. leech[m].infoHash \in DOMAIN incoming \ {h}
      BY <1>4, <2>4, <3>1 DEF Continues, OneLeechPerEntry
    <3> QED
      BY <2>2, <3>1, <3>2
  <2> QED
    BY <2>3, <2>4
<1>5. ASSUME NEW l \in LeechId, Ends(l) PROVE Ok(m)'
  <2> DEFINE h == leech[l].infoHash
  <2>1. m # l /\ leech'[m] = leech[m] /\ Live(m)
    BY <1>5 DEF Ends, Live, SinkTypeOK
  <2>2. leech[m].infoHash \in DOMAIN incoming \ {h}
    BY <1>5, <2>1 DEF Ends, OneLeechPerEntry
  <2>3. \A x \in DOMAIN incoming \ {h} : offered'[x] = offered[x] /\ incoming'[x] = incoming[x]
    BY <1>5 DEF Ends, Delete, Restrict, SinkTypeOK
  <2> QED
    BY <2>1, <2>2, <2>3
<1> QED
  BY <1>1, <1>2, <1>3, <1>4, <1>5, StepKinds

\* Peers are tried in the order of the result, none skipped and none twice.
THEOREM PeersTriedInOrderTheorem == SinkSpec => []PeersTriedInOrder
<1>1. SinkInit => PeersTriedInOrder
  BY DEF SinkInit, PeersTriedInOrder, Live
<1> QED
  BY <1>1, PeersStep, JobInvariant, PTL DEF SinkSpec

\* An entry disappears only once its metadata has been sent, or once the last
\* of the peers it was admitted with has failed.
THEOREM EntryEndsOnlyWhenDoneTheorem == SinkSpec => EntryEndsOnlyWhenDone
<1> DEFINE Done(l) == LET h == leech[l].infoHash
                      IN  Live(l) /\ h \notin DOMAIN incoming' =>
                            \/ leech[l].state = "delete"
                            \/ /\ leech[l].state = "error"
                               /\ leech[l].peer = offered[h][Len(offered[h])]
<1>1. JobInv /\ PeersTriedInOrder /\ [SinkNext]_sinkVars => \A l \in LeechId : Done(l)
  <2> SUFFICES ASSUME JobInv, PeersTriedInOrder, [SinkNext]_sinkVars, NEW m \in LeechId,
                      Live(m), leech[m].infoHash \notin DOMAIN incoming'
               PROVE  \/ leech[m].state = "delete"
                      \/ /\ leech[m].state = "error"
                         /\ leech[m].peer = offered[leech[m].infoHash][Len(offered[leech[m].infoHash])]
    BY DEF Done
  <2> SinkTypeOK /\ OneLeechPerEntry
    BY DEF JobInv
  <2> DEFINE h == leech[m].infoHash
  <2>1. h \in DOMAIN incoming
    BY DEF OneLeechPerEntry
  <2>2. ~SameJobs /\ \A l \in LeechId : ~Quits(l) /\ ~Starts(l) /\ ~Continues(l)
    BY <2>1 DEF SameJobs, Quits, Starts, Continues, Put
  <2>3. PICK l \in LeechId : Ends(l)
    BY <2>2, StepKinds
  <2>4. m = l
    <3>1. DOMAIN incoming' = DOMAIN incoming \ {leech[l].infoHash}
      BY <2>3 DEF Ends, Delete, Restrict
    <3> QED
      BY <2>1, <2>3, <3>1 DEF Ends, OneLeechPerEntry
  <2>5. CASE leech[l].state = "delete"
    BY <2>4, <2>5
  <2>6. CASE leech[l].state = "error" /\ ~HasUntried(h)
    <3>1. incoming[h] = << >> /\ offered[h] \in Seq(Peer)
      BY <2>1, <2>6 DEF HasUntried, SinkTypeOK
    <3>2. Len(offered[h]) - Len(incoming[h]) = Len(offered[h])
      BY <3>1
    <3>3. leech[m].peer = offered[h][Len(offered[h])]
      BY <3>2 DEF PeersTriedInOrder
    <3> QED
      BY <2>4, <2>6, <3>3
  <2> QED
    BY <2>3, <2>4, <2>5, <2>6 DEF Ends
<1>2. JobInv /\ PeersTriedInOrder /\ [SinkNext]_sinkVars => [\A l \in LeechId : Done(l)]_sinkVars
  BY <1>1
<1> QED
  BY <1>2, JobInvariant, PeersTriedInOrderTheorem, PTL DEF SinkSpec, EntryEndsOnlyWhenDone

-----------------------------------------------------------------------------
(***************************************************************************)
(* What is on its way to the event loop, counted.                          *)
(***************************************************************************)
\* The places of h in a channel.
Places(q, h) == {i \in 1..Len(q) : q[i] = h}

Senders(h) == {l \in LeechId : At(l, "send") /\ leech[l].infoHash = h}

LEMMA PlacesFinite ==
    ASSUME NEW S, NEW q \in Seq(S), NEW h
    PROVE  IsFiniteSet(Places(q, h)) /\ Cardinality(Places(q, h)) \in Nat
<1>1. IsFiniteSet(1..Len(q))
  BY FS_Interval
<1> QED
  BY <1>1, FS_Subset, FS_CardinalityType DEF Places

\* A send adds one place, at the end.
LEMMA PlacesAppend ==
    ASSUME NEW S, NEW q \in Seq(S), NEW x \in S, NEW h
    PROVE  Cardinality(Places(Append(q, x), h)) = Cardinality(Places(q, h)) + (IF x = h THEN 1 ELSE 0)
<1> DEFINE a == Append(q, x)
           n == Len(q) + 1
<1>1. Len(q) \in Nat /\ Len(a) = n /\ a[n] = x /\ \A i \in 1..Len(q) : a[i] = q[i]
  OBVIOUS
<1>2. \A i \in 1..n : i \in 1..Len(q) \/ i = n
  BY <1>1
<1>3. 1..Len(q) \subseteq 1..n /\ n \in 1..n /\ n \notin 1..Len(q)
  BY <1>1
<1> HIDE DEF a, n
<1>4. IsFiniteSet(Places(q, h)) /\ Cardinality(Places(q, h)) \in Nat
  BY PlacesFinite
<1>5. CASE x = h
  <2>1. Places(a, h) = Places(q, h) \cup {n} /\ n \notin Places(q, h)
    BY <1>1, <1>2, <1>3, <1>5 DEF Places
  <2> QED
    BY <1>4, <1>5, <2>1, FS_AddElement DEF a
<1>6. CASE x # h
  <2>1. Places(a, h) = Places(q, h)
    BY <1>1, <1>2, <1>3, <1>6 DEF Places
  <2> QED
    BY <1>4, <1>6, <2>1 DEF a
<1> QED
  BY <1>5, <1>6

\* A receive takes the first place away and moves the others up.
LEMMA PlacesTail ==
    ASSUME NEW S, NEW q \in Seq(S), q # << >>, NEW h
    PROVE  Cardinality(Places(Tail(q), h)) = Cardinality(Places(q, h)) - (IF Head(q) = h THEN 1 ELSE 0)
<1> DEFINE t == Tail(q)
           Rest == Places(q, h) \ {1}
           f == [i \in Places(t, h) |-> i + 1]
<1>1. /\ t \in Seq(S) /\ Len(t) = Len(q) - 1 /\ Len(q) \in Nat /\ Len(q) >= 1
      /\ Head(q) = q[1] /\ \A i \in 1..Len(t) : t[i] = q[i + 1]
  BY HeadTail
<1>2. IsFiniteSet(Places(t, h)) /\ Cardinality(Places(t, h)) \in Nat
  BY <1>1, PlacesFinite
<1> HIDE DEF t
<1>3. \A i \in 1..Len(t) : i + 1 \in (1..Len(q)) \ {1}
  BY <1>1
<1>4. \A j \in (1..Len(q)) \ {1} : j - 1 \in 1..Len(t) /\ (j - 1) + 1 = j
  BY <1>1
<1>5. f \in Bijection(Places(t, h), Rest)
  <2>1. f \in [Places(t, h) -> Rest]
    BY <1>1, <1>3 DEF Places
  <2>2. ASSUME NEW i \in Places(t, h), NEW j \in Places(t, h), f[i] = f[j]
        PROVE  i = j
    BY <2>2 DEF Places
  <2>3. ASSUME NEW j \in Rest
        PROVE  \E i \in Places(t, h) : f[i] = j
    <3>1. j \in (1..Len(q)) \ {1} /\ q[j] = h
      BY DEF Places
    <3>2. j - 1 \in Places(t, h)
      BY <1>1, <1>4, <3>1 DEF Places
    <3>3. f[j - 1] = j
      BY <1>4, <3>1, <3>2
    <3> QED
      BY <3>2, <3>3
  <2> QED
    BY <2>1, <2>2, <2>3 DEF Bijection, Injection, Surjection, IsInjective
<1>6. Cardinality(Places(t, h)) = Cardinality(Rest)
  BY <1>2, <1>5, FS_Bijection DEF ExistsBijection
<1>7. 1 \in Places(q, h) <=> Head(q) = h
  BY <1>1 DEF Places
<1>8. IsFiniteSet(Places(q, h)) /\ Cardinality(Places(q, h)) \in Nat
  BY PlacesFinite
<1>9. Cardinality(Rest) = IF 1 \in Places(q, h) THEN Cardinality(Places(q, h)) - 1
                                               ELSE Cardinality(Places(q, h))
  BY <1>8, FS_RemoveElement
<1> QED
  BY <1>6, <1>7, <1>8, <1>9 DEF t

\* At most one leech sends h, as no two work on it.
LEMMA OneSender ==
    ASSUME OneLeechPerEntry, NEW h
    PROVE  /\ IsFiniteSet(Senders(h)) /\ Cardinality(Senders(h)) \in Nat
           /\ Senders(h) = {} => Cardinality(Senders(h)) = 0
           /\ \A l \in Senders(h) : Senders(h) = {l} /\ Cardinality(Senders(h)) = 1
<1>1. \A l \in Senders(h) : Senders(h) = {l}
  BY DEF Senders, OneLeechPerEntry, At
<1>2. CASE Senders(h) = {}
  BY <1>2, FS_EmptySet
<1>3. CASE Senders(h) # {}
  <2>1. PICK l : Senders(h) = {l}
    BY <1>1, <1>3
  <2>2. IsFiniteSet({l}) /\ Cardinality({l}) = 1
    BY FS_Singleton
  <2> QED
    BY <1>1, <2>1, <2>2
<1> QED
  BY <1>2, <1>3

LEMMA ConservedStep ==
    ASSUME JobInv, MetadataConserved, [SinkNext]_sinkVars
    PROVE  MetadataConserved'
<1> USE DEF Live, At
<1> SinkTypeOK /\ OneLeechPerEntry
  BY DEF JobInv
<1>0. OneLeechPerEntry'
  BY JobStep DEF JobInv
<1> DEFINE Balanced(h) == owed[h] = Cardinality(Places(drain, h)) + Cardinality(Senders(h))
<1>1. MetadataConserved <=> (~terminated => \A h \in InfoHash : Balanced(h))
  BY DEF MetadataConserved, Places, Senders
<1>2. MetadataConserved' <=> (~terminated' => \A h \in InfoHash : Balanced(h)')
  BY DEF MetadataConserved, Places, Senders
<1>3. terminated' => MetadataConserved'
  BY <1>2
<1>4. ASSUME UNCHANGED <<drain, owed, terminated>>, \A h \in InfoHash : Senders(h)' = Senders(h)
      PROVE  MetadataConserved'
  <2>1. \A h \in InfoHash : Balanced(h)' <=> Balanced(h)
    BY <1>4
  <2> HIDE DEF Balanced
  <2> QED
    BY <1>1, <1>2, <1>4, <2>1
<1>5. ASSUME UNCHANGED <<drain, owed, terminated>>, NEW l \in LeechId,
             \A m \in LeechId \ {l} : leech'[m] = leech[m], ~At(l, "send"), ~At(l, "send")'
      PROVE  MetadataConserved'
  <2>1. \A h \in InfoHash : Senders(h)' = Senders(h)
    BY <1>5 DEF Senders
  <2> QED
    BY <1>4, <1>5, <2>1
<1>6. ASSUME UNCHANGED <<drain, owed, terminated, leech>>
      PROVE  MetadataConserved'
  BY <1>4, <1>6 DEF Senders
<1>7. CASE UNCHANGED sinkVars
  BY <1>6, <1>7 DEF sinkVars
<1>8. ASSUME NEW g, Lock(g) PROVE MetadataConserved'
  BY <1>6, <1>8 DEF Lock
<1>9. ASSUME NEW res \in Result, SinkCall(res) PROVE MetadataConserved'
  BY <1>6, <1>9 DEF SinkCall
<1>10. ASSUME NEW l \in LeechId, SinkAdmit(l) PROVE MetadataConserved'
  <2>1. leech'[l].state = "running" /\ \A m \in LeechId \ {l} : leech'[m] = leech[m]
    BY <1>10 DEF SinkAdmit, SinkTypeOK
  <2> QED
    BY <1>5, <1>10, <2>1 DEF SinkAdmit
<1>11. CASE SinkIgnore \/ StatusUnlock
  BY <1>6, <1>11 DEF SinkIgnore, StatusUnlock
<1>12. CASE Terminate
  BY <1>3, <1>12 DEF Terminate
<1>13. CASE Drain
  <2>1. CASE terminated
    BY <1>3, <1>13, <2>1 DEF Drain
  <2>2. CASE ~terminated
    <3>1. /\ drain # << >> /\ drain' = Tail(drain) /\ drain \in Seq(InfoHash)
          /\ owed' = [owed EXCEPT ![Head(drain)] = @ - 1] /\ leech' = leech
      BY <1>13, <2>2 DEF Drain, SinkTypeOK
    <3>2. ASSUME NEW h \in InfoHash PROVE Balanced(h)'
      <4>1. owed'[h] = owed[h] - (IF Head(drain) = h THEN 1 ELSE 0) /\ owed[h] \in Int
        BY <3>1 DEF SinkTypeOK
      <4>2. Cardinality(Places(drain', h)) = Cardinality(Places(drain, h)) - (IF Head(drain) = h THEN 1 ELSE 0)
        BY <3>1, PlacesTail
      <4>3. Senders(h)' = Senders(h)
        BY <3>1 DEF Senders
      <4>4. Balanced(h)
        BY <1>1, <2>2
      <4>5. Cardinality(Places(drain, h)) \in Nat /\ Cardinality(Senders(h)) \in Nat
        BY <3>1, PlacesFinite, OneSender
      <4> QED
        BY <4>1, <4>2, <4>3, <4>4, <4>5
    <3> HIDE DEF Balanced
    <3> QED
      BY <1>2, <3>2
  <2> QED
    BY <2>1, <2>2
<1>14. ASSUME NEW l \in LeechId, FlushEnter(l) PROVE MetadataConserved'
  <2>1. CASE terminated
    BY <1>3, <1>14, <2>1 DEF FlushEnter
  <2>2. CASE ~terminated
    <3> DEFINE g == leech[l].infoHash
    <3>1. /\ leech[l] \in Leeches /\ leech' = [leech EXCEPT ![l].state = "send"]
          /\ owed' = [owed EXCEPT ![g] = @ + 1] /\ drain' = drain /\ leech[l].state = "running"
      BY <1>14, <2>2 DEF FlushEnter, SinkTypeOK
    <3>2. /\ g \in InfoHash /\ leech'[l] = [leech[l] EXCEPT !.state = "send"]
          /\ \A m \in LeechId \ {l} : leech'[m] = leech[m]
      BY <3>1 DEF SinkTypeOK, Leeches
    <3>3. leech'[l] \in Leeches /\ leech'[l].state = "send" /\ leech'[l].infoHash = g
      BY <3>1, <3>2 DEF Leeches, LeechState
    <3>4. At(l, "send")' /\ ~At(l, "send")
      BY <3>1, <3>3, NamesAssumption
    <3> HIDE DEF g
    <3>5. ASSUME NEW h \in InfoHash PROVE Balanced(h)'
      <4>1. owed'[h] = owed[h] + (IF g = h THEN 1 ELSE 0) /\ owed[h] \in Int
        BY <3>1, <3>2 DEF SinkTypeOK
      <4>2. Cardinality(Senders(h)') = Cardinality(Senders(h)) + (IF g = h THEN 1 ELSE 0)
        <5>1. CASE g = h
          <6>1. l \in Senders(h)' /\ Live(l) /\ leech[l].infoHash = h
            BY <1>14, <3>3, <3>4, <5>1 DEF Senders, FlushEnter, g
          <6>2. Cardinality(Senders(h)') = 1
            <7>1. Senders(h)' = {l}
              BY <1>0, <6>1 DEF Senders, OneLeechPerEntry
            <7> QED
              BY <7>1, FS_Singleton
          <6>3. Senders(h) = {}
            BY <3>4, <6>1 DEF Senders, OneLeechPerEntry
          <6> QED
            BY <5>1, <6>2, <6>3, OneSender
        <5>2. CASE g # h
          <6>1. Senders(h)' = Senders(h)
            BY <3>2, <3>3, <3>4, <5>2 DEF Senders
          <6> QED
            BY <5>2, <6>1, OneSender
        <5> QED
          BY <5>1, <5>2
      <4>3. Places(drain', h) = Places(drain, h)
        BY <3>1
      <4>4. Balanced(h)
        BY <1>1, <2>2
      <4>5. Cardinality(Places(drain, h)) \in Nat /\ Cardinality(Senders(h)) \in Nat
        BY PlacesFinite, OneSender DEF SinkTypeOK
      <4> QED
        BY <4>1, <4>2, <4>3, <4>4, <4>5
    <3> HIDE DEF Balanced
    <3> QED
      BY <1>2, <3>5
  <2> QED
    BY <2>1, <2>2
<1>15. ASSUME NEW l \in LeechId, FlushSend(l) PROVE MetadataConserved'
  <2>1. CASE terminated
    BY <1>3, <1>15, <2>1 DEF FlushSend
  <2>2. CASE ~terminated
    <3> DEFINE g == leech[l].infoHash
    <3>1. /\ leech[l] \in Leeches /\ leech' = [leech EXCEPT ![l].state = "delete"]
          /\ owed' = owed /\ drain' = Append(drain, g) /\ At(l, "send")
      BY <1>15, <2>2 DEF FlushSend, Send, SinkTypeOK
    <3>2. /\ g \in InfoHash /\ leech'[l] = [leech[l] EXCEPT !.state = "delete"]
          /\ \A m \in LeechId \ {l} : leech'[m] = leech[m]
      BY <3>1 DEF SinkTypeOK, Leeches
    <3>3. leech'[l].state = "delete"
      BY <3>1, <3>2 DEF Leeches
    <3> HIDE DEF g
    <3>4. ASSUME NEW h \in InfoHash PROVE Balanced(h)'
      <4>1. Cardinality(Senders(h)') = Cardinality(Senders(h)) - (IF g = h THEN 1 ELSE 0)
        <5>1. CASE g = h
          <6>1. Senders(h) = {l} /\ Cardinality(Senders(h)) = 1
            <7>1. l \in Senders(h)
              BY <3>1, <5>1 DEF Senders, g
            <7> QED
              BY <7>1, OneSender
          <6>2. Senders(h)' = {}
            BY <3>2, <3>3, <6>1 DEF Senders
          <6> QED
            BY <5>1, <6>1, <6>2, FS_EmptySet
        <5>2. CASE g # h
          <6>1. Senders(h)' = Senders(h)
            BY <3>1, <3>2, <3>3, <5>2 DEF Senders, g
          <6> QED
            BY <5>2, <6>1, OneSender
        <5> QED
          BY <5>1, <5>2
      <4>2. Cardinality(Places(drain', h)) = Cardinality(Places(drain, h)) + (IF g = h THEN 1 ELSE 0)
        BY <3>1, <3>2, PlacesAppend DEF SinkTypeOK
      <4>3. Balanced(h) /\ owed[h] \in Int
        BY <1>1, <2>2 DEF SinkTypeOK
      <4>4. Cardinality(Places(drain, h)) \in Nat /\ Cardinality(Senders(h)) \in Nat
        BY PlacesFinite, OneSender DEF SinkTypeOK
      <4> QED
        BY <3>1, <4>1, <4>2, <4>3, <4>4
    <3> HIDE DEF Balanced
    <3> QED
      BY <1>2, <3>4
  <2> QED
    BY <2>1, <2>2
<1>16. ASSUME NEW l \in LeechId, FlushDelete(l) PROVE MetadataConserved'
  BY <1>5, <1>16 DEF FlushDelete, SinkTypeOK
<1>17. ASSUME NEW l \in LeechId, LeechFails(l) PROVE MetadataConserved'
  <2>1. leech[l] \in Leeches /\ leech' = [leech EXCEPT ![l].state = "error"] /\ ~At(l, "send")
    BY <1>17 DEF LeechFails, SinkTypeOK
  <2>2. leech'[l].state = "error" /\ \A m \in LeechId \ {l} : leech'[m] = leech[m]
    BY <2>1 DEF SinkTypeOK, Leeches
  <2> QED
    BY <1>5, <1>17, <2>1, <2>2 DEF LeechFails
<1>18. ASSUME NEW l \in LeechId, OnLeechErrorBody(l) PROVE MetadataConserved'
  <2> DEFINE p == Head(incoming[leech[l].infoHash])
  <2>1. leech[l] \in Leeches /\ ~At(l, "send") /\ UNCHANGED <<drain, owed, terminated>>
    BY <1>18 DEF OnLeechErrorBody, SinkTypeOK
  <2>2. CASE leech' = [leech EXCEPT ![l] = NoLeech]
    BY <1>5, <2>1, <2>2 DEF SinkTypeOK
  <2>3. CASE leech' = [leech EXCEPT ![l].state = "running", ![l].peer = p]
    <3> HIDE DEF p
    <3>1. leech'[l].state = "running" /\ \A m \in LeechId \ {l} : leech'[m] = leech[m]
      BY <2>1, <2>3 DEF SinkTypeOK, Leeches
    <3> QED
      BY <1>5, <2>1, <3>1
  <2> QED
    BY <1>18, <2>2, <2>3 DEF OnLeechErrorBody
<1> QED
  BY <1>7, <1>8, <1>9, <1>10, <1>11, <1>12, <1>13, <1>14, <1>15, <1>16, <1>17, <1>18
     DEF SinkNext, Sinking, Leeching, Status, flush, onLeechError

\* Until Terminate, every metadata handed to flush is received once: as long as
\* it is not, it waits in the channel or with the one leech that sends it.
THEOREM MetadataConservedTheorem == SinkSpec => []MetadataConserved
<1>1. SinkInit => MetadataConserved
  <2> SUFFICES ASSUME SinkInit, NEW h \in InfoHash
               PROVE  owed[h] = Cardinality(Places(drain, h)) + Cardinality(Senders(h))
    BY DEF MetadataConserved, Places, Senders
  <2>1. Places(drain, h) = {}
    BY DEF SinkInit, Places
  <2>2. Senders(h) = {}
    BY DEF SinkInit, At, Live, Senders
  <2>3. owed[h] = 0
    BY DEF SinkInit
  <2>4. Cardinality({}) = 0
    BY FS_EmptySet
  <2> QED
    BY <2>1, <2>2, <2>3, <2>4
<1> QED
  BY <1>1, JobInvariant, ConservedStep, PTL DEF SinkSpec
=============================================================================
