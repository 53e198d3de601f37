---------------------------- MODULE MetadataSink ----------------------------
(***************************************************************************)
(* The metadata sink of magneticod                                         *)
(* (cmd/magneticod/bittorrent/metadata/sink.go): a bounded table of the    *)
(* info hashes being fetched, one leech goroutine per table entry, and the *)
(* channel `drain' on which fetched metadata leaves.                       *)
(*                                                                         *)
(* Goroutines: the caller of the exported methods (the event loop of       *)
(* main.go, which both sinks and drains), the leeches, the status ticker.  *)
(* A leech is seen from outside: it runs and then calls exactly one of     *)
(* flush and onLeechError; module Leech looks inside.  A goroutine that    *)
(* needs incomingInfoHashesMx first takes it (Lock) and then runs its      *)
(* critical section in one step, as nothing else touches the table then.   *)
(*                                                                         *)
(* A Metadata is represented by its info hash, which the checksum makes    *)
(* the identity of the contents.                                           *)
(***************************************************************************)
EXTENDS Integers, Sequences, FiniteSets, Functions

CONSTANTS
    InfoHash,       \* info hashes
    Peer,           \* peer addresses
    PeerLists,      \* the lists of peers that a dht.Result may carry
    LeechId,        \* names for leech goroutines
    MaxNLeeches,    \* maxNLeeches
    DrainCap,       \* capacity of the channel `drain'
    NoCall, NoLeech \* "not in a call", "no such goroutine"

Result == [infoHash : InfoHash, peerAddrs : PeerLists]

LeechState == {"running",  \* inside Leech.Do, before the callback
               "send",     \* in flush, about to send on `drain'
               "delete",   \* in flush, after the send
               "error"}    \* in onLeechError

Leeches == [state : LeechState, infoHash : InfoHash, peer : Peer]

ASSUME PeerListsAssumption == PeerLists \subseteq Seq(Peer)
ASSUME BoundsAssumption == MaxNLeeches \in Nat /\ DrainCap \in Nat \ {0}
ASSUME NamesAssumption == /\ LeechId \cap {"none", "caller", "status"} = {}
                          /\ NoCall \notin Result
                          /\ NoLeech \notin Leeches

VARIABLES
    incoming,   \* incomingInfoHashes: info hash -> peers not tried yet
    mx,         \* incomingInfoHashesMx: who holds it, or "none"
    drain,      \* the channel
    terminated, \* terminated; `drain' is closed exactly when it is set
    leech,      \* the leech goroutines
    call,       \* the Result the caller is sinking, or NoCall
    panicked,   \* the process died of a panic
    offered,    \* history: the peers with which each entry was admitted
    owed        \* history: metadata handed to flush and not yet received

sinkVars == <<incoming, mx, drain, terminated, leech, call, panicked, offered, owed>>

Live(l) == leech[l] # NoLeech
At(l, s) == Live(l) /\ leech[l].state = s
Put(m, k, v) == [x \in DOMAIN m \cup {k} |-> IF x = k THEN v ELSE m[x]]
Delete(m, k) == Restrict(m, DOMAIN m \ {k})

SinkInit ==
    /\ incoming = [h \in {} |-> << >>]
    /\ mx = "none"
    /\ drain = << >>
    /\ terminated = FALSE
    /\ leech = [l \in LeechId |-> NoLeech]
    /\ call = NoCall
    /\ panicked = FALSE
    /\ offered = [h \in {} |-> << >>]
    /\ owed = [h \in InfoHash |-> 0]

(***************************************************************************)
(* The table and the channel.                                              *)
(***************************************************************************)
\* Variant: peerAddrs rather than peerAddrs[1:].
BugUntried(peerAddrs) == peerAddrs

Untried(peerAddrs) == Tail(peerAddrs)

Register(h, peerAddrs) ==
    /\ incoming' = Put(incoming, h, Untried(peerAddrs))
    /\ offered' = Put(offered, h, peerAddrs)

\* Variant: the entry is never deleted.
BugUnregister(h) == UNCHANGED <<incoming, offered>>

Unregister(h) ==
    /\ incoming' = Delete(incoming, h)
    /\ offered' = Delete(offered, h)

\* Variant: one peer is left when the entry is given up.
BugHasUntried(h) == h \in DOMAIN incoming /\ Len(incoming[h]) > 1

\* A missing key reads as the empty list.
HasUntried(h) == h \in DOMAIN incoming /\ incoming[h] # << >>

\* Variant: a select with a default drops the metadata when the channel is full.
BugSendDrops(md) == drain' = IF Len(drain) < DrainCap THEN Append(drain, md) ELSE drain

Send(md) == Len(drain) < DrainCap /\ drain' = Append(drain, md)

(***************************************************************************)
(* incomingInfoHashesMx.                                                   *)
(***************************************************************************)
Wants(g) ==
    \/ g = "status"
    \/ g = "caller" /\ call # NoCall
    \/ g \in LeechId /\ (At(g, "delete") \/ At(g, "error"))

Lock(g) ==
    /\ mx = "none"
    /\ Wants(g)
    /\ mx' = g
    /\ UNCHANGED <<incoming, drain, terminated, leech, call, panicked, offered, owed>>

(***************************************************************************)
(* The caller.  Sink panics once the sink is terminated.                   *)
(***************************************************************************)
SinkCall(res) ==
    /\ call = NoCall
    /\ IF terminated THEN panicked' = TRUE /\ UNCHANGED call
                     ELSE call' = res /\ UNCHANGED panicked
    /\ UNCHANGED <<incoming, mx, drain, terminated, leech, offered, owed>>

\* Variant: the test for an existing entry is missing.
BugAdmitsAgain(res) ==
    Cardinality(DOMAIN incoming) < MaxNLeeches /\ res.peerAddrs # << >>

Admits(res) ==
    /\ Cardinality(DOMAIN incoming) < MaxNLeeches
    /\ res.infoHash \notin DOMAIN incoming
    /\ res.peerAddrs # << >>

\* Sink, under the lock: admit the result and start a leech on its first peer,
\* or return without a trace.
SinkAdmit(l) ==
    /\ mx = "caller" /\ Admits(call) /\ ~Live(l)
    /\ Register(call.infoHash, call.peerAddrs)
    /\ leech' = [leech EXCEPT ![l] = [state |-> "running",
                                      infoHash |-> call.infoHash,
                                      peer |-> Head(call.peerAddrs)]]
    /\ call' = NoCall
    /\ mx' = "none"
    /\ UNCHANGED <<drain, terminated, panicked, owed>>

SinkIgnore ==
    /\ mx = "caller" /\ ~Admits(call)
    /\ call' = NoCall
    /\ mx' = "none"
    /\ UNCHANGED <<incoming, drain, terminated, leech, panicked, offered, owed>>

\* <-Drain(): the event loop receives one metadata.
Drain ==
    /\ call = NoCall
    /\ \/ /\ terminated
          /\ panicked' = TRUE
          /\ UNCHANGED <<drain, owed>>
       \/ /\ ~terminated /\ drain # << >>
          /\ drain' = Tail(drain)
          /\ owed' = [owed EXCEPT ![Head(drain)] = @ - 1]
          /\ UNCHANGED panicked
    /\ UNCHANGED <<incoming, mx, terminated, leech, call, offered>>

\* Terminate closes both channels; closing them twice panics.
Terminate ==
    /\ call = NoCall
    /\ terminated' = TRUE
    /\ panicked' = terminated
    /\ UNCHANGED <<incoming, mx, drain, leech, call, offered, owed>>

(***************************************************************************)
(* A leech calls back.                                                     *)
(***************************************************************************)
\* OnSuccess: flush returns at once, and the entry stays, after Terminate.
\* `terminated' is read without the mutex: a leech may miss that it was set.
FlushEnter(l) ==
    /\ At(l, "running")
    /\ \/ /\ terminated
          /\ leech' = [leech EXCEPT ![l] = NoLeech]
          /\ UNCHANGED owed
       \/ /\ leech' = [leech EXCEPT ![l].state = "send"]
          /\ owed' = [owed EXCEPT ![leech[l].infoHash] = @ + 1]
    /\ UNCHANGED <<incoming, mx, drain, terminated, call, panicked, offered>>

\* drain <- result: blocks while the channel is full, panics when it is closed.
FlushSend(l) ==
    /\ At(l, "send")
    /\ \/ /\ terminated
          /\ panicked' = TRUE
          /\ UNCHANGED <<drain, leech>>
       \/ /\ ~terminated
          /\ Send(leech[l].infoHash)
          /\ leech' = [leech EXCEPT ![l].state = "delete"]
          /\ UNCHANGED panicked
    /\ UNCHANGED <<incoming, mx, terminated, call, offered, owed>>

\* Variant: the deferred Unlock is missing.
BugFlushDelete(l) ==
    /\ At(l, "delete") /\ mx = l
    /\ Unregister(leech[l].infoHash)
    /\ leech' = [leech EXCEPT ![l] = NoLeech]
    /\ UNCHANGED <<mx, drain, terminated, call, panicked, owed>>

FlushDelete(l) ==
    /\ At(l, "delete") /\ mx = l
    /\ Unregister(leech[l].infoHash)
    /\ leech' = [leech EXCEPT ![l] = NoLeech]
    /\ mx' = "none"
    /\ UNCHANGED <<drain, terminated, call, panicked, owed>>

\* Variant: flush takes the mutex before it sends.
BugFlushLocksFirst(l) ==
    \/ FlushEnter(l)
    \/ /\ At(l, "send") /\ mx = "none"
       /\ mx' = l
       /\ UNCHANGED <<incoming, drain, terminated, leech, call, panicked, offered, owed>>
    \/ mx = l /\ FlushSend(l)
    \/ FlushDelete(l)

flush(l) == FlushEnter(l) \/ FlushSend(l) \/ FlushDelete(l)

LeechFails(l) ==
    /\ At(l, "running")
    /\ leech' = [leech EXCEPT ![l].state = "error"]
    /\ UNCHANGED <<incoming, mx, drain, terminated, call, panicked, offered, owed>>

\* onLeechError, under the lock: a leech for the next peer takes over (and the
\* name of the finished one), or the entry is deleted.
OnLeechErrorBody(l) ==
    LET h == leech[l].infoHash
    IN  /\ At(l, "error") /\ mx = l
        /\ \/ /\ HasUntried(h)
              /\ incoming' = [incoming EXCEPT ![h] = Tail(@)]
              /\ leech' = [leech EXCEPT ![l].state = "running", ![l].peer = Head(incoming[h])]
              /\ UNCHANGED offered
           \/ /\ ~HasUntried(h)
              /\ Unregister(h)
              /\ leech' = [leech EXCEPT ![l] = NoLeech]
        /\ mx' = "none"
        /\ UNCHANGED <<drain, terminated, call, panicked, owed>>

onLeechError(l) == LeechFails(l) \/ OnLeechErrorBody(l)

(***************************************************************************)
(* The status ticker only reads the size of the table under the lock.      *)
(***************************************************************************)
StatusUnlock ==
    /\ mx = "status"
    /\ mx' = "none"
    /\ UNCHANGED <<incoming, drain, terminated, leech, call, panicked, offered, owed>>

-----------------------------------------------------------------------------
Leeching(l) == Lock(l) \/ flush(l) \/ onLeechError(l)
Sinking == Lock("caller") \/ SinkIgnore \/ \E l \in LeechId : SinkAdmit(l)
Status == Lock("status") \/ StatusUnlock

SinkNext ==
    /\ ~panicked
    /\ \/ \E res \in Result : SinkCall(res)
       \/ Sinking
       \/ Drain
       \/ \E l \in LeechId : Leeching(l)
       \/ Status
       \/ Terminate

SinkSpec == SinkInit /\ [][SinkNext]_sinkVars

(***************************************************************************)
(* Fairness.  A leech gives up at its deadline, so it always calls back.   *)
(* Waiters of a Go mutex and of a full channel are served in turn, hence   *)
(* the strong fairness of Lock and FlushSend; the event loop keeps         *)
(* selecting, and select chooses at random among the ready cases, hence    *)
(* the strong fairness of Drain.  A panic ends the process.                *)
(***************************************************************************)
Alive(A) == ~panicked /\ A

SinkFairness ==
    /\ SF_sinkVars(Alive(Drain))
    /\ SF_sinkVars(Alive(Lock("caller")))
    /\ WF_sinkVars(Alive(SinkIgnore \/ \E l \in LeechId : SinkAdmit(l)))
    /\ WF_sinkVars(Alive(StatusUnlock))
    /\ \A l \in LeechId :
          /\ SF_sinkVars(Alive(Lock(l)))
          /\ SF_sinkVars(Alive(FlushSend(l)))
          /\ WF_sinkVars(Alive(FlushEnter(l) \/ LeechFails(l) \/ FlushDelete(l) \/ OnLeechErrorBody(l)))

FairSinkSpec == SinkSpec /\ SinkFairness
-----------------------------------------------------------------------------
(***************************************************************************)
(* Properties.                                                             *)
(***************************************************************************)
\* Who holds incomingInfoHashesMx is inside a call or a callback that needs it: no
\* return leaves it locked.
HolderWants ==
    /\ mx = "caller" => call # NoCall
    /\ mx \in LeechId => At(mx, "delete") \/ At(mx, "error")

\* Every variable has its type, the channel holds at most DrainCap metadata, and
\* the mutex is held by nobody, or by a goroutine that has still to release it.
SinkTypeOK ==
    /\ DOMAIN incoming \subseteq InfoHash
    /\ incoming \in [DOMAIN incoming -> Seq(Peer)]
    /\ mx \in LeechId \cup {"none", "caller", "status"}
    /\ drain \in Seq(InfoHash) /\ Len(drain) <= DrainCap
    /\ terminated \in BOOLEAN
    /\ leech \in [LeechId -> Leeches \cup {NoLeech}]
    /\ call \in Result \cup {NoCall}
    /\ panicked \in BOOLEAN
    /\ offered \in [DOMAIN incoming -> Seq(Peer)]
    /\ owed \in [InfoHash -> Int]
    /\ HolderWants

\* An entry of incomingInfoHashes and a leech at work are the same thing: no
\* two leeches fetch one info hash, a leech is registered until its very last
\* step, and (the table leaks only after Terminate) no entry is left without a
\* leech, which would refuse that info hash and hold its slot for ever.  The
\* table, and so the leeches, keep to the cap that Sink tests.
OneLeechPerEntry ==
    /\ \A l \in LeechId : Live(l) => leech[l].infoHash \in DOMAIN incoming
    /\ \A l, m \in LeechId :
          Live(l) /\ Live(m) /\ leech[l].infoHash = leech[m].infoHash => l = m
    /\ ~terminated =>
          \A h \in DOMAIN incoming : \E l \in LeechId : Live(l) /\ leech[l].infoHash = h
    /\ Cardinality(DOMAIN incoming) <= MaxNLeeches

\* The cap checked by Sink on the size of the table bounds the goroutines: at
\* no time do more than maxNLeeches leeches run.
LeechesCapped == Cardinality({l \in LeechId : Live(l)}) <= MaxNLeeches

\* The peers of a result are tried one after the other, in order, none twice
\* and none skipped: what is left in the table is what follows, in the list
\* that Sink was given, the peer the entry's leech is connected to.
PeersTriedInOrder ==
    \A l \in LeechId : Live(l) =>
        LET h == leech[l].infoHash
            n == Len(offered[h]) - Len(incoming[h])
        IN  /\ n >= 1
            /\ leech[l].peer = offered[h][n]
            /\ \A i \in 1..Len(incoming[h]) : incoming[h][i] = offered[h][n + i]

\* Metadata is neither lost nor duplicated between the leech that fetched it
\* and the event loop: what was handed to flush and not received is in the
\* channel or with a leech blocked on it.
MetadataConserved ==
    ~terminated =>
        \A h \in InfoHash :
            owed[h] = Cardinality({i \in 1..Len(drain) : drain[i] = h})
                      + Cardinality({l \in LeechId : At(l, "send") /\ leech[l].infoHash = h})

\* "Delete the infoHash from ms.incomingInfoHashes ONLY AFTER once we've
\* flushed the metadata!": an entry disappears only when its metadata has been
\* sent, or when the last peer it was admitted with has failed.
EntryEndsOnlyWhenDone ==
    [][\A l \in LeechId :
         LET h == leech[l].infoHash
         IN  Live(l) /\ h \notin DOMAIN incoming' =>
               \/ leech[l].state = "delete"
               \/ /\ leech[l].state = "error"
                  /\ leech[l].peer = offered[h][Len(offered[h])]]_sinkVars

\* Until Terminate, every entry leaves the table, and frees its slot, in the end.
EveryEntryEnds ==
    \A h \in InfoHash : h \in DOMAIN incoming ~> h \notin DOMAIN incoming \/ terminated
=============================================================================
