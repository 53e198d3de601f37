--------------------------- MODULE IndexingService --------------------------
(***************************************************************************)
(* One indexing service of the mainline DHT (cmd/magneticod/dht/mainline): *)
(* the goroutine `index', which samples the nodes of the routing table at  *)
(* every tick and then forgets them, and the goroutine of the transport,   *)
(* which reads one packet after the other and hands it through             *)
(* Protocol.onMessage to a handler of the service.                         *)
(*                                                                         *)
(* UDP may lose, repeat, delay and reorder, and anyone may send: a         *)
(* get_peers query once sent may be answered never, late or several times, *)
(* and answers, lists and samples may come that nobody asked for.  What    *)
(* arrives are byte strings in the compact form of Codec; a packet that    *)
(* cannot be decoded is dropped.  Queries for find_node and                *)
(* sample_infohashes leave no trace in the service, and a write that fails *)
(* is only logged, so they are not recorded; packets of type "q" and "e"   *)
(* meet no handler and change nothing.                                     *)
(***************************************************************************)
EXTENDS Codec, FiniteSets, FiniteSetsExt

CONSTANTS
    TidStrings,       \* `t' of a response: byte strings of any length
    NodeStrings,      \* `nodes' of a response: byte strings
    ValueLists,       \* `values' of a response: sequences of byte strings
    SampleStrings,    \* `samples' of a response: byte strings
    HashLen,          \* an info hash is HashLen (20) bytes
    MaxNeighbors,
    MaxQueries,       \* bound on the get_peers queries of a behaviour
    MaxStray          \* bound on the answers counted that no query waits for

ASSUME IndexingAssumption ==
    /\ TidStrings \subseteq Seq(Byte)
    /\ NodeStrings \subseteq Seq(Byte)
    /\ ValueLists \subseteq Seq(Seq(Byte))
    /\ SampleStrings \subseteq Seq(Byte)
    /\ HashLen \in Nat \ {0}
    /\ MaxNeighbors \in Nat \ {0} /\ MaxQueries \in Nat /\ MaxStray \in Nat

VARIABLES
    routingTable,     \* node IDs -> addresses
    counter,          \* an integer of two digits
    getPeersRequests, \* transaction IDs -> info hashes
    pc,               \* where index is
    toSend,           \* addressesToSend of findNeighbors
    socket,           \* "open", "closed", or "panicked" with the process
    asked,            \* history: the get_peers queries sent
    reported          \* history: how often OnResult got a hash

serviceVars == <<counter, getPeersRequests, asked, reported>>
vars == <<routingTable, serviceVars, pc, toSend, socket>>

NodeId == Bytes(IdLen)
Address == [host : Bytes(IpLen), port : Port]
InfoHash == Bytes(HashLen)
ZeroHash == [i \in 1..HashLen |-> 0]
Tid == Byte \X Byte      \* a transaction ID is two bytes

Init ==
    /\ routingTable = << >>
    /\ counter = 0
    /\ getPeersRequests = << >>
    /\ pc = "tick"
    /\ toSend = {}
    /\ socket = "open"
    /\ asked = << >>
    /\ reported = [h \in InfoHash |-> 0]

(***************************************************************************)
(* The goroutine index.  It takes the lock three times in a round, and     *)
(* sends to what it copied in between.                                     *)
(***************************************************************************)
index(A) ==
    /\ socket # "panicked"
    /\ A
    /\ UNCHANGED <<serviceVars, socket>>

\* Variant: the length of the table is not looked at.
BugTick ==
    /\ pc = "tick"
    /\ pc' = "snapshot"
    /\ UNCHANGED <<routingTable, toSend>>

Tick ==
    /\ pc = "tick"
    /\ pc' = IF DOMAIN routingTable = {} THEN "bootstrap" ELSE "snapshot"
    /\ UNCHANGED <<routingTable, toSend>>

bootstrap ==
    /\ pc = "bootstrap"
    /\ pc' = "tick"
    /\ UNCHANGED <<routingTable, toSend>>

Snapshot ==
    /\ pc = "snapshot"
    /\ toSend' = {routingTable[id] : id \in DOMAIN routingTable}
    /\ pc' = "send"
    /\ UNCHANGED routingTable

SendOne ==
    /\ pc = "send" /\ toSend # {}
    /\ \E a \in toSend : toSend' = toSend \ {a}
    /\ UNCHANGED <<routingTable, pc>>

\* Variant: the table is kept.
BugForget ==
    /\ pc = "send" /\ toSend = {}
    /\ pc' = "tick"
    /\ UNCHANGED <<routingTable, toSend>>

Forget ==
    /\ pc = "send" /\ toSend = {}
    /\ routingTable' = << >>
    /\ pc' = "tick"
    /\ UNCHANGED toSend

(***************************************************************************)
(* The loop that the handlers of find_node and sample_infohashes responses *)
(* share: add nodes until the table is full, skip those with port 0.  It   *)
(* stores &node.Addr, the address of its own loop variable, so every entry *)
(* it adds ends up with the address of the last node that it looked at.    *)
(***************************************************************************)
Usable(nodes, i) == {j \in 1..i : nodes[j].addr.port # 0}
Known(nodes, i) == DOMAIN routingTable \cup {nodes[j].id : j \in Usable(nodes, i)}

\* Variant: one node too many.
BugFullAt(nodes, i) == Cardinality(Known(nodes, i - 1)) > MaxNeighbors

\* The table is full when the loop comes to the i-th node.
FullAt(nodes, i) == Cardinality(Known(nodes, i - 1)) >= MaxNeighbors

Learn(nodes) ==
    LET breaks == {i \in 1..Len(nodes) : FullAt(nodes, i)}
        done == IF breaks = {} THEN Len(nodes) ELSE Min(breaks) - 1
        last == IF breaks = {} THEN Len(nodes) ELSE Min(breaks)
        added == {nodes[j].id : j \in Usable(nodes, done)}
    IN  routingTable' = [id \in DOMAIN routingTable \cup added |->
                            IF id \in added THEN nodes[last].addr ELSE routingTable[id]]

onFindNodeResponse(msg) ==
    /\ Learn(msg.nodes)
    /\ UNCHANGED serviceVars

(***************************************************************************)
(* Sampled info hashes: one get_peers query for each.                      *)
(***************************************************************************)
uint16BE(v) == <<v \div Base, v % Base>>

\* Variant: a counter that does not wrap.
BugAdvanced(n) == counter + n

\* is.counter++, n times, on an uint16.
Advanced(n) == (counter + n) % (Base * Base)

\* samples[i:(i+1)*20], of which 20 bytes are copied.
Window(samples, i) == [k \in 1..HashLen |-> samples[i + k]]

\* Variant: a transaction ID in use is not overwritten.
BugRecord(qs) ==
    LET tids == {qs[i].t : i \in DOMAIN qs}
        latest(t) == qs[Max({i \in DOMAIN qs : qs[i].t = t})].infoHash
    IN  getPeersRequests' = [t \in DOMAIN getPeersRequests \cup tids |->
                                IF t \in DOMAIN getPeersRequests THEN getPeersRequests[t] ELSE latest(t)]

Record(qs) ==
    LET tids == {qs[i].t : i \in DOMAIN qs}
        latest(t) == qs[Max({i \in DOMAIN qs : qs[i].t = t})].infoHash
    IN  getPeersRequests' = [t \in DOMAIN getPeersRequests \cup tids |->
                                IF t \in tids THEN latest(t) ELSE getPeersRequests[t]]

onSampleInfohashesResponse(msg) ==
    LET n == Len(msg.samples) \div HashLen
        queries == [i \in 1..n |-> [t |-> uint16BE(Advanced(i - 1)),
                                    infoHash |-> Window(msg.samples, i - 1)]]
    IN  /\ Len(asked) + n <= MaxQueries
        /\ asked' = asked \o queries
        /\ Record(queries)
        /\ counter' = Advanced(n)
        /\ Learn(msg.nodes)
        /\ UNCHANGED reported

(***************************************************************************)
(* Peers.  The answer is looked up by its transaction ID alone, two bytes  *)
(* of it; one that is not in the map yields the zero value, a hash of      *)
(* zeros, which is reported like any other.                                *)
(***************************************************************************)
\* copy(t[:], msg.T): a shorter ID is filled up with zeros, a longer one cut.
Copied(t) == <<IF Len(t) >= 1 THEN t[1] ELSE 0, IF Len(t) >= 2 THEN t[2] ELSE 0>>

\* Variant: the key is not freed.
BugFree(t) == getPeersRequests

Free(t) == [u \in DOMAIN getPeersRequests \ {t} |-> getPeersRequests[u]]

Lookup(t) == IF t \in DOMAIN getPeersRequests THEN getPeersRequests[t] ELSE ZeroHash

onGetPeersResponse(msg) ==
    LET t == Copied(msg.t)
    IN  /\ getPeersRequests' = Free(t)
        /\ \/ msg.values = << >> /\ UNCHANGED reported
           \/ /\ msg.values # << >>
              /\ t \in DOMAIN getPeersRequests \/ reported[ZeroHash] < MaxStray
              /\ reported' = [reported EXCEPT ![Lookup(t)] = @ + 1]
        /\ UNCHANGED <<routingTable, counter, asked>>

(***************************************************************************)
(* Protocol.onMessage tells responses apart by the fields they have.       *)
(***************************************************************************)
Packet ==
    [t : TidStrings, idOk : BOOLEAN, samples : SampleStrings, token : BOOLEAN,
     nodes : NodeStrings, values : ValueLists]

Decodes(packet) ==
    NodesWellFormed(packet.nodes) /\ \A i \in DOMAIN packet.values : PeerWellFormed(packet.values[i])

Decoded(packet) ==
    [packet EXCEPT !.nodes = UnmarshalCompactNodeInfos(@),
                   !.values = [i \in DOMAIN @ |-> PeerUnmarshalBinary(@[i])]]

Response == {Decoded(packet) : packet \in {p \in Packet : Decodes(p)}}

validateSampleInfohashesResponseMessage(msg) == Len(msg.samples) % HashLen = 0

\* Each case validates that the ID has 20 bytes, the first also that its numbers
\* are not negative: idOk.
onMessage(msg) ==
    /\ msg.idOk
    /\ \/ /\ msg.samples # << >> /\ validateSampleInfohashesResponseMessage(msg)
          /\ onSampleInfohashesResponse(msg)
       \/ /\ msg.samples = << >> /\ msg.token
          /\ onGetPeersResponse(msg)
       \/ /\ msg.samples = << >> /\ ~msg.token /\ msg.nodes # << >>
          /\ onFindNodeResponse(msg)

readMessages ==
    /\ socket = "open"
    /\ \E msg \in Response : onMessage(msg)
    /\ UNCHANGED <<pc, toSend, socket>>

\* A congested read calls onCongestion, which the service leaves nil.
ReadCongestion ==
    /\ socket = "open"
    /\ socket' = "panicked"
    /\ UNCHANGED <<routingTable, serviceVars, pc, toSend>>

\* Transport.Terminate closes the socket.  The goroutine index goes on.
Terminate ==
    /\ socket = "open"
    /\ socket' = "closed"
    /\ UNCHANGED <<routingTable, serviceVars, pc, toSend>>

-----------------------------------------------------------------------------
Next ==
    \/ index(Tick) \/ index(bootstrap)
    \/ index(Snapshot) \/ index(SendOne) \/ index(Forget)
    \/ readMessages \/ ReadCongestion \/ Terminate

Spec == Init /\ [][Next]_vars

\* The ticker ticks, and index never waits for more than a handler.
FairSpec ==
    /\ Spec
    /\ WF_vars(index(Tick)) /\ WF_vars(index(bootstrap))
    /\ WF_vars(index(Snapshot)) /\ WF_vars(index(SendOne)) /\ WF_vars(index(Forget))

-----------------------------------------------------------------------------
\* Every variable has its type.
TypeOK ==
    /\ DOMAIN routingTable \subseteq NodeId
    /\ \A id \in DOMAIN routingTable : routingTable[id] \in Address
    /\ counter \in 0..(Base * Base - 1)
    /\ DOMAIN getPeersRequests \subseteq Tid
    /\ \A t \in DOMAIN getPeersRequests : getPeersRequests[t] \in InfoHash
    /\ pc \in {"tick", "bootstrap", "snapshot", "send"}
    /\ toSend \subseteq Address
    /\ socket \in {"open", "closed", "panicked"}
    /\ asked \in Seq([t : Tid, infoHash : InfoHash]) /\ Len(asked) <= MaxQueries
    /\ reported \in [InfoHash -> Nat]

\* The routing table never has more than maxNeighbors entries, whichever of
\* the two handlers fills it and whenever index empties it.
NeighborsBounded == Cardinality(DOMAIN routingTable) <= MaxNeighbors

\* index looks at the length of the table, releases the lock and takes it again
\* to copy the table: what it saw still holds then, and no round is spent on an
\* empty table.
NoEmptyRound == pc = "snapshot" => DOMAIN routingTable # {}

\* What is pending under a transaction ID is the latest query that was sent
\* with it.
LatestQueryWins ==
    \A t \in DOMAIN getPeersRequests :
        LET sent == {i \in DOMAIN asked : asked[i].t = t}
        IN  sent # {} /\ getPeersRequests[t] = asked[Max(sent)].infoHash

\* However often answers are repeated, delayed or sent unasked, a hash is reported
\* at most as often as it was asked for.  The one exception is the hash of zeros,
\* which onGetPeersResponse reports for an answer that no query waits for.
NoExtraResults ==
    \A h \in InfoHash \ {ZeroHash} :
        reported[h] <= Cardinality({i \in DOMAIN asked : asked[i].infoHash = h})

\* A full table does not stay full: there is room for other nodes again.
TableTurnsOver ==
    Cardinality(DOMAIN routingTable) = MaxNeighbors
        ~> Cardinality(DOMAIN routingTable) < MaxNeighbors \/ socket = "panicked"

(***************************************************************************)
(* What the source says and the code does not do.                          *)
(***************************************************************************)
\* "Ignore nodes who "use" port 0.": none is in the table to be sampled.
NoPortZero == \A id \in DOMAIN routingTable : routingTable[id].port # 0

\* `samples' are N x 20 bytes, each 20 of them an info hash: the hashes asked
\* for are those.
SamplesAreHashes ==
    \A i \in DOMAIN asked : \E s \in SampleStrings : \E k \in 0..(Len(s) \div HashLen - 1) :
        asked[i].infoHash = SubSeq(s, k * HashLen + 1, (k + 1) * HashLen)
=============================================================================
