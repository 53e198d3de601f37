----------------------- MODULE IndexingServiceProofs ------------------------
(***************************************************************************)
(* What holds of an indexing service for every set of packets that may     *)
(* arrive, however often, late and out of order they do: every length of   *)
(* IDs, hashes and addresses and every bound on the routing table.         *)
(***************************************************************************)
EXTENDS IndexingService, SequenceTheorems, FiniteSetTheorems, TLAPS

-----------------------------------------------------------------------------
(***************************************************************************)
(* Codec.  What is marshalled in compact form is unmarshalled as it was,   *)
(* for every list of nodes and peers.                                      *)
(***************************************************************************)
Addr == [host : Bytes(IpLen), port : Port]
Node == [id : Bytes(IdLen), addr : Addr]

\* The k-th byte of a string of blocks: the quotient tells the block, the
\* remainder the place in it.
LEMMA DivMod ==
    ASSUME NEW w \in Nat \ {0}, NEW i \in Nat, NEW j \in 0..(w - 1)
    PROVE  (i * w + j) \div w = i /\ (i * w + j) % w = j
  OBVIOUS

\* Whole blocks make a string whose length is a multiple of theirs.
LEMMA Multiple ==
    ASSUME NEW w \in Nat \ {0}, NEW n \in Nat
    PROVE  (n * w) % w = 0 /\ (n * w) \div w = n
  OBVIOUS

\* The i-th of n blocks ends within the n.
LEMMA BlockWithin ==
    ASSUME NEW w \in Nat \ {0}, NEW n \in Nat, NEW i \in 1..n
    PROVE  /\ (i - 1) * w \in Nat /\ i * w = (i - 1) * w + w
           /\ n * w \in Nat /\ i * w <= n * w
  OBVIOUS

\* Taken one by one, the blocks that were put one after the other come out.
LEMMA BlockOfConcat ==
    ASSUME NEW S, NEW w \in Nat \ {0}, NEW blocks \in Seq([1..w -> S]),
           NEW i \in 1..Len(blocks)
    PROVE  Block(Concat(blocks, w), i, w) = blocks[i]
  <1> DEFINE n == Len(blocks)
             s == Concat(blocks, w)
             off == (i - 1) * w
  <1>1. n \in Nat /\ off \in Nat /\ i * w = off + w /\ n * w \in Nat /\ off + w <= n * w
    <2>1. n \in Nat /\ i \in 1..n
      OBVIOUS
    <2> HIDE DEF n
    <2>2. /\ (i - 1) * w \in Nat /\ i * w = (i - 1) * w + w
          /\ n * w \in Nat /\ i * w <= n * w
      BY <2>1, BlockWithin
    <2> QED BY <2>1, <2>2
  <1>2. s = [k \in 1..(n * w) |-> blocks[(k - 1) \div w + 1][((k - 1) % w) + 1]]
    BY DEF Concat
  <1>3. ASSUME NEW j \in 1..w
        PROVE  s[off + j] = blocks[i][j]
    <2>1. i - 1 \in Nat /\ j - 1 \in 0..(w - 1)
      OBVIOUS
    <2>2. (off + (j - 1)) \div w = i - 1 /\ (off + (j - 1)) % w = j - 1
      BY <2>1, DivMod
    <2>3. off + j \in 1..(n * w) /\ (off + j) - 1 = off + (j - 1)
      <3> HIDE DEF off, n
      <3> QED BY <1>1
    <2>4. s[off + j] = blocks[((off + j) - 1) \div w + 1][(((off + j) - 1) % w) + 1]
      BY <1>2, <2>3
    <2>5. (i - 1) + 1 = i /\ (j - 1) + 1 = j
      OBVIOUS
    <2> QED BY <2>2, <2>3, <2>4, <2>5
  <1> HIDE DEF s, off
  <1>4. Block(s, i, w) = [j \in 1..w |-> s[off + j]]
    <2>1. Block(s, i, w) = SubSeq(s, off + 1, off + w)
      BY <1>1 DEF Block, off
    <2>2. SubSeq(s, off + 1, off + w) = [j \in 1..w |-> s[off + j]]
      BY <1>1, SMT
    <2> QED BY <2>1, <2>2
  <1>5. blocks[i] \in [1..w -> S]
    OBVIOUS
  <1>6. [j \in 1..w |-> s[off + j]] = blocks[i]
    BY <1>3, <1>5
  <1> QED BY <1>4, <1>6 DEF s

\* The two bytes of a port are the port.
LEMMA PortRoundTrip ==
    ASSUME NEW p \in Port
    PROVE  PutUint16(p) \in Bytes(2) /\ Uint16(PutUint16(p)) = p
  <1>1. p \in Nat /\ p \div Base \in 0..(Base - 1) /\ p % Base \in 0..(Base - 1)
    BY CodecAssumption DEF Port
  <1>2. (p \div Base) % Base = p \div Base
    BY <1>1, CodecAssumption
  <1>3. p = (p \div Base) * Base + (p % Base)
    BY <1>1, CodecAssumption
  <1>4. PutUint16(p) = <<p \div Base, p % Base>>
    BY <1>2 DEF PutUint16
  <1> QED BY <1>1, <1>3, <1>4 DEF Uint16, Bytes, Byte

\* A string of n bytes is a sequence of length n.
LEMMA BytesAreSeq ==
    ASSUME NEW n \in Nat, NEW b \in Bytes(n)
    PROVE  b \in Seq(Byte) /\ Len(b) = n /\ DOMAIN b = 1..n
  BY DEF Bytes

\* Two strings put one after the other are found at their places.
Joined(a, m, b, n) ==
    /\ a \o b \in Bytes(m + n)
    /\ SubSeq(a \o b, 1, m) = a
    /\ SubSeq(a \o b, m + 1, m + n) = b

LEMMA Halves ==
    ASSUME NEW m \in Nat, NEW n \in Nat, NEW a \in Bytes(m), NEW b \in Bytes(n)
    PROVE  Joined(a, m, b, n)
  <1> DEFINE c == a \o b
  <1>1. a \in Seq(Byte) /\ Len(a) = m /\ b \in Seq(Byte) /\ Len(b) = n
    BY BytesAreSeq
  <1>2. c \in Seq(Byte) /\ Len(c) = m + n
    BY <1>1
  <1>3. \A i \in 1..m : c[i] = a[i]
    BY <1>1
  <1>4. \A i \in 1..n : c[m + i] = b[i]
    BY <1>1
  <1>5. c \in Bytes(m + n)
    BY <1>2, LenProperties DEF Bytes
  <1> HIDE DEF c
  <1>6. SubSeq(c, 1, m) = [i \in 1..m |-> c[i]]
    BY <1>2, SMT
  <1>7. SubSeq(c, m + 1, m + n) = [i \in 1..n |-> c[m + i]]
    BY <1>2, SMT
  <1>8. a = [i \in 1..m |-> c[i]] /\ b = [i \in 1..n |-> c[m + i]]
    BY <1>3, <1>4 DEF Bytes
  <1> QED BY <1>5, <1>6, <1>7, <1>8 DEF c, Joined

\* A part of a first part is the same part of the whole.
LEMMA PartOfPart ==
    ASSUME NEW S, NEW b \in Seq(S), NEW k \in Nat, k <= Len(b),
           NEW m \in Nat \ {0}, NEW n \in Nat, n <= k
    PROVE  SubSeq(SubSeq(b, 1, k), m, n) = SubSeq(b, m, n)
  OBVIOUS

\* The forms of an IPv4 and of an IPv6 address that are sent.
LEMMA ShortForms ==
    /\ \A ip \in Bytes(IpLen) : To4(ip) = ip /\ Shortest(ip) = ip
    /\ \A ip \in Bytes(Ip6Len) : Shortest(ip) \in Bytes(IpLen) \/ Shortest(ip) \in Bytes(Ip6Len)
  <1>1. IpLen \in Nat \ {0} /\ Ip6Len \in Nat /\ IpLen < Ip6Len
    BY CodecAssumption
  <1>2. ASSUME NEW ip \in Bytes(IpLen)
        PROVE  To4(ip) = ip /\ Shortest(ip) = ip
    <2>1. Len(ip) = IpLen
      BY <1>1, BytesAreSeq
    <2>2. To4(ip) = ip
      BY <1>1, <2>1 DEF To4
    <2> QED BY <2>2 DEF Shortest
  <1>3. ASSUME NEW ip \in Bytes(Ip6Len)
        PROVE  Shortest(ip) \in Bytes(IpLen) \/ Shortest(ip) \in Bytes(Ip6Len)
    <2>1. ip \in Seq(Byte) /\ Len(ip) = Ip6Len
      BY <1>1, BytesAreSeq
    <2>2. To4(ip) = From(ip, Ip6Len - IpLen) \/ To4(ip) = << >>
      BY <1>1, <2>1 DEF To4
    <2>3. From(ip, Ip6Len - IpLen) \in Bytes(IpLen)
      <3>1. From(ip, Ip6Len - IpLen) \in Seq(Byte) /\ Len(From(ip, Ip6Len - IpLen)) = IpLen
        BY <1>1, <2>1 DEF From
      <3> QED BY <3>1, LenProperties, Zenon DEF Bytes
    <2> QED BY <2>2, <2>3 DEF Shortest
  <1> QED BY <1>2, <1>3

\* An address and a port are read back, whichever length the address has.
LEMMA AddressRoundTrip ==
    ASSUME NEW l \in {IpLen, Ip6Len}, NEW host \in Bytes(l), NEW port \in Port
    PROVE  /\ host \o PutUint16(port) \in Bytes(l + 2)
           /\ PeerWellFormed(host \o PutUint16(port))
           /\ PeerUnmarshalBinary(host \o PutUint16(port)) = [host |-> host, port |-> port]
  <1>1. l \in Nat /\ 2 \in Nat /\ l + 2 \in Nat
    BY CodecAssumption
  <1>2. PICK end : end = PutUint16(port)
    OBVIOUS
  <1>3. end \in Bytes(2) /\ Uint16(end) = port
    BY <1>2, PortRoundTrip
  <1>4. Joined(host, l, end, 2)
    BY <1>1, <1>3, Halves
  <1>5. PICK b : b = host \o end
    OBVIOUS
  <1>6. b \in Bytes(l + 2) /\ SubSeq(b, 1, l) = host /\ SubSeq(b, l + 1, l + 2) = end
    BY <1>4, <1>5, Zenon DEF Joined
  <1>7. Len(b) = l + 2
    BY <1>1, <1>6, BytesAreSeq
  <1>8. From(b, l) = end
    BY <1>6, <1>7 DEF From
  <1>9. PeerUnmarshalBinary(b) = [host |-> SubSeq(b, 1, l), port |-> Uint16(From(b, l))]
    BY <1>1, <1>7 DEF PeerUnmarshalBinary
  <1>10. PeerWellFormed(b)
    BY <1>7 DEF PeerWellFormed
  <1> QED BY <1>2, <1>3, <1>5, <1>6, <1>8, <1>9, <1>10, Zenon

\* A node is marshalled to NodeLen bytes, from which it is read back.
LEMMA NodeRoundTrip ==
    ASSUME NEW node \in Node
    PROVE  /\ NodeMarshalBinary(node) \in Bytes(NodeLen)
           /\ NodeUnmarshalBinary(NodeMarshalBinary(node)) = node
  <1>1. PICK id \in Bytes(IdLen), host \in Bytes(IpLen), port \in Port :
            node = [id |-> id, addr |-> [host |-> host, port |-> port]]
    BY DEF Node, Addr
  <1>2. PICK k : k = IdLen + IpLen
    OBVIOUS
  <1>3. /\ IdLen \in Nat /\ IpLen \in Nat /\ k \in Nat /\ 2 \in Nat
        /\ NodeLen \in Nat /\ NodeLen = k + 2
    BY <1>2, CodecAssumption DEF NodeLen
  <1>4. Joined(id, IdLen, host, IpLen)
    BY <1>3, Halves
  <1>5. PICK front : front = id \o host
    OBVIOUS
  <1>6. front \in Bytes(k) /\ SubSeq(front, 1, IdLen) = id /\ SubSeq(front, IdLen + 1, k) = host
    BY <1>2, <1>4, <1>5, Zenon DEF Joined
  <1>7. PICK end : end = PutUint16(port)
    OBVIOUS
  <1>8. end \in Bytes(2) /\ Uint16(end) = port
    BY <1>7, PortRoundTrip
  <1>9. Joined(front, k, end, 2)
    BY <1>3, <1>6, <1>8, Halves
  <1>10. PICK b : b = front \o end
    OBVIOUS
  <1>11. b \in Bytes(NodeLen) /\ SubSeq(b, 1, k) = front /\ SubSeq(b, k + 1, NodeLen) = end
    BY <1>3, <1>9, <1>10, Zenon DEF Joined
  <1>12. b \in Seq(Byte) /\ Len(b) = NodeLen
    BY <1>3, <1>11, BytesAreSeq
  <1>13. SubSeq(b, 1, IdLen) = id /\ SubSeq(b, IdLen + 1, k) = host
    <2>1. /\ 1 \in Nat \ {0} /\ IdLen + 1 \in Nat \ {0} /\ k <= Len(b)
          /\ IdLen <= k /\ k <= k
      BY <1>2, <1>3, <1>12
    <2>2. SubSeq(SubSeq(b, 1, k), 1, IdLen) = SubSeq(b, 1, IdLen)
      BY <1>3, <1>12, <2>1, PartOfPart
    <2>3. SubSeq(SubSeq(b, 1, k), IdLen + 1, k) = SubSeq(b, IdLen + 1, k)
      BY <1>3, <1>12, <2>1, PartOfPart
    <2> QED BY <1>6, <1>11, <2>2, <2>3, Zenon
  <1>14. b = NodeMarshalBinary(node)
    <2>1. To4(host) = host
      BY <1>3, ShortForms
    <2> QED BY <1>1, <1>5, <1>7, <1>10, <2>1 DEF NodeMarshalBinary
  <1>15. NodeUnmarshalBinary(b) = node
    BY <1>1, <1>2, <1>8, <1>11, <1>12, <1>13 DEF NodeUnmarshalBinary, From
  <1> QED BY <1>11, <1>14, <1>15

\* The compact form of a list of nodes, which Message carries as `nodes', is
\* read by UnmarshalCompactNodeInfos as the list that it was made of.
THEOREM NodesRoundTrip ==
    ASSUME NEW nodes \in Seq(Node)
    PROVE  /\ NodesWellFormed(MarshalCompactNodeInfos(nodes))
           /\ UnmarshalCompactNodeInfos(MarshalCompactNodeInfos(nodes)) = nodes
  <1> DEFINE n == Len(nodes)
             blocks == [i \in 1..n |-> NodeMarshalBinary(nodes[i])]
             b == MarshalCompactNodeInfos(nodes)
  <1>1. n \in Nat /\ NodeLen \in Nat \ {0} /\ n * NodeLen \in Nat
    BY CodecAssumption DEF NodeLen
  <1>2. \A i \in 1..n : nodes[i] \in Node
    OBVIOUS
  <1>3. \A i \in 1..n : blocks[i] \in [1..NodeLen -> Byte]
    BY <1>2, NodeRoundTrip DEF Bytes
  <1>4. blocks \in Seq([1..NodeLen -> Byte]) /\ Len(blocks) = n
    BY <1>1, <1>3
  <1>5. b = Concat(blocks, NodeLen)
    BY DEF MarshalCompactNodeInfos
  <1>6. \A i \in 1..n : Block(b, i, NodeLen) = NodeMarshalBinary(nodes[i])
    <2>1. \A i \in 1..n : blocks[i] = NodeMarshalBinary(nodes[i])
      OBVIOUS
    <2> HIDE DEF blocks
    <2>2. \A i \in 1..Len(blocks) : Block(Concat(blocks, NodeLen), i, NodeLen) = blocks[i]
      BY <1>1, <1>4, BlockOfConcat
    <2> QED BY <1>4, <1>5, <2>1, <2>2
  <1>7. Len(b) = n * NodeLen
    BY <1>1, <1>4, <1>5 DEF Concat
  <1>8. Len(b) % NodeLen = 0 /\ Len(b) \div NodeLen = n
    BY <1>1, <1>7, Multiple
  <1> HIDE DEF b
  <1>9. UnmarshalCompactNodeInfos(b)
            = [i \in 1..n |-> NodeUnmarshalBinary(Block(b, i, NodeLen))]
    BY <1>8 DEF UnmarshalCompactNodeInfos
  <1>10. \A i \in 1..n : NodeUnmarshalBinary(Block(b, i, NodeLen)) = nodes[i]
    BY <1>2, <1>6, NodeRoundTrip
  <1>11. nodes = [i \in 1..n |-> nodes[i]]
    OBVIOUS
  <1> QED BY <1>8, <1>9, <1>10, <1>11 DEF b, NodesWellFormed

\* A peer is read back from its compact form, which MarshalBencode sends as one
\* of the `values', whichever of the two kinds of address it has; an IPv4 address
\* in the form of an IPv6 one is read back in its own form.
THEOREM PeerRoundTrip ==
    ASSUME NEW l \in {IpLen, Ip6Len}, NEW peer \in [host : Bytes(l), port : Port]
    PROVE  /\ PeerWellFormed(PeerMarshalBinary(peer))
           /\ PeerUnmarshalBinary(PeerMarshalBinary(peer))
                  = [host |-> Shortest(peer.host), port |-> peer.port]
  <1>1. PICK ip \in Bytes(l), port \in Port : peer = [host |-> ip, port |-> port]
    OBVIOUS
  <1>2. PICK host : host = Shortest(ip)
    OBVIOUS
  <1>3. host \in Bytes(IpLen) \/ host \in Bytes(Ip6Len)
    BY <1>2, ShortForms
  <1>4. PeerMarshalBinary(peer) = host \o PutUint16(port)
    BY <1>1, <1>2 DEF PeerMarshalBinary
  <1>5. IpLen \in {IpLen, Ip6Len} /\ Ip6Len \in {IpLen, Ip6Len}
    OBVIOUS
  <1>6. /\ PeerWellFormed(host \o PutUint16(port))
        /\ PeerUnmarshalBinary(host \o PutUint16(port)) = [host |-> host, port |-> port]
    BY <1>3, <1>5, AddressRoundTrip, Zenon
  <1>7. peer.host = ip /\ peer.port = port
    BY <1>1
  <1> QED BY <1>2, <1>4, <1>6, <1>7, Zenon

\* CompactPeers.MarshalBinary copies the peers to their places in one string,
\* from which UnmarshalCompactPeers reads them back.
THEOREM PeersRoundTrip ==
    ASSUME NEW peers \in Seq(Addr)
    PROVE  UnmarshalCompactPeers(MarshalCompactPeers(peers)) = peers
  <1> DEFINE n == Len(peers)
             blocks == [i \in 1..n |-> PeerMarshalBinary(peers[i])]
             b == MarshalCompactPeers(peers)
  <1>1. n \in Nat /\ PeerLen \in Nat \ {0} /\ n * PeerLen \in Nat
    BY CodecAssumption DEF PeerLen
  <1>2. \A i \in 1..n : peers[i] \in Addr
    OBVIOUS
  <1>3. \A i \in 1..n : /\ PeerMarshalBinary(peers[i]) \in [1..PeerLen -> Byte]
                        /\ PeerUnmarshalBinary(PeerMarshalBinary(peers[i])) = peers[i]
    <2>1. ASSUME NEW peer \in Addr
          PROVE  /\ PeerMarshalBinary(peer) \in Bytes(PeerLen)
                 /\ PeerUnmarshalBinary(PeerMarshalBinary(peer)) = peer
      <3>1. PICK host \in Bytes(IpLen), port \in Port : peer = [host |-> host, port |-> port]
        BY DEF Addr
      <3>2. PeerMarshalBinary(peer) = host \o PutUint16(port)
        BY <3>1, ShortForms DEF PeerMarshalBinary
      <3>3. IpLen \in {IpLen, Ip6Len}
        OBVIOUS
      <3>4. /\ host \o PutUint16(port) \in Bytes(IpLen + 2)
            /\ PeerUnmarshalBinary(host \o PutUint16(port)) = [host |-> host, port |-> port]
        BY <3>3, AddressRoundTrip, Zenon
      <3> QED BY <3>1, <3>2, <3>4, Zenon DEF PeerLen
    <2> QED BY <1>2, <2>1 DEF Bytes
  <1>4. blocks \in Seq([1..PeerLen -> Byte]) /\ Len(blocks) = n
    BY <1>1, <1>3
  <1>5. b = Concat(blocks, PeerLen)
    BY DEF MarshalCompactPeers
  <1>6. \A i \in 1..n : Block(b, i, PeerLen) = PeerMarshalBinary(peers[i])
    <2>1. \A i \in 1..n : blocks[i] = PeerMarshalBinary(peers[i])
      OBVIOUS
    <2> HIDE DEF blocks
    <2>2. \A i \in 1..Len(blocks) : Block(Concat(blocks, PeerLen), i, PeerLen) = blocks[i]
      BY <1>1, <1>4, BlockOfConcat
    <2> QED BY <1>4, <1>5, <2>1, <2>2
  <1>7. Len(b) = n * PeerLen
    BY <1>1, <1>4, <1>5 DEF Concat
  <1>8. Len(b) \div PeerLen = n
    BY <1>1, <1>7, Multiple
  <1> HIDE DEF b
  <1>9. UnmarshalCompactPeers(b) = [i \in 1..n |-> PeerUnmarshalBinary(Block(b, i, PeerLen))]
    BY <1>8 DEF UnmarshalCompactPeers
  <1>10. \A i \in 1..n : PeerUnmarshalBinary(Block(b, i, PeerLen)) = peers[i]
    BY <1>3, <1>6
  <1>11. peers = [i \in 1..n |-> peers[i]]
    OBVIOUS
  <1> QED BY <1>9, <1>10, <1>11 DEF b

-----------------------------------------------------------------------------
(***************************************************************************)
(* Least and greatest elements, and counting.                              *)
(***************************************************************************)
\* A set of natural numbers that is not empty has a least element, which Min
\* finds: the node at which the loop of the handlers breaks.
LEMMA Least ==
    ASSUME NEW S \in SUBSET Nat, S # {}
    PROVE  Min(S) \in S /\ \A y \in S : Min(S) <= y
<1>1. \E x \in S : \A y \in S : ~(<<y, x>> \in OpToRel(<, Nat))
  BY NatLessThanWellFounded, WFMin
<1>2. PICK x \in S : \A y \in S : ~(y < x)
  BY <1>1 DEF OpToRel
<1>3. \A y \in S : x <= y
  BY <1>2
<1> QED
  BY <1>3 DEF Min

\* A bounded one has a greatest element, which Max finds: the latest query.
LEMMA Greatest ==
    ASSUME NEW n \in Nat, NEW S \in SUBSET (1..n), S # {}
    PROVE  Max(S) \in S /\ \A y \in S : Max(S) >= y
<1> DEFINE R == {k \in Nat : n - k \in S}
<1>1. R # {}
  <2>1. PICK s \in S : TRUE
    OBVIOUS
  <2>2. n - s \in Nat /\ n - (n - s) = s
    BY <2>1
  <2> QED
    BY <2>2
<1> HIDE DEF R
<1>2. Min(R) \in R /\ \A k \in R : Min(R) <= k
  BY <1>1, Least DEF R
<1>3. PICK k \in Nat : n - k \in S /\ \A j \in R : k <= j
  BY <1>2 DEF R
<1>4. \A y \in S : n - k >= y
  <2> SUFFICES ASSUME NEW y \in S PROVE n - k >= y
    OBVIOUS
  <2>1. n - y \in Nat /\ n - (n - y) = y
    OBVIOUS
  <2>2. k <= n - y
    BY <1>3, <2>1 DEF R
  <2> QED
    BY <2>2
<1> QED
  BY <1>3, <1>4 DEF Max

\* A set of numbers up to n is finite.
LEMMA FiniteIndices ==
    ASSUME NEW n \in Nat, NEW S \in SUBSET (1..n)
    PROVE  IsFiniteSet(S) /\ Cardinality(S) \in Nat
<1>1. IsFiniteSet(1..n)
  BY FS_Interval
<1>2. IsFiniteSet(S)
  BY <1>1, FS_Subset
<1> QED
  BY <1>2, FS_CardinalityType

-----------------------------------------------------------------------------
(***************************************************************************)
(* What arrives.                                                           *)
(***************************************************************************)
\* Every string of bytes that is unmarshalled yields nodes.
LEMMA NodesTyped ==
    ASSUME NEW b \in Seq(Byte)
    PROVE  UnmarshalCompactNodeInfos(b) \in Seq(Node)
<1> DEFINE n == Len(b) \div NodeLen
<1>1. NodeLen \in Nat \ {0} /\ IdLen \in Nat /\ IpLen \in Nat /\ NodeLen = IdLen + IpLen + 2
  BY CodecAssumption DEF NodeLen
<1>2. n \in Nat /\ n * NodeLen <= Len(b)
  BY <1>1
<1>3. ASSUME NEW i \in 1..n PROVE Block(b, i, NodeLen) \in Bytes(NodeLen)
  <2> DEFINE off == (i - 1) * NodeLen
  <2>1. off \in Nat /\ i * NodeLen = off + NodeLen /\ i * NodeLen <= n * NodeLen /\ n * NodeLen \in Nat
    <3> HIDE DEF n
    <3> QED
      BY <1>1, <1>2, BlockWithin
  <2> HIDE DEF off, n
  <2>2. Block(b, i, NodeLen) = SubSeq(b, off + 1, off + NodeLen)
    BY <2>1 DEF Block, off
  <2>3. off + NodeLen <= Len(b)
    BY <1>1, <1>2, <2>1
  <2>4. SubSeq(b, off + 1, off + NodeLen) = [j \in 1..NodeLen |-> b[off + j]]
    BY <1>1, <2>1, SMT
  <2>5. \A j \in 1..NodeLen : b[off + j] \in Byte
    BY <1>1, <2>1, <2>3
  <2> QED
    BY <2>2, <2>4, <2>5 DEF Bytes
<1>4. ASSUME NEW c \in Bytes(NodeLen) PROVE NodeUnmarshalBinary(c) \in Node
  <2>1. c \in Seq(Byte) /\ Len(c) = NodeLen /\ \A j \in 1..NodeLen : c[j] \in Byte
    BY <1>1, BytesAreSeq DEF Bytes
  <2>2. SubSeq(c, 1, IdLen) \in Bytes(IdLen)
    <3>1. SubSeq(c, 1, IdLen) = [j \in 1..IdLen |-> c[j]]
      BY <1>1, <2>1, SMT
    <3>2. \A j \in 1..IdLen : c[j] \in Byte
      BY <1>1, <2>1
    <3> QED
      BY <3>1, <3>2 DEF Bytes
  <2>3. SubSeq(c, IdLen + 1, IdLen + IpLen) \in Bytes(IpLen)
    <3>1. SubSeq(c, IdLen + 1, IdLen + IpLen) = [j \in 1..IpLen |-> c[IdLen + j]]
      BY <1>1, <2>1, SMT
    <3>2. \A j \in 1..IpLen : c[IdLen + j] \in Byte
      BY <1>1, <2>1
    <3> QED
      BY <3>1, <3>2 DEF Bytes
  <2>4. Uint16(From(c, IdLen + IpLen)) \in Port
    <3>1. From(c, IdLen + IpLen) = [j \in 1..2 |-> c[IdLen + IpLen + j]]
      BY <1>1, <2>1, SMT DEF From
    <3>2. PICK x \in Byte, y \in Byte : Uint16(From(c, IdLen + IpLen)) = x * Base + y
      <4>1. c[IdLen + IpLen + 1] \in Byte /\ c[IdLen + IpLen + 2] \in Byte
        BY <1>1, <2>1
      <4> QED
        BY <3>1, <4>1 DEF Uint16
    <3>3. x * Base + y \in 0..(Base * Base - 1)
      BY CodecAssumption DEF Byte
    <3> QED
      BY <3>2, <3>3 DEF Port
  <2> QED
    BY <2>2, <2>3, <2>4 DEF NodeUnmarshalBinary, Node, Addr
<1>5. \A i \in 1..n : NodeUnmarshalBinary(Block(b, i, NodeLen)) \in Node
  BY <1>3, <1>4
<1> HIDE DEF n
<1>6. UnmarshalCompactNodeInfos(b) = [i \in 1..n |-> NodeUnmarshalBinary(Block(b, i, NodeLen))]
  BY DEF UnmarshalCompactNodeInfos, n
<1> QED
  BY <1>2, <1>5, <1>6

\* The parts of a decoded packet that the handlers use.
LEMMA ResponseTyped ==
    ASSUME NEW msg \in Response
    PROVE  msg.nodes \in Seq(Node) /\ msg.samples \in Seq(Byte)
<1>1. PICK packet \in Packet : msg = Decoded(packet)
  BY DEF Response
<1>2. /\ packet.samples \in SampleStrings /\ packet.nodes \in NodeStrings
      /\ DOMAIN packet = {"t", "idOk", "samples", "token", "nodes", "values"}
  BY DEF Packet
<1>3. packet.samples \in Seq(Byte) /\ packet.nodes \in Seq(Byte)
  BY <1>2, IndexingAssumption
<1>4. /\ msg.samples = packet.samples
      /\ msg.nodes = UnmarshalCompactNodeInfos(packet.nodes)
  BY <1>1, <1>2 DEF Decoded
<1> QED
  BY <1>2, <1>3, <1>4, NodesTyped

-----------------------------------------------------------------------------
(***************************************************************************)
(* The routing table.                                                      *)
(***************************************************************************)
TableInv ==
    /\ DOMAIN routingTable \subseteq NodeId
    /\ \A id \in DOMAIN routingTable : routingTable[id] \in Address
    /\ IsFiniteSet(DOMAIN routingTable)
    /\ Cardinality(DOMAIN routingTable) <= MaxNeighbors

\* The nodes looked at before the loop breaks, with those known before, are at
\* most MaxNeighbors: the table was not full when the last of them was added.
LEMMA KnownBounded ==
    ASSUME TableInv, NEW nodes \in Seq(Node), NEW i \in 0..Len(nodes),
           i # 0 => ~FullAt(nodes, i)
    PROVE  IsFiniteSet(Known(nodes, i)) /\ Cardinality(Known(nodes, i)) <= MaxNeighbors
<1>1. \A k \in 0..Len(nodes) : IsFiniteSet(Known(nodes, k)) /\ Cardinality(Known(nodes, k)) \in Nat
  <2> SUFFICES ASSUME NEW k \in 0..Len(nodes)
               PROVE  IsFiniteSet(Known(nodes, k)) /\ Cardinality(Known(nodes, k)) \in Nat
    OBVIOUS
  <2> DEFINE U == Usable(nodes, k)
             T == {nodes[j].id : j \in U}
             f == [j \in U |-> nodes[j].id]
  <2>1. U \in SUBSET (1..k) /\ k \in Nat
    BY DEF Usable
  <2>2. IsFiniteSet(U)
    BY <2>1, FiniteIndices
  <2>3. f \in Surjection(U, T)
    BY DEF Surjection
  <2>4. IsFiniteSet(T)
    BY <2>2, <2>3, FS_Surjection
  <2>5. IsFiniteSet(DOMAIN routingTable \cup T)
    BY <2>4, FS_Union DEF TableInv
  <2> QED
    BY <2>5, FS_CardinalityType DEF Known
<1>2. CASE i = 0
  <2>1. Usable(nodes, 0) = {}
    BY DEF Usable
  <2>2. Known(nodes, 0) = DOMAIN routingTable
    BY <2>1 DEF Known
  <2> QED
    BY <1>2, <2>2 DEF TableInv
<1>3. CASE i # 0
  <2> DEFINE K == Known(nodes, i - 1)
             L == Known(nodes, i)
  <2>1. i - 1 \in 0..Len(nodes) /\ i \in 1..Len(nodes)
    BY <1>3
  <2>2. IsFiniteSet(K) /\ Cardinality(K) \in Nat /\ IsFiniteSet(L) /\ Cardinality(L) \in Nat
    BY <1>1, <2>1
  <2>3. ~(Cardinality(K) >= MaxNeighbors)
    BY <1>3 DEF FullAt
  <2>4. Usable(nodes, i) \subseteq Usable(nodes, i - 1) \cup {i}
    BY <2>1 DEF Usable
  <2>5. L \subseteq K \cup {nodes[i].id}
    BY <2>4 DEF Known
  <2> HIDE DEF K, L
  <2>6. /\ IsFiniteSet(K \cup {nodes[i].id})
        /\ Cardinality(K \cup {nodes[i].id}) <= Cardinality(K) + 1
        /\ Cardinality(K \cup {nodes[i].id}) \in Nat
    <3>1. /\ IsFiniteSet(K \cup {nodes[i].id})
          /\ Cardinality(K \cup {nodes[i].id}) =
                IF nodes[i].id \in K THEN Cardinality(K) ELSE Cardinality(K) + 1
      BY <2>2, FS_AddElement
    <3>2. Cardinality(K \cup {nodes[i].id}) \in Nat
      BY <3>1, FS_CardinalityType
    <3> QED
      BY <2>2, <3>1, <3>2
  <2>7. Cardinality(L) <= Cardinality(K \cup {nodes[i].id})
    BY <2>5, <2>6, FS_Subset
  <2>8. Cardinality(L) <= MaxNeighbors
    BY <2>2, <2>3, <2>6, <2>7, IndexingAssumption
  <2> QED
    BY <2>2, <2>8 DEF L
<1> QED
  BY <1>2, <1>3

\* What both handlers do to the table: it grows, up to MaxNeighbors.
LEMMA LearnEffect ==
    ASSUME TableInv, NEW nodes \in Seq(Node), Learn(nodes)
    PROVE  TableInv' /\ DOMAIN routingTable \subseteq DOMAIN routingTable'
<1> DEFINE breaks == {i \in 1..Len(nodes) : FullAt(nodes, i)}
           done == IF breaks = {} THEN Len(nodes) ELSE Min(breaks) - 1
           last == IF breaks = {} THEN Len(nodes) ELSE Min(breaks)
           added == {nodes[j].id : j \in Usable(nodes, done)}
<1>1. /\ done \in 0..Len(nodes)
      /\ done # 0 => ~FullAt(nodes, done)
      /\ done # 0 => last \in 1..Len(nodes)
  <2>1. CASE breaks = {}
    BY <2>1
  <2>2. CASE breaks # {}
    <3>1. breaks \in SUBSET Nat
      OBVIOUS
    <3>2. Min(breaks) \in breaks /\ \A y \in breaks : Min(breaks) <= y
      BY <2>2, <3>1, Least
    <3>3. Min(breaks) \in 1..Len(nodes)
      BY <3>2
    <3>4. done = Min(breaks) - 1 /\ last = Min(breaks)
      BY <2>2
    <3> HIDE DEF breaks, done, last
    <3>5. done # 0 => done \notin breaks
      BY <3>2, <3>3, <3>4
    <3>6. done \in 0..Len(nodes) /\ last \in 1..Len(nodes) /\ (done # 0 => done \in 1..Len(nodes))
      BY <3>3, <3>4
    <3> QED
      BY <3>5, <3>6 DEF breaks
  <2> QED
    BY <2>1, <2>2
<1>2. routingTable' = [id \in DOMAIN routingTable \cup added |->
                          IF id \in added THEN nodes[last].addr ELSE routingTable[id]]
  BY DEF Learn
<1> HIDE DEF breaks, done, last
<1>3. DOMAIN routingTable' = Known(nodes, done)
  BY <1>2 DEF Known
<1>4. IsFiniteSet(DOMAIN routingTable') /\ Cardinality(DOMAIN routingTable') <= MaxNeighbors
  BY <1>1, <1>3, KnownBounded
<1>5. Usable(nodes, done) \subseteq 1..Len(nodes)
  BY <1>1 DEF Usable
<1>6. \A j \in 1..Len(nodes) : nodes[j].id \in NodeId /\ nodes[j].addr \in Address
  <2>1. ASSUME NEW j \in 1..Len(nodes)
        PROVE  nodes[j].id \in NodeId /\ nodes[j].addr \in Address
    <3>1. nodes[j] \in Node
      OBVIOUS
    <3> QED
      BY <3>1 DEF Node, Addr, NodeId, Address
  <2> QED
    BY <2>1
<1>7. added \subseteq NodeId
  BY <1>5, <1>6
<1>8. added # {} => nodes[last].addr \in Address
  <2>1. added # {} => done # 0
    BY DEF Usable
  <2> QED
    BY <1>1, <1>6, <2>1
<1>9. /\ DOMAIN routingTable' \subseteq NodeId
      /\ \A id \in DOMAIN routingTable' : routingTable'[id] \in Address
  BY <1>2, <1>7, <1>8 DEF TableInv
<1>10. DOMAIN routingTable \subseteq DOMAIN routingTable'
  BY <1>2
<1> QED
  BY <1>4, <1>9, <1>10 DEF TableInv

-----------------------------------------------------------------------------
(***************************************************************************)
(* The get_peers queries.                                                  *)
(***************************************************************************)
Query == [t : Tid, infoHash : InfoHash]
Counters == 0..(Base * Base - 1)

\* The queries that the samples of a response lead to.
Queries(samples) ==
    [i \in 1..(Len(samples) \div HashLen) |->
        [t |-> uint16BE(Advanced(i - 1)), infoHash |-> Window(samples, i - 1)]]

\* The counter stays in its width, and its two digits are a transaction ID.
LEMMA CounterTyped ==
    ASSUME counter \in Counters, NEW n \in Nat
    PROVE  Advanced(n) \in Counters /\ uint16BE(Advanced(n)) \in Tid
<1>1. Base * Base \in Nat /\ Base * Base > 0
  BY CodecAssumption
<1>2. Advanced(n) \in Counters
  BY <1>1 DEF Advanced, Counters
<1>3. ASSUME NEW v \in Counters
      PROVE  uint16BE(v) \in Tid
  <2>1. v \div Base \in 0..(Base - 1) /\ v % Base \in 0..(Base - 1)
    BY CodecAssumption DEF Counters
  <2> QED
    BY <2>1 DEF uint16BE, Tid, Byte
<1> QED
  BY <1>2, <1>3

\* The window of a sample lies within the samples, wrong as its start is.
LEMMA WindowTyped ==
    ASSUME NEW samples \in Seq(Byte), Len(samples) % HashLen = 0,
           NEW i \in 1..(Len(samples) \div HashLen)
    PROVE  Window(samples, i - 1) \in InfoHash
<1> DEFINE n == Len(samples) \div HashLen
<1>1. HashLen \in Nat \ {0} /\ Len(samples) \in Nat
  BY IndexingAssumption
<1>2. n \in Nat /\ Len(samples) = n * HashLen
  BY <1>1
<1>3. i \in 1..n
  OBVIOUS
<1> HIDE DEF n
<1>4. (n - 1) * (HashLen - 1) >= 0
  BY <1>1, <1>2, <1>3
<1>5. n * HashLen >= n + HashLen - 1
  BY <1>1, <1>2, <1>4
<1>6. \A k \in 1..HashLen : i - 1 + k \in 1..Len(samples)
  BY <1>1, <1>2, <1>3, <1>5
<1>7. \A k \in 1..HashLen : samples[i - 1 + k] \in Byte
  BY <1>6
<1> QED
  BY <1>7 DEF Window, InfoHash, Bytes

LEMMA QueriesTyped ==
    ASSUME counter \in Counters, NEW samples \in Seq(Byte), Len(samples) % HashLen = 0
    PROVE  Queries(samples) \in Seq(Query) /\ Len(Queries(samples)) = Len(samples) \div HashLen
<1>1. HashLen \in Nat \ {0} /\ Len(samples) \in Nat
  BY IndexingAssumption
<1>2. Len(samples) \div HashLen \in Nat
  BY <1>1
<1>3. ASSUME NEW i \in 1..(Len(samples) \div HashLen)
      PROVE  [t |-> uint16BE(Advanced(i - 1)), infoHash |-> Window(samples, i - 1)] \in Query
  <2>1. i - 1 \in Nat
    BY <1>2
  <2>2. uint16BE(Advanced(i - 1)) \in Tid
    BY <2>1, CounterTyped
  <2>3. Window(samples, i - 1) \in InfoHash
    BY WindowTyped
  <2> QED
    BY <2>2, <2>3 DEF Query
<1>4. Queries(samples) \in [1..(Len(samples) \div HashLen) -> Query]
  BY <1>3 DEF Queries
<1> QED
  BY <1>2, <1>4

\* What is pending is typed, and is the latest query with its transaction ID.
RequestsInv ==
    /\ asked \in Seq(Query)
    /\ DOMAIN getPeersRequests \subseteq Tid
    /\ LatestQueryWins

LEMMA RecordLatest ==
    ASSUME RequestsInv, NEW qs \in Seq(Query), asked' = asked \o qs, Record(qs)
    PROVE  RequestsInv'
<1> DEFINE a == Len(asked)
           tids == {qs[i].t : i \in DOMAIN qs}
           with(t) == {i \in DOMAIN qs : qs[i].t = t}
           sent(t) == {i \in DOMAIN asked : asked[i].t = t}
           sentNow(t) == {i \in DOMAIN asked' : asked'[i].t = t}
<1>1. asked' \in Seq(Query) /\ a \in Nat /\ Len(asked') = a + Len(qs) /\ Len(qs) \in Nat
  BY DEF RequestsInv
<1>2. getPeersRequests' = [t \in DOMAIN getPeersRequests \cup tids |->
                            IF t \in tids THEN qs[Max(with(t))].infoHash ELSE getPeersRequests[t]]
  BY DEF Record
<1>3. DOMAIN getPeersRequests' \subseteq Tid
  <2>1. \A i \in DOMAIN qs : qs[i] \in Query
    OBVIOUS
  <2>2. tids \subseteq Tid
    BY <2>1 DEF Query
  <2> QED
    BY <1>2, <2>2 DEF RequestsInv
<1>4. \A i \in 1..Len(qs) : asked'[a + i] = qs[i] /\ a + i \in 1..Len(asked')
  BY DEF RequestsInv
<1>5. \A i \in 1..a : asked'[i] = asked[i] /\ i \in 1..Len(asked')
  BY DEF RequestsInv
<1>6. /\ DOMAIN asked = 1..a /\ DOMAIN qs = 1..Len(qs)
      /\ DOMAIN asked' = 1..(a + Len(qs))
  BY <1>1 DEF RequestsInv
<1>7. ASSUME NEW t \in DOMAIN getPeersRequests'
      PROVE  sentNow(t) # {} /\ getPeersRequests'[t] = asked'[Max(sentNow(t))].infoHash
  <2>1. sentNow(t) \in SUBSET (1..(a + Len(qs))) /\ a + Len(qs) \in Nat
    BY <1>1, <1>6
  <2>2. CASE t \in tids
    <3>1. with(t) # {} /\ with(t) \in SUBSET (1..Len(qs))
      BY <1>6, <2>2
    <3>2. Max(with(t)) \in with(t) /\ \A y \in with(t) : Max(with(t)) >= y
      BY <1>1, <3>1, Greatest
    <3>3. PICK k \in with(t) : k = Max(with(t))
      BY <3>2
    <3>4. k \in 1..Len(qs) /\ qs[k].t = t /\ a + k \in sentNow(t)
      BY <1>4, <1>6, <3>3
    <3>5. Max(sentNow(t)) \in sentNow(t) /\ \A y \in sentNow(t) : Max(sentNow(t)) >= y
      BY <2>1, <3>4, Greatest
    <3>6. PICK m \in sentNow(t) : m = Max(sentNow(t))
      BY <3>5
    <3>7. m \in 1..(a + Len(qs)) /\ m >= a + k
      BY <2>1, <3>4, <3>5, <3>6
    <3>8. m - a \in 1..Len(qs) /\ a + (m - a) = m
      BY <1>1, <3>4, <3>7
    <3>9. m - a \in with(t)
      BY <1>4, <1>6, <3>6, <3>8
    <3>10. m - a <= k
      BY <3>2, <3>3, <3>4, <3>8, <3>9
    <3>11. m = a + k
      BY <1>1, <3>4, <3>7, <3>10
    <3>12. asked'[m] = qs[k]
      BY <1>4, <3>4, <3>11
    <3>13. getPeersRequests'[t] = qs[k].infoHash
      BY <1>2, <2>2, <3>3
    <3> QED
      BY <3>4, <3>6, <3>12, <3>13
  <2>3. CASE t \notin tids
    <3>1. t \in DOMAIN getPeersRequests /\ getPeersRequests'[t] = getPeersRequests[t]
      BY <1>2, <2>3
    <3>2. sent(t) # {} /\ getPeersRequests[t] = asked[Max(sent(t))].infoHash
      BY <3>1 DEF RequestsInv, LatestQueryWins
    <3>3. ASSUME NEW i \in sentNow(t)
          PROVE  i \in sent(t)
      <4>1. i \in 1..(a + Len(qs)) /\ asked'[i].t = t
        BY <1>6
      <4>2. CASE i \in 1..a
        BY <1>5, <1>6, <4>1, <4>2
      <4>3. CASE i \notin 1..a
        <5>1. i - a \in 1..Len(qs) /\ a + (i - a) = i
          BY <1>1, <4>1, <4>3
        <5>2. qs[i - a].t = t
          BY <1>4, <4>1, <5>1
        <5> QED
          BY <1>6, <2>3, <5>1, <5>2
      <4> QED
        BY <4>2, <4>3
    <3>4. sent(t) \subseteq sentNow(t)
      BY <1>1, <1>5, <1>6
    <3>5. sentNow(t) = sent(t)
      BY <3>3, <3>4
    <3>6. sent(t) \in SUBSET (1..a)
      BY <1>6
    <3>7. Max(sent(t)) \in sent(t)
      BY <1>1, <3>2, <3>6, Greatest
    <3>8. asked'[Max(sent(t))] = asked[Max(sent(t))]
      BY <1>5, <3>6, <3>7
    <3> QED
      BY <3>1, <3>2, <3>5, <3>8
  <2> QED
    BY <2>2, <2>3
<1>8. LatestQueryWins'
  BY <1>7 DEF LatestQueryWins
<1> QED
  BY <1>1, <1>3, <1>8 DEF RequestsInv

\* The hash that is pending under a transaction ID is an info hash.
LEMMA PendingTyped ==
    ASSUME RequestsInv, NEW t \in DOMAIN getPeersRequests
    PROVE  getPeersRequests[t] \in InfoHash
<1> DEFINE sent == {i \in DOMAIN asked : asked[i].t = t}
<1>1. sent # {} /\ getPeersRequests[t] = asked[Max(sent)].infoHash
  BY DEF RequestsInv, LatestQueryWins
<1>2. asked \in Seq(Query) /\ Len(asked) \in Nat /\ DOMAIN asked = 1..Len(asked)
  BY DEF RequestsInv
<1>3. sent \in SUBSET (1..Len(asked))
  BY <1>2
<1>4. Max(sent) \in sent
  BY <1>1, <1>2, <1>3, Greatest
<1>5. asked[Max(sent)] \in Query
  BY <1>2, <1>3, <1>4
<1> QED
  BY <1>1, <1>5 DEF Query

(***************************************************************************)
(* Every query for a hash is pending, reported or superseded, and only the *)
(* first two count: what is reported of a hash and what is still pending   *)
(* together never exceed the queries for it.  The hash of zeros stands for *)
(* answers to no query and is not counted.                                 *)
(***************************************************************************)
PendingFor(h) == {t \in DOMAIN getPeersRequests : getPeersRequests[t] = h}
AskedFor(h) == {i \in DOMAIN asked : asked[i].infoHash = h}

CountInv ==
    /\ reported \in [InfoHash -> Nat]
    /\ IsFiniteSet(DOMAIN getPeersRequests)
    /\ \A h \in InfoHash \ {ZeroHash} :
        reported[h] + Cardinality(PendingFor(h)) <= Cardinality(AskedFor(h))

\* Both sets are finite.
LEMMA FiniteCounts ==
    ASSUME RequestsInv, CountInv, NEW h
    PROVE  /\ IsFiniteSet(PendingFor(h)) /\ Cardinality(PendingFor(h)) \in Nat
           /\ IsFiniteSet(AskedFor(h)) /\ Cardinality(AskedFor(h)) \in Nat
<1>1. PendingFor(h) \in SUBSET DOMAIN getPeersRequests
  BY DEF PendingFor
<1>2. IsFiniteSet(PendingFor(h))
  BY <1>1, FS_Subset DEF CountInv
<1>3. AskedFor(h) \in SUBSET (1..Len(asked)) /\ Len(asked) \in Nat
  BY DEF AskedFor, RequestsInv
<1>4. IsFiniteSet(AskedFor(h))
  BY <1>3, FiniteIndices
<1> QED
  BY <1>2, <1>4, FS_CardinalityType

\* Recording queries adds at most one pending request for each.
LEMMA RecordCounts ==
    ASSUME RequestsInv, CountInv, NEW qs \in Seq(Query), asked' = asked \o qs, Record(qs),
           UNCHANGED reported
    PROVE  CountInv'
<1> DEFINE a == Len(asked)
           tids == {qs[i].t : i \in DOMAIN qs}
           with(t) == {i \in DOMAIN qs : qs[i].t = t}
<1>1. /\ DOMAIN qs = 1..Len(qs) /\ Len(qs) \in Nat /\ a \in Nat
      /\ DOMAIN asked = 1..a /\ DOMAIN asked' = 1..(a + Len(qs))
  BY DEF RequestsInv
<1>2. getPeersRequests' = [t \in DOMAIN getPeersRequests \cup tids |->
                            IF t \in tids THEN qs[Max(with(t))].infoHash ELSE getPeersRequests[t]]
  BY DEF Record
<1>3. IsFiniteSet(DOMAIN getPeersRequests')
  <2> DEFINE f == [i \in DOMAIN qs |-> qs[i].t]
  <2>1. f \in Surjection(DOMAIN qs, tids)
    BY DEF Surjection
  <2>2. IsFiniteSet(DOMAIN qs)
    BY <1>1, FS_Interval
  <2>3. IsFiniteSet(tids)
    BY <2>1, <2>2, FS_Surjection
  <2>4. IsFiniteSet(DOMAIN getPeersRequests \cup tids)
    BY <2>3, FS_Union DEF CountInv
  <2> QED
    BY <1>2, <2>4
<1>4. ASSUME NEW h \in InfoHash \ {ZeroHash}
      PROVE  reported'[h] + Cardinality(PendingFor(h)') <= Cardinality(AskedFor(h)')
  <2> DEFINE N == {i \in DOMAIN qs : qs[i].infoHash = h}
             shifted == {a + i : i \in N}
             T == {qs[i].t : i \in N}
             f == [i \in N |-> qs[i].t]
             g == [i \in N |-> a + i]
  <2>1. IsFiniteSet(N) /\ Cardinality(N) \in Nat
    <3>1. N \in SUBSET (1..Len(qs))
      BY <1>1
    <3> QED
      BY <1>1, <3>1, FiniteIndices, FS_CardinalityType
  <2>2. /\ IsFiniteSet(PendingFor(h)) /\ Cardinality(PendingFor(h)) \in Nat
        /\ IsFiniteSet(AskedFor(h)) /\ Cardinality(AskedFor(h)) \in Nat
    BY FiniteCounts
  <2>3. IsFiniteSet(T) /\ Cardinality(T) <= Cardinality(N) /\ Cardinality(T) \in Nat
    <3>1. f \in Surjection(N, T)
      BY DEF Surjection
    <3> QED
      BY <2>1, <3>1, FS_Surjection, FS_CardinalityType
  <2>4. IsFiniteSet(shifted) /\ Cardinality(shifted) = Cardinality(N)
    <3>1. N \subseteq Nat
      BY <1>1
    <3>2. g \in Surjection(N, shifted)
      BY DEF Surjection
    <3>3. \A i, j \in N : a + i = a + j => i = j
      BY <1>1, <3>1
    <3>4. g \in [N -> shifted] /\ \A i, j \in N : g[i] = g[j] => i = j
      BY <3>3
    <3> HIDE DEF g
    <3>5. g \in Injection(N, shifted)
      BY <3>4 DEF Injection, IsInjective
    <3> QED
      BY <2>1, <3>2, <3>5, FS_Surjection
  <2>5. PendingFor(h)' \subseteq PendingFor(h) \cup T
    <3>1. ASSUME NEW t \in PendingFor(h)', t \in tids
          PROVE  t \in T
      <4>1. with(t) # {} /\ with(t) \in SUBSET (1..Len(qs))
        BY <1>1, <3>1
      <4>2. Max(with(t)) \in with(t)
        BY <1>1, <4>1, Greatest
      <4>3. getPeersRequests'[t] = qs[Max(with(t))].infoHash /\ getPeersRequests'[t] = h
        BY <1>2, <3>1 DEF PendingFor
      <4> QED
        BY <4>2, <4>3
    <3>2. ASSUME NEW t \in PendingFor(h)', t \notin tids
          PROVE  t \in PendingFor(h)
      BY <1>2, <3>2 DEF PendingFor
    <3> QED
      BY <3>1, <3>2
  <2>6. AskedFor(h)' = AskedFor(h) \cup shifted
    <3>1. \A i \in 1..a : asked'[i] = asked[i]
      BY DEF RequestsInv
    <3>2. \A i \in 1..Len(qs) : asked'[a + i] = qs[i]
      BY DEF RequestsInv
    <3>3. ASSUME NEW i \in AskedFor(h)'
          PROVE  i \in AskedFor(h) \cup shifted
      <4>1. i \in 1..(a + Len(qs)) /\ asked'[i].infoHash = h
        BY <1>1 DEF AskedFor
      <4>2. CASE i \in 1..a
        BY <1>1, <3>1, <4>1, <4>2 DEF AskedFor
      <4>3. CASE i \notin 1..a
        <5>1. i - a \in 1..Len(qs) /\ a + (i - a) = i
          BY <1>1, <4>1, <4>3
        <5>2. i - a \in N
          BY <1>1, <3>2, <4>1, <5>1
        <5> QED
          BY <5>1, <5>2
      <4> QED
        BY <4>2, <4>3
    <3>4. AskedFor(h) \subseteq AskedFor(h)'
      BY <1>1, <3>1 DEF AskedFor
    <3>5. ASSUME NEW i \in N
          PROVE  a + i \in AskedFor(h)'
      BY <1>1, <3>2 DEF AskedFor
    <3>6. shifted \subseteq AskedFor(h)'
      BY <3>5
    <3> QED
      BY <3>3, <3>4, <3>6
  <2>7. AskedFor(h) \cap shifted = {}
    BY <1>1 DEF AskedFor
  <2> HIDE DEF N, T, shifted
  <2>8. IsFiniteSet(PendingFor(h) \cup T)
        /\ Cardinality(PendingFor(h) \cup T) =
             Cardinality(PendingFor(h)) + Cardinality(T) - Cardinality(PendingFor(h) \cap T)
    BY <2>2, <2>3, FS_Union
  <2>9. Cardinality(PendingFor(h) \cap T) \in Nat
    <3>1. PendingFor(h) \cap T \in SUBSET T
      OBVIOUS
    <3> QED
      BY <2>3, <3>1, FS_Subset, FS_CardinalityType
  <2>10. /\ Cardinality(PendingFor(h)') <= Cardinality(PendingFor(h) \cup T)
         /\ Cardinality(PendingFor(h)') \in Nat
    <3>1. PendingFor(h)' \in SUBSET (PendingFor(h) \cup T)
      BY <2>5
    <3> QED
      BY <2>8, <3>1, FS_Subset, FS_CardinalityType
  <2>11. Cardinality(AskedFor(h) \cup shifted) =
             Cardinality(AskedFor(h)) + Cardinality(shifted) - Cardinality({})
    BY <2>2, <2>4, <2>7, FS_Union
  <2>12. Cardinality({}) = 0
    BY FS_EmptySet
  <2>13. Cardinality(AskedFor(h)') = Cardinality(AskedFor(h)) + Cardinality(N)
    BY <2>1, <2>2, <2>4, <2>6, <2>11, <2>12
  <2>14. reported[h] + Cardinality(PendingFor(h)) <= Cardinality(AskedFor(h)) /\ reported[h] \in Nat
    BY DEF CountInv
  <2> QED
    BY <2>1, <2>2, <2>3, <2>8, <2>9, <2>10, <2>13, <2>14
<1> QED
  BY <1>3, <1>4 DEF CountInv

\* An answer frees its transaction ID and is reported once at most: for the query
\* that waited for it, or as the hash of zeros.
LEMMA FreeEffect ==
    ASSUME RequestsInv, CountInv, NEW msg, onGetPeersResponse(msg)
    PROVE  RequestsInv' /\ CountInv'
<1> DEFINE t == Copied(msg.t)
<1>1. /\ getPeersRequests' = [u \in DOMAIN getPeersRequests \ {t} |-> getPeersRequests[u]]
      /\ asked' = asked
  BY DEF onGetPeersResponse, Free
<1>2. /\ DOMAIN getPeersRequests' = DOMAIN getPeersRequests \ {t}
      /\ \A u \in DOMAIN getPeersRequests' : getPeersRequests'[u] = getPeersRequests[u]
  BY <1>1
<1>3. LatestQueryWins'
  BY <1>1, <1>2 DEF RequestsInv, LatestQueryWins
<1>4. RequestsInv'
  BY <1>1, <1>2, <1>3 DEF RequestsInv
<1>5. IsFiniteSet(DOMAIN getPeersRequests')
  <2>1. DOMAIN getPeersRequests' \in SUBSET DOMAIN getPeersRequests
    BY <1>2
  <2> QED
    BY <2>1, FS_Subset DEF CountInv
<1>6. \/ reported' = reported
      \/ /\ t \in DOMAIN getPeersRequests
         /\ reported' = [reported EXCEPT ![getPeersRequests[t]] = @ + 1]
      \/ /\ t \notin DOMAIN getPeersRequests
         /\ reported' = [reported EXCEPT ![ZeroHash] = @ + 1]
  BY DEF onGetPeersResponse, Lookup
<1>7. t \in DOMAIN getPeersRequests => getPeersRequests[t] \in InfoHash
  BY PendingTyped
<1> HIDE DEF t
<1>8. ZeroHash \in InfoHash
  BY CodecAssumption DEF ZeroHash, InfoHash, Bytes, Byte
<1>9. reported' \in [InfoHash -> Nat]
  BY <1>6, <1>7, <1>8 DEF CountInv
<1>10. ASSUME NEW h \in InfoHash \ {ZeroHash}
      PROVE  reported'[h] + Cardinality(PendingFor(h)') <= Cardinality(AskedFor(h)')
  <2>1. AskedFor(h)' = AskedFor(h)
    BY <1>1 DEF AskedFor
  <2>2. reported[h] + Cardinality(PendingFor(h)) <= Cardinality(AskedFor(h)) /\ reported[h] \in Nat
    BY DEF CountInv
  <2>3. /\ IsFiniteSet(PendingFor(h)) /\ Cardinality(PendingFor(h)) \in Nat
        /\ Cardinality(AskedFor(h)) \in Nat
    BY FiniteCounts
  <2>4. PendingFor(h)' = PendingFor(h) \ {t}
    BY <1>2 DEF PendingFor
  <2>5. CASE t \in PendingFor(h)
    <3>1. Cardinality(PendingFor(h) \ {t}) = Cardinality(PendingFor(h)) - 1
      BY <2>3, <2>5, FS_RemoveElement
    <3>2. reported'[h] \in {reported[h], reported[h] + 1}
      BY <1>6, <1>7, <1>8 DEF CountInv
    <3> QED
      BY <2>1, <2>2, <2>3, <2>4, <3>1, <3>2
  <2>6. CASE t \notin PendingFor(h)
    <3>1. PendingFor(h)' = PendingFor(h)
      BY <2>4, <2>6
    <3>2. reported'[h] = reported[h]
      BY <1>6, <1>7, <1>8, <2>6 DEF CountInv, PendingFor
    <3> QED
      BY <2>1, <2>2, <3>1, <3>2
  <2> QED
    BY <2>5, <2>6
<1> QED
  BY <1>4, <1>5, <1>9, <1>10 DEF CountInv

-----------------------------------------------------------------------------
(***************************************************************************)
(* The inductive invariant: the table, the pending requests, their count,  *)
(* the counter and the position of index.                                  *)
(***************************************************************************)
RoundInv ==
    /\ pc \in {"tick", "bootstrap", "snapshot", "send"}
    /\ toSend \subseteq Address
    /\ NoEmptyRound

ServiceInv ==
    /\ TableInv /\ RequestsInv /\ CountInv /\ RoundInv
    /\ counter \in Counters
    /\ Len(asked) <= MaxQueries
    /\ socket \in {"open", "closed", "panicked"}

LEMMA ServiceInvStart == Init => ServiceInv
<1> SUFFICES ASSUME Init PROVE ServiceInv
  OBVIOUS
<1>1. DOMAIN routingTable = {} /\ DOMAIN getPeersRequests = {} /\ DOMAIN asked = {}
  BY DEF Init
<1>2. IsFiniteSet({}) /\ Cardinality({}) = 0
  BY FS_EmptySet
<1>3. TableInv
  BY <1>1, <1>2, IndexingAssumption DEF TableInv
<1>4. RequestsInv
  BY <1>1 DEF Init, RequestsInv, LatestQueryWins
<1>5. \A h \in InfoHash : reported[h] = 0 /\ PendingFor(h) = {} /\ AskedFor(h) = {}
  BY <1>1 DEF Init, PendingFor, AskedFor
<1>6. CountInv
  <2>1. reported \in [InfoHash -> Nat]
    BY DEF Init
  <2>2. \A h \in InfoHash \ {ZeroHash} : reported[h] + Cardinality(PendingFor(h)) <= Cardinality(AskedFor(h))
    BY <1>2, <1>5
  <2> QED
    BY <1>1, <1>2, <2>1, <2>2 DEF CountInv
<1>7. RoundInv
  BY DEF Init, RoundInv, NoEmptyRound
<1>8. counter \in Counters
  BY CodecAssumption DEF Init, Counters
<1> QED
  BY <1>3, <1>4, <1>6, <1>7, <1>8, IndexingAssumption DEF Init, ServiceInv

\* The steps of index: they leave the requests alone.
LEMMA IndexStep ==
    ASSUME ServiceInv,
           index(Tick) \/ index(bootstrap) \/ index(Snapshot) \/ index(SendOne) \/ index(Forget)
    PROVE  ServiceInv'
<1>1. UNCHANGED <<counter, getPeersRequests, asked, reported, socket>>
  BY DEF index, serviceVars
<1>2. RequestsInv' /\ CountInv'
  BY <1>1 DEF ServiceInv, RequestsInv, CountInv, LatestQueryWins, PendingFor, AskedFor
<1>3. TableInv' /\ RoundInv'
  <2> USE DEF ServiceInv, RoundInv, NoEmptyRound
  <2>1. CASE index(Tick)
    BY <2>1 DEF index, Tick, TableInv
  <2>2. CASE index(bootstrap)
    BY <2>2 DEF index, bootstrap, TableInv
  <2>3. CASE index(Snapshot)
    BY <2>3 DEF index, Snapshot, TableInv
  <2>4. CASE index(SendOne)
    BY <2>4 DEF index, SendOne, TableInv
  <2>5. CASE index(Forget)
    <3>1. routingTable' = << >> /\ toSend' = toSend /\ pc' = "tick"
      BY <2>5 DEF index, Forget
    <3>2. DOMAIN routingTable' = {}
      BY <3>1
    <3>3. TableInv'
      BY <3>2, FS_EmptySet, IndexingAssumption DEF TableInv
    <3> QED
      BY <3>1, <3>3
  <2> QED
    BY <2>1, <2>2, <2>3, <2>4, <2>5
<1> QED
  BY <1>1, <1>2, <1>3 DEF ServiceInv

\* The handlers: they leave index alone, and the table never shrinks under it.
LEMMA HandlerStep ==
    ASSUME ServiceInv, readMessages
    PROVE  ServiceInv'
<1>1. PICK msg \in Response : onMessage(msg)
  BY DEF readMessages
<1>2. UNCHANGED <<pc, toSend, socket>>
  BY DEF readMessages
<1>3. msg.nodes \in Seq(Node) /\ msg.samples \in Seq(Byte)
  BY ResponseTyped
<1>4. /\ TableInv /\ RequestsInv /\ CountInv /\ RoundInv /\ counter \in Counters
      /\ Len(asked) <= MaxQueries
  BY DEF ServiceInv
<1>5. ASSUME TableInv', DOMAIN routingTable \subseteq DOMAIN routingTable'
      PROVE  RoundInv'
  BY <1>2, <1>4, <1>5 DEF RoundInv, NoEmptyRound
<1>6. CASE /\ validateSampleInfohashesResponseMessage(msg)
           /\ onSampleInfohashesResponse(msg)
  <2> DEFINE n == Len(msg.samples) \div HashLen
             qs == Queries(msg.samples)
  <2>1. /\ Len(asked) + n <= MaxQueries /\ asked' = asked \o qs /\ Record(qs)
        /\ counter' = Advanced(n) /\ Learn(msg.nodes) /\ UNCHANGED reported
    BY <1>6 DEF onSampleInfohashesResponse, Queries
  <2>2. qs \in Seq(Query) /\ Len(qs) = n
    BY <1>3, <1>4, <1>6, QueriesTyped DEF validateSampleInfohashesResponseMessage
  <2>3. n \in Nat
    BY <2>2
  <2> HIDE DEF n, qs
  <2>4. RequestsInv' /\ CountInv'
    BY <1>4, <2>1, <2>2, RecordLatest, RecordCounts
  <2>5. TableInv' /\ DOMAIN routingTable \subseteq DOMAIN routingTable'
    BY <1>3, <1>4, <2>1, LearnEffect
  <2>6. counter' \in Counters
    BY <1>4, <2>1, <2>3, CounterTyped
  <2>7. Len(asked') <= MaxQueries
    <3>1. asked \in Seq(Query)
      BY <1>4 DEF RequestsInv
    <3>2. Len(asked \o qs) = Len(asked) + Len(qs)
      BY <2>2, <3>1
    <3>3. asked' = asked \o qs /\ Len(asked) + n <= MaxQueries
      BY <2>1
    <3> QED
      BY <2>2, <3>2, <3>3
  <2> QED
    BY <1>2, <1>5, <2>4, <2>5, <2>6, <2>7 DEF ServiceInv
<1>7. CASE onGetPeersResponse(msg)
  <2>1. RequestsInv' /\ CountInv'
    BY <1>4, <1>7, FreeEffect
  <2>2. UNCHANGED <<routingTable, counter, asked>>
    BY <1>7 DEF onGetPeersResponse
  <2> QED
    BY <1>2, <2>1, <2>2 DEF ServiceInv, TableInv, RoundInv, NoEmptyRound
<1>8. CASE onFindNodeResponse(msg)
  <2>1. TableInv' /\ DOMAIN routingTable \subseteq DOMAIN routingTable'
    BY <1>3, <1>4, <1>8, LearnEffect DEF onFindNodeResponse
  <2>2. UNCHANGED <<counter, getPeersRequests, asked, reported>>
    BY <1>8 DEF onFindNodeResponse, serviceVars
  <2>3. RequestsInv' /\ CountInv'
    BY <1>4, <2>2 DEF RequestsInv, CountInv, LatestQueryWins, PendingFor, AskedFor
  <2> QED
    BY <1>2, <1>5, <2>1, <2>2, <2>3 DEF ServiceInv
<1> QED
  BY <1>1, <1>6, <1>7, <1>8 DEF onMessage

LEMMA ServiceInvariant == Spec => []ServiceInv
<1>1. ServiceInv /\ [Next]_vars => ServiceInv'
  <2> SUFFICES ASSUME ServiceInv, [Next]_vars PROVE ServiceInv'
    OBVIOUS
  <2>1. CASE index(Tick) \/ index(bootstrap) \/ index(Snapshot) \/ index(SendOne) \/ index(Forget)
    BY <2>1, IndexStep
  <2>2. CASE readMessages
    BY <2>2, HandlerStep
  <2>3. CASE ReadCongestion \/ Terminate \/ UNCHANGED vars
    <3>1. /\ UNCHANGED <<routingTable, counter, getPeersRequests, asked, reported, pc, toSend>>
          /\ socket' \in {"open", "closed", "panicked"}
      BY <2>3 DEF ReadCongestion, Terminate, vars, serviceVars, ServiceInv
    <3>2. TableInv' /\ RequestsInv' /\ CountInv' /\ RoundInv'
      BY <3>1 DEF ServiceInv, TableInv, RequestsInv, CountInv, RoundInv, LatestQueryWins,
                  PendingFor, AskedFor, NoEmptyRound
    <3> QED
      BY <3>1, <3>2 DEF ServiceInv
  <2> QED
    BY <2>1, <2>2, <2>3 DEF Next
<1> QED
  BY <1>1, ServiceInvStart, PTL DEF Spec

-----------------------------------------------------------------------------
\* Every variable of the service keeps its type; the counter keeps to two digits
\* and the windows cut from the samples are whole info hashes.
THEOREM ServiceTypeCorrect == Spec => []TypeOK
<1>1. ServiceInv => TypeOK
  <2> SUFFICES ASSUME ServiceInv PROVE TypeOK
    OBVIOUS
  <2>1. \A t \in DOMAIN getPeersRequests : getPeersRequests[t] \in InfoHash
    BY PendingTyped DEF ServiceInv
  <2> QED
    BY <2>1 DEF ServiceInv, TableInv, RequestsInv, CountInv, RoundInv, Counters, Query, TypeOK
<1> QED
  BY <1>1, ServiceInvariant, PTL

\* However many nodes the responses list, and whatever they repeat, the handlers
\* never take the routing table above MaxNeighbors.
THEOREM NeighborsBoundedTheorem == Spec => []NeighborsBounded
<1>1. ServiceInv => NeighborsBounded
  BY DEF ServiceInv, TableInv, NeighborsBounded
<1> QED
  BY <1>1, ServiceInvariant, PTL

\* index looks at the table and copies it under two separate locks; the handlers
\* that run in between only add, so what it copies is not empty.
THEOREM NoEmptyRoundTheorem == Spec => []NoEmptyRound
<1>1. ServiceInv => NoEmptyRound
  BY DEF ServiceInv, RoundInv
<1> QED
  BY <1>1, ServiceInvariant, PTL

\* After the counter wraps, a transaction ID stands for the latest query with it.
THEOREM LatestQueryWinsTheorem == Spec => []LatestQueryWins
<1>1. ServiceInv => LatestQueryWins
  BY DEF ServiceInv, RequestsInv
<1> QED
  BY <1>1, ServiceInvariant, PTL

\* Lost, repeated, late, reordered and unasked answers included, a hash is reported
\* at most as often as it was asked for: an answer is reported against a pending
\* request, which it frees, or else as the hash of zeros.
THEOREM NoExtraResultsTheorem == Spec => []NoExtraResults
<1>1. ServiceInv => NoExtraResults
  <2> SUFFICES ASSUME ServiceInv, NEW h \in InfoHash \ {ZeroHash}
               PROVE  reported[h] <= Cardinality(AskedFor(h))
    BY DEF NoExtraResults, AskedFor
  <2>1. Cardinality(PendingFor(h)) \in Nat /\ Cardinality(AskedFor(h)) \in Nat
    BY FiniteCounts DEF ServiceInv
  <2>2. reported[h] + Cardinality(PendingFor(h)) <= Cardinality(AskedFor(h)) /\ reported[h] \in Nat
    BY DEF ServiceInv, CountInv
  <2> QED
    BY <2>1, <2>2
<1> QED
  BY <1>1, ServiceInvariant, PTL
=============================================================================
