------------------------------- MODULE Codec --------------------------------
(***************************************************************************)
(* The compact forms of KRPC (dht/mainline/codec.go): a node is its ID, an *)
(* IPv4 address and a port of two bytes, a peer an IPv4 or IPv6 address    *)
(* and a port; lists of nodes and of IPv4 peers are one byte string.  The  *)
(* bencoding around the strings is a library's.  Errors ("e") are decoded  *)
(* only to be logged, and are left out.                                    *)
(***************************************************************************)
EXTENDS Integers, Sequences

CONSTANTS
    Base,           \* 256, the number of bytes
    IdLen,          \* 20, the length of a node ID
    IpLen, Ip6Len,  \* 4 and 16, the lengths of addresses
    MappedPrefix    \* of an IPv4 address in the form of an IPv6 one

ASSUME CodecAssumption ==
    /\ Base \in Nat /\ Base > 1
    /\ IdLen \in Nat /\ IpLen \in Nat \ {0} /\ Ip6Len \in Nat /\ Ip6Len > IpLen
    /\ Len(MappedPrefix) = Ip6Len - IpLen

Byte == 0..(Base - 1)
Bytes(n) == [1..n -> Byte]
Port == 0..(Base * Base - 1)
NodeLen == IdLen + IpLen + 2
PeerLen == IpLen + 2

\* What is left of a string after n bytes, and the i-th block of w bytes.
From(b, n) == SubSeq(b, n + 1, Len(b))
Block(b, i, w) == SubSeq(b, (i - 1) * w + 1, i * w)

\* Blocks of w bytes one after the other.
Concat(blocks, w) ==
    [k \in 1..(Len(blocks) * w) |-> blocks[(k - 1) \div w + 1][((k - 1) % w) + 1]]

\* binary.BigEndian, on an integer converted to uint16.
PutUint16(port) == <<(port \div Base) % Base, port % Base>>
Uint16(b) == b[1] * Base + b[2]

\* net.IP.To4, which has no result for other than IPv4 addresses.
To4(ip) ==
    CASE Len(ip) = IpLen -> ip
      [] Len(ip) = Ip6Len /\ SubSeq(ip, 1, Ip6Len - IpLen) = MappedPrefix -> From(ip, Ip6Len - IpLen)
      [] OTHER -> << >>

-----------------------------------------------------------------------------
\* CompactNodeInfo
NodeMarshalBinary(node) == node.id \o To4(node.addr.host) \o PutUint16(node.addr.port)

NodeUnmarshalBinary(b) ==
    [id   |-> SubSeq(b, 1, IdLen),
     addr |-> [host |-> SubSeq(b, IdLen + 1, IdLen + IpLen),
               port |-> Uint16(From(b, IdLen + IpLen))]]

\* CompactNodeInfos, of which all have IPv4 addresses
MarshalCompactNodeInfos(nodes) ==
    Concat([i \in 1..Len(nodes) |-> NodeMarshalBinary(nodes[i])], NodeLen)

\* Any other length is an error.
NodesWellFormed(b) == Len(b) % NodeLen = 0

UnmarshalCompactNodeInfos(b) ==
    [i \in 1..(Len(b) \div NodeLen) |-> NodeUnmarshalBinary(Block(b, i, NodeLen))]

\* CompactPeer
Shortest(ip) == IF To4(ip) # << >> THEN To4(ip) ELSE ip

PeerMarshalBinary(peer) == Shortest(peer.host) \o PutUint16(peer.port)

PeerWellFormed(b) == Len(b) \in {IpLen + 2, Ip6Len + 2}

PeerUnmarshalBinary(b) ==
    LET ipLen == Len(b) - 2
    IN  [host |-> SubSeq(b, 1, ipLen), port |-> Uint16(From(b, ipLen))]

\* CompactPeers, of which all have IPv4 addresses; bytes that are too few for
\* another peer are ignored.
MarshalCompactPeers(peers) ==
    Concat([i \in 1..Len(peers) |-> PeerMarshalBinary(peers[i])], PeerLen)

UnmarshalCompactPeers(b) ==
    [i \in 1..(Len(b) \div PeerLen) |-> PeerUnmarshalBinary(Block(b, i, PeerLen))]
=============================================================================
