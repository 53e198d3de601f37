------------------------- MODULE MCIndexingService --------------------------
(***************************************************************************)
(* Small instances of IndexingService: bytes are bits, node IDs and info   *)
(* hashes have two of them, an IPv4 address one, an IPv6 address two.      *)
(***************************************************************************)
EXTENDS IndexingService

Node(id, port) == [id |-> id, addr |-> [host |-> <<id[1]>>, port |-> port]]
n1 == <<0, 1>>
n2 == <<1, 0>>
n3 == <<1, 1>>

\* Transaction IDs of two bytes, one that is too short and one too long.
MCTidStrings == {<<0, 0>>, <<0, 1>>, <<1>>, <<1, 1, 0>>}

\* The last string is not of whole nodes.
MCNodeStrings ==
    {<< >>,
     MarshalCompactNodeInfos(<<Node(n2, 2), Node(n3, 0)>>),
     MarshalCompactNodeInfos(<<Node(n1, 1), Node(n2, 2), Node(n3, 3)>>),
     NodeMarshalBinary(Node(n1, 1)) \o <<1>>}

\* A peer with an IPv4 address and one with an IPv6 address, and no peer.
MCValueLists == {<< >>, <<PeerMarshalBinary([host |-> <<1>>, port |-> 1]),
                          PeerMarshalBinary([host |-> <<0, 1>>, port |-> 1])>>, <<<<1>>>>}

\* One hash, two hashes, and a string that is not of hashes.
MCSampleStrings == {<< >>, <<0, 1>>, <<1, 1, 0, 1>>, <<1>>}
MCMappedPrefix == <<1>>
=============================================================================
