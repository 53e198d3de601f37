--------------------------- MODULE MCMetadataSink ---------------------------
(***************************************************************************)
(* A small instance of MetadataSink: one info hash more than the table     *)
(* admits.                                                                 *)
(***************************************************************************)
EXTENDS MetadataSink

CONSTANTS h1, h2, h3, p1, p2, l1, l2

MCInfoHash == {h1, h2, h3}
MCPeer == {p1, p2}
MCLeechId == {l1, l2}

\* No peer, and two: one peer is what is left of two when the first has failed.
MCPeerLists == {<< >>, <<p1, p2>>}
=============================================================================
