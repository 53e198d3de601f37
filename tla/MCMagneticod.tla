---------------------------- MODULE MCMagneticod ----------------------------
(***************************************************************************)
(* Small instances of Magneticod.                                          *)
(***************************************************************************)
EXTENDS Magneticod, TLC

CONSTANTS h1, h2, p1, p2, l1, l2

MCInfoHash == {h1, h2}
MCZeroSized == {h2}
MCOneHash == {h1}
MCNone == {}
MCPeer == {p1, p2}
MCLeechId == {l1, l2}
MCPeerLists == {<<p1>>, <<p1, p2>>}
MCOnePeer == {<<p1>>}

Symmetry == Permutations(MCLeechId)
=============================================================================
