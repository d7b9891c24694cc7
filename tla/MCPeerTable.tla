---------------------------- MODULE MCPeerTable ----------------------------
(* Three nodes, two slots and two cache entries: both tables overflow.       *)
EXTENDS PeerTable
McNodes == {1, 2, 3}
=============================================================================
