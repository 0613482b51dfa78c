---------------------------- MODULE MCPeerStreams ----------------------------
(* PeerStreams with a peer that may be deleted and registered once more.   *)
EXTENDS PeerStreams

MCIds == 1 .. 2
MCStreams == 1 .. 2
=============================================================================
