-------------------------------- MODULE MCRtp --------------------------------
(* Rtp with two services, two recording loops and two peers.                *)
EXTENDS Rtp

MCPeers == {"alice", "bob"}
=============================================================================
