---------------------------- MODULE MCRTPSession ----------------------------
(* A session, two recording loops and a collision.                          *)
EXTENDS RTPSession
=============================================================================
