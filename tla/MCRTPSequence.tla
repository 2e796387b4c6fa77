---------------------------- MODULE MCRTPSequence ----------------------------
(* Numbers that wrap at ten, from three starts, through two wraps.          *)
EXTENDS RTPSequence
=============================================================================
