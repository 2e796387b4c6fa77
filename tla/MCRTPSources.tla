---------------------------- MODULE MCRTPSources ----------------------------
(* One peer that moves, restarts or says BYE, and three SSRCs.              *)
EXTENDS RTPSources
=============================================================================
