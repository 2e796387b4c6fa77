----------------------------- MODULE MCCtlSocket -----------------------------
(* One connection, which may time out once.                                  *)
EXTENDS CtlSocket
=============================================================================
