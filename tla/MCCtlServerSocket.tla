--------------------------- MODULE MCCtlServerSocket -------------------------
(* CtlServerSocket with two clients: close() may come before, between and   *)
(* after their connections.                                                 *)
EXTENDS CtlServerSocket
=============================================================================
