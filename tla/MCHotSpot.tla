------------------------------ MODULE MCHotSpot ------------------------------
(* HotSpot with two attempts of either kind and timers that poll twice.     *)
EXTENDS HotSpot
=============================================================================
