------------------------------- MODULE MCCall -------------------------------
(* Two phones, either of which calls the other once, with presses of the    *)
(* talk button and leaves of the foreground.                                *)
EXTENDS Call
=============================================================================
