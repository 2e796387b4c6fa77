----------------------------- MODULE MCAudioSync -----------------------------
(* AudioSync with bounds small enough to check: two visits of the call      *)
(* screen, two presses of the talk button and one waiting frame.            *)
EXTENDS AudioSync
=============================================================================
