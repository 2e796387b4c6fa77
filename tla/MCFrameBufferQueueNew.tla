----------------------- MODULE MCFrameBufferQueueNew -------------------------
(* Either queue with its threads: one consumer, or two when a released and  *)
(* pressed talk button leaves a second recording loop running.              *)
EXTENDS FrameBufferQueueNew
=============================================================================
