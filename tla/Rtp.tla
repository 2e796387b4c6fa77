--------------------------------- MODULE Rtp ---------------------------------
(***************************************************************************)
(* The RTP session from the service down to the native glue (jni/Rtp.java, *)
(* rtp.cpp, customrtp.cpp, customrtpsession.cpp).                          *)
(*                                                                         *)
(* The service makes an Rtp in onCreate and gives it up in onDestroy; the  *)
(* next bind makes the next service in the same process.  Each Rtp holds   *)
(* the address of a native object, whose session has a poll thread that    *)
(* delivers received frames through one static callback.  Recording loops  *)
(* go on writing to the Rtp of their service on threads of their own; the  *)
(* flag that stops them is the subject of AudioSync, here they may end at  *)
(* any time.                                                               *)
(***************************************************************************)
EXTENDS Naturals

CONSTANTS
    MaxServices,    \* bound: services, one after the other
    MaxLoops,       \* bound: recording loops
    Peers           \* phones one may talk to

ASSUME BoundsAssumption == MaxServices \in Nat /\ MaxLoops \in Nat

Services == 1 .. MaxServices
Loops == 1 .. MaxLoops

VARIABLES
    svc,            \* how far a service's onCreate and onDestroy are
    mRtp,           \* the service's field is set
    mJavaRtp,       \* the field of the Rtp: the address, or 0
    object,         \* the native object
    dests,          \* the session's destinations
    poll,           \* the session's poll thread
    mIDataCallback, \* static: the service whose callback it is, or 0
    loop,           \* where a recording loop is
    loopOf,         \* the service and the peer a loop was started for
    alive,          \* the process
    deletes         \* history: how often a native object was deleted

fields == <<mRtp, mJavaRtp>>
native == <<object, dests, deletes>>
loops == <<loop, loopOf>>
vars == <<svc, fields, native, poll, mIDataCallback, loops, alive>>

SvcStates == {"none", "opened", "running", "closing", "closed", "released", "destroyed"}
ObjectStates == {"none", "made", "open", "closed", "deleted"}
PollLocs == {"off", "test", "wait", "deliver"}
LoopLocs == {"none", "loop", "write", "use", "done"}

Init ==
    /\ svc = [s \in Services |-> "none"]
    /\ mRtp = [s \in Services |-> FALSE]
    /\ mJavaRtp = [s \in Services |-> FALSE]
    /\ object = [s \in Services |-> "none"]
    /\ dests = [s \in Services |-> {}]
    /\ poll = [s \in Services |-> "off"]
    /\ mIDataCallback = 0
    /\ loop = [l \in Loops |-> "none"]
    /\ loopOf \in [Loops -> [service : Services, peer : Peers]]
    /\ alive = TRUE
    /\ deletes = [s \in Services |-> 0]

SvcGoto(s, from, to) == alive /\ svc[s] = from /\ svc' = [svc EXCEPT ![s] = to]

-----------------------------------------------------------------------------
(* The service's main thread.                                              *)

\* onCreate: new Rtp() makes the native object; openRtp creates the session,
\* or returns false when that fails (the port is in use).
OpenRtp(s) ==
    /\ SvcGoto(s, "none", "opened")
    /\ \A t \in Services : t < s => svc[t] = "destroyed"
    /\ mRtp' = [mRtp EXCEPT ![s] = TRUE]
    /\ mJavaRtp' = [mJavaRtp EXCEPT ![s] = TRUE]
    /\ \/ /\ object' = [object EXCEPT ![s] = "open"]
          /\ poll' = [poll EXCEPT ![s] = "test"]
       \/ /\ object' = [object EXCEPT ![s] = "made"]
          /\ UNCHANGED poll
    /\ UNCHANGED <<dests, deletes, mIDataCallback, loops, alive>>

\* Mutant: the first callback stays.
SetCallbackOnce(s) ==
    /\ SvcGoto(s, "opened", "running")
    /\ mIDataCallback' = IF mIDataCallback = 0 THEN s ELSE mIDataCallback
    /\ UNCHANGED <<fields, native, poll, loops, alive>>

\* ... and then the callback is set.
SetCallback(s) ==
    /\ SvcGoto(s, "opened", "running")
    /\ mIDataCallback' = s
    /\ UNCHANGED <<fields, native, poll, loops, alive>>

\* onDestroy: closeRtp throws if openRtp had failed, which ends the process;
\* else it stops the poll thread ...
CloseRtp(s) ==
    /\ SvcGoto(s, "running", "closing")
    /\ alive' = (object[s] = "open")
    /\ UNCHANGED <<fields, native, poll, mIDataCallback, loops>>

\* Mutant: the session is closed and its thread left alone.
CloseRtpNoWait(s) ==
    /\ SvcGoto(s, "closing", "closed")
    /\ object' = [object EXCEPT ![s] = "closed"]
    /\ UNCHANGED <<fields, dests, deletes, poll, mIDataCallback, loops, alive>>

\* ... and waits for it before the session goes (BYEDestroy).
CloseRtpDone(s) ==
    /\ SvcGoto(s, "closing", "closed")
    /\ poll[s] = "off"
    /\ object' = [object EXCEPT ![s] = "closed"]
    /\ UNCHANGED <<fields, dests, deletes, poll, mIDataCallback, loops, alive>>

\* setJavaRtp with 0, under the lock: the old object is deleted.
SetJavaRtp(s) ==
    /\ IF mJavaRtp[s]
       THEN /\ object' = [object EXCEPT ![s] = "deleted"]
            /\ deletes' = [deletes EXCEPT ![s] = @ + 1]
       ELSE UNCHANGED <<object, deletes>>
    /\ mJavaRtp' = [mJavaRtp EXCEPT ![s] = FALSE]
    /\ UNCHANGED dests

NativeRelease(s) ==
    /\ SvcGoto(s, "closed", "released")
    /\ SetJavaRtp(s)
    /\ UNCHANGED <<mRtp, poll, mIDataCallback, loops, alive>>

ClearRtp(s) ==
    /\ SvcGoto(s, "released", "destroyed")
    /\ mRtp' = [mRtp EXCEPT ![s] = FALSE]
    /\ UNCHANGED <<mJavaRtp, native, poll, mIDataCallback, loops, alive>>

\* The finalizer releases once more.  The static callback keeps its service
\* and all it refers to; a loop in write() keeps the Rtp.
Finalize(s) ==
    /\ alive
    /\ svc[s] = "destroyed" /\ mIDataCallback # s
    /\ \A l \in Loops : loop[l] \notin {"none", "done"} => loopOf[l].service # s
    /\ SetJavaRtp(s)
    /\ UNCHANGED <<svc, mRtp, poll, mIDataCallback, loops, alive>>

-----------------------------------------------------------------------------
(* Recording.                                                              *)

\* Mutant: the destination of the last call is replaced.
AddDestinationOnly(s, p) ==
    dests' = IF object[s] = "open" THEN [dests EXCEPT ![s] = {p}] ELSE dests

\* addRtpDestinationIp: refused by a session that was not created.
AddDestination(s, p) ==
    dests' = IF object[s] = "open" THEN [dests EXCEPT ![s] = @ \cup {p}] ELSE dests

\* startRecorder, called while the service is bound: the peer becomes a
\* destination for good, and a loop starts.
StartRecorder(s, l, p) ==
    /\ alive /\ svc[s] = "running"
    /\ loop[l] = "none"
    /\ AddDestination(s, p)
    /\ loop' = [loop EXCEPT ![l] = "loop"]
    /\ loopOf' = [loopOf EXCEPT ![l] = [service |-> s, peer |-> p]]
    /\ UNCHANGED <<svc, fields, object, deletes, poll, mIDataCallback, alive>>

LoopGoto(l, from, to) == alive /\ loop[l] = from /\ loop' = [loop EXCEPT ![l] = to]

\* The loop sees its flag, or has a frame and finds mRtp set.
CheckRtp(l) ==
    /\ \/ LoopGoto(l, "loop", "done")
       \/ mRtp[loopOf[l].service] /\ LoopGoto(l, "loop", "write")
    /\ UNCHANGED <<svc, fields, native, poll, mIDataCallback, loopOf, alive>>

\* mRtp is read again, and write() takes the address, both maybe gone: the
\* exception ends the process.
GetJavaRtp(l) ==
    LET s == loopOf[l].service IN
    /\ LoopGoto(l, "write", "use")
    /\ alive' = (mRtp[s] /\ mJavaRtp[s])
    /\ UNCHANGED <<svc, fields, native, poll, mIDataCallback, loopOf>>

\* The frame is sent, is not speech, or is refused by a closed session.  If
\* the object has been deleted since, the process may end.
Write(l) ==
    /\ LoopGoto(l, "use", "loop")
    /\ \/ UNCHANGED alive
       \/ object[loopOf[l].service] = "deleted" /\ alive' = FALSE
    /\ UNCHANGED <<svc, fields, native, poll, mIDataCallback, loopOf>>

-----------------------------------------------------------------------------
(* The poll thread.                                                        *)

PollGoto(s, from, to) == alive /\ poll[s] = from /\ poll' = [poll EXCEPT ![s] = to]

\* RTPPollThread::Thread: between steps the thread looks whether it shall stop.
\* (RTPSession has Stop, and what it waits for, in detail.)
PollTest(s) ==
    /\ IF svc[s] = "closing" THEN PollGoto(s, "test", "off") ELSE PollGoto(s, "test", "wait")
    /\ UNCHANGED <<svc, fields, native, mIDataCallback, loops, alive>>

\* WaitForIncomingData, Poll and ProcessPolledData: a frame, nothing, or an error,
\* which ends the thread.
PollWait(s) ==
    /\ \E to \in {"deliver", "test", "off"} : PollGoto(s, "wait", to)
    /\ UNCHANGED <<svc, fields, native, mIDataCallback, loops, alive>>

\* OnPollThreadStep hands each frame to the callback.
Deliver(s) ==
    /\ PollGoto(s, "deliver", "test")
    /\ UNCHANGED <<svc, fields, native, mIDataCallback, loops, alive>>

-----------------------------------------------------------------------------

CreateStep(s) == OpenRtp(s) \/ SetCallback(s)
DestroyStep(s) == CloseRtpDone(s) \/ NativeRelease(s) \/ ClearRtp(s)
LoopStep(l) == CheckRtp(l) \/ GetJavaRtp(l) \/ Write(l)
PollStep(s) == PollTest(s) \/ PollWait(s) \/ Deliver(s)

Next ==
    \/ \E s \in Services :
          \/ CreateStep(s) \/ CloseRtp(s) \/ DestroyStep(s) \/ Finalize(s) \/ PollStep(s)
          \/ \E l \in Loops, p \in Peers : StartRecorder(s, l, p)
    \/ \E l \in Loops : LoopStep(l)

Spec == Init /\ [][Next]_vars

-----------------------------------------------------------------------------
(* Properties.                                                             *)

\* The variables keep their types, and a native object is deleted once at most,
\* though onDestroy and the finalizer both release it.
TypeOK ==
    /\ svc \in [Services -> SvcStates]
    /\ mRtp \in [Services -> BOOLEAN]
    /\ mJavaRtp \in [Services -> BOOLEAN]
    /\ object \in [Services -> ObjectStates]
    /\ dests \in [Services -> SUBSET Peers]
    /\ poll \in [Services -> PollLocs]
    /\ mIDataCallback \in 0 .. MaxServices
    /\ loop \in [Loops -> LoopLocs]
    /\ loopOf \in [Loops -> [service : Services, peer : Peers]]
    /\ alive \in BOOLEAN
    /\ deletes \in [Services -> {0, 1}]

\* A poll thread uses its native object from the callback without a lock: the
\* object is there, however onDestroy comes in between.
PollThreadSafe == \A s \in Services : poll[s] # "off" => object[s] = "open"

\* A frame is heard by the service whose session received it, though the
\* callback is static; only between openRtp and setCallback it is not.
PlaysOwnFrames ==
    \A s \in Services : poll[s] = "deliver" /\ svc[s] # "opened" => mIDataCallback = s

\* What a loop says while the session is open reaches the peer the button was
\* pressed for, whoever else was called since.
SpeechReachesPeer ==
    \A l \in Loops :
        loop[l] = "use" /\ object[loopOf[l].service] = "open"
            => loopOf[l].peer \in dests[loopOf[l].service]
=============================================================================
