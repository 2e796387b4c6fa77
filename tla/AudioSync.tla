------------------------------ MODULE AudioSync ------------------------------
(***************************************************************************)
(* The audio path of the service: AudioSync's thread, which owns the       *)
(* player and the recorder and takes commands from a FIFO queue            *)
(* (utils/AudioSync.java); the stub calls that fill that queue and start   *)
(* and stop the recording loops (service/LocalCallService.java); and the   *)
(* user, who reaches them through CallActivity.                            *)
(*                                                                         *)
(* All stub calls come from the UI thread of the app, one at a time; every *)
(* step of a call interleaves with the audio thread and with the recording *)
(* loops.  The recorded frames wait in a queue of which FrameFifo is the   *)
(* abstraction: a poll may find nothing though a frame is there.           *)
(***************************************************************************)
EXTENDS Naturals, Sequences, SequencesExt, FiniteSets

CONSTANTS
    MaxVisits,  \* bound: times CallActivity comes to the front
    MaxPresses, \* bound: presses of the talk button
    MaxQueue    \* bound: recorded frames that wait at once

ASSUME BoundsAssumption == MaxVisits \in Nat /\ MaxPresses \in Nat /\ MaxQueue \in Nat

Recorders == 1 .. MaxPresses    \* recording loops, by the press that started them

VARIABLES
    call,           \* steps the running stub call has left
    cmds,           \* mCommandQueue
    stopRecorder,   \* flag of the service, read by every recording loop
    rtpSet,         \* mRtp # null
    audio,          \* where AudioSync's thread is
    interrupted,    \* its interrupt flag
    track, record,  \* mAudioTrack and mAudioRecord: null, initialised or not
    waiting,        \* number of recorded frames in mOutputFrameBufferQueue
    loop,           \* where each recording loop is
    crashed,        \* an exception nobody catches ended the process
    visits, presses,\* counted for the bounds
    front,          \* CallActivity is in front
    finger,         \* the talk button: up, recording or refused
    tidy,           \* history: no visit ended with the finger down
    sinceFlag       \* history: frames each loop sent since the flag was set

user == <<visits, presses, front, finger, tidy>>
thread == <<audio, interrupted, track, record>>
service == <<cmds, stopRecorder, rtpSet>>
loops == <<loop, sinceFlag>>
vars == <<call, service, thread, waiting, loops, crashed, user>>

Devices == {"null", "ready", "uninitialized"}
PlayerCommands == {"START_PLAYER", "STOP_PLAYER"}
RecorderCommands == {"START_RECORDER", "STOP_RECORDER"}
Command == PlayerCommands \cup RecorderCommands
CallSteps == Command \cup {"clearFlag", "setFlag", "spawn", "dropRtp", "interrupt"}

Init ==
    /\ call = <<>> /\ cmds = <<>>
    /\ stopRecorder = FALSE
    /\ rtpSet = TRUE
    /\ audio = "command" /\ interrupted = FALSE
    /\ track = "null" /\ record = "null"
    /\ waiting = 0
    /\ loop = [r \in Recorders |-> "new"]
    /\ crashed = FALSE
    /\ visits = 0 /\ presses = 0
    /\ front = FALSE /\ finger = "up"
    /\ tidy = TRUE
    /\ sinceFlag = [r \in Recorders |-> 0]

-----------------------------------------------------------------------------
(* The user.  Each gesture runs one stub call.                             *)

BeginCall(steps) ==
    /\ ~crashed /\ call = <<>> /\ rtpSet
    /\ call' = steps
    /\ UNCHANGED <<service, thread, waiting, loops, crashed>>

\* onResume of a CallActivity.
Enter ==
    /\ ~front /\ visits < MaxVisits
    /\ front' = TRUE /\ finger' = "up" /\ visits' = visits + 1
    /\ BeginCall(<<"START_PLAYER">>)
    /\ UNCHANGED <<presses, tidy>>

\* ACTION_DOWN: startRecorder(ip), which refuses a peer without an address.
Press(validIp) ==
    /\ front /\ finger = "up" /\ presses < MaxPresses
    /\ presses' = presses + 1
    /\ finger' = IF validIp THEN "recording" ELSE "refused"
    /\ BeginCall(IF validIp
                 THEN <<"clearFlag", "START_RECORDER", "spawn", "STOP_PLAYER">>
                 ELSE <<>>)
    /\ UNCHANGED <<visits, front, tidy>>

\* Mutant: STOP_RECORDER is forgotten.
ReleaseHalf ==
    /\ finger # "up"
    /\ finger' = "up"
    /\ BeginCall(<<"setFlag", "START_PLAYER">>)
    /\ UNCHANGED <<visits, presses, front, tidy>>

\* ACTION_UP or ACTION_CANCEL, which can still come after onPause.
Release ==
    /\ finger # "up"
    /\ finger' = "up"
    /\ BeginCall(<<"setFlag", "STOP_RECORDER", "START_PLAYER">>)
    /\ UNCHANGED <<visits, presses, front, tidy>>

\* onPause, whether or not the finger is down.
Leave ==
    /\ front
    /\ front' = FALSE
    /\ tidy' = (tidy /\ finger = "up")
    /\ BeginCall(<<"STOP_PLAYER">>)
    /\ UNCHANGED <<visits, presses, finger>>

\* The service's onDestroy: mRtp is released and cleared, then the audio
\* thread interrupted.  The flag of the recording loops is not set.
Destroy ==
    /\ ~front
    /\ BeginCall(<<"dropRtp", "interrupt">>)
    /\ UNCHANGED user

-----------------------------------------------------------------------------
(* The steps of a stub call.                                               *)

StartLoop ==
    /\ loop' = [loop EXCEPT ![presses] = "test"]
    /\ UNCHANGED sinceFlag

CallStep ==
    /\ ~crashed /\ call # <<>>
    /\ call' = Tail(call)
    /\ LET step == Head(call) IN
        /\ cmds' = IF step \in Command THEN Append(cmds, step) ELSE cmds
        /\ stopRecorder' = CASE step = "setFlag" -> TRUE
                             [] step = "clearFlag" -> FALSE
                             [] OTHER -> stopRecorder
        /\ rtpSet' = (rtpSet /\ step # "dropRtp")
        /\ interrupted' = (interrupted \/ step = "interrupt")
        /\ CASE step = "spawn" -> StartLoop
             [] step = "setFlag" -> sinceFlag' = [r \in Recorders |-> 0] /\ UNCHANGED loop
             [] OTHER -> UNCHANGED loops
    /\ UNCHANGED <<audio, track, record, waiting, crashed, user>>

-----------------------------------------------------------------------------
(* AudioSync's thread: run().                                              *)

AudioAt(from, to) == ~crashed /\ audio = from /\ audio' = to

\* Starting a device that is ready does nothing; otherwise it becomes ready,
\* or its play() or startRecording() throws.  Stopping needs it ready.
Started == {"ready", "uninitialized"}
Stopped(device) == IF device = "ready" THEN "null" ELSE device

ProcessCommand(cmd) ==
    CASE cmd = "START_PLAYER" ->
            track' \in (IF track = "ready" THEN {track} ELSE Started) /\ UNCHANGED record
      [] cmd = "STOP_PLAYER" ->
            track' = Stopped(track) /\ UNCHANGED record
      [] cmd = "START_RECORDER" ->
            record' \in (IF record = "ready" THEN {record} ELSE Started) /\ UNCHANGED track
      [] cmd = "STOP_RECORDER" ->
            record' = Stopped(record) /\ UNCHANGED track

\* while (!isInterrupted()): one command is taken if there is one.  A device
\* left uninitialised has thrown.
TakeCommand ==
    /\ ~interrupted
    /\ IF cmds = <<>>
       THEN UNCHANGED <<cmds, track, record>>
       ELSE ProcessCommand(Head(cmds)) /\ cmds' = Tail(cmds)
    /\ IF "uninitialized" \in {track', record'}
       THEN AudioAt("command", "clear") ELSE AudioAt("command", "record")
    /\ UNCHANGED <<call, stopRecorder, rtpSet, interrupted, waiting, loops, crashed, user>>

\* Mutant: the interrupt is swallowed.
InterruptedSwallowed ==
    /\ interrupted
    /\ AudioAt("command", "record")
    /\ UNCHANGED <<call, service, interrupted, track, record, waiting, loops, crashed, user>>

Interrupted ==
    /\ interrupted
    /\ AudioAt("command", "clear")
    /\ UNCHANGED <<call, service, interrupted, track, record, waiting, loops, crashed, user>>

\* processRecoderData: a ready recorder yields a frame, or nothing.
ProcessRecorderData ==
    /\ AudioAt("record", "command")
    /\ \/ UNCHANGED waiting
       \/ record = "ready" /\ waiting < MaxQueue /\ waiting' = waiting + 1
    /\ UNCHANGED <<call, service, interrupted, track, record, loops, crashed, user>>

\* finally: the queues are emptied ...
ClearQueues ==
    /\ AudioAt("clear", "release")
    /\ cmds' = <<>>
    /\ waiting' = 0
    /\ UNCHANGED <<call, stopRecorder, rtpSet, interrupted, track, record, loops, crashed, user>>

\* Mutant: only the player is released.
ReleasePlayer ==
    /\ AudioAt("release", "done")
    /\ track' = Stopped(track)
    /\ UNCHANGED <<call, service, interrupted, record, waiting, loops, crashed, user>>

\* ... and the devices released.
ReleaseDevices ==
    /\ AudioAt("release", "done")
    /\ track' = Stopped(track)
    /\ record' = Stopped(record)
    /\ UNCHANGED <<call, service, interrupted, waiting, loops, crashed, user>>

AudioStep == TakeCommand \/ Interrupted \/ ProcessRecorderData \/ ClearQueues \/ ReleaseDevices

-----------------------------------------------------------------------------
(* A recording loop: while (!stopRecorder) take a frame and send it.       *)

LoopAt(r, from, to) == ~crashed /\ loop[r] = from /\ loop' = [loop EXCEPT ![r] = to]

\* Mutant: while (true).
TestFlagNever(r) ==
    /\ LoopAt(r, "test", "poll")
    /\ UNCHANGED <<call, service, thread, waiting, sinceFlag, crashed, user>>

TestFlag(r) ==
    /\ IF stopRecorder THEN LoopAt(r, "test", "end") ELSE LoopAt(r, "test", "poll")
    /\ UNCHANGED <<call, service, thread, waiting, sinceFlag, crashed, user>>

\* data = mAudioSync.readDataFromRecorder()
PollFrame(r) ==
    /\ \/ /\ LoopAt(r, "poll", "check")
          /\ waiting > 0 /\ waiting' = waiting - 1
       \/ LoopAt(r, "poll", "test") /\ UNCHANGED waiting
    /\ UNCHANGED <<call, service, thread, sinceFlag, crashed, user>>

\* if (mRtp != null && data != null)
CheckRtp(r) ==
    /\ IF rtpSet THEN LoopAt(r, "check", "write") ELSE LoopAt(r, "check", "test")
    /\ UNCHANGED <<call, service, thread, waiting, sinceFlag, crashed, user>>

\* mRtp.write(data): the field is read again, and may have become null.
WriteFrame(r) ==
    /\ LoopAt(r, "write", "test")
    /\ crashed' = ~rtpSet
    /\ sinceFlag' = [sinceFlag EXCEPT ![r] = IF stopRecorder THEN @ + 1 ELSE @]
    /\ UNCHANGED <<call, service, thread, waiting, user>>

LoopStep(r) == TestFlag(r) \/ PollFrame(r) \/ CheckRtp(r) \/ WriteFrame(r)

-----------------------------------------------------------------------------
Next ==
    \/ Enter \/ Release \/ Leave \/ Destroy
    \/ \E validIp \in BOOLEAN : Press(validIp)
    \/ CallStep
    \/ AudioStep
    \/ \E r \in Recorders : LoopStep(r)

(* Threads run and calls return.  The user owes nothing.                    *)
Fairness ==
    /\ WF_vars(CallStep)
    /\ WF_vars(AudioStep)
    /\ \A r \in Recorders : WF_vars(LoopStep(r))

Spec == Init /\ [][Next]_vars /\ Fairness

-----------------------------------------------------------------------------
(* Every variable stays in its range.                                      *)
TypeOK ==
    /\ call \in Seq(CallSteps) /\ cmds \in Seq(Command)
    /\ stopRecorder \in BOOLEAN /\ rtpSet \in BOOLEAN
    /\ audio \in {"command", "record", "clear", "release", "done"}
    /\ interrupted \in BOOLEAN
    /\ track \in Devices /\ record \in Devices
    /\ waiting \in 0 .. MaxQueue
    /\ loop \in [Recorders -> {"new", "test", "poll", "check", "write", "end"}]
    /\ crashed \in BOOLEAN
    /\ visits \in 0 .. MaxVisits /\ presses \in 0 .. MaxPresses
    /\ front \in BOOLEAN /\ finger \in {"up", "recording", "refused"}
    /\ tidy \in BOOLEAN
    /\ sinceFlag \in [Recorders -> Nat]

(* Once the calls and the commands of the user's gestures have been worked  *)
(* off, the microphone records exactly while the button is held and the     *)
(* player is on exactly in a call that is not talking: true for users whose *)
(* finger is up whenever CallActivity leaves the screen.                    *)
SettledDevices ==
    tidy /\ call = <<>> /\ cmds = <<>> /\ audio \in {"command", "record"} =>
        /\ record = "ready" <=> finger = "recording"
        /\ track = "ready" <=> front /\ finger # "recording"

(* Why they settle: whatever is still to come of the running call and of    *)
(* the command queue, its last start or stop is the one the gestures ask    *)
(* for, or there is none and the device already is as they ask.             *)
LastStarts(s, start, stop) ==
    \E i \in 1 .. Len(s) : s[i] = start /\ \A j \in i + 1 .. Len(s) : s[j] # stop

NeverStops(s, stop) == \A i \in 1 .. Len(s) : s[i] # stop

WillRun(start, stop, device) ==
    \/ LastStarts(call, start, stop)
    \/ /\ NeverStops(call, stop)
       /\ \/ LastStarts(cmds, start, stop)
          \/ NeverStops(cmds, stop) /\ device = "ready"

SettledInv ==
    tidy =>
        /\ finger # "up" => front
        /\ audio \in {"command", "record"} =>
            /\ WillRun("START_RECORDER", "STOP_RECORDER", record) <=> finger = "recording"
            /\ WillRun("START_PLAYER", "STOP_PLAYER", track) <=> front /\ finger # "recording"

(* When the audio thread has ended, by interrupt or by a device that        *)
(* failed, neither device stays open, whatever commands were still waiting. *)
ReleasedWhenDone == audio = "done" => track # "ready" /\ record # "ready"

(* While the stop flag stays set, a recording loop sends at most one frame. *)
SendBound == stopRecorder => \A r \in Recorders : sinceFlag[r] <= 1

(* The bound by location: a loop that saw the flag unset may still have     *)
(* one frame on its way.                                                    *)
SendInv ==
    stopRecorder => \A r \in Recorders :
        IF loop[r] \in {"test", "end"} THEN sinceFlag[r] <= 1 ELSE sinceFlag[r] = 0

(* onDestroy ends the audio thread, unless a recording loop that nobody     *)
(* stopped crashes the process first.                                       *)
InterruptEndsAudio == interrupted ~> (audio = "done" \/ crashed)

(* If the flag stays set every recording loop ends.                         *)
LoopsEnd ==
    <>[](stopRecorder /\ ~crashed) =>
        \A r \in Recorders : [](loop[r] # "new" => <>(loop[r] = "end"))

(* Nothing is left running once it was told to end.                         *)
ThreadsEnd == InterruptEndsAudio /\ LoopsEnd
=============================================================================
