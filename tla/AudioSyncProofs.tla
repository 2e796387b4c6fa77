--------------------------- MODULE AudioSyncProofs ---------------------------
(* Proofs about the audio path, for any number of visits and presses and    *)
(* any length of the frame queue: its types, what a recording loop still    *)
(* sends after it was told to stop, that the devices are given back, and    *)
(* that they settle as the gestures ask.  And, in the second half, about the *)
(* queue that the playing thread polls: its types; that it hands frames out *)
(* in order and once, whatever its counter does and however many threads    *)
(* poll; and that the counter of the playing queue never goes negative.     *)
EXTENDS AudioSync, FrameBufferQueueNew, TLAPS

\* The types hold at the start.
LEMMA TypeInit == Init => TypeOK
<1> SUFFICES ASSUME Init PROVE TypeOK
  OBVIOUS
<1>1. call \in Seq(CallSteps) /\ cmds \in Seq(Command)
  BY DEF Init
<1>2. waiting \in 0 .. MaxQueue /\ visits \in 0 .. MaxVisits /\ presses \in 0 .. MaxPresses
  BY BoundsAssumption DEF Init
<1> QED
  BY <1>1, <1>2 DEF Init, TypeOK, Devices

(* The gestures of the user, and onDestroy, keep the types.                 *)
LEMMA TypeUser ==
    ASSUME TypeOK,
           Enter \/ Release \/ Leave \/ Destroy \/ (\E v \in BOOLEAN : Press(v))
    PROVE  TypeOK'
<1> USE BoundsAssumption DEF TypeOK, service, thread, loops, user
<1> DEFINE Keeps == UNCHANGED <<service, thread, waiting, loops, crashed>>
<1>1. /\ <<>> \in Seq(CallSteps) /\ <<"START_PLAYER">> \in Seq(CallSteps)
      /\ <<"STOP_PLAYER">> \in Seq(CallSteps)
      /\ <<"dropRtp", "interrupt">> \in Seq(CallSteps)
      /\ <<"setFlag", "STOP_RECORDER", "START_PLAYER">> \in Seq(CallSteps)
      /\ <<"clearFlag", "START_RECORDER", "spawn", "STOP_PLAYER">> \in Seq(CallSteps)
  BY DEF CallSteps, Command, PlayerCommands, RecorderCommands
<1>2. CASE Enter
  BY <1>1, <1>2 DEF Enter, BeginCall
<1>3. CASE Release
  BY <1>1, <1>3 DEF Release, BeginCall
<1>4. CASE Leave
  BY <1>1, <1>4 DEF Leave, BeginCall
<1>5. CASE Destroy
  BY <1>1, <1>5 DEF Destroy, BeginCall
<1>6. ASSUME NEW v \in BOOLEAN, Press(v) PROVE TypeOK'
  <2>1. call' \in Seq(CallSteps) /\ Keeps
    BY <1>1, <1>6 DEF Press, BeginCall
  <2>2. /\ presses' \in 0 .. MaxPresses /\ finger' \in {"up", "recording", "refused"}
        /\ UNCHANGED <<visits, front, tidy>>
    BY <1>6 DEF Press
  <2> QED
    BY <2>1, <2>2
<1> QED
  BY <1>2, <1>3, <1>4, <1>5, <1>6

(* A step of a stub call keeps the types.                                   *)
LEMMA TypeCall ==
    ASSUME TypeOK, CallStep
    PROVE  TypeOK'
<1> USE DEF TypeOK, user, loops
<1>1. Head(call) \in CallSteps /\ call' \in Seq(CallSteps)
  BY DEF CallStep
<1>2. cmds' \in Seq(Command)
  BY <1>1 DEF CallStep
<1>3. stopRecorder' \in BOOLEAN
  BY DEF CallStep
<1>4. rtpSet' \in BOOLEAN /\ interrupted' \in BOOLEAN
  BY DEF CallStep
<1>5. loop' \in [Recorders -> {"new", "test", "poll", "check", "write", "end"}]
  BY DEF CallStep, StartLoop
<1>6. sinceFlag' \in [Recorders -> Nat]
  BY DEF CallStep, StartLoop
<1>7. UNCHANGED <<audio, track, record, waiting, crashed, user>>
  BY DEF CallStep
<1> QED
  BY <1>1, <1>2, <1>3, <1>4, <1>5, <1>6, <1>7

(* A step of AudioSync's thread keeps the types.                            *)
LEMMA TypeAudio ==
    ASSUME TypeOK, AudioStep
    PROVE  TypeOK'
<1> USE BoundsAssumption DEF TypeOK, user, loops, service, AudioAt
<1>1. CASE TakeCommand
  <2>1. cmds' \in Seq(Command)
    <3>1. CASE cmds = <<>>
      BY <1>1, <3>1 DEF TakeCommand
    <3>2. CASE cmds # <<>>
      <4>1. cmds' = Tail(cmds)
        BY <1>1, <3>2 DEF TakeCommand
      <4> QED
        BY <4>1, <3>2
    <3> QED
      BY <3>1, <3>2
  <2>2. track' \in Devices /\ record' \in Devices
    <3>1. CASE cmds = <<>>
      BY <1>1, <3>1 DEF TakeCommand
    <3>2. CASE cmds # <<>>
      <4>1. Head(cmds) \in Command /\ ProcessCommand(Head(cmds))
        BY <1>1, <3>2 DEF TakeCommand
      <4>2. Started \subseteq Devices /\ \A d \in Devices : Stopped(d) \in Devices
        BY DEF Started, Stopped, Devices
      <4>3. /\ Head(cmds) = "START_PLAYER" => track' \in Devices /\ record' = record
            /\ Head(cmds) = "STOP_PLAYER" => track' \in Devices /\ record' = record
            /\ Head(cmds) = "START_RECORDER" => record' \in Devices /\ track' = track
            /\ Head(cmds) = "STOP_RECORDER" => record' \in Devices /\ track' = track
        BY <4>1, <4>2 DEF ProcessCommand
      <4> QED
        BY <4>1, <4>3 DEF Command, PlayerCommands, RecorderCommands
    <3> QED
      BY <3>1, <3>2
  <2>3. audio' = "clear" \/ audio' = "record"
    <3>1. AudioAt("command", "clear") \/ AudioAt("command", "record")
      BY <1>1 DEF TakeCommand
    <3> QED
      BY <3>1
  <2> QED
    BY <1>1, <2>1, <2>2, <2>3 DEF TakeCommand
<1>2. CASE Interrupted
  BY <1>2 DEF Interrupted
<1>3. CASE ProcessRecorderData
  BY <1>3 DEF ProcessRecorderData
<1>4. CASE ClearQueues
  BY <1>4 DEF ClearQueues
<1>5. CASE ReleaseDevices
  BY <1>5 DEF ReleaseDevices, Stopped, Devices
<1> QED
  BY <1>1, <1>2, <1>3, <1>4, <1>5 DEF AudioStep

(* A step of a recording loop keeps the types.                              *)
LEMMA TypeLoop ==
    ASSUME TypeOK, NEW r \in Recorders, LoopStep(r)
    PROVE  TypeOK'
<1> USE BoundsAssumption DEF TypeOK, user, thread, service, LoopAt
<1>1. CASE TestFlag(r)
  BY <1>1 DEF TestFlag
<1>2. CASE PollFrame(r)
  <2>1. waiting' \in 0 .. MaxQueue
    BY <1>2 DEF PollFrame
  <2>2. loop' \in [Recorders -> {"new", "test", "poll", "check", "write", "end"}]
    BY <1>2 DEF PollFrame
  <2> QED
    BY <1>2, <2>1, <2>2 DEF PollFrame
<1>3. CASE CheckRtp(r)
  BY <1>3 DEF CheckRtp
<1>4. CASE WriteFrame(r)
  BY <1>4 DEF WriteFrame
<1> QED
  BY <1>1, <1>2, <1>3, <1>4 DEF LoopStep

\* Every step keeps the types.
LEMMA TypeStep == TypeOK /\ [Next]_vars => TypeOK'
<1> SUFFICES ASSUME TypeOK, [Next]_vars PROVE TypeOK'
  OBVIOUS
<1>1. CASE UNCHANGED vars
  BY <1>1 DEF TypeOK, vars, user, thread, service, loops
<1> QED
  BY <1>1, TypeUser, TypeCall, TypeAudio, TypeLoop DEF Next

(* The variables of the audio path keep their types.                        *)
THEOREM TypeCorrect == Spec => []TypeOK
  BY TypeInit, TypeStep, PTL DEF Spec

-----------------------------------------------------------------------------
(* What a recording loop still sends.                                       *)

\* Every step keeps the bound on late sends and what supports it.
LEMMA SendStep ==
    ASSUME TypeOK, SendInv, [Next]_vars
    PROVE  SendInv'
<1> USE DEF SendInv, TypeOK
<1>1. ASSUME UNCHANGED <<stopRecorder, loops>> PROVE SendInv'
  BY <1>1 DEF loops
<1>2. CASE Enter \/ Release \/ Leave \/ Destroy \/ (\E v \in BOOLEAN : Press(v))
  BY <1>1, <1>2 DEF Enter, Release, Leave, Destroy, Press, BeginCall, service
<1>3. CASE CallStep
  <2>1. CASE Head(call) = "setFlag"
    <3>1. sinceFlag' = [r \in Recorders |-> 0]
      BY <1>3, <2>1 DEF CallStep
    <3> QED
      BY <3>1
  <2>2. CASE Head(call) = "spawn"
    <3>1. StartLoop /\ stopRecorder' = stopRecorder
      BY <1>3, <2>2 DEF CallStep
    <3> QED
      BY <3>1 DEF StartLoop
  <2>3. CASE Head(call) = "clearFlag"
    BY <1>3, <2>3 DEF CallStep
  <2>4. CASE Head(call) \notin {"setFlag", "spawn", "clearFlag"}
    BY <1>1, <1>3, <2>4 DEF CallStep
  <2> QED
    BY <2>1, <2>2, <2>3, <2>4
<1>4. CASE AudioStep
  BY <1>1, <1>4 DEF AudioStep, TakeCommand, Interrupted, ProcessRecorderData,
                    ClearQueues, ReleaseDevices, service
<1>5. ASSUME NEW r \in Recorders, TestFlag(r) PROVE SendInv'
  BY <1>5 DEF TestFlag, LoopAt, service
<1>6. ASSUME NEW r \in Recorders, PollFrame(r) PROVE SendInv'
  BY <1>6 DEF PollFrame, LoopAt, service
<1>7. ASSUME NEW r \in Recorders, CheckRtp(r) PROVE SendInv'
  BY <1>7 DEF CheckRtp, LoopAt, service
<1>8. ASSUME NEW r \in Recorders, WriteFrame(r) PROVE SendInv'
  BY <1>8 DEF WriteFrame, LoopAt, service
<1>9. CASE UNCHANGED vars
  BY <1>1, <1>9 DEF vars, service
<1> QED
  BY <1>2, <1>3, <1>4, <1>5, <1>6, <1>7, <1>8, <1>9 DEF Next, LoopStep

(* However the stub calls, the audio thread and any number of recording     *)
(* loops interleave: a loop sends at most one frame while the flag is set.  *)
THEOREM SendBounded == Spec => []SendBound
<1>1. Init => SendInv
  BY DEF Init, SendInv
<1>2. TypeOK /\ SendInv /\ [Next]_vars => SendInv'
  BY SendStep
<1>3. TypeOK /\ SendInv => SendBound
  BY DEF TypeOK, SendInv, SendBound
<1> QED
  BY <1>1, <1>2, <1>3, TypeCorrect, PTL DEF Spec

-----------------------------------------------------------------------------
(* The devices are given back.                                              *)

\* Every step keeps the devices released once the thread is done.
LEMMA ReleasedStep ==
    ASSUME TypeOK, ReleasedWhenDone, [Next]_vars
    PROVE  ReleasedWhenDone'
<1> USE DEF ReleasedWhenDone, AudioAt
<1>1. ASSUME UNCHANGED <<audio, track, record>> PROVE ReleasedWhenDone'
  BY <1>1
<1>2. CASE Enter \/ Release \/ Leave \/ Destroy \/ (\E v \in BOOLEAN : Press(v))
  BY <1>1, <1>2 DEF Enter, Release, Leave, Destroy, Press, BeginCall, thread
<1>3. CASE CallStep
  BY <1>1, <1>3 DEF CallStep
<1>4. CASE TakeCommand
  BY <1>4 DEF TakeCommand
<1>5. CASE Interrupted \/ ProcessRecorderData \/ ClearQueues
  BY <1>5 DEF Interrupted, ProcessRecorderData, ClearQueues
<1>6. CASE ReleaseDevices
  BY <1>6 DEF ReleaseDevices, Stopped
<1>7. ASSUME NEW r \in Recorders, LoopStep(r) PROVE ReleasedWhenDone'
  BY <1>1, <1>7 DEF LoopStep, TestFlag, PollFrame, CheckRtp, WriteFrame, thread
<1>8. CASE UNCHANGED vars
  BY <1>1, <1>8 DEF vars, thread
<1> QED
  BY <1>2, <1>3, <1>4, <1>5, <1>6, <1>7, <1>8 DEF Next, AudioStep

(* Once the audio thread has ended, neither the microphone nor the player   *)
(* is open, whatever was still in the command queue and whoever goes on.    *)
THEOREM Released == Spec => []ReleasedWhenDone
<1>1. Init => ReleasedWhenDone
  BY DEF Init, ReleasedWhenDone
<1>2. TypeOK /\ ReleasedWhenDone /\ [Next]_vars => ReleasedWhenDone'
  BY ReleasedStep
<1> QED
  BY <1>1, <1>2, TypeCorrect, PTL DEF Spec

-----------------------------------------------------------------------------
(* The devices settle.                                                      *)

\* What the first command of a sequence, and one added at its end, mean for its
\* last start or stop.
LEMMA HeadDecides ==
    ASSUME NEW S, NEW s \in Seq(S), s # <<>>, NEW start, NEW stop
    PROVE  /\ LastStarts(s, start, stop) <=>
                \/ LastStarts(Tail(s), start, stop)
                \/ Head(s) = start /\ NeverStops(Tail(s), stop)
           /\ NeverStops(s, stop) <=> Head(s) # stop /\ NeverStops(Tail(s), stop)
<1> DEFINE t == Tail(s)
<1>1. /\ Len(s) \in Nat /\ Len(s) >= 1 /\ Len(t) = Len(s) - 1 /\ Head(s) = s[1]
      /\ \A i \in 1 .. Len(t) : t[i] = s[i + 1]
  OBVIOUS
<1> HIDE DEF t
<1>2. \A i \in 2 .. Len(s) : i - 1 \in 1 .. Len(t) /\ s[i] = t[i - 1]
  BY <1>1
<1>3. NeverStops(s, stop) <=> Head(s) # stop /\ NeverStops(t, stop)
  <2>1. ASSUME Head(s) # stop, NeverStops(t, stop), NEW i \in 1 .. Len(s) PROVE s[i] # stop
    BY <1>1, <1>2, <2>1 DEF NeverStops
  <2>2. ASSUME NeverStops(s, stop) PROVE Head(s) # stop /\ NeverStops(t, stop)
    BY <1>1, <2>2 DEF NeverStops
  <2> QED
    BY <2>1, <2>2 DEF NeverStops
<1>4. ASSUME LastStarts(t, start, stop) PROVE LastStarts(s, start, stop)
  <2>1. PICK i \in 1 .. Len(t) : t[i] = start /\ \A j \in i + 1 .. Len(t) : t[j] # stop
    BY <1>4 DEF LastStarts
  <2>2. i + 1 \in 1 .. Len(s) /\ s[i + 1] = start
    BY <1>1, <2>1
  <2>3. ASSUME NEW j \in (i + 1) + 1 .. Len(s) PROVE s[j] # stop
    <3>1. j \in 2 .. Len(s) /\ j - 1 \in i + 1 .. Len(t)
      BY <1>1
    <3> QED
      BY <1>2, <2>1, <3>1
  <2> QED
    BY <2>2, <2>3 DEF LastStarts
<1>5. ASSUME Head(s) = start, NeverStops(t, stop) PROVE LastStarts(s, start, stop)
  <2>1. ASSUME NEW j \in 1 + 1 .. Len(s) PROVE s[j] # stop
    BY <1>1, <1>2, <1>5 DEF NeverStops
  <2> QED
    BY <1>1, <1>5, <2>1 DEF LastStarts
<1>6. ASSUME LastStarts(s, start, stop)
      PROVE  LastStarts(t, start, stop) \/ (Head(s) = start /\ NeverStops(t, stop))
  <2>1. PICK i \in 1 .. Len(s) : s[i] = start /\ \A j \in i + 1 .. Len(s) : s[j] # stop
    BY <1>6 DEF LastStarts
  <2>2. ASSUME NEW j \in i .. Len(t) PROVE t[j] # stop
    BY <1>1, <2>1
  <2>3. CASE i = 1
    BY <1>1, <2>1, <2>2, <2>3 DEF NeverStops
  <2>4. CASE i # 1
    <3>1. i - 1 \in 1 .. Len(t) /\ t[i - 1] = start
      BY <1>2, <2>1, <2>4
    <3>2. \A j \in (i - 1) + 1 .. Len(t) : t[j] # stop
      BY <2>2
    <3> QED
      BY <3>1, <3>2 DEF LastStarts
  <2> QED
    BY <2>3, <2>4
<1> QED
  BY <1>3, <1>4, <1>5, <1>6 DEF t

\* The element added last decides if it is a start or a stop, and changes nothing
\* otherwise.
LEMMA LastDecides ==
    ASSUME NEW S, NEW s \in Seq(S), NEW x \in S, NEW start, NEW stop, start # stop
    PROVE  /\ LastStarts(Append(s, x), start, stop) <=>
                x = start \/ (x # stop /\ LastStarts(s, start, stop))
           /\ NeverStops(Append(s, x), stop) <=> x # stop /\ NeverStops(s, stop)
<1> DEFINE a == Append(s, x)
<1>1. /\ Len(s) \in Nat /\ Len(a) = Len(s) + 1 /\ a[Len(a)] = x
      /\ \A i \in 1 .. Len(s) : a[i] = s[i]
  OBVIOUS
<1> HIDE DEF a
<1>2. NeverStops(a, stop) <=> x # stop /\ NeverStops(s, stop)
  BY <1>1 DEF NeverStops
<1>3. ASSUME x = start PROVE LastStarts(a, start, stop)
  BY <1>1, <1>3 DEF LastStarts
<1>4. ASSUME x # stop, LastStarts(s, start, stop) PROVE LastStarts(a, start, stop)
  <2>1. PICK i \in 1 .. Len(s) : s[i] = start /\ \A j \in i + 1 .. Len(s) : s[j] # stop
    BY <1>4 DEF LastStarts
  <2>2. i \in 1 .. Len(a) /\ a[i] = start
    BY <1>1, <2>1
  <2>3. ASSUME NEW j \in i + 1 .. Len(a) PROVE a[j] # stop
    BY <1>1, <1>4, <2>1, <2>3
  <2> QED
    BY <2>2, <2>3 DEF LastStarts
<1>5. ASSUME LastStarts(a, start, stop), x # start
      PROVE  x # stop /\ LastStarts(s, start, stop)
  <2>1. PICK i \in 1 .. Len(a) : a[i] = start /\ \A j \in i + 1 .. Len(a) : a[j] # stop
    BY <1>5 DEF LastStarts
  <2>2. i \in 1 .. Len(s) /\ Len(a) \in i + 1 .. Len(a)
    BY <1>1, <1>5, <2>1
  <2>3. x # stop
    BY <1>1, <2>1, <2>2
  <2>4. s[i] = start /\ \A j \in i + 1 .. Len(s) : s[j] # stop
    BY <1>1, <2>1, <2>2
  <2> QED
    BY <2>2, <2>3, <2>4 DEF LastStarts
<1>6. x = start => x # stop
  OBVIOUS
<1> QED
  BY <1>2, <1>3, <1>4, <1>5, <1>6 DEF a

\* What is left of a call decides for a device: to run it, not to, or
\* nothing, so that it is as before if nothing else has changed.
Runs(s, start, stop) == LastStarts(s, start, stop)
Halts(s, start, stop) == ~LastStarts(s, start, stop) /\ ~NeverStops(s, stop)
Leaves(s, start, stop) == ~LastStarts(s, start, stop) /\ NeverStops(s, stop)

\* A running call that starts or stops a device outweighs the queue; one that does
\* neither leaves it to the queue.
LEMMA CallsDecide ==
    ASSUME NEW start, NEW stop, NEW device
    PROVE  /\ Runs(call, start, stop) => WillRun(start, stop, device)
           /\ Halts(call, start, stop) => ~WillRun(start, stop, device)
           /\ Leaves(call, start, stop) =>
                (WillRun(start, stop, device) <=>
                    LastStarts(cmds, start, stop) \/ (NeverStops(cmds, stop) /\ device = "ready"))
           /\ call = <<>> => Leaves(call, start, stop)
BY DEF WillRun, Runs, Halts, Leaves, LastStarts, NeverStops

\* The calls of the gestures, as far as the recorder and the player go.
LEMMA GesturesDecide ==
    ASSUME NEW s, NEW R, NEW S, NEW P, NEW Q,
           R = "START_RECORDER", S = "STOP_RECORDER", P = "START_PLAYER", Q = "STOP_PLAYER"
    PROVE
    /\ s = <<P>> => Leaves(s, R, S) /\ Runs(s, P, Q)
    /\ s = <<Q>> => Leaves(s, R, S) /\ Halts(s, P, Q)
    /\ s = <<"setFlag", S, P>> => Halts(s, R, S) /\ Runs(s, P, Q)
    /\ s = <<"clearFlag", R, "spawn", Q>> => Runs(s, R, S) /\ Halts(s, P, Q)
    /\ s = <<"dropRtp", "interrupt">> \/ s = <<>> => Leaves(s, R, S) /\ Leaves(s, P, Q)
<1> USE DEF Runs, Halts, Leaves, LastStarts, NeverStops
<1>1. CASE s = <<"START_PLAYER">>
  BY <1>1
<1>2. CASE s = <<"STOP_PLAYER">>
  BY <1>2
<1>3. CASE s = <<"setFlag", "STOP_RECORDER", "START_PLAYER">>
  <2>1. /\ Len(s) = 3
        /\ s[1] = "setFlag" /\ s[2] = "STOP_RECORDER" /\ s[3] = "START_PLAYER"
    BY <1>3
  <2> QED
    BY <1>3, <2>1
<1>4. CASE s = <<"clearFlag", "START_RECORDER", "spawn", "STOP_PLAYER">>
  <2>1. /\ Len(s) = 4
        /\ s[1] = "clearFlag" /\ s[2] = "START_RECORDER" /\ s[3] = "spawn"
        /\ s[4] = "STOP_PLAYER"
    BY <1>4
  <2> QED
    BY <1>4, <2>1
<1>5. CASE s = <<"dropRtp", "interrupt">>
  BY <1>5
<1>6. CASE s = <<>>
  BY <1>6
<1> QED
  BY <1>1, <1>2, <1>3, <1>4, <1>5, <1>6

\* SettledInv in terms of what the recorder and the player will do.
LEMMA SettledParts ==
    SettledInv <=>
        (tidy =>
            /\ finger # "up" => front
            /\ audio \in {"command", "record"} =>
                /\ WillRun("START_RECORDER", "STOP_RECORDER", record) <=> finger = "recording"
                /\ WillRun("START_PLAYER", "STOP_PLAYER", track)
                        <=> front /\ finger # "recording")
BY DEF SettledInv

\* The gestures of the user change what the devices will do as they should.
LEMMA SettledUser ==
    ASSUME TypeOK, SettledInv,
           Enter \/ Release \/ Leave \/ Destroy \/ (\E v \in BOOLEAN : Press(v))
    PROVE  SettledInv'
<1> DEFINE R == "START_RECORDER" S == "STOP_RECORDER" P == "START_PLAYER" Q == "STOP_PLAYER"
           WillRecord == WillRun(R, S, record)
           WillPlay == WillRun(P, Q, track)
<1>1. call = <<>> /\ UNCHANGED <<cmds, audio, track, record>>
  BY DEF Enter, Release, Leave, Destroy, Press, BeginCall, service, thread
<1>2. /\ Runs(call', R, S) => WillRecord'
      /\ Halts(call', R, S) => ~WillRecord'
      /\ Leaves(call', R, S) => (WillRecord' <=> WillRecord)
  <2>1. WillRecord <=> LastStarts(cmds, R, S) \/ (NeverStops(cmds, S) /\ record = "ready")
    BY <1>1, CallsDecide
  <2>2. LastStarts(cmds, R, S)' <=> LastStarts(cmds, R, S)
    BY <1>1 DEF LastStarts
  <2>3. NeverStops(cmds, S)' <=> NeverStops(cmds, S)
    BY <1>1 DEF NeverStops
  <2>4. /\ Runs(call', R, S) => WillRecord'
        /\ Halts(call', R, S) => ~WillRecord'
        /\ Leaves(call', R, S) =>
            (WillRecord' <=> LastStarts(cmds, R, S)' \/ (NeverStops(cmds, S)' /\ record' = "ready"))
    BY DEF WillRun, Runs, Halts, Leaves
  <2> QED
    BY <1>1, <2>1, <2>2, <2>3, <2>4
<1>3. /\ Runs(call', P, Q) => WillPlay'
      /\ Halts(call', P, Q) => ~WillPlay'
      /\ Leaves(call', P, Q) => (WillPlay' <=> WillPlay)
  <2>1. WillPlay <=> LastStarts(cmds, P, Q) \/ (NeverStops(cmds, Q) /\ track = "ready")
    BY <1>1, CallsDecide
  <2>2. LastStarts(cmds, P, Q)' <=> LastStarts(cmds, P, Q)
    BY <1>1 DEF LastStarts
  <2>3. NeverStops(cmds, Q)' <=> NeverStops(cmds, Q)
    BY <1>1 DEF NeverStops
  <2>4. /\ Runs(call', P, Q) => WillPlay'
        /\ Halts(call', P, Q) => ~WillPlay'
        /\ Leaves(call', P, Q) =>
            (WillPlay' <=> LastStarts(cmds, P, Q)' \/ (NeverStops(cmds, Q)' /\ track' = "ready"))
    BY DEF WillRun, Runs, Halts, Leaves
  <2> QED
    BY <1>1, <2>1, <2>2, <2>3, <2>4
<1>4. /\ call' = <<P>> => Leaves(call', R, S) /\ Runs(call', P, Q)
      /\ call' = <<Q>> => Leaves(call', R, S) /\ Halts(call', P, Q)
      /\ call' = <<"setFlag", S, P>> => Halts(call', R, S) /\ Runs(call', P, Q)
      /\ call' = <<"clearFlag", R, "spawn", Q>> => Runs(call', R, S) /\ Halts(call', P, Q)
      /\ call' = <<"dropRtp", "interrupt">> \/ call' = <<>> => Leaves(call', R, S) /\ Leaves(call', P, Q)
  BY GesturesDecide
<1>5. /\ tidy =>
            /\ finger # "up" => front
            /\ audio \in {"command", "record"} =>
                (WillRecord <=> finger = "recording") /\ (WillPlay <=> front /\ finger # "recording")
      /\ SettledInv' <=>
            (tidy' =>
                /\ finger' # "up" => front'
                /\ audio' \in {"command", "record"} =>
                    /\ WillRecord' <=> finger' = "recording"
                    /\ WillPlay' <=> front' /\ finger' # "recording")
  BY SettledParts DEF SettledInv
<1> HIDE DEF WillRecord, WillPlay
<1>6. CASE Enter
  BY <1>1, <1>2, <1>3, <1>4, <1>5, <1>6 DEF Enter, BeginCall
<1>7. CASE Release
  BY <1>1, <1>2, <1>3, <1>4, <1>5, <1>7 DEF Release, BeginCall
<1>8. CASE Leave
  BY <1>1, <1>2, <1>3, <1>4, <1>5, <1>8 DEF Leave, BeginCall
<1>9. CASE Destroy
  BY <1>1, <1>2, <1>3, <1>4, <1>5, <1>9 DEF Destroy, BeginCall, user
<1>10. ASSUME NEW v \in BOOLEAN, Press(v) PROVE SettledInv'
  <2>1. call' = IF v THEN <<"clearFlag", R, "spawn", Q>> ELSE <<>>
    BY <1>10 DEF Press, BeginCall
  <2>2. front /\ finger = "up" /\ UNCHANGED <<front, tidy>>
        /\ finger' = IF v THEN "recording" ELSE "refused"
    BY <1>10 DEF Press
  <2> QED
    BY <1>1, <1>2, <1>3, <1>4, <1>5, <2>1, <2>2
<1> QED
  BY <1>6, <1>7, <1>8, <1>9, <1>10

\* A step of a call moves a command to the queue, or does something else: what is
\* still to come stays the same.
LEMMA StillToCome ==
    ASSUME TypeOK, CallStep, NEW start \in Command, NEW stop \in Command, start # stop
    PROVE  /\ LastStarts(call', start, stop) \/ (NeverStops(call', stop) /\ LastStarts(cmds', start, stop))
                <=> LastStarts(call, start, stop) \/ (NeverStops(call, stop) /\ LastStarts(cmds, start, stop))
           /\ NeverStops(call', stop) /\ NeverStops(cmds', stop)
                <=> NeverStops(call, stop) /\ NeverStops(cmds, stop)
<1> DEFINE h == Head(call)
<1>1. /\ call \in Seq(CallSteps) /\ cmds \in Seq(Command)
      /\ call # <<>> /\ call' = Tail(call)
      /\ cmds' = IF h \in Command THEN Append(cmds, h) ELSE cmds
  BY DEF TypeOK, CallStep
<1>2. /\ LastStarts(call, start, stop) <=>
            LastStarts(call', start, stop) \/ (h = start /\ NeverStops(call', stop))
      /\ NeverStops(call, stop) <=> h # stop /\ NeverStops(call', stop)
  BY <1>1, HeadDecides
<1>3. CASE h \in Command
  <2>1. /\ LastStarts(cmds', start, stop) <=>
              h = start \/ (h # stop /\ LastStarts(cmds, start, stop))
        /\ NeverStops(cmds', stop) <=> h # stop /\ NeverStops(cmds, stop)
    BY <1>1, <1>3, LastDecides
  <2> HIDE DEF h
  <2> QED
    BY <1>2, <2>1
<1>4. CASE h \notin Command
  <2>1. cmds' = cmds /\ h # start /\ h # stop
    BY <1>1, <1>4
  <2> QED
    BY <1>2, <2>1
<1> QED
  BY <1>3, <1>4

\* A step of the running call moves its first command to the end of the queue, which
\* changes nothing about how a device will settle.
LEMMA SettledCall ==
    ASSUME TypeOK, SettledInv, CallStep
    PROVE  SettledInv'
<1>1. UNCHANGED <<audio, track, record, front, finger, tidy>>
  BY DEF CallStep, user
<1>2. ASSUME NEW start \in Command, NEW stop \in Command, start # stop
      PROVE  /\ WillRun(start, stop, record)' <=> WillRun(start, stop, record)
             /\ WillRun(start, stop, track)' <=> WillRun(start, stop, track)
  BY <1>1, <1>2, StillToCome DEF WillRun
<1>3. /\ WillRun("START_RECORDER", "STOP_RECORDER", record)'
            <=> WillRun("START_RECORDER", "STOP_RECORDER", record)
      /\ WillRun("START_PLAYER", "STOP_PLAYER", track)'
            <=> WillRun("START_PLAYER", "STOP_PLAYER", track)
  BY <1>2 DEF Command, PlayerCommands, RecorderCommands
<1> QED
  BY <1>1, <1>3 DEF SettledInv

\* The audio thread takes the first command and does as it says, or ends.
LEMMA SettledTake ==
    ASSUME TypeOK, SettledInv, TakeCommand
    PROVE  SettledInv'
<1> DEFINE R == "START_RECORDER" S == "STOP_RECORDER" P == "START_PLAYER" Q == "STOP_PLAYER"
<1>1. /\ audio = "command" /\ UNCHANGED <<call, front, finger, tidy>>
      /\ audio' = "record" => track' # "uninitialized" /\ record' # "uninitialized"
      /\ audio' \in {"clear", "record"}
  BY DEF TakeCommand, AudioAt, user
<1>2. CASE cmds = <<>>
  BY <1>1, <1>2 DEF TakeCommand, SettledInv, WillRun, LastStarts, NeverStops
<1>3. CASE cmds # <<>>
  <2> DEFINE h == Head(cmds)
  <2>1. h \in Command /\ cmds \in Seq(Command) /\ cmds' = Tail(cmds) /\ ProcessCommand(h)
    BY <1>3 DEF TakeCommand, TypeOK
  <2>2. ASSUME NEW start, NEW stop
        PROVE  /\ LastStarts(cmds, start, stop) <=>
                    LastStarts(cmds', start, stop) \/ (h = start /\ NeverStops(cmds', stop))
               /\ NeverStops(cmds, stop) <=> h # stop /\ NeverStops(cmds', stop)
    BY <1>3, <2>1, HeadDecides
  <2>3. CASE audio' # "record"
    BY <1>1, <2>3 DEF SettledInv
  <2>4. CASE audio' = "record"
    <3>1. /\ h = P => track' = "ready" /\ record' = record
          /\ h = Q => track' # "ready" /\ record' = record
          /\ h = R => record' = "ready" /\ track' = track
          /\ h = S => record' # "ready" /\ track' = track
          /\ h \in {P, Q, R, S}
      <4>1. track' # "uninitialized" /\ record' # "uninitialized"
        BY <1>1, <2>4
      <4> QED
        BY <2>1, <4>1 DEF ProcessCommand, Started, Stopped, Command, PlayerCommands, RecorderCommands
    <3> HIDE DEF h
    <3>2. WillRun(R, S, record)' <=> WillRun(R, S, record)
      <4>1. /\ LastStarts(cmds, R, S) <=>
                    LastStarts(cmds', R, S) \/ (h = R /\ NeverStops(cmds', S))
            /\ NeverStops(cmds, S) <=> h # S /\ NeverStops(cmds', S)
        BY <2>2
      <4> QED
        BY <1>1, <3>1, <4>1 DEF WillRun
    <3>3. WillRun(P, Q, track)' <=> WillRun(P, Q, track)
      <4>1. /\ LastStarts(cmds, P, Q) <=>
                    LastStarts(cmds', P, Q) \/ (h = P /\ NeverStops(cmds', Q))
            /\ NeverStops(cmds, Q) <=> h # Q /\ NeverStops(cmds', Q)
        BY <2>2
      <4> QED
        BY <1>1, <3>1, <4>1 DEF WillRun
    <3> QED
      BY <1>1, <3>2, <3>3 DEF SettledInv
  <2> QED
    BY <2>3, <2>4
<1> QED
  BY <1>2, <1>3

\* Every step keeps what makes the devices settle.
LEMMA SettledStep ==
    ASSUME TypeOK, SettledInv, [Next]_vars
    PROVE  SettledInv'
<1>1. ASSUME UNCHANGED <<call, cmds, audio, track, record, front, finger, tidy>>
      PROVE  SettledInv'
  BY <1>1 DEF SettledInv, WillRun, LastStarts, NeverStops
<1>2. CASE Interrupted
  BY <1>2 DEF Interrupted, AudioAt, SettledInv, user
<1>3. CASE ProcessRecorderData
  <2>1. /\ audio = "record" /\ audio' = "command"
        /\ UNCHANGED <<call, cmds, track, record, front, finger, tidy>>
    BY <1>3 DEF ProcessRecorderData, AudioAt, service, user
  <2> QED
    BY <2>1 DEF SettledInv, WillRun, LastStarts, NeverStops
<1>4. CASE ClearQueues \/ ReleaseDevices
  BY <1>4 DEF ClearQueues, ReleaseDevices, AudioAt, SettledInv, user
<1>5. ASSUME NEW r \in Recorders, LoopStep(r) PROVE SettledInv'
  BY <1>1, <1>5 DEF LoopStep, TestFlag, PollFrame, CheckRtp, WriteFrame, thread, service, user
<1>6. CASE UNCHANGED vars
  BY <1>1, <1>6 DEF vars, thread, service, user
<1> QED
  BY <1>2, <1>3, <1>4, <1>5, <1>6, SettledUser, SettledCall, SettledTake DEF Next, AudioStep

(* However gestures, stub calls and the audio thread interleave, and        *)
(* however far the command queue lags behind: when all is worked off the    *)
(* microphone and the player are as the last gestures ask.                  *)
THEOREM Settled == Spec => []SettledDevices
<1>1. Init => SettledInv
  BY DEF Init, SettledInv, WillRun, LastStarts, NeverStops
<1>2. TypeOK /\ SettledInv /\ [Next]_vars => SettledInv'
  BY SettledStep
<1>3. SettledInv => SettledDevices
  BY DEF SettledInv, SettledDevices, WillRun, LastStarts, NeverStops
<1> QED
  BY <1>1, <1>2, <1>3, TypeCorrect, PTL DEF Spec

-----------------------------------------------------------------------------
(* The frame queue.                                                         *)


\* The types hold at the start.
LEMMA QueueTypeInit == QInit => QTypeOK
  BY DEF QInit, QTypeOK, None, ResetLocs

(* Every action keeps the types.                                            *)
LEMMA QueueTypeStep == QTypeOK /\ [QNext]_qvars => QTypeOK'
<1> SUFFICES ASSUME QTypeOK, [QNext]_qvars PROVE QTypeOK'
  OBVIOUS
<1> USE MaxFramesAssumption DEF QTypeOK, producer, consumers, At, None, ResetLocs
<1>1. CASE IncRead
  BY <1>1 DEF IncRead
<1>2. CASE IncWrite
  BY <1>2 DEF IncWrite
<1>3. CASE Offer
  <2>1. offered' \in Nat /\ frames' \in Seq(Nat)
    BY <1>3 DEF Offer
  <2> QED
    BY <1>3, <2>1 DEF Offer
<1>4. ASSUME NEW c \in Consumers, Test(c) PROVE QTypeOK'
  <2>1. CASE mCount = 0
    <3>1. got' \in [Consumers -> Nat]
      BY <1>4, <2>1 DEF Test
    <3>2. cons' = cons
      BY <1>4, <2>1 DEF Test
    <3> QED
      BY <1>4, <3>1, <3>2 DEF Test
  <2>2. CASE mCount # 0
    BY <1>4, <2>2 DEF Test
  <2> QED
    BY <2>1, <2>2
<1>5. ASSUME NEW c \in Consumers, DecRead(c) PROVE QTypeOK'
  BY <1>5 DEF DecRead
<1>6. ASSUME NEW c \in Consumers, DecWrite(c) PROVE QTypeOK'
  BY <1>6 DEF DecWrite
<1>7. ASSUME NEW c \in Consumers, Poll(c) PROVE QTypeOK'
  <2>1. CASE frames = <<>>
    <3>1. got' = [got EXCEPT ![c] = 0]
      BY <1>7, <2>1 DEF Poll
    <3>2. got' \in [Consumers -> Nat]
      BY <3>1
    <3> QED
      BY <1>7, <2>1, <3>2 DEF Poll
  <2>2. CASE frames # <<>>
    <3>1. Head(frames) \in Nat /\ Tail(frames) \in Seq(Nat)
      BY <2>2
    <3>2. frames' \in Seq(Nat) /\ got' \in [Consumers -> Nat]
      BY <1>7, <2>2, <3>1 DEF Poll
    <3> QED
      BY <1>7, <3>2 DEF Poll
  <2> QED
    BY <2>1, <2>2
<1>8. CASE EndProducer
  BY <1>8 DEF EndProducer
<1>9. ASSUME NEW c \in Consumers, EndConsumer(c) PROVE QTypeOK'
  BY <1>9 DEF EndConsumer
<1>10. CASE ResetCount
  <2>1. CASE prod = "reset" /\ prod' = "clear" /\ UNCHANGED <<prodRead, consumers>>
    BY <1>10, <2>1 DEF ResetCount
  <2>2. ASSUME NEW c \in Consumers, At(c, "reset", "clear"), UNCHANGED <<producer, consRead, got>>
        PROVE  QTypeOK'
    BY <1>10, <2>2 DEF ResetCount
  <2> QED
    BY <1>10, <2>1, <2>2 DEF ResetCount, ResetGoto
<1>11. CASE Clear
  <2>1. frames' \in Seq(Nat)
    BY <1>11 DEF Clear
  <2> QED
    BY <1>11, <2>1 DEF Clear, ResetGoto
<1>12. CASE UNCHANGED qvars
  BY <1>12 DEF qvars
<1> QED
  BY <1>1, <1>2, <1>3, <1>4, <1>5, <1>6, <1>7, <1>8, <1>9, <1>10, <1>11, <1>12
     DEF QNext, ProducerStep, ConsumerStep, ResetStep

(* The queue's variables keep their types.                                  *)
THEOREM QueueTypeCorrect == QSpec => []QTypeOK
  BY QueueTypeInit, QueueTypeStep, PTL DEF QSpec

-----------------------------------------------------------------------------
(* Refinement of FrameFifo.                                                 *)

\* The initial queue is the empty abstract queue.
LEMMA FifoInit == QInit => Fifo!Init
  BY DEF QInit, Fifo!Init, None, Fifo!None

(* Every step is one operation of the abstract queue, or invisible there.   *)
LEMMA FifoStep ==
    QTypeOK /\ [QNext]_qvars => [Fifo!Next]_<<frames, offered, got>>
<1> SUFFICES ASSUME QTypeOK, [QNext]_qvars
             PROVE  Fifo!Next \/ UNCHANGED <<frames, offered, got>>
  OBVIOUS
<1> USE DEF consumers, None, Fifo!None
<1>1. CASE IncRead
  BY <1>1 DEF IncRead
<1>2. CASE IncWrite
  BY <1>2 DEF IncWrite
<1>3. CASE Offer
  BY <1>3 DEF Offer, Fifo!Next, Fifo!Offer
<1>4. ASSUME NEW c \in Consumers, Test(c)
      PROVE  Fifo!Next \/ UNCHANGED <<frames, offered, got>>
  BY <1>4 DEF Test, Fifo!Next, Fifo!TakeNothing
<1>5. ASSUME NEW c \in Consumers, DecRead(c) \/ DecWrite(c) \/ EndConsumer(c)
      PROVE  UNCHANGED <<frames, offered, got>>
  BY <1>5 DEF DecRead, DecWrite, EndConsumer
<1>6. ASSUME NEW c \in Consumers, Poll(c)
      PROVE  Fifo!Next
  <2>1. CASE frames = <<>>
    BY <1>6, <2>1 DEF Poll, Fifo!Next, Fifo!TakeNothing
  <2>2. CASE frames # <<>>
    BY <1>6, <2>2 DEF Poll, Fifo!Next, Fifo!Take
  <2> QED
    BY <2>1, <2>2
<1>7. CASE EndProducer
  BY <1>7 DEF EndProducer
<1>8. CASE ResetCount
  BY <1>8 DEF ResetCount, ResetGoto
<1>9. CASE Clear
  BY <1>9 DEF Clear, ResetGoto, Fifo!Next, Fifo!Clear
<1>10. CASE UNCHANGED qvars
  BY <1>10 DEF qvars
<1> QED
  BY <1>1, <1>2, <1>3, <1>4, <1>5, <1>6, <1>7, <1>8, <1>9, <1>10
     DEF QNext, ProducerStep, ConsumerStep, ResetStep

(* Whatever mCount does, frames come out in the order of the offers and     *)
(* none comes out twice.                                                    *)
THEOREM FifoRefinement == QSpec => ImplementsFifo
  BY FifoInit, FifoStep, QueueTypeCorrect, PTL DEF QSpec, ImplementsFifo, Fifo!Spec

-----------------------------------------------------------------------------
(* The counter of the playing queue.                                        *)

CountInv == QTypeOK /\ NonNegative /\ InFlightInv

\* Every step keeps the counter of the playing queue from going negative, and
\* what supports that.
LEMMA CountStep ==
    ASSUME resetBy = "consumer", CountInv, [QNext]_qvars
    PROVE  (mCount >= 0 /\ InFlightInv)'
<1> USE PlayerAssumption DEF CountInv, QTypeOK, NonNegative, InFlightInv, producer, consumers, At, ResetLocs
<1>1. CASE IncRead
  BY <1>1 DEF IncRead
<1>2. CASE IncWrite
  BY <1>2 DEF IncWrite
<1>3. CASE Offer
  BY <1>3 DEF Offer
<1>4. ASSUME NEW c \in Consumers, ConsumerStep(c) \/ EndConsumer(c)
      PROVE  (mCount >= 0 /\ InFlightInv)'
  <2>1. c = Player
    BY <1>4 DEF ConsumerStep, Test, DecRead, DecWrite, Poll, EndConsumer
  <2>2. CASE Test(Player)
    BY <2>2 DEF Test
  <2>3. CASE DecRead(Player)
    BY <2>3 DEF DecRead
  <2>4. CASE DecWrite(Player)
    BY <2>4 DEF DecWrite
  <2>5. CASE Poll(Player)
    BY <2>5 DEF Poll
  <2>6. CASE EndConsumer(Player)
    BY <2>6 DEF EndConsumer
  <2> QED
    BY <1>4, <2>1, <2>2, <2>3, <2>4, <2>5, <2>6 DEF ConsumerStep
<1>5. CASE EndProducer
  BY <1>5 DEF EndProducer
<1>6. CASE ResetCount
  BY <1>6 DEF ResetCount, ResetGoto
<1>7. CASE Clear
  BY <1>7 DEF Clear, ResetGoto
<1>8. CASE UNCHANGED qvars
  BY <1>8 DEF qvars
<1> QED
  BY <1>1, <1>2, <1>3, <1>4, <1>5, <1>6, <1>7, <1>8 DEF QNext, ProducerStep, ResetStep

\* Which queue it is never changes.
LEMMA ResetByStep == [QNext]_qvars => resetBy' = resetBy
  BY DEF QNext, ProducerStep, ConsumerStep, ResetStep, IncRead, IncWrite, Offer, Test, DecRead,
     DecWrite, Poll, EndProducer, EndConsumer, ResetCount, Clear, ResetGoto, producer, consumers, qvars

(* With one consuming loop that resets the queue itself, mCount never goes  *)
(* negative: the race between mCount++ and mCount-- cannot push it there.   *)
THEOREM CountNonNegative == QSpec => []NonNegative
<1>1. QInit => CountInv
  BY QueueTypeInit, PlayerAssumption DEF QInit, CountInv, NonNegative, InFlightInv, ResetLocs
<1>2. CountInv /\ [QNext]_qvars => CountInv'
  BY CountStep, ResetByStep, QueueTypeStep DEF CountInv, NonNegative, InFlightInv
<1>3. CountInv => NonNegative
  BY DEF CountInv
<1> QED
  BY <1>1, <1>2, <1>3, PTL DEF QSpec
=============================================================================
