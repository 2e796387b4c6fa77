------------------------------ MODULE RtpProofs ------------------------------
(* Proofs about the RTP session: types with the single release, the poll    *)
(* thread's object, whose frames are played, and where speech goes.         *)
EXTENDS Rtp, TLAPS

(* By how far a service is: its address, its object, its poll thread.       *)
ServiceInv ==
    \A s \in Services :
        /\ svc[s] \in {"none", "closed", "released", "destroyed"} => poll[s] = "off"
        /\ mJavaRtp[s] <=> svc[s] \in {"opened", "running", "closing", "closed"}
        /\ mJavaRtp[s] => deletes[s] = 0
        /\ svc[s] = "closing" => object[s] = "open" \/ ~alive
        /\ svc[s] = "none" => object[s] = "none" /\ deletes[s] = 0

(* Services come one after the other, and the callback is the last one's.   *)
OrderInv ==
    /\ \A s, t \in Services : t < s /\ svc[s] # "none" => svc[t] = "destroyed"
    /\ \A s \in Services : svc[s] \in {"running", "closing", "closed"} => mIDataCallback = s

(* A loop was started by a service that ran, for a peer that its session    *)
(* has been given.                                                          *)
LoopInv ==
    \A l \in Loops :
        loop[l] # "none" =>
            /\ svc[loopOf[l].service] \notin {"none", "opened"}
            /\ object[loopOf[l].service] = "open"
                 => loopOf[l].peer \in dests[loopOf[l].service]

IInv == TypeOK /\ ServiceInv /\ OrderInv /\ LoopInv /\ PollThreadSafe

\* The inductive invariant holds at the start.
LEMMA InitInv == Init => IInv
<1> SUFFICES ASSUME Init PROVE IInv
  OBVIOUS
<1> USE DEF Init
<1>1. TypeOK
  BY BoundsAssumption DEF TypeOK, SvcStates, ObjectStates, PollLocs, LoopLocs
<1>2. ServiceInv /\ OrderInv /\ LoopInv /\ PollThreadSafe
  BY DEF ServiceInv, OrderInv, LoopInv, PollThreadSafe
<1> QED
  BY <1>1, <1>2 DEF IInv

\* onCreate: the service starts from nothing, and no other is alive.
LEMMA CreateKeeps == ASSUME IInv, NEW s \in Services, CreateStep(s) PROVE IInv'
<1> USE DEF IInv
<1>1. CASE OpenRtp(s)
  <2> USE <1>1 DEF OpenRtp, SvcGoto, loops
  <2>1. TypeOK'
    BY DEF TypeOK, SvcStates, ObjectStates, PollLocs
  <2>2. ServiceInv'
    BY DEF ServiceInv, TypeOK
  <2>3. OrderInv'
    <3>1. ASSUME NEW t \in Services, NEW u \in Services, u < t, svc'[t] # "none"
          PROVE  svc'[u] = "destroyed"
      <4>1. CASE t = s
        BY <3>1, <4>1 DEF TypeOK, Services
      <4>2. CASE t # s
        BY <3>1, <4>2 DEF TypeOK, OrderInv
      <4> QED
        BY <4>1, <4>2
    <3>2. \A t \in Services :
            svc'[t] \in {"running", "closing", "closed"} => mIDataCallback' = t
      BY DEF TypeOK, OrderInv
    <3> QED
      BY <3>1, <3>2 DEF OrderInv
  <2>4. LoopInv'
    BY DEF LoopInv, TypeOK
  <2>5. PollThreadSafe'
    BY DEF PollThreadSafe, ServiceInv, TypeOK
  <2> QED
    BY <2>1, <2>2, <2>3, <2>4, <2>5
<1>2. CASE SetCallback(s)
  <2> USE <1>2 DEF SetCallback, SvcGoto, fields, native, loops
  <2>1. TypeOK'
    BY BoundsAssumption DEF TypeOK, SvcStates, Services
  <2>2. ServiceInv' /\ LoopInv' /\ PollThreadSafe'
    BY DEF ServiceInv, LoopInv, PollThreadSafe, TypeOK
  <2>3. OrderInv'
    <3>1. ASSUME NEW t \in Services, svc'[t] \in {"running", "closing", "closed"}
          PROVE  t = s
      <4>1. t # s => svc[t] = svc'[t] /\ svc[t] # "none" /\ svc[t] # "destroyed"
        BY <3>1 DEF TypeOK
      <4>2. svc[s] # "none" /\ svc[s] # "destroyed"
        OBVIOUS
      <4>3. t = s \/ t < s \/ s < t
        BY BoundsAssumption DEF Services
      <4> QED
        BY <4>1, <4>2, <4>3 DEF OrderInv
    <3> QED
      BY <3>1 DEF OrderInv, TypeOK
  <2> QED
    BY <2>1, <2>2, <2>3
<1> QED
  BY <1>1, <1>2 DEF CreateStep

\* onDestroy and the finalizer: the thread is gone before the object, and the
\* object before its address.
LEMMA DestroyKeeps ==
    ASSUME IInv, NEW s \in Services, CloseRtp(s) \/ DestroyStep(s) \/ Finalize(s)
    PROVE  IInv'
<1> USE DEF IInv
<1>1. CASE CloseRtp(s)
  <2> USE <1>1 DEF CloseRtp, SvcGoto, fields, native, loops
  <2>1. TypeOK'
    BY DEF TypeOK, SvcStates
  <2>2. ServiceInv' /\ OrderInv' /\ LoopInv' /\ PollThreadSafe'
    BY DEF ServiceInv, OrderInv, LoopInv, PollThreadSafe, TypeOK
  <2> QED
    BY <2>1, <2>2
<1>2. CASE CloseRtpDone(s)
  <2> USE <1>2 DEF CloseRtpDone, SvcGoto, fields, loops
  <2>1. TypeOK'
    BY DEF TypeOK, SvcStates, ObjectStates
  <2>2. ServiceInv' /\ OrderInv' /\ LoopInv' /\ PollThreadSafe'
    BY DEF ServiceInv, OrderInv, LoopInv, PollThreadSafe, TypeOK
  <2> QED
    BY <2>1, <2>2
<1>3. CASE NativeRelease(s)
  <2> USE <1>3 DEF NativeRelease, SetJavaRtp, SvcGoto, loops
  <2>1. TypeOK'
    BY DEF TypeOK, ServiceInv, SvcStates, ObjectStates
  <2>2. ServiceInv' /\ OrderInv' /\ LoopInv' /\ PollThreadSafe'
    BY DEF ServiceInv, OrderInv, LoopInv, PollThreadSafe, TypeOK
  <2> QED
    BY <2>1, <2>2
<1>4. CASE ClearRtp(s)
  <2> USE <1>4 DEF ClearRtp, SvcGoto, native, loops
  <2>1. TypeOK'
    BY DEF TypeOK, SvcStates
  <2>2. ServiceInv' /\ OrderInv' /\ LoopInv' /\ PollThreadSafe'
    BY DEF ServiceInv, OrderInv, LoopInv, PollThreadSafe, TypeOK
  <2> QED
    BY <2>1, <2>2
<1>5. CASE Finalize(s)
  <2>1. UNCHANGED <<object, deletes, dests, svc, mRtp, poll, mIDataCallback, loop, loopOf, alive>>
    BY <1>5 DEF Finalize, SetJavaRtp, ServiceInv, loops
  <2>2. mJavaRtp' = mJavaRtp
    BY <1>5 DEF Finalize, SetJavaRtp, ServiceInv, TypeOK
  <2> QED
    BY <2>1, <2>2 DEF TypeOK, ServiceInv, OrderInv, LoopInv, PollThreadSafe
<1> QED
  BY <1>1, <1>2, <1>3, <1>4, <1>5 DEF DestroyStep

\* A press adds its peer before its loop starts, and takes none away.
LEMMA StartKeeps ==
    ASSUME IInv, NEW s \in Services, NEW l \in Loops, NEW p \in Peers, StartRecorder(s, l, p)
    PROVE  IInv'
<1> USE DEF IInv, StartRecorder, AddDestination, fields
<1>1. /\ dests' \in [Services -> SUBSET Peers]
      /\ \A t \in Services : dests[t] \subseteq dests'[t]
      /\ object[s] = "open" => p \in dests'[s]
  BY DEF TypeOK
<1>2. TypeOK'
  BY <1>1 DEF TypeOK, LoopLocs
<1>3. ServiceInv' /\ OrderInv' /\ PollThreadSafe'
  BY DEF ServiceInv, OrderInv, PollThreadSafe
<1>4. LoopInv'
  <2> SUFFICES ASSUME NEW k \in Loops, loop'[k] # "none"
               PROVE  /\ svc'[loopOf'[k].service] \notin {"none", "opened"}
                      /\ object'[loopOf'[k].service] = "open"
                           => loopOf'[k].peer \in dests'[loopOf'[k].service]
    BY DEF LoopInv
  <2>1. CASE k = l
    BY <2>1, <1>1 DEF TypeOK
  <2>2. CASE k # l
    BY <2>2, <1>1 DEF TypeOK, LoopInv
  <2> QED
    BY <2>1, <2>2
<1> QED
  BY <1>2, <1>3, <1>4

\* Recording changes where a loop is, and may end the process.
LEMMA LoopKeeps == ASSUME IInv, NEW l \in Loops, LoopStep(l) PROVE IInv'
<1> USE DEF IInv
<1>1. /\ loop[l] # "none" /\ loop' \in [Loops -> LoopLocs]
      /\ \A k \in Loops : k # l => loop'[k] = loop[k]
      /\ UNCHANGED <<svc, mRtp, mJavaRtp, object, dests, deletes, poll, mIDataCallback, loopOf>>
  BY DEF LoopStep, CheckRtp, GetJavaRtp, Write, LoopGoto, TypeOK, LoopLocs, fields, native
<1>2. alive' \in BOOLEAN /\ (alive' => alive)
  BY DEF LoopStep, CheckRtp, GetJavaRtp, Write, LoopGoto, TypeOK
<1>3. TypeOK'
  BY <1>1, <1>2 DEF TypeOK
<1>4. ServiceInv' /\ OrderInv' /\ PollThreadSafe' /\ LoopInv'
  BY <1>1, <1>2 DEF ServiceInv, OrderInv, PollThreadSafe, LoopInv
<1> QED
  BY <1>3, <1>4

\* A poll thread moves while its object is open.
LEMMA PollKeeps == ASSUME IInv, NEW s \in Services, PollStep(s) PROVE IInv'
<1> USE DEF IInv
<1>1. /\ poll[s] # "off" /\ poll' \in [Services -> PollLocs]
      /\ \A t \in Services : t # s => poll'[t] = poll[t]
      /\ UNCHANGED <<svc, mRtp, mJavaRtp, object, dests, deletes, mIDataCallback, loop, loopOf, alive>>
  BY DEF PollStep, PollTest, PollWait, Deliver, PollGoto, TypeOK, PollLocs, fields, native, loops
<1>2. TypeOK'
  BY <1>1 DEF TypeOK
<1>3. ServiceInv' /\ OrderInv' /\ PollThreadSafe' /\ LoopInv'
  BY <1>1 DEF ServiceInv, OrderInv, PollThreadSafe, LoopInv
<1> QED
  BY <1>2, <1>3

\* Every step keeps the inductive invariant.
LEMMA StepInv == IInv /\ [Next]_vars => IInv'
<1> SUFFICES ASSUME IInv, [Next]_vars PROVE IInv'
  OBVIOUS
<1>1. ASSUME NEW s \in Services,
             CreateStep(s) \/ CloseRtp(s) \/ DestroyStep(s) \/ Finalize(s) \/ PollStep(s)
      PROVE  IInv'
  BY <1>1, CreateKeeps, DestroyKeeps, PollKeeps
<1>2. ASSUME NEW s \in Services, NEW l \in Loops, NEW p \in Peers, StartRecorder(s, l, p)
      PROVE  IInv'
  BY <1>2, StartKeeps
<1>3. ASSUME NEW l \in Loops, LoopStep(l) PROVE IInv'
  BY <1>3, LoopKeeps
<1>4. CASE UNCHANGED vars
  BY <1>4 DEF vars, fields, native, loops, IInv, TypeOK, ServiceInv, OrderInv, LoopInv, PollThreadSafe
<1> QED
  BY <1>1, <1>2, <1>3, <1>4 DEF Next

\* The inductive invariant holds in every behaviour.
LEMMA Invariance == Spec => []IInv
<1> QED
  BY InitInv, StepInv, PTL DEF Spec

-----------------------------------------------------------------------------

\* The variables keep their types and each native object is deleted once at
\* most, for any number of services, loops and peers.
THEOREM TypeCorrect == Spec => []TypeOK
<1>1. IInv => TypeOK
  BY DEF IInv
<1> QED
  BY <1>1, Invariance, PTL

\* A poll thread that has not ended has its native object.
THEOREM PollThreadsSafe == Spec => []PollThreadSafe
<1>1. IInv => PollThreadSafe
  BY DEF IInv
<1> QED
  BY <1>1, Invariance, PTL

\* Once its callback is set a service hears its own session, and no other.
THEOREM OwnFramesPlayed == Spec => []PlaysOwnFrames
<1>1. IInv => PlaysOwnFrames
  BY DEF IInv, TypeOK, SvcStates, ServiceInv, OrderInv, PlaysOwnFrames
<1> QED
  BY <1>1, Invariance, PTL

\* Speech reaches the peer its button was pressed for.
THEOREM SpeechReaches == Spec => []SpeechReachesPeer
<1>1. IInv => SpeechReachesPeer
  BY DEF IInv, LoopInv, SpeechReachesPeer
<1> QED
  BY <1>1, Invariance, PTL
=============================================================================
