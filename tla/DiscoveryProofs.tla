--------------------------- MODULE DiscoveryProofs ---------------------------
(* Proofs about the advertising thread: its types, and the bounds on what   *)
(* it still sends after it was told to pause or to stop; and about it and   *)
(* the receiving thread together: the bounds again, the list of contacts,   *)
(* and that the socket is closed.                                           *)
EXTENDS Discovery, TLAPS

(* Inductive invariant: the types and the two location-wise bounds.         *)
IInv == TypeOK /\ StartInv /\ SuspendInv /\ StopInv

\* The inductive invariant holds at the start.
LEMMA InitInv == Init => IInv
<1> SUFFICES ASSUME Init PROVE IInv
  OBVIOUS
<1> USE DEF Init
<1>1. TypeOK
  BY DEF TypeOK, SenderLocs, MainLocs, BinderLocs
<1>2. SuspendInv
  BY DEF SuspendInv
<1>3. StopInv
  BY DEF StopInv
<1>4. StartInv
  BY DEF StartInv
<1> QED
  BY <1>1, <1>2, <1>3, <1>4 DEF IInv

\* Every step keeps the inductive invariant.
LEMMA StepInv == IInv /\ [Next]_vars => IInv'
<1> SUFFICES ASSUME IInv, [Next]_vars PROVE IInv'
  OBVIOUS
<1> USE IpsAssumption, UnsetAssumption
    DEF IInv, TypeOK, StartInv, SuspendInv, StopInv, SenderLocs, MainLocs, BinderLocs, history
<1>1. CASE StartSend
  BY <1>1 DEF StartSend
<1>2. CASE StopSend
  BY <1>2 DEF StopSend
<1>3. CASE StopNotify
  BY <1>3 DEF StopNotify, NotifyAll
<1>4. ASSUME NEW flag \in BOOLEAN, WaitSend(flag) PROVE IInv'
  BY <1>4 DEF WaitSend
<1>5. CASE WaitNotify
  BY <1>5 DEF WaitNotify, NotifyAll
<1>6. CASE Begin
  BY <1>6 DEF Begin, Goto
<1>7. CASE TestStop
  BY <1>7 DEF TestStop, Goto
<1>8. CASE TakeSelfIp
  BY <1>8 DEF TakeSelfIp, Goto
<1>9. CASE SendPacket
  BY <1>9 DEF SendPacket, Goto
<1>10. CASE Sleep
  BY <1>10 DEF Sleep, Goto
<1>11. CASE TestWait
  BY <1>11 DEF TestWait, Goto
<1>12. CASE EnterWait
  BY <1>12 DEF EnterWait, Goto
<1>13. CASE SpuriousWakeup
  BY <1>13 DEF SpuriousWakeup, Goto
<1>14. CASE Finally
  BY <1>14 DEF Finally, Goto
<1>15. CASE IpChanges
  BY <1>15 DEF IpChanges
<1>16. CASE UNCHANGED vars
  BY <1>16 DEF vars
<1> QED
  BY <1>1, <1>2, <1>3, <1>4, <1>5, <1>6, <1>7, <1>8, <1>9, <1>10, <1>11,
     <1>12, <1>13, <1>14, <1>15, <1>16 DEF Next, SenderStep

\* The inductive invariant holds always.
LEMMA Invariance == Spec => []IInv
  BY InitInv, StepInv, PTL DEF Spec

(* The sender's variables keep their types.                                 *)
THEOREM TypeCorrect == Spec => []TypeOK
<1>1. IInv => TypeOK
  BY DEF IInv
<1> QED
  BY <1>1, Invariance, PTL

(* However the unlocked accesses of waitSend, stopSend and run() to mWait   *)
(* interleave, a suspended sender sends at most one more packet.            *)
THEOREM SuspendBounded == Spec => []SuspendBound
<1>1. IInv => SuspendBound
  BY DEF IInv, SuspendInv, SuspendBound
<1> QED
  BY <1>1, Invariance, PTL

(* However they interleave, a sender whose stop flag stays set sends at     *)
(* most one more packet.                                                    *)
THEOREM StopBounded == Spec => []StopBound
<1>1. IInv => StopBound
  BY DEF IInv, StopInv, StopBound
<1> QED
  BY <1>1, Invariance, PTL

(* Both bounds: a phone told to be quiet is heard once more at most.        *)
THEOREM SendsBounded == Spec => []SendsBound
  BY SuspendBounded, StopBounded, PTL DEF SendsBound

-----------------------------------------------------------------------------
(* The two threads together.                                               *)

DInv == DTypeOK /\ SocketInv /\ IInv

\* The invariant of both threads holds at the start.
LEMMA DInitInv == DInit => DInv
<1> SUFFICES ASSUME DInit PROVE DInv
  OBVIOUS
<1>1. IInv
  BY InitInv DEF DInit
<1>2. DTypeOK
  <2>1. moved \in BOOLEAN
    BY Zenon DEF DInit
  <2>2. pc \in [Closers -> ThreadLocs]
    BY DEF DInit, Closers, ThreadLocs
  <2> QED
    BY <2>1, <2>2 DEF DInit, DTypeOK
<1>3. SocketInv
  BY DEF DInit, SocketInv, Closers, ClosingLocs
<1> QED
  BY <1>1, <1>2, <1>3 DEF DInv


(* Whatever a step does, it is one of the sender's, or leaves the sender    *)
(* alone, or ends the process after the sender was started.                 *)
LEMMA SenderPart ==
    ASSUME DTypeOK, [DNext]_dvars
    PROVE  [Next]_vars \/ (sender' = "done" /\ sender # "new"
                           /\ UNCHANGED <<mStop, mWait, mSelfIp, main, binder, localIp, history>>)
<1> USE DEF Closers, At
<1>1. ASSUME NEW c \in Closers, Closing(c) PROVE UNCHANGED vars
          \/ (sender' = "done" /\ sender # "new"
              /\ UNCHANGED <<mStop, mWait, mSelfIp, main, binder, localIp, history>>)
    <2>1. CASE TestField(c)
        BY <2>1 DEF TestField
    <2>2. CASE TestClosed(c)
        BY <2>2 DEF TestClosed, Die, vars, history
    <2>3. CASE LeaveGroup(c)
        BY <2>3 DEF LeaveGroup, Die, vars, history
    <2>4. CASE CloseReceiver(c)
        BY <2>4 DEF CloseReceiver, Die, vars, history
    <2>5. CASE ClearField(c)
        BY <2>5 DEF ClearField
    <2> QED BY <1>1, <2>1, <2>2, <2>3, <2>4, <2>5 DEF Closing
<1>2. CASE StartReceive \/ StopReceive \/ PeerAnnounces
    BY <1>2 DEF StartReceive, StopReceive, PeerAnnounces
<1>3. CASE \/ BeginReceive \/ CreateSocket \/ Bind \/ NameGroup \/ JoinGroup
           \/ TestReceive \/ CallReceive \/ Receive
    BY <1>3 DEF BeginReceive, CreateSocket, Bind, NameGroup, JoinGroup, Uses,
                TestReceive, CallReceive, Receive
<1>4. CASE Announce \/ Moves
    BY <1>4 DEF Announce, Moves, Next, SenderStep
<1>5. CASE DSender \/ DMain \/ StopNotify \/ WaitNotify \/ SpuriousWakeup
    BY <1>5 DEF DSender, DMain, Next, SenderStep
<1>6. CASE UNCHANGED dvars
    BY <1>6 DEF dvars
<1> QED BY <1>1, <1>2, <1>3, <1>4, <1>5, <1>6 DEF DNext, ReceiverStep

(* The sender's invariant does not need the sender to be alive.             *)
LEMMA EndedInv ==
    ASSUME IInv, sender' = "done", sender # "new",
           UNCHANGED <<mStop, mWait, mSelfIp, main, binder, localIp, history>>
    PROVE  IInv'
BY DEF IInv, TypeOK, StartInv, SuspendInv, StopInv, SenderLocs, history

(* The receiver's variables keep their types.                               *)
LEMMA DTypeStep == ASSUME TypeOK, DTypeOK, [DNext]_dvars PROVE DTypeOK'
<1> USE DEF DTypeOK, Closers, ThreadLocs, At, Go
<1>1. ASSUME NEW c \in Closers, Closing(c) PROVE DTypeOK'
    <2>1. CASE TestField(c)
        BY <2>1 DEF TestField, contacts
    <2>2. CASE TestClosed(c)
        BY <2>2 DEF TestClosed, Die, contacts
    <2>3. CASE LeaveGroup(c)
        BY <2>3 DEF LeaveGroup, Die, contacts
    <2>4. CASE CloseReceiver(c)
        BY <2>4 DEF CloseReceiver, Die, contacts
    <2>5. CASE ClearField(c)
        BY <2>5 DEF ClearField, contacts
    <2> QED BY <1>1, <2>1, <2>2, <2>3, <2>4, <2>5 DEF Closing
<1>2. CASE StartReceive \/ StopReceive
    BY <1>2 DEF StartReceive, StopReceive, contacts
<1>3. CASE PeerAnnounces \/ Announce \/ Moves
    BY <1>3 DEF PeerAnnounces, Announce, Moves, Arrives, Announced, receiver, TypeOK
<1>4. CASE \/ BeginReceive \/ CreateSocket \/ Bind \/ NameGroup \/ JoinGroup
           \/ TestReceive \/ CallReceive
    BY <1>4 DEF BeginReceive, CreateSocket, Bind, NameGroup, JoinGroup, Uses,
                TestReceive, CallReceive, Receiver,
                contacts
<1>5. CASE Receive
    BY <1>5 DEF Receive, Receiver, Show
<1>6. CASE UNCHANGED <<receiver, contacts>>
    BY <1>6 DEF receiver, contacts
<1> QED BY <1>1, <1>2, <1>3, <1>4, <1>5, <1>6 DEF DNext, ReceiverStep, dvars

(* The socket is open only while the field has it, and is made once.        *)
LEMMA SocketStep == ASSUME DTypeOK, SocketInv, [DNext]_dvars PROVE SocketInv'
<1> USE DEF DTypeOK, SocketInv, Closers, ThreadLocs, ClosingLocs, At, Go
<1>1. ASSUME NEW c \in Closers, Closing(c) PROVE SocketInv'
    <2>1. CASE TestField(c)
        BY <2>1 DEF TestField
    <2>2. CASE TestClosed(c)
        BY <2>2 DEF TestClosed, Die
    <2>3. CASE LeaveGroup(c)
        BY <2>3 DEF LeaveGroup, Die
    <2>4. CASE CloseReceiver(c)
        BY <2>4 DEF CloseReceiver, Die
    <2>5. CASE ClearField(c)
        BY <2>5 DEF ClearField
    <2> QED BY <1>1, <2>1, <2>2, <2>3, <2>4, <2>5 DEF Closing
<1>2. CASE StartReceive \/ StopReceive
    BY <1>2 DEF StartReceive, StopReceive
<1>3. CASE PeerAnnounces \/ Announce \/ Moves
    BY <1>3 DEF PeerAnnounces, Announce, Moves, receiver
<1>4. CASE BeginReceive \/ CreateSocket \/ Bind \/ NameGroup \/ JoinGroup
    <2>1. "receiver" \in Closers /\ "main" \in Closers
        OBVIOUS
    <2>2. CASE BeginReceive
        BY <2>1, <2>2 DEF BeginReceive, Receiver
    <2>3. CASE CreateSocket
        BY <2>1, <2>3 DEF CreateSocket, Receiver
    <2>4. CASE Bind \/ JoinGroup
        BY <2>1, <2>4 DEF Bind, JoinGroup, Uses, Receiver
    <2>5. CASE NameGroup
        BY <2>1, <2>5 DEF NameGroup, Receiver
    <2> QED BY <1>4, <2>2, <2>3, <2>4, <2>5
<1>5. CASE TestReceive \/ CallReceive
    BY <1>5 DEF TestReceive, CallReceive, Receiver
<1>6. CASE Receive
    BY <1>6 DEF Receive, Receiver
<1>7. CASE UNCHANGED <<receiver, contacts>>
    BY <1>7 DEF receiver
<1> QED BY <1>1, <1>2, <1>3, <1>4, <1>5, <1>6, <1>7 DEF DNext, ReceiverStep, dvars

\* The invariant of both threads holds always.
LEMMA DInvariance == DSpec => []DInv
<1>1. DInv /\ [DNext]_dvars => DInv'
    <2> SUFFICES ASSUME DInv, [DNext]_dvars PROVE DInv'
        OBVIOUS
    <2>1. IInv'
        BY SenderPart, StepInv, EndedInv DEF DInv
    <2> QED BY <2>1, DTypeStep, SocketStep DEF DInv, IInv
<1> QED BY <1>1, DInitInv, PTL DEF DSpec

(* What the sender promises it keeps beside the receiver, whose mistakes    *)
(* can only silence it.                                                     *)
THEOREM SendsBoundedBeside == DSpec => []SendsBound
<1>1. DInv => SendsBound
    BY DEF DInv, IInv, SuspendInv, StopInv, SendsBound, SuspendBound, StopBound
<1> QED BY <1>1, DInvariance, PTL

(* However stopReceive and the finally block of run() interleave, the       *)
(* socket is closed when the thread has ended.                              *)
THEOREM ReceiverClosed == DSpec => []ReceiverCloses
<1>1. DInit => ReceiverCloses
    BY DEF DInit, ReceiverCloses
<1>2. DInv /\ ReceiverCloses /\ [DNext]_dvars => ReceiverCloses'
    <2> SUFFICES ASSUME DInv, ReceiverCloses, [DNext]_dvars PROVE ReceiverCloses'
        OBVIOUS
    <2> USE DEF DInv, DTypeOK, SocketInv, ReceiverCloses, Closers, ThreadLocs, ClosingLocs, At, Go
    <2>1. ASSUME NEW c \in Closers, Closing(c) PROVE ReceiverCloses'
        BY <2>1 DEF Closing, TestField, TestClosed, LeaveGroup, CloseReceiver, ClearField, Die
    <2>2. CASE StartReceive \/ StopReceive
        BY <2>2 DEF StartReceive, StopReceive
    <2>3. CASE PeerAnnounces \/ Announce \/ Moves
        BY <2>3 DEF PeerAnnounces, Announce, Moves, receiver
    <2>4. CASE \/ BeginReceive \/ CreateSocket \/ Bind \/ NameGroup \/ JoinGroup
               \/ TestReceive \/ CallReceive
        BY <2>4 DEF BeginReceive, CreateSocket, Bind, NameGroup, JoinGroup, Uses,
                    TestReceive, CallReceive, Receiver
    <2>5. CASE Receive
        BY <2>5 DEF Receive, Receiver
    <2>6. CASE UNCHANGED <<receiver, contacts>>
        BY <2>6 DEF receiver
    <2> QED BY <2>1, <2>2, <2>3, <2>4, <2>5, <2>6 DEF DNext, ReceiverStep, dvars
<1> QED BY <1>1, <1>2, DInvariance, PTL DEF DSpec

(* A phone that has kept its address, whatever the other phones announce    *)
(* and whenever it hears itself, is not on its own list.                    *)
THEOREM OwnNotListed == DSpec => []SelfNotListed
<1>1. DInit => AddressInv /\ SelfNotListed
    BY IpsAssumption, UnsetAssumption DEF DInit, Init, AddressInv, SelfNotListed
<1>2. DInv /\ AddressInv /\ SelfNotListed /\ [DNext]_dvars => AddressInv' /\ SelfNotListed'
    <2> SUFFICES ASSUME DInv, AddressInv, SelfNotListed, [DNext]_dvars
                 PROVE  AddressInv' /\ SelfNotListed'
        OBVIOUS
    <2> USE IpsAssumption, UnsetAssumption, ContainsAssumption
        DEF DInv, IInv, TypeOK, AddressInv, SelfNotListed
    <2>1. ASSUME NEW c \in Closers, Closing(c) PROVE AddressInv' /\ SelfNotListed'
        BY <2>1 DEF Closing, TestField, TestClosed, LeaveGroup, CloseReceiver, ClearField, Die,
                    contacts, vars
    <2>2. CASE StartReceive \/ StopReceive
        BY <2>2 DEF StartReceive, StopReceive, contacts, vars
    <2>3. CASE PeerAnnounces
        BY <2>3 DEF PeerAnnounces, Arrives, vars
    <2>4. CASE Announce
        BY <2>4 DEF Announce, SendPacket, Goto, Arrives
    <2>5. CASE Moves
        BY <2>5 DEF Moves, IpChanges
    <2>6. CASE \/ BeginReceive \/ CreateSocket \/ Bind \/ NameGroup \/ JoinGroup
               \/ TestReceive \/ CallReceive
        BY <2>6 DEF BeginReceive, CreateSocket, Bind, NameGroup, JoinGroup, Uses,
                    TestReceive, CallReceive, contacts, vars
    <2>7. CASE Receive
        BY <2>7 DEF Receive, Show, vars
    <2>8. CASE /\ DSender \/ DMain \/ StopNotify \/ WaitNotify \/ SpuriousWakeup
               /\ UNCHANGED <<receiver, contacts>>
        <3>1. UNCHANGED localIp /\ (sender' = "send" => mSelfIp' # Unset)
              /\ mSelfIp' \in {mSelfIp, localIp}
            BY <2>8 DEF DSender, DMain, StopNotify, WaitNotify, SpuriousWakeup, Begin, TestStop,
                        TakeSelfIp, Sleep, TestWait, EnterWait, Finally, StartSend, StopSend,
                        WaitSend, NotifyAll, Goto
        <3> QED BY <2>8, <3>1 DEF contacts
    <2>9. CASE UNCHANGED dvars
        BY <2>9 DEF dvars, contacts, vars
    <2> QED BY <2>1, <2>2, <2>3, <2>4, <2>5, <2>6, <2>7, <2>8, <2>9 DEF DNext, ReceiverStep, Closers
<1> QED BY <1>1, <1>2, DInvariance, PTL DEF DSpec
=============================================================================
