-------------------------- MODULE RTPSessionProofs --------------------------
(* Proofs about a session, for any number of loops and of collisions: its   *)
(* types; who has the source table; that the own entry and the BYEs follow  *)
(* the SSRC; and that BYEDestroy has the session to itself, or was not      *)
(* heard.                                                                   *)
EXTENDS RTPSession, TLAPS

(* The SSRCs last, and a queue that a BYE is taken from holds one, which    *)
(* takes that BYEDestroy empties it only when the poll thread has ended.    *)
Ranges ==
    /\ poll \in {"collision", "bye", "newssrc"} => ssrc < MaxSsrc
    /\ poll = "sendbye" => byepackets # <<>>

TInv == TypeOK /\ Ranges /\ FullControl

\* The types hold at the start.
LEMMA TypeInit == Init => TInv
<1> SUFFICES ASSUME Init PROVE TInv
  OBVIOUS
<1>1. 1 \in Ssrcs /\ 0 \in 0 .. MaxSsrc
  BY MaxSsrcAssumption DEF Ssrcs
<1>2. <<>> \in Seq(Ssrcs)
  OBVIOUS
<1> QED
  BY <1>1, <1>2 DEF Init, TInv, TypeOK, Ranges, FullControl, MainLocs, PollLocs, WriterLocs

\* What is done with the queue of BYEs keeps its type.
LEMMA QueueTypes ==
    ASSUME TypeOK
    PROVE  /\ Append(byepackets, ssrc) \in Seq(Ssrcs)
           /\ Append(byepackets, ssrc) # <<>>
           /\ byepackets # <<>> => Tail(byepackets) \in Seq(Ssrcs)
           /\ <<>> \in Seq(Ssrcs)
  BY DEF TypeOK

\* Queueing a BYE keeps the types, and leaves the queue with something to send.
LEMMA QueueByeTypes ==
    ASSUME TypeOK, QueueBye
    PROVE  /\ byepackets' \in Seq(Ssrcs) /\ byepackets' # <<>>
           /\ byescheduled' \in BOOLEAN /\ used' \subseteq Ssrcs /\ sentpackets' \in BOOLEAN
<1>1. byescheduled' \in BOOLEAN
  BY Zenon DEF QueueBye
<1> QED
  BY <1>1, QueueTypes DEF QueueBye, TypeOK

\* A step of the main thread keeps the types.
LEMMA TypeMain ==
    ASSUME TInv, CreateStep \/ Stop \/ DestroyStep
    PROVE  TInv'
<1> USE DEF TInv, TypeOK, Ranges, FullControl, MainGoto, MainLocs, PollLocs, thread, locks, byes
<1>1. CASE StartThread \/ SetCreated
  BY <1>1 DEF StartThread, SetCreated
<1>2. CASE Stop
  <2>1. stop' \in BOOLEAN
    BY <1>2, Zenon DEF Stop
  <2> QED
    BY <1>2, <2>1 DEF Stop
<1>3. CASE AbortWait
  <2>1. lost' \in BOOLEAN
    BY <1>3, Zenon DEF AbortWait
  <2> QED
    BY <1>3, <2>1 DEF AbortWait
<1>4. CASE Stopped \/ Kill
  BY <1>4 DEF Stopped, Kill
<1>5. CASE LastBye
  <2>1. CASE QueueBye
    BY <1>5, <2>1, QueueByeTypes DEF LastBye
  <2>2. CASE UNCHANGED byes
    BY <1>5, <2>2 DEF LastBye
  <2> QED
    BY <1>5, <2>1, <2>2 DEF LastBye
<1>6. CASE FlushBye
  <2>1. byescheduled' \in BOOLEAN
    BY <1>6, Zenon DEF FlushBye
  <2> QED
    BY <1>6, <2>1, QueueTypes DEF FlushBye
<1>7. CASE Flushed \/ DeleteTransmitter \/ ClearCreated
  BY <1>7 DEF Flushed, DeleteTransmitter, ClearCreated
<1>8. CASE Cleanup
  BY <1>8, QueueTypes DEF Cleanup
<1> QED
  BY <1>1, <1>2, <1>3, <1>4, <1>5, <1>6, <1>7, <1>8 DEF CreateStep, DestroyStep

\* A step of a loop in SendPacket keeps the types.
LEMMA TypeWriter ==
    ASSUME TInv, NEW w \in Writers, Begin(w) \/ SendStep(w)
    PROVE  TInv'
<1> USE DEF TInv, TypeOK, Ranges, FullControl, WriterGoto, WriterLocs, thread, locks, history
<1>0. 0 \in 0 .. MaxSsrc /\ Ssrcs \subseteq 0 .. MaxSsrc
  BY MaxSsrcAssumption DEF Ssrcs
<1>1. CASE Begin(w)
  BY <1>1 DEF Begin
<1>2. CASE Build(w)
  BY <1>0, <1>2 DEF Build
<1>3. CASE Send(w)
  BY <1>0, <1>3 DEF Send, SendReturned
<1>4. CASE SendGone(w)
  <2>1. CASE SendReturned(w) /\ builder' = Nobody
    BY <1>0, <1>4, <2>1 DEF SendGone, SendReturned
  <2>2. CASE WriterGoto(w, "send", "lost") /\ UNCHANGED <<builder, built>>
    BY <1>4, <2>2 DEF SendGone
  <2> QED
    BY <1>4, <2>1, <2>2 DEF SendGone
<1>5. CASE LockToCount(w)
  BY <1>5 DEF LockToCount
<1>6. CASE Counted(w)
  BY <1>6 DEF Counted
<1>7. CASE SetSent(w)
  BY <1>0, <1>7 DEF SetSent
<1> QED
  BY <1>1, <1>2, <1>3, <1>4, <1>5, <1>6, <1>7 DEF SendStep

\* A step of the poll thread keeps the types.
LEMMA TypePoll ==
    ASSUME TInv, PollStep
    PROVE  TInv'
<1> USE DEF TInv, TypeOK, Ranges, FullControl, PollGoto, PollLocs, thread, byes,
            LockSources, UnlockSources
<1>1. CASE TestStop \/ Delay \/ EnterWait \/ Select
  BY <1>1 DEF TestStop, Delay, EnterWait, Select
<1>2. CASE LeaveWait \/ WaitFails
  BY <1>2 DEF LeaveWait, WaitFails
<1>3. CASE BeginProcess \/ ProcessFails
  BY <1>3 DEF BeginProcess, ProcessFails
<1>4. CASE NextPacket \/ Collision
  BY <1>4 DEF NextPacket, Collision
<1>5. CASE CollisionBye
  BY <1>5, QueueByeTypes DEF CollisionBye
<1>6. CASE CreateNewSsrc
  <2>1. ssrc' \in Ssrcs
    BY <1>6, MaxSsrcAssumption DEF CreateNewSsrc, Ssrcs
  <2> QED
    BY <1>6, <2>1 DEF CreateNewSsrc
<1>7. CASE ClearSent \/ ReplaceOwn \/ CreateOwnFails
  BY <1>7 DEF ClearSent, ReplaceOwn, CreateOwnFails
<1>8. CASE IsTime
  BY <1>8 DEF IsTime
<1>9. CASE SendRtcp
  BY <1>9 DEF SendRtcp
<1>10. CASE SendBye
  <2>1. byescheduled' \in BOOLEAN
    BY <1>10, Zenon DEF SendBye
  <2> QED
    BY <1>10, <2>1, QueueTypes DEF SendBye
<1>11. CASE BeginDataAccess \/ EndDataAccess
  BY <1>11 DEF BeginDataAccess, EndDataAccess
<1> QED
  BY <1>1, <1>2, <1>3, <1>4, <1>5, <1>6, <1>7, <1>8, <1>9, <1>10, <1>11 DEF PollStep

\* Every step keeps the types.
LEMMA TypeStep == TInv /\ [Next]_vars => TInv'
<1> SUFFICES ASSUME TInv, [Next]_vars PROVE TInv'
  OBVIOUS
<1>1. CASE UNCHANGED vars
  BY <1>1 DEF vars, thread, locks, byes, history, TInv, TypeOK, Ranges, FullControl
<1> QED
  BY <1>1, TypeMain, TypeWriter, TypePoll DEF Next

(* The variables of a session keep their types.                             *)
THEOREM TypeCorrect == Spec => []TypeOK
<1>1. TInv => TypeOK
  BY DEF TInv
<1> QED
  BY <1>1, TypeInit, TypeStep, PTL DEF Spec

(* BYEDestroy touches what the poll thread uses only when the poll thread   *)
(* has ended.                                                               *)
THEOREM DestroyAlone == Spec => []FullControl
<1>1. TInv => FullControl
  BY DEF TInv
<1> QED
  BY <1>1, TypeInit, TypeStep, PTL DEF Spec

-----------------------------------------------------------------------------
(* The lock on the source table.                                            *)

InTable == {"packets", "collision", "bye", "newssrc", "clear", "own", "time", "rtcp", "sendbye"}

(* The thread that runs has been started, and one that got the table in     *)
(* BeginDataAccess found the session created, as it will in EndDataAccess.  *)
StartedInv ==
    /\ main = "create" <=> poll = "off"
    /\ poll = "data" /\ sources = PollThread => main \notin {"create", "started"}

(* The poll thread holds the table only where it gives it back.  If it has  *)
(* not unlocked what another thread had locked, it holds it all along and   *)
(* nobody has it besides.                                                   *)
LockInv ==
    /\ sources = PollThread => poll \in InTable \cup {"data"}
    /\ ~bare => /\ poll \in InTable \cup {"data"} => sources = PollThread
                /\ \A w \in Writers : writer[w] = "counted" => sources = w

SInv == StartedInv /\ LockInv

\* The poll thread, a writer and nobody are three different holders of a lock.
LEMMA Holders ==
    ASSUME NEW w \in Writers
    PROVE  w # PollThread /\ w # Nobody /\ PollThread # Nobody
  BY WritersAssumption DEF PollThread, Nobody

\* Nobody holds the table at the start.
LEMMA TableInit == Init => SInv
  BY DEF Init, SInv, StartedInv, LockInv, Nobody, PollThread, InTable

\* A step of the main thread does not change who holds it.
LEMMA TableMain ==
    ASSUME TInv, SInv, CreateStep \/ Stop \/ DestroyStep
    PROVE  SInv'
<1> USE DEF TInv, FullControl, SInv, StartedInv, LockInv, InTable, MainGoto, locks
<1>1. CASE CreateStep
  BY <1>1 DEF CreateStep, StartThread, SetCreated
<1>2. CASE Stop
  BY <1>2 DEF Stop
<1>3. CASE DestroyStep
  BY <1>3 DEF DestroyStep, AbortWait, Stopped, Kill, LastBye, FlushBye, Flushed,
              DeleteTransmitter, Cleanup, ClearCreated
<1> QED
  BY <1>1, <1>2, <1>3

\* A loop takes it when it is free and gives it back.
LEMMA TableWriter ==
    ASSUME TInv, SInv, NEW w \in Writers, Begin(w) \/ SendStep(w)
    PROVE  SInv'
<1> USE Holders DEF TInv, TypeOK, SInv, StartedInv, LockInv, InTable, WriterGoto, locks, history
<1>1. CASE Begin(w)
  BY <1>1 DEF Begin
<1>2. CASE Build(w)
  BY <1>2 DEF Build
<1>3. CASE Send(w) \/ SendGone(w)
  BY <1>3 DEF Send, SendGone, SendReturned
<1>4. CASE LockToCount(w)
  BY <1>4 DEF LockToCount
<1>5. CASE Counted(w)
  BY <1>5 DEF Counted
<1>6. CASE SetSent(w)
  BY <1>6 DEF SetSent
<1> QED
  BY <1>1, <1>2, <1>3, <1>4, <1>5, <1>6 DEF SendStep

\* So does the poll thread.
LEMMA TablePoll ==
    ASSUME TInv, SInv, PollStep
    PROVE  SInv'
<1>a. ~bare /\ poll \in InTable \cup {"data"} => \A w \in Writers : writer[w] # "counted"
  BY Holders DEF SInv, LockInv
<1>b. ~bare /\ sources = Nobody => \A w \in Writers : writer[w] # "counted"
  BY Holders DEF SInv, LockInv
<1>c. PollThread # Nobody
  BY DEF PollThread, Nobody
<1> USE <1>a, <1>b, <1>c DEF TInv, FullControl, SInv, StartedInv, LockInv, InTable, PollGoto,
            LockSources, UnlockSources
<1>1. CASE TestStop \/ Delay \/ EnterWait \/ Select
  BY <1>1 DEF TestStop, Delay, EnterWait, Select
<1>2. CASE LeaveWait \/ WaitFails
  BY <1>2 DEF LeaveWait, WaitFails
<1>3. CASE BeginProcess
  BY <1>3 DEF BeginProcess
<1>4. CASE ProcessFails
  BY <1>4 DEF ProcessFails
<1>5. CASE NextPacket \/ Collision \/ CollisionBye
  BY <1>5 DEF NextPacket, Collision, CollisionBye
<1>6. CASE CreateNewSsrc \/ ClearSent \/ ReplaceOwn \/ CreateOwnFails
  BY <1>6 DEF CreateNewSsrc, ClearSent, ReplaceOwn, CreateOwnFails
<1>7. CASE IsTime
  BY <1>7 DEF IsTime
<1>8. CASE SendRtcp \/ SendBye
  BY <1>8 DEF SendRtcp, SendBye
<1>9. CASE BeginDataAccess
  BY <1>9 DEF BeginDataAccess, Created
<1>10. CASE EndDataAccess
  BY <1>10 DEF EndDataAccess, Created
<1> QED
  BY <1>1, <1>2, <1>3, <1>4, <1>5, <1>6, <1>7, <1>8, <1>9, <1>10 DEF PollStep

\* Every step keeps the lock's invariant.
LEMMA TableStep ==
    ASSUME TInv, SInv, [Next]_vars
    PROVE  SInv'
<1>1. CASE UNCHANGED vars
  BY <1>1 DEF vars, locks, history, SInv, StartedInv, LockInv
<1> QED
  BY <1>1, TableMain, TableWriter, TablePoll DEF Next

(* However the poll thread ends, it does not leave the table locked.        *)
THEOREM TableUnlocked == Spec => []EndsUnlocked
<1>1. SInv => EndsUnlocked
  BY DEF SInv, LockInv, EndsUnlocked, InTable
<1> QED
  BY <1>1, TypeInit, TypeStep, TableInit, TableStep, PTL DEF Spec

-----------------------------------------------------------------------------
(* The SSRC.                                                                *)

(* The own entry lags behind only between CreateNewSsrc and ReplaceOwn, and *)
(* is missing only when that has failed.                                    *)
OwnInv ==
    poll \notin {"clear", "own"} => own = ssrc \/ (own = 0 /\ poll = "end")

(* No packet is older than its SSRC.  What peers have heard needs a BYE,    *)
(* which sentpackets promises and a collision gives; while the flag is      *)
(* cleared nobody can have sent with the new SSRC and be about to set it.   *)
ByeInv ==
    /\ \A w \in Writers : built[w] <= ssrc
    /\ ~bare => /\ used \subseteq {ssrc}
                /\ used # {} => sentpackets
                /\ poll \in {"newssrc", "clear"} => used = {}
                /\ poll = "clear" =>
                      \A w \in Writers : writer[w] \in {"counted", "flag"} => built[w] # ssrc

XInv == OwnInv /\ ByeInv

\* The session starts with one SSRC, not heard of.
LEMMA SsrcInit == Init => XInv
  BY MaxSsrcAssumption DEF Init, XInv, OwnInv, ByeInv

\* What a BYE is queued for needs none any more.
LEMMA ByeDone ==
    ASSUME ByeInv, QueueBye, ~bare
    PROVE  used' = {} /\ sentpackets' = sentpackets
  BY DEF ByeInv, QueueBye

\* Main: only the last BYE, when the poll thread has ended.
LEMMA SsrcMain ==
    ASSUME TInv, SInv, XInv, CreateStep \/ Stop \/ DestroyStep
    PROVE  XInv'
<1> USE DEF TInv, FullControl, SInv, StartedInv, XInv, OwnInv, ByeInv, MainGoto, byes
<1>1. CASE CreateStep
  BY <1>1 DEF CreateStep, StartThread, SetCreated
<1>2. CASE Stop
  BY <1>2 DEF Stop
<1>3. CASE LastBye
  <2>1. CASE QueueBye
    BY <1>3, <2>1, ByeDone DEF LastBye
  <2>2. CASE UNCHANGED byes
    BY <1>3, <2>2 DEF LastBye
  <2> QED
    BY <1>3, <2>1, <2>2 DEF LastBye
<1>4. CASE DestroyStep /\ ~LastBye
  BY <1>4 DEF DestroyStep, AbortWait, Stopped, Kill, FlushBye, Flushed,
              DeleteTransmitter, Cleanup, ClearCreated
<1> QED
  BY <1>1, <1>2, <1>3, <1>4

\* A loop: SentRTPPacket's lock keeps it from the flag while the flag is cleared.
LEMMA SsrcWriter ==
    ASSUME TInv, SInv, XInv, NEW w \in Writers, Begin(w) \/ SendStep(w)
    PROVE  XInv'
<1>a. ~bare /\ poll = "clear" => sources = PollThread /\ sources # Nobody
  BY DEF SInv, LockInv, InTable, PollThread, Nobody
<1>b. /\ ssrc \in Nat /\ writer \in [Writers -> WriterLocs]
      /\ built \in [Writers -> 0 .. MaxSsrc] /\ MaxSsrc \in Nat
  BY MaxSsrcAssumption DEF TInv, TypeOK, Ssrcs
<1> USE <1>a, <1>b DEF XInv, OwnInv, ByeInv, WriterGoto, locks, history
<1>1. CASE Begin(w)
  BY <1>1 DEF Begin
<1>2. CASE Build(w)
  BY <1>2 DEF Build
<1>3. CASE Send(w) \/ SendGone(w)
  BY <1>3 DEF Send, SendGone, SendReturned
<1>4. CASE LockToCount(w)
  BY <1>4 DEF LockToCount
<1>5. CASE Counted(w)
  BY <1>5 DEF Counted
<1>6. CASE SetSent(w)
  BY <1>6 DEF SetSent
<1> QED
  BY <1>1, <1>2, <1>3, <1>4, <1>5, <1>6 DEF SendStep

\* The poll thread: a collision found with the flag set queues a BYE.
LEMMA SsrcPoll ==
    ASSUME TInv, SInv, XInv, PollStep
    PROVE  XInv'
<1>b. ssrc \in Nat /\ built \in [Writers -> 0 .. MaxSsrc] /\ MaxSsrc \in Nat
  BY MaxSsrcAssumption DEF TInv, TypeOK, Ssrcs
<1> USE <1>b DEF XInv, OwnInv, ByeInv, PollGoto, byes
<1>1. CASE TestStop \/ Delay \/ EnterWait \/ Select
  BY <1>1 DEF TestStop, Delay, EnterWait, Select
<1>2. CASE LeaveWait \/ WaitFails
  BY <1>2 DEF LeaveWait, WaitFails
<1>3. CASE BeginProcess \/ ProcessFails
  BY <1>3 DEF BeginProcess, ProcessFails
<1>4. CASE NextPacket \/ Collision
  BY <1>4 DEF NextPacket, Collision
<1>5. CASE CollisionBye
  BY <1>5, ByeDone DEF CollisionBye, QueueBye
<1>6. CASE CreateNewSsrc
  BY <1>6 DEF CreateNewSsrc
<1>7. CASE ClearSent \/ ReplaceOwn \/ CreateOwnFails
  BY <1>7 DEF ClearSent, ReplaceOwn, CreateOwnFails
<1>8. CASE IsTime
  BY <1>8 DEF IsTime
<1>9. CASE SendRtcp
  BY <1>9 DEF SendRtcp
<1>10. CASE SendBye
  BY <1>10 DEF SendBye
<1>11. CASE BeginDataAccess \/ EndDataAccess
  BY <1>11 DEF BeginDataAccess, EndDataAccess
<1> QED
  BY <1>1, <1>2, <1>3, <1>4, <1>5, <1>6, <1>7, <1>8, <1>9, <1>10, <1>11 DEF PollStep

\* Every step keeps the SSRC's invariant.
LEMMA SsrcStep ==
    ASSUME TInv, SInv, XInv, [Next]_vars
    PROVE  XInv'
<1>1. CASE UNCHANGED vars
  BY <1>1 DEF vars, byes, history, XInv, OwnInv, ByeInv
<1> QED
  BY <1>1, SsrcMain, SsrcWriter, SsrcPoll DEF Next

(* However many collisions there are, whoever gets the table finds the own  *)
(* entry under the SSRC of the packets.                                     *)
THEOREM OwnCurrent == Spec => []OwnIsCurrent
<1>1. SInv /\ XInv => OwnIsCurrent
  BY DEF SInv, LockInv, InTable, XInv, OwnInv, OwnIsCurrent, PollThread, Nobody
<1> QED
  BY <1>1, TypeInit, TypeStep, TableInit, TableStep, SsrcInit, SsrcStep, PTL DEF Spec

(* No SSRC that peers have heard is given up without a BYE.                 *)
THEOREM SsrcLeftWithBye == Spec => []NoSsrcLeftSilently
<1>1. XInv => NoSsrcLeftSilently
  BY DEF XInv, ByeInv, NoSsrcLeftSilently
<1> QED
  BY <1>1, TypeInit, TypeStep, TableInit, TableStep, SsrcInit, SsrcStep, PTL DEF Spec

-----------------------------------------------------------------------------
(* BYEs and the scheduler, the wait and its abort.                          *)

(* The wait that AbortWait has met is the thread's last, and is aborted.    *)
AbortInv ==
    /\ waitingfordata => poll \in {"select", "woken", "aborted"}
    /\ main \in {"abort", "wait"} => stop
    /\ main = "wait" /\ ~lost =>
          poll \notin {"off", "delay", "enter"} /\ (poll = "select" => abortdesc)
    /\ main = "exited" => lost

PInv == ByesAreScheduled /\ AbortInv

\* No BYE and no abort at the start.
LEMMA PollInit == Init => PInv
  BY DEF Init, PInv, ByesAreScheduled, AbortInv

\* A queue with a new BYE has one scheduled.
LEMMA QueueByeSchedules ==
    ASSUME TypeOK, QueueBye, byescheduled <=> byepackets # <<>>
    PROVE  byescheduled' /\ byepackets' # <<>>
  BY QueueTypes DEF QueueBye

\* A step of the main thread: stop, then the abort, then the wait for the end.
LEMMA PollMain ==
    ASSUME TInv, SInv, PInv, CreateStep \/ Stop \/ DestroyStep
    PROVE  PInv'
<1> USE DEF TInv, FullControl, SInv, StartedInv, PInv, ByesAreScheduled, AbortInv, MainGoto,
            thread, byes
<1>1. CASE CreateStep
  BY <1>1 DEF CreateStep, StartThread, SetCreated
<1>2. CASE Stop
  BY <1>2 DEF Stop
<1>3. CASE AbortWait
  BY <1>3 DEF AbortWait
<1>4. CASE Stopped \/ Kill
  BY <1>4 DEF Stopped, Kill
<1>5. CASE LastBye
  BY <1>5 DEF LastBye, QueueBye
<1>6. CASE FlushBye \/ Flushed \/ DeleteTransmitter \/ Cleanup \/ ClearCreated
  BY <1>6 DEF FlushBye, Flushed, DeleteTransmitter, Cleanup, ClearCreated
<1> QED
  BY <1>1, <1>2, <1>3, <1>4, <1>5, <1>6 DEF DestroyStep

\* A loop has nothing to do with either.
LEMMA PollWriter ==
    ASSUME PInv, NEW w \in Writers, Begin(w) \/ SendStep(w)
    PROVE  PInv'
<1>1. UNCHANGED <<main, poll, thread, byepackets, byescheduled, history>>
  BY DEF Begin, SendStep, Build, Send, SendGone, SendReturned, LockToCount, Counted, SetSent,
         WriterGoto
<1> QED
  BY <1>1 DEF PInv, ByesAreScheduled, AbortInv, thread, history

\* The poll thread does not wait again once it was told to stop.
LEMMA PollPoll ==
    ASSUME TInv, SInv, PInv, PollStep
    PROVE  PInv'
<1> USE DEF TInv, SInv, StartedInv, PInv, ByesAreScheduled, AbortInv, PollGoto, thread, byes
<1>1. CASE TestStop \/ Delay
  BY <1>1 DEF TestStop, Delay
<1>2. CASE EnterWait \/ Select
  BY <1>2 DEF EnterWait, Select
<1>3. CASE LeaveWait \/ WaitFails
  BY <1>3 DEF LeaveWait, WaitFails
<1>4. CASE BeginProcess \/ ProcessFails
  BY <1>4 DEF BeginProcess, ProcessFails
<1>5. CASE NextPacket \/ Collision
  BY <1>5 DEF NextPacket, Collision
<1>6. CASE CollisionBye
  BY <1>6, QueueByeSchedules DEF CollisionBye
<1>7. CASE CreateNewSsrc \/ ClearSent \/ ReplaceOwn \/ CreateOwnFails
  BY <1>7 DEF CreateNewSsrc, ClearSent, ReplaceOwn, CreateOwnFails
<1>8. CASE IsTime
  BY <1>8 DEF IsTime
<1>9. CASE SendRtcp
  BY <1>9 DEF SendRtcp
<1>10. CASE SendBye
  <2>1. poll' = "end" \/ (byescheduled' <=> byepackets' # <<>>)
    BY <1>10, Zenon DEF SendBye
  <2>2. poll' \in {"step", "end"} /\ UNCHANGED <<main, lost, thread>>
    BY <1>10 DEF SendBye
  <2> QED
    BY <1>10, <2>1, <2>2 DEF SendBye
<1>11. CASE BeginDataAccess \/ EndDataAccess
  BY <1>11 DEF BeginDataAccess, EndDataAccess
<1> QED
  BY <1>1, <1>2, <1>3, <1>4, <1>5, <1>6, <1>7, <1>8, <1>9, <1>10, <1>11 DEF PollStep

\* Every step keeps both.
LEMMA PollInvStep ==
    ASSUME TInv, SInv, PInv, [Next]_vars
    PROVE  PInv'
<1>1. CASE UNCHANGED vars
  BY <1>1 DEF vars, thread, byes, history, PInv, ByesAreScheduled, AbortInv
<1> QED
  BY <1>1, PollMain, PollWriter, PollPoll DEF Next

(* While the poll thread runs, BYEs are queued exactly if one is scheduled. *)
THEOREM ByesScheduled == Spec => []ByesAreScheduled
<1>1. PInv => ByesAreScheduled
  BY DEF PInv
<1> QED
  BY <1>1, TypeInit, TypeStep, TableInit, TableStep, PollInit, PollInvStep, PTL DEF Spec

(* The main thread is lost to Kill only if its AbortWait met nobody.        *)
THEOREM KilledUnheard == Spec => []KillMeansLostAbort
<1>1. PInv => KillMeansLostAbort
  BY DEF PInv, AbortInv, KillMeansLostAbort
<1> QED
  BY <1>1, TypeInit, TypeStep, TableInit, TableStep, PollInit, PollInvStep, PTL DEF Spec
=============================================================================
