------------------------ MODULE CtlServerSocketProofs ------------------------
(* Proofs about the control server, for any number of connections: its      *)
(* types; that nothing but close() ends its thread; and that the unlocked   *)
(* fields never cost it track of an open connection.                        *)
EXTENDS CtlServerSocket, TLAPS

\* The types hold at the start.
LEMMA TypeInit == Init => TypeOK
<1> SUFFICES ASSUME Init PROVE TypeOK
  OBVIOUS
<1>1. pc \in [Threads -> CloseLocs \cup ServerLocs \cup BinderLocs]
  BY DEF Init, ServerLocs, BinderLocs
<1>2. conn \in [Conns -> {"none", "pending", "open", "closed"}]
  BY DEF Init
<1> QED
  BY <1>1, <1>2 DEF Init, TypeOK

(* A step of closeSocket, by either thread, keeps the types.                *)
LEMMA TypeClose ==
    ASSUME TypeOK, NEW t \in Threads, CloseStep(t)
    PROVE  TypeOK'
<1> USE DEF TypeOK, fields, client, Goto, Npe, Return, Shut,
            CloseLocs, ServerLocs, BinderLocs
<1>1. CASE TestOut(t)
  BY <1>1 DEF TestOut
<1>2. CASE CloseOut(t)
  BY <1>2 DEF CloseOut
<1>3. CASE NullOut(t)
  BY <1>3 DEF NullOut
<1>4. CASE TestIn(t)
  BY <1>4 DEF TestIn
<1>5. CASE CloseIn(t)
  BY <1>5 DEF CloseIn
<1>6. CASE NullIn(t)
  BY <1>6 DEF NullIn
<1>7. CASE TestSocket(t)
  BY <1>7 DEF TestSocket
<1>8. CASE CloseSocket(t)
  BY <1>8 DEF CloseSocket
<1>9. CASE NullSocket(t)
  BY <1>9 DEF NullSocket
<1> QED
  BY <1>1, <1>2, <1>3, <1>4, <1>5, <1>6, <1>7, <1>8, <1>9 DEF CloseStep

\* Every step keeps the types.
LEMMA TypeStep == TypeOK /\ [Next]_vars => TypeOK'
<1> SUFFICES ASSUME TypeOK, [Next]_vars PROVE TypeOK'
  OBVIOUS
<1>0. "server" \in Threads /\ "binder" \in Threads
  BY DEF Threads
<1> USE DEF TypeOK, fields, client, Server, Binder, Goto, Npe, Usable,
            CloseLocs, ServerLocs, BinderLocs
<1>1. CASE TestStop
  BY <1>1 DEF TestStop
<1>2. CASE AcceptTimeout
  BY <1>2 DEF AcceptTimeout
<1>3. ASSUME NEW c \in Conns, Accept(c) PROVE TypeOK'
  BY <1>3 DEF Accept
<1>4. CASE MakeOut
  BY <1>4 DEF MakeOut
<1>5. CASE MakeIn
  BY <1>5 DEF MakeIn
<1>6. CASE Read
  BY <1>6 DEF Read
<1>7. CASE ReadLine
  BY <1>7 DEF ReadLine
<1>8. CASE WriteCommand
  BY <1>8 DEF WriteCommand
<1>9. CASE Write
  BY <1>9 DEF Write
<1>10. CASE Flush
  BY <1>10 DEF Flush
<1>11. CASE Close
  BY <1>11 DEF Close
<1>12. ASSUME NEW c \in Conns, Connect(c) \/ Send(c) \/ HangUp(c) PROVE TypeOK'
  BY <1>12 DEF Connect, Send, HangUp
<1>13. CASE UNCHANGED vars
  BY <1>13 DEF vars
<1> QED
  BY <1>0, <1>1, <1>2, <1>3, <1>4, <1>5, <1>6, <1>7, <1>8, <1>9, <1>10, <1>11,
     <1>12, <1>13, TypeClose DEF Next, ServerStep, BinderStep

(* The variables of the control server keep their types.                    *)
THEOREM TypeCorrect == Spec => []TypeOK
  BY TypeInit, TypeStep, PTL DEF Spec

-----------------------------------------------------------------------------
(* Until close() is called the server thread goes on.                       *)

ServeInv == CloseSetsStop /\ TestedFields /\ ServesUntilClosed

\* Every step keeps the server serving until it is closed.
LEMMA ServeStep ==
    ASSUME TypeOK, ServeInv, [Next]_vars
    PROVE  ServeInv'
<1>0. "server" \in Threads /\ "binder" \in Threads /\ "server" # "binder"
  BY DEF Threads
<1> USE <1>0 DEF TypeOK, ServeInv, CloseSetsStop, TestedFields, ServesUntilClosed,
            fields, client, Server, Binder, Goto, Npe, Return,
            CloseLocs, ServerLocs, BinderLocs
<1>1. ASSUME CloseStep("server") PROVE ServeInv'
  <2>1. CASE TestOut("server")
    BY <2>1 DEF TestOut
  <2>2. CASE CloseOut("server")
    BY <2>2 DEF CloseOut
  <2>3. CASE NullOut("server")
    BY <2>3 DEF NullOut
  <2>4. CASE TestIn("server")
    BY <2>4 DEF TestIn
  <2>5. CASE CloseIn("server")
    BY <2>5 DEF CloseIn
  <2>6. CASE NullIn("server")
    BY <2>6 DEF NullIn
  <2>7. CASE TestSocket("server")
    BY <2>7 DEF TestSocket
  <2>8. CASE CloseSocket("server")
    BY <2>8 DEF CloseSocket
  <2>9. CASE NullSocket("server")
    BY <2>9 DEF NullSocket
  <2> QED
    BY <1>1, <2>1, <2>2, <2>3, <2>4, <2>5, <2>6, <2>7, <2>8, <2>9 DEF CloseStep
<1>2. ASSUME CloseStep("binder") PROVE ServeInv'
  <2>1. pc["binder"] \in CloseLocs /\ mStop' = mStop
    BY <1>2 DEF CloseStep, TestOut, CloseOut, NullOut, TestIn, CloseIn, NullIn,
                TestSocket, CloseSocket, NullSocket
  <2> QED
    BY <2>1
<1>3. CASE TestStop
  BY <1>3 DEF TestStop
<1>4. CASE AcceptTimeout
  BY <1>4 DEF AcceptTimeout
<1>5. ASSUME NEW c \in Conns, Accept(c) PROVE ServeInv'
  BY <1>5 DEF Accept
<1>6. CASE MakeOut \/ MakeIn
  BY <1>6 DEF MakeOut, MakeIn
<1>7. CASE Read \/ ReadLine
  BY <1>7 DEF Read, ReadLine
<1>8. CASE WriteCommand \/ Write \/ Flush
  BY <1>8 DEF WriteCommand, Write, Flush
<1>9. CASE Close
  BY <1>9 DEF Close
<1>10. ASSUME NEW c \in Conns, Connect(c) \/ Send(c) \/ HangUp(c) PROVE ServeInv'
  BY <1>10 DEF Connect, Send, HangUp
<1>11. CASE UNCHANGED vars
  BY <1>11 DEF vars
<1> QED
  BY <1>1, <1>2, <1>3, <1>4, <1>5, <1>6, <1>7, <1>8, <1>9, <1>10, <1>11
     DEF Next, ServerStep, BinderStep

(* No hang-up, time-out or concurrent writeCommand ends the server thread:  *)
(* before close() every field it uses is one only it writes.                *)
THEOREM Serves == Spec => []ServesUntilClosed
<1>1. Init => ServeInv
  BY DEF Init, ServeInv, CloseSetsStop, TestedFields, ServesUntilClosed,
         Threads, CloseLocs
<1>2. TypeOK /\ ServeInv /\ [Next]_vars => ServeInv'
  BY ServeStep
<1>3. ServeInv => ServesUntilClosed
  BY DEF ServeInv
<1> QED
  BY <1>1, <1>2, <1>3, TypeCorrect, PTL DEF Spec

-----------------------------------------------------------------------------
(* No open connection is lost.                                              *)

OrphanInv ==
    CloseSetsStop /\ OpenIsInField /\ ShutBeforeCleared /\ NoOrphan

\* A step of closeSocket, by either thread, orphans no connection.
LEMMA OrphanClose ==
    ASSUME TypeOK, OrphanInv, NEW t \in Threads, CloseStep(t)
    PROVE  OrphanInv'
<1>0. "server" \in Threads /\ "binder" \in Threads /\ "server" # "binder"
      /\ t \in {"server", "binder"}
  BY DEF Threads
<1> USE <1>0 DEF TypeOK, OrphanInv, CloseSetsStop, OpenIsInField, ShutBeforeCleared,
            NothingOpen, NoOrphan, Alive, fields, client, Goto, Npe, Return, Shut, Null,
            CloseLocs, ServerLocs, BinderLocs
<1>1. CASE TestOut(t)
  BY <1>1 DEF TestOut
<1>2. CASE CloseOut(t)
  BY <1>2 DEF CloseOut
<1>3. CASE NullOut(t)
  BY <1>3 DEF NullOut
<1>4. CASE TestIn(t)
  BY <1>4 DEF TestIn
<1>5. CASE CloseIn(t)
  BY <1>5 DEF CloseIn
<1>6. CASE NullIn(t)
  BY <1>6 DEF NullIn
<1>7. CASE TestSocket(t)
  BY <1>7 DEF TestSocket, Conns
<1>8. CASE CloseSocket(t)
  BY <1>8 DEF CloseSocket
<1>9. CASE NullSocket(t)
  BY <1>9 DEF NullSocket
<1> QED
  BY <1>1, <1>2, <1>3, <1>4, <1>5, <1>6, <1>7, <1>8, <1>9 DEF CloseStep

\* Every step keeps the invariant behind NoOrphan.
LEMMA OrphanStep ==
    ASSUME TypeOK, OrphanInv, [Next]_vars
    PROVE  OrphanInv'
<1>0. "server" \in Threads /\ "binder" \in Threads /\ "server" # "binder"
  BY DEF Threads
<1> USE <1>0 DEF TypeOK, OrphanInv, CloseSetsStop, OpenIsInField, ShutBeforeCleared,
            NothingOpen, NoOrphan, Alive, fields, client, Server, Binder, Goto, Npe,
            Usable, CloseLocs, ServerLocs, BinderLocs
<1>1. CASE TestStop
  BY <1>1 DEF TestStop
<1>2. CASE AcceptTimeout
  BY <1>2 DEF AcceptTimeout
<1>3. ASSUME NEW c \in Conns, Accept(c) PROVE OrphanInv'
  BY <1>3 DEF Accept
<1>4. CASE MakeOut \/ MakeIn
  BY <1>4 DEF MakeOut, MakeIn
<1>5. CASE Read \/ ReadLine
  BY <1>5 DEF Read, ReadLine
<1>6. CASE WriteCommand \/ Write \/ Flush
  BY <1>6 DEF WriteCommand, Write, Flush
<1>7. CASE Close
  BY <1>7 DEF Close
<1>8. ASSUME NEW c \in Conns, Connect(c) \/ Send(c) \/ HangUp(c) PROVE OrphanInv'
  BY <1>8 DEF Connect, Send, HangUp
<1>9. CASE UNCHANGED vars
  BY <1>9 DEF vars
<1> QED
  BY <1>1, <1>2, <1>3, <1>4, <1>5, <1>6, <1>7, <1>8, <1>9, OrphanClose
     DEF Next, ServerStep, BinderStep

(* However close() and the server thread's own clean-up interleave on the   *)
(* fields, an open connection is the one accepted last and the server       *)
(* thread has still to close it.                                            *)
THEOREM NoneOrphaned == Spec => []NoOrphan
<1>1. Init => OrphanInv
  BY DEF Init, OrphanInv, CloseSetsStop, OpenIsInField, ShutBeforeCleared,
         NothingOpen, NoOrphan, Threads, CloseLocs
<1>2. TypeOK /\ OrphanInv /\ [Next]_vars => OrphanInv'
  BY OrphanStep
<1>3. OrphanInv => NoOrphan
  BY DEF OrphanInv
<1> QED
  BY <1>1, <1>2, <1>3, TypeCorrect, PTL DEF Spec
=============================================================================
