--------------------------- MODULE CtlServerSocket ---------------------------
(***************************************************************************)
(* The control server of the service (socket/CtlServerSocket.java): a      *)
(* thread that accepts one client after another and reads its command      *)
(* lines, and a binder thread that writes commands and closes the server.  *)
(*                                                                         *)
(* Both reach the client through the plain fields mSocket, mOutputStream   *)
(* and mInputStream, test them for null and read them again to use them,   *)
(* with no lock.  Both run the same closeSocket.  So every read and every  *)
(* write of a field is a step, for either thread.                          *)
(*                                                                         *)
(* Closing a stream closes its socket.  BufferedReader.close waits for the *)
(* lock that readLine holds while it waits for input.  An exception in the *)
(* loop is caught; one in its finally block is not, and ends the process;  *)
(* one on the binder thread goes back to the caller.                       *)
(***************************************************************************)
EXTENDS Naturals, FiniteSets

CONSTANT MaxConns       \* bound: connections clients open in one behaviour

ASSUME MaxConnsAssumption == MaxConns \in Nat

Conns == 1 .. MaxConns
Null == 0

Threads == {"server", "binder"}

VARIABLES
    mStop,      \* stop flag
    mSocket,    \* the connection in the field, or Null
    mOut,       \* the connection whose writer is in mOutputStream, or Null
    mIn,        \* the connection whose reader is in mInputStream, or Null
    pc,         \* where each thread is
    reader,     \* the connection whose reader readLine was called on
    conn,       \* each connection: "none", "pending", "open", "closed"
    line,       \* has the client a command line under way?
    gone,       \* has the client hung up?
    accepted    \* history: the connection accepted last

fields == <<mStop, mSocket, mOut, mIn>>
client == <<line, gone>>
vars == <<fields, pc, reader, conn, client, accepted>>

CloseLocs == {"testOut", "closeOut", "nullOut", "testIn", "closeIn", "nullIn",
              "testSocket", "closeSocket", "nullSocket"}
ServerLocs == {"while", "accept", "out", "in", "read", "reading", "end", "dead"}
BinderLocs == {"idle", "write", "flush", "stop", "closed", "npe"}

Init ==
    /\ mStop = FALSE
    /\ mSocket = Null /\ mOut = Null /\ mIn = Null
    /\ pc = [t \in Threads |-> IF t = "server" THEN "while" ELSE "idle"]
    /\ reader = Null
    /\ conn = [c \in Conns |-> "none"]
    /\ line = [c \in Conns |-> FALSE] /\ gone = [c \in Conns |-> FALSE]
    /\ accepted = Null

Alive == pc["server"] # "dead"

Goto(t, from, to) == Alive /\ pc[t] = from /\ pc' = [pc EXCEPT ![t] = to]

\* Closing a stream of a connection, or its socket, closes the connection.
Shut(c) == conn' = [conn EXCEPT ![c] = "closed"]

-----------------------------------------------------------------------------
(* closeStream and closeSocket, run by either thread t.  Every field is     *)
(* tested, read again, used, and cleared; the two streams are cleared even  *)
(* when their use fails.                                                    *)

\* A null field was used: in the server thread's finally block nobody
\* catches it.
Npe(t, from) == Goto(t, from, IF t = "server" THEN "dead" ELSE "npe")

\* closeSocket returns: to the server's loop, or from close().
Return(t, from) == Goto(t, from, IF t = "server" THEN "while" ELSE "closed")

\* Mutant: the writer is closed without the test for null.
TestOutNot(t) ==
    /\ Goto(t, "testOut", "closeOut")
    /\ UNCHANGED <<fields, reader, conn, client, accepted>>

TestOut(t) ==
    /\ Goto(t, "testOut", IF mOut # Null THEN "closeOut" ELSE "testIn")
    /\ UNCHANGED <<fields, reader, conn, client, accepted>>

CloseOut(t) ==
    /\ \/ mOut # Null /\ Goto(t, "closeOut", "nullOut") /\ Shut(mOut) /\ UNCHANGED mOut
       \/ mOut = Null /\ Npe(t, "closeOut") /\ mOut' = Null /\ UNCHANGED conn
    /\ UNCHANGED <<mStop, mSocket, mIn, reader, client, accepted>>

NullOut(t) ==
    /\ Goto(t, "nullOut", "testIn")
    /\ mOut' = Null
    /\ UNCHANGED <<mStop, mSocket, mIn, reader, conn, client, accepted>>

TestIn(t) ==
    /\ Goto(t, "testIn", IF mIn # Null THEN "closeIn" ELSE "testSocket")
    /\ UNCHANGED <<fields, reader, conn, client, accepted>>

\* The reader's lock is free only while the server is not in its readLine.
CloseIn(t) ==
    /\ \/ /\ mIn # Null
          /\ ~(pc["server"] = "reading" /\ reader = mIn)
          /\ Goto(t, "closeIn", "nullIn") /\ Shut(mIn) /\ UNCHANGED mIn
       \/ mIn = Null /\ Npe(t, "closeIn") /\ mIn' = Null /\ UNCHANGED conn
    /\ UNCHANGED <<mStop, mSocket, mOut, reader, client, accepted>>

NullIn(t) ==
    /\ Goto(t, "nullIn", "testSocket")
    /\ mIn' = Null
    /\ UNCHANGED <<mStop, mSocket, mOut, reader, conn, client, accepted>>

TestSocket(t) ==
    /\ \/ mSocket # Null /\ Goto(t, "testSocket", "closeSocket")
       \/ mSocket = Null /\ Return(t, "testSocket")
    /\ UNCHANGED <<fields, reader, conn, client, accepted>>

CloseSocket(t) ==
    /\ \/ mSocket # Null /\ Goto(t, "closeSocket", "nullSocket") /\ Shut(mSocket)
       \/ mSocket = Null /\ Npe(t, "closeSocket") /\ UNCHANGED conn
    /\ UNCHANGED <<fields, reader, client, accepted>>

\* Mutant: mSocket is not cleared and closing is tried again.
NullSocketRetry(t) ==
    /\ Goto(t, "nullSocket", "testSocket")
    /\ UNCHANGED <<fields, reader, conn, client, accepted>>

NullSocket(t) ==
    /\ Return(t, "nullSocket")
    /\ mSocket' = Null
    /\ UNCHANGED <<mStop, mOut, mIn, reader, conn, client, accepted>>

CloseStep(t) ==
    \/ TestOut(t) \/ CloseOut(t) \/ NullOut(t)
    \/ TestIn(t) \/ CloseIn(t) \/ NullIn(t)
    \/ TestSocket(t) \/ CloseSocket(t) \/ NullSocket(t)

-----------------------------------------------------------------------------
(* The server thread: process().                                           *)

Server(from, to) == Goto("server", from, to)

TestStop ==
    /\ Server("while", IF mStop THEN "end" ELSE "accept")
    /\ UNCHANGED <<fields, reader, conn, client, accepted>>

\* accept() returns the next client; the field is assigned.
Accept(c) ==
    /\ Server("accept", "out")
    /\ conn[c] = "pending"
    /\ conn' = [conn EXCEPT ![c] = "open"]
    /\ mSocket' = c
    /\ accepted' = c
    /\ UNCHANGED <<mStop, mOut, mIn, reader, client>>

\* No client for ten seconds: accept() throws.
AcceptTimeout ==
    /\ Server("accept", "testOut")
    /\ UNCHANGED <<fields, reader, conn, client, accepted>>

Usable(c) == c # Null /\ conn[c] = "open"

\* mSocket is read again for each stream; null or closed, it throws.
MakeOut ==
    /\ \/ Usable(mSocket) /\ Server("out", "in") /\ mOut' = mSocket
       \/ ~Usable(mSocket) /\ Server("out", "testOut") /\ UNCHANGED mOut
    /\ UNCHANGED <<mStop, mSocket, mIn, reader, conn, client, accepted>>

\* With both streams made, "server socket connected" is reported.
MakeIn ==
    /\ \/ Usable(mSocket) /\ Server("in", "read") /\ mIn' = mSocket
       \/ ~Usable(mSocket) /\ Server("in", "testOut") /\ UNCHANGED mIn
    /\ UNCHANGED <<mStop, mSocket, mOut, reader, conn, client, accepted>>

\* mInputStream.readLine() is called, on the reader then in the field ...
Read ==
    /\ \/ mIn # Null /\ Server("read", "reading") /\ reader' = mIn
       \/ mIn = Null /\ Server("read", "testOut") /\ UNCHANGED reader
    /\ UNCHANGED <<fields, conn, client, accepted>>

\* Mutant: the loop goes on to the next client without its finally block.
ReadLineNoFinally ==
    /\ \/ /\ Server("reading", "read")
          /\ conn[reader] = "open" /\ line[reader]
          /\ line' = [line EXCEPT ![reader] = FALSE]
       \/ /\ Server("reading", "while")
          /\ conn[reader] = "closed" \/ (gone[reader] /\ ~line[reader])
          /\ UNCHANGED line
    /\ UNCHANGED <<fields, reader, conn, gone, accepted>>

\* ... and returns a line, which is reported, or null, which is reported as
\* "server socket disconnected", or throws because the socket was closed.
ReadLine ==
    /\ \/ /\ Server("reading", "read")
          /\ conn[reader] = "open" /\ line[reader]
          /\ line' = [line EXCEPT ![reader] = FALSE]
       \/ /\ Server("reading", "testOut")
          /\ conn[reader] = "closed" \/ (gone[reader] /\ ~line[reader])
          /\ UNCHANGED line
    /\ UNCHANGED <<fields, reader, conn, gone, accepted>>

ServerStep ==
    \/ TestStop \/ AcceptTimeout \/ \E c \in Conns : Accept(c)
    \/ MakeOut \/ MakeIn \/ Read \/ ReadLine
    \/ CloseStep("server")

-----------------------------------------------------------------------------
(* The binder thread: writeCommand and close, one call at a time.  A close  *)
(* that failed leaves the object in the service, so it is called again; so  *)
(* it is when a failed writeCommand took the app down and the service ends. *)

Binder(from, to) == Goto("binder", from, to)

WriteCommand ==
    /\ mOut # Null
    /\ Binder("idle", "write")
    /\ UNCHANGED <<fields, reader, conn, client, accepted>>

\* write() and flush() each read mOutputStream again; on a closed socket
\* they throw an IOException, which is caught.
Write ==
    /\ \/ Usable(mOut) /\ Binder("write", "flush")
       \/ mOut # Null /\ ~Usable(mOut) /\ Binder("write", "idle")
       \/ mOut = Null /\ Npe("binder", "write")
    /\ UNCHANGED <<fields, reader, conn, client, accepted>>

Flush ==
    /\ \/ mOut # Null /\ Binder("flush", "idle")
       \/ mOut = Null /\ Npe("binder", "flush")
    /\ UNCHANGED <<fields, reader, conn, client, accepted>>

\* close(): the flag, then closeSocket.  mServerSocket is left listening.
Close ==
    /\ Binder("idle", "testOut") \/ Binder("npe", "testOut")
    /\ mStop' = TRUE
    /\ UNCHANGED <<mSocket, mOut, mIn, reader, conn, client, accepted>>

BinderStep == Write \/ Flush \/ CloseStep("binder")

-----------------------------------------------------------------------------
(* The clients.  The port takes connections until the thread has ended.     *)

Connect(c) ==
    /\ Alive /\ pc["server"] # "end"
    /\ conn[c] = "none" /\ \A d \in Conns : d < c => conn[d] # "none"
    /\ conn' = [conn EXCEPT ![c] = "pending"]
    /\ UNCHANGED <<fields, pc, reader, client, accepted>>

Send(c) ==
    /\ conn[c] \in {"pending", "open"} /\ ~line[c] /\ ~gone[c]
    /\ line' = [line EXCEPT ![c] = TRUE]
    /\ UNCHANGED <<fields, pc, reader, conn, gone, accepted>>

HangUp(c) ==
    /\ conn[c] \in {"pending", "open"} /\ ~gone[c]
    /\ gone' = [gone EXCEPT ![c] = TRUE]
    /\ UNCHANGED <<fields, pc, reader, conn, line, accepted>>

-----------------------------------------------------------------------------
Next ==
    \/ ServerStep
    \/ WriteCommand \/ Close \/ BinderStep
    \/ \E c \in Conns : Connect(c) \/ Send(c) \/ HangUp(c)

(* Both threads run, accept() returns at the latest with its timeout, and a *)
(* call that was entered goes on.  Nobody has to call, to connect, to send  *)
(* or to hang up.                                                           *)
Fairness == WF_vars(ServerStep) /\ WF_vars(BinderStep)

Spec == Init /\ [][Next]_vars /\ Fairness

-----------------------------------------------------------------------------
(* Every variable stays in its range.                                      *)
TypeOK ==
    /\ mStop \in BOOLEAN
    /\ mSocket \in Conns \cup {Null}
    /\ mOut \in Conns \cup {Null}
    /\ mIn \in Conns \cup {Null}
    /\ pc \in [Threads -> CloseLocs \cup ServerLocs \cup BinderLocs]
    /\ reader \in Conns \cup {Null}
    /\ conn \in [Conns -> {"none", "pending", "open", "closed"}]
    /\ line \in [Conns -> BOOLEAN] /\ gone \in [Conns -> BOOLEAN]
    /\ accepted \in Conns \cup {Null}

(* As long as close() has not been called, the server goes on serving:      *)
(* no hang-up, time-out or concurrent writeCommand ends its thread.         *)
ServesUntilClosed == ~mStop => pc["server"] \notin {"end", "dead"}

(* No connection is orphaned by the races on the fields: an open one is the *)
(* one accepted last, and the server thread has still to close it.          *)
NoOrphan ==
    \A c \in Conns : conn[c] = "open" =>
        /\ c = accepted
        /\ Alive => pc["server"] \in (CloseLocs \cup {"out", "in", "read", "reading"})

(* Why both hold.  Before close() only the server thread writes the fields, *)
(* so what it tested it finds again.  Afterwards, the flag keeps it from    *)
(* accepting once more: a field the binder thread is about to clear never   *)
(* holds a newer connection than the one it has shut.                       *)
CloseSetsStop == pc["binder"] \in CloseLocs => mStop

TestedFields ==
    ~mStop =>
        /\ pc["server"] = "closeOut" => mOut # Null
        /\ pc["server"] = "closeIn" => mIn # Null
        /\ pc["server"] = "closeSocket" => mSocket # Null

OpenIsInField ==
    /\ \A c \in Conns : conn[c] = "open" /\ Alive => mSocket = c
    /\ pc["server"] \in {"while", "accept"} => mSocket = Null

NothingOpen == \A c \in Conns : conn[c] # "open"

ShutBeforeCleared ==
    /\ pc["server"] = "nullSocket" => NothingOpen
    /\ pc["binder"] = "nullSocket" => NothingOpen /\ pc["server"] # "accept"

\* Clients hang up sooner or later.
ClientsHangUp == \A c \in Conns : (conn[c] = "open") ~> (gone[c] \/ conn[c] = "closed")

(* If clients hang up, close() comes back, normally or with an exception:   *)
(* it does not wait for ever for the lock of a reader.                      *)
CloseReturns ==
    ClientsHangUp =>
        (pc["binder"] \in CloseLocs) ~> (pc["binder"] \notin CloseLocs \/ ~Alive)

(* If clients hang up, close() ends the server thread.                      *)
CloseEndsThread == ClientsHangUp => (mStop ~> (pc["server"] \in {"end", "dead"}))

(* Neither of the two threads that close the same fields hangs.             *)
CloseWorks == CloseReturns /\ CloseEndsThread
=============================================================================
