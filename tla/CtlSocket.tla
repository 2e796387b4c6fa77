------------------------------ MODULE CtlSocket ------------------------------
(***************************************************************************)
(* The caller's end of a control connection (socket/CtlSocket.java): a     *)
(* thread that connects, reports what it reads and closes, and a binder    *)
(* thread that writes commands and calls closeConnect at any time, also    *)
(* before the thread has begun.                                            *)
(*                                                                         *)
(* As in CtlServerSocket, the three fields are plain, each is tested and   *)
(* read again, and both threads run the same closing code: every access is *)
(* a step.  An exception while commands are read is caught; a null field   *)
(* at connect or while closing ends the process, or goes to the caller.    *)
(***************************************************************************)
EXTENDS Naturals

CONSTANT MaxTries       \* bound: how often connect() times out

ASSUME MaxTriesAssumption == MaxTries \in Nat

Threads == {"thread", "binder"}

VARIABLES
    mSocket, mOut, mIn, \* is the field not null?
    pc,         \* where each thread is
    phase,      \* what closing is for: "stream", closeStream; "socket", closeSocket
    tries,      \* calls of process() below the current one
    thrown,     \* a NullPointerException is on its way out of process()
    conn,       \* the connection: "none", "open", "closed"
    line, gone, \* the peer has sent a line; has hung up
    reported,   \* what the callback was told last
    asked,      \* history: closeConnect was called: "no", "once", "again" after a return
    late        \* history: reports since it returned

fields == <<mSocket, mOut, mIn>>
peer == <<line, gone>>
report == <<reported, late>>
cvars == <<fields, pc, phase, tries, thrown, conn, peer, report, asked>>

CInit ==
    /\ mSocket = TRUE /\ mOut = FALSE /\ mIn = FALSE
    /\ pc = [t \in Threads |-> IF t = "thread" THEN "connect" ELSE "idle"]
    /\ phase = [t \in Threads |-> "stream"]
    /\ tries = 0 /\ thrown = FALSE
    /\ conn = "none"
    /\ line = FALSE /\ gone = FALSE
    /\ reported = "nothing" /\ late = 0
    /\ asked = "no"

Alive == pc["thread"] # "dead"

Goto(t, from, to) ==
    /\ Alive /\ pc[t] = from
    /\ pc' = [pc EXCEPT ![t] = to]

\* closeStream, or closeSocket, begins.
Closing(t, from, what) ==
    /\ Goto(t, from, "testOut")
    /\ phase' = [phase EXCEPT ![t] = what]

\* newCommand is called.
Tell(what) ==
    /\ reported' = what
    /\ late' = IF pc["binder"] = "closed" \/ asked = "again" THEN late + 1 ELSE late

-----------------------------------------------------------------------------
(* closeStream and closeSocket, by either thread.  closeConnect runs one and *)
(* then the other, and so do the two finally blocks of process().            *)

\* A field that was tested is null now.  In the inner finally block the
\* exception goes on to the outer one; out of that, the thread ends.
Npe(t, from) ==
    IF t = "binder" THEN Goto(t, from, "npe") /\ UNCHANGED <<phase, tries, thrown>>
    ELSE /\ thrown' = TRUE
         /\ IF phase[t] = "stream"
            THEN Closing(t, from, "socket") /\ UNCHANGED tries
            ELSE IF tries > 0 THEN Closing(t, from, "socket") /\ tries' = tries - 1
            ELSE Goto(t, from, "dead") /\ UNCHANGED <<phase, tries>>

\* Mutant: process() returns to one that called it, also when none did.
ReturnToNone(t, from) ==
    /\ UNCHANGED thrown
    /\ IF t = "binder" THEN Goto(t, from, "closed") /\ UNCHANGED <<phase, tries>>
       ELSE Closing(t, from, "socket") /\ tries' = tries - 1

\* closeSocket returns: closeConnect does, or process(), to the one that
\* called it when connect() timed out.
Return(t, from) ==
    /\ UNCHANGED thrown
    /\ IF t = "binder" THEN Goto(t, from, "closed") /\ UNCHANGED <<phase, tries>>
       ELSE IF tries > 0 THEN Closing(t, from, "socket") /\ tries' = tries - 1
       ELSE Goto(t, from, IF thrown THEN "dead" ELSE "end") /\ UNCHANGED <<phase, tries>>

\* closeStream is over.  After the inner one the thread reports its end.
StreamsClosed(t, from) ==
    /\ IF phase[t] = "socket" THEN Goto(t, from, "testSocket") /\ UNCHANGED <<phase, report>>
       ELSE /\ Closing(t, from, "socket")
            /\ IF t = "thread" THEN Tell("disconnected") ELSE UNCHANGED report
    /\ UNCHANGED <<tries, thrown>>

TestOut(t) ==
    /\ Goto(t, "testOut", IF mOut THEN "closeOut" ELSE "testIn")
    /\ UNCHANGED <<fields, phase, tries, thrown, conn, peer, report, asked>>

\* Closing a stream closes the socket.
CloseOut(t) ==
    /\ \/ mOut /\ Goto(t, "closeOut", "nullOut") /\ conn' = "closed" /\ UNCHANGED <<phase, tries, thrown>>
       \/ ~mOut /\ Npe(t, "closeOut") /\ UNCHANGED conn
    /\ UNCHANGED <<fields, peer, report, asked>>

NullOut(t) ==
    /\ Goto(t, "nullOut", "testIn")
    /\ mOut' = FALSE
    /\ UNCHANGED <<mSocket, mIn, phase, tries, thrown, conn, peer, report, asked>>

TestIn(t) ==
    /\ \/ mIn /\ Goto(t, "testIn", "closeIn") /\ UNCHANGED <<phase, tries, thrown, report>>
       \/ ~mIn /\ StreamsClosed(t, "testIn")
    /\ UNCHANGED <<fields, conn, peer, asked>>

\* readLine keeps the reader's lock while it waits.
CloseIn(t) ==
    /\ \/ /\ mIn /\ pc["thread"] # "reading"
          /\ Goto(t, "closeIn", "nullIn") /\ conn' = "closed"
          /\ UNCHANGED <<phase, tries, thrown>>
       \/ ~mIn /\ Npe(t, "closeIn") /\ UNCHANGED conn
    /\ UNCHANGED <<fields, peer, report, asked>>

NullIn(t) ==
    /\ StreamsClosed(t, "nullIn")
    /\ mIn' = FALSE
    /\ UNCHANGED <<mSocket, mOut, conn, peer, asked>>

TestSocket(t) ==
    /\ \/ mSocket /\ Goto(t, "testSocket", "closeSocket") /\ UNCHANGED <<phase, tries, thrown>>
       \/ ~mSocket /\ Return(t, "testSocket")
    /\ UNCHANGED <<fields, conn, peer, report, asked>>

\* Mutant: the socket is only forgotten.
CloseSocketForgets(t) ==
    /\ \/ mSocket /\ Goto(t, "closeSocket", "nullSocket") /\ UNCHANGED <<phase, tries, thrown>>
       \/ ~mSocket /\ Npe(t, "closeSocket")
    /\ UNCHANGED <<fields, conn, peer, report, asked>>

CloseSocket(t) ==
    /\ \/ mSocket /\ Goto(t, "closeSocket", "nullSocket") /\ conn' = "closed" /\ UNCHANGED <<phase, tries, thrown>>
       \/ ~mSocket /\ Npe(t, "closeSocket") /\ UNCHANGED conn
    /\ UNCHANGED <<fields, peer, report, asked>>

\* Mutant: mSocket is not cleared and closing is tried again.
NullSocketRetry(t) ==
    /\ Goto(t, "nullSocket", "testSocket")
    /\ UNCHANGED <<fields, phase, tries, thrown, conn, peer, report, asked>>

NullSocket(t) ==
    /\ Return(t, "nullSocket")
    /\ mSocket' = FALSE
    /\ UNCHANGED <<mOut, mIn, conn, peer, report, asked>>

CloseStep(t) ==
    \/ TestOut(t) \/ CloseOut(t) \/ NullOut(t)
    \/ TestIn(t) \/ CloseIn(t) \/ NullIn(t)
    \/ TestSocket(t) \/ CloseSocket(t) \/ NullSocket(t)

-----------------------------------------------------------------------------
(* The thread: process().                                                  *)

Thread(from, to) == Goto("thread", from, to) /\ UNCHANGED phase

\* mSocket.connect is called: on null nobody catches what follows.
CallConnect ==
    /\ \/ mSocket /\ Thread("connect", "connecting") /\ UNCHANGED thrown
       \/ ~mSocket /\ Closing("thread", "connect", "socket") /\ thrown' = TRUE
    /\ UNCHANGED <<fields, tries, conn, peer, report, asked>>

Connected ==
    /\ Thread("connecting", "out")
    /\ conn = "none"
    /\ conn' = "open"
    /\ UNCHANGED <<fields, tries, thrown, peer, report, asked>>

\* Refused, unreachable or closed meanwhile: nobody is told.
ConnectThrows ==
    /\ Closing("thread", "connecting", "socket")
    /\ UNCHANGED <<fields, tries, thrown, conn, peer, report, asked>>

\* SocketTimeoutException: process() calls itself.
ConnectTimesOut ==
    /\ Thread("connecting", "connect")
    /\ conn = "none" /\ tries < MaxTries
    /\ tries' = tries + 1
    /\ UNCHANGED <<fields, thrown, conn, peer, report, asked>>

MakeOut ==
    /\ \/ mSocket /\ conn = "open" /\ Thread("out", "in") /\ mOut' = TRUE
       \/ ~(mSocket /\ conn = "open") /\ Closing("thread", "out", "stream") /\ UNCHANGED mOut
    /\ UNCHANGED <<mSocket, mIn, tries, thrown, conn, peer, report, asked>>

MakeIn ==
    /\ \/ mSocket /\ conn = "open" /\ Thread("in", "connected") /\ mIn' = TRUE
       \/ ~(mSocket /\ conn = "open") /\ Closing("thread", "in", "stream") /\ UNCHANGED mIn
    /\ UNCHANGED <<mSocket, mOut, tries, thrown, conn, peer, report, asked>>

\* newCommand: "socket connected", or the line that was read.
NewCommand ==
    /\ Thread("connected", "read") \/ Thread("line", "read")
    /\ Tell("connected")
    /\ UNCHANGED <<fields, tries, thrown, conn, peer, asked>>

Read ==
    /\ \/ mIn /\ Thread("read", "reading")
       \/ ~mIn /\ Closing("thread", "read", "stream")
    /\ UNCHANGED <<fields, tries, thrown, conn, peer, report, asked>>

\* Mutant: the outer finally block alone.
ReadLineNoFinally ==
    /\ \/ /\ Thread("reading", "line")
          /\ conn = "open" /\ line
          /\ line' = FALSE
       \/ /\ Closing("thread", "reading", "socket")
          /\ conn = "closed" \/ (gone /\ ~line)
          /\ UNCHANGED line
    /\ UNCHANGED <<fields, tries, thrown, conn, gone, report, asked>>

\* Mutant: null is taken for a line.
ReadLineNull ==
    /\ Thread("reading", "line")
    /\ line \/ gone \/ conn = "closed"
    /\ line' = FALSE
    /\ UNCHANGED <<fields, tries, thrown, conn, gone, report, asked>>

\* readLine returns a line; or null, or throws because the socket is closed.
ReadLine ==
    /\ \/ /\ Thread("reading", "line")
          /\ conn = "open" /\ line
          /\ line' = FALSE
       \/ /\ Closing("thread", "reading", "stream")
          /\ conn = "closed" \/ (gone /\ ~line)
          /\ UNCHANGED line
    /\ UNCHANGED <<fields, tries, thrown, conn, gone, report, asked>>

ThreadStep ==
    \/ CallConnect \/ Connected \/ ConnectThrows \/ ConnectTimesOut
    \/ MakeOut \/ MakeIn \/ NewCommand \/ Read \/ ReadLine
    \/ CloseStep("thread")

-----------------------------------------------------------------------------
(* The binder thread.  The service keeps the object, so closeConnect may be *)
(* called again, also after it threw.                                       *)

Binder(from, to) == Goto("binder", from, to) /\ UNCHANGED phase

WriteCommand ==
    /\ mOut
    /\ Binder("idle", "write")
    /\ UNCHANGED <<fields, tries, thrown, conn, peer, report, asked>>

\* An IOException is caught.
Write ==
    /\ \/ mOut /\ conn = "open" /\ Binder("write", "flush")
       \/ mOut /\ conn # "open" /\ Binder("write", "idle")
       \/ ~mOut /\ Binder("write", "npe")
    /\ UNCHANGED <<fields, tries, thrown, conn, peer, report, asked>>

Flush ==
    /\ \/ mOut /\ Binder("flush", "idle")
       \/ ~mOut /\ Binder("flush", "npe")
    /\ UNCHANGED <<fields, tries, thrown, conn, peer, report, asked>>

CloseConnect ==
    /\ \/ Closing("binder", "idle", "stream") /\ asked' = "once"
       \/ Closing("binder", "npe", "stream") /\ asked' = IF asked = "no" THEN "once" ELSE asked
       \/ Closing("binder", "closed", "stream") /\ asked' = "again"
    /\ UNCHANGED <<fields, tries, thrown, conn, peer, report>>

BinderStep == Write \/ Flush \/ CloseStep("binder")

-----------------------------------------------------------------------------
(* The peer.                                                               *)

Send ==
    /\ conn = "open" /\ ~line /\ ~gone
    /\ line' = TRUE
    /\ UNCHANGED <<fields, pc, phase, tries, thrown, conn, gone, report, asked>>

HangUp ==
    /\ conn = "open" /\ ~gone
    /\ gone' = TRUE
    /\ UNCHANGED <<fields, pc, phase, tries, thrown, conn, line, report, asked>>

CNext ==
    \/ ThreadStep
    \/ WriteCommand \/ CloseConnect \/ BinderStep
    \/ Send \/ HangUp

(* Both threads run, connect() returns, and the lock of a reader that is    *)
(* free again and again is got.  Nobody has to call, to send or to hang up. *)
CFairness == WF_cvars(ThreadStep) /\ SF_cvars(BinderStep)

CSpec == CInit /\ [][CNext]_cvars /\ CFairness

-----------------------------------------------------------------------------
(* Properties.                                                             *)

CloseLocs == {"testOut", "closeOut", "nullOut", "testIn", "closeIn", "nullIn",
              "testSocket", "closeSocket", "nullSocket"}
ThreadLocs == {"connect", "connecting", "out", "in", "connected", "read", "reading",
               "line", "end", "dead"}
BinderLocs == {"idle", "write", "flush", "closed", "npe"}

\* Every variable stays in its range.
CTypeOK ==
    /\ mSocket \in BOOLEAN /\ mOut \in BOOLEAN /\ mIn \in BOOLEAN
    /\ pc["thread"] \in CloseLocs \cup ThreadLocs
    /\ pc["binder"] \in CloseLocs \cup BinderLocs
    /\ phase \in [Threads -> {"stream", "socket"}]
    /\ tries \in 0 .. MaxTries
    /\ conn \in {"none", "open", "closed"}
    /\ reported \in {"nothing", "connected", "disconnected"}
    /\ thrown \in BOOLEAN /\ line \in BOOLEAN /\ gone \in BOOLEAN
    /\ asked \in {"no", "once", "again"}

\* No connection outlives its owner: it is closed when the thread has ended, and
\* when closeConnect has returned, also if that came before the connection was made.
ClosedWhenDone ==
    pc["thread"] = "end" \/ pc["binder"] = "closed" => conn = "closed"

\* Once closeConnect has returned, the callback, which the next call shares, hears
\* at most one more command of this connection and its end.
LateBound == late <= 2

\* Whoever was told of the connection is told of its end, unless the process ends,
\* which takes a closeConnect: a field that the thread has tested is cleared by no
\* peer, no failed connect and no command.
EndReported ==
    (reported = "connected" /\ (gone \/ conn = "closed")) ~>
        (reported = "disconnected" \/ (~Alive /\ asked # "no"))

\* closeConnect ends the thread, if the peer hangs up sooner or later: without that
\* it can wait for the reader's lock, when the streams are made as it begins.
CloseEndsThread ==
    (conn = "open" ~> (gone \/ conn = "closed")) =>
        (asked # "no" ~> pc["thread"] \in {"end", "dead"})
=============================================================================
