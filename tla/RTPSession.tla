----------------------------- MODULE RTPSession -----------------------------
(***************************************************************************)
(* One RTPSession as rtp.cpp uses it: the main thread creates it and gives *)
(* it up with BYEDestroy, recording loops call SendPacket, and its poll    *)
(* thread receives, deals with collisions of its own SSRC and sends RTCP   *)
(* (rtpsession.cpp, rtppollthread.cpp, rtpudpv4transmitter.cpp of jrtplib, *)
(* jthread.cpp).                                                           *)
(*                                                                         *)
(* Steps are the stretches between lock operations.  SCHED is taken by the *)
(* poll thread only, and PACKSENT, STOP and the transmitter's MAIN and     *)
(* WAIT around single steps of this model; SOURCES and BUILDER are kept.   *)
(***************************************************************************)
EXTENDS Naturals, Sequences, FiniteSets

CONSTANTS
    Writers,    \* recording loops
    MaxSsrc     \* bound: SSRCs the session has in turn, numbered from 1

ASSUME MaxSsrcAssumption == MaxSsrc \in Nat /\ MaxSsrc >= 1
ASSUME WritersAssumption == Writers \cap {"nobody", "poll thread"} = {}

Nobody == "nobody"
PollThread == "poll thread"

VARIABLES
    main,           \* where Create and BYEDestroy are
    poll,           \* where the poll thread is
    writer,         \* where each loop's SendPacket is
    stop,           \* RTPPollThread: stop
    waitingfordata, abortdesc,  \* transmitter: select is on; the byte that ends it
    sources, builder,   \* holders of sourcesmutex and buildermutex
    ssrc,           \* packetbuilder's SSRC
    own,            \* the SSRC of the table's own entry, 0 if it has none
    built,          \* the SSRC of the packet each loop is sending, or 0
    sentpackets,
    byepackets,     \* the SSRCs the queued BYE packets are about
    byescheduled,   \* rtcpsched: byescheduled
    used,           \* history: SSRCs peers have heard and still need a BYE of
    bare,           \* history: OnPollThreadStep found created false
    lost            \* history: AbortWait found nobody waiting

thread == <<stop, waitingfordata, abortdesc>>
locks == <<sources, builder>>
byes == <<sentpackets, byepackets, byescheduled, used>>
history == <<bare, lost>>
vars == <<main, poll, writer, thread, locks, ssrc, own, built, byes, history>>

Init ==
    /\ main = "create" /\ poll = "off"
    /\ writer = [w \in Writers |-> "idle"]
    /\ stop = FALSE /\ waitingfordata = FALSE /\ abortdesc = FALSE
    /\ sources = Nobody /\ builder = Nobody
    /\ ssrc = 1 /\ own = 1
    /\ built = [w \in Writers |-> 0]
    /\ sentpackets = FALSE
    /\ byepackets = <<>>
    /\ byescheduled = FALSE
    /\ used = {} /\ bare = FALSE /\ lost = FALSE

\* The field created; the transmitter is deleted; packetbuilder is destroyed.
Created == main \notin {"create", "started", "closed"}
TransmitterGone == main \in {"cleanup", "unmark", "closed"}
BuilderGone == main \in {"unmark", "closed"}

-----------------------------------------------------------------------------
(* The main thread.                                                        *)

MainGoto(from, to) ==
    main = from /\ main' = to /\ UNCHANGED <<writer, locks, ssrc, own, built, bare>>

\* InternalCreate starts the poll thread ...
StartThread ==
    /\ MainGoto("create", "started")
    /\ poll' = "test"
    /\ UNCHANGED <<thread, byes, lost>>

\* ... and then says that the session is created.
SetCreated ==
    /\ MainGoto("started", "open")
    /\ UNCHANGED <<poll, thread, byes, lost>>

\* BYEDestroy deletes the poll thread, which calls Stop.
Stop ==
    /\ MainGoto("open", IF poll = "end" THEN "bye" ELSE "abort")
    /\ stop' = (poll # "end")
    /\ UNCHANGED <<poll, waitingfordata, abortdesc, byes, lost>>

\* Mutant: the wait is ended in name only.
AbortWaitForgets ==
    /\ MainGoto("abort", "wait")
    /\ lost' = ~waitingfordata
    /\ UNCHANGED <<poll, thread, byes>>

\* A thread that is not waiting yet is not told.
AbortWait ==
    /\ MainGoto("abort", "wait")
    /\ abortdesc' = waitingfordata
    /\ lost' = ~waitingfordata
    /\ UNCHANGED <<poll, stop, waitingfordata, byes>>

Stopped ==
    /\ MainGoto("wait", "bye")
    /\ poll = "end"
    /\ UNCHANGED <<poll, thread, byes, lost>>

\* After five seconds: Kill, which here ends the caller.  Only a select that
\* nobody aborts, of up to six seconds, keeps the thread that long.
Kill ==
    /\ MainGoto("wait", "exited")
    /\ poll = "select" /\ ~abortdesc
    /\ UNCHANGED <<poll, thread, byes, lost>>

\* Packets with this SSRC were sent, so a BYE is queued, unless building fails.
QueueBye ==
    /\ byepackets' = Append(byepackets, ssrc)
    /\ byescheduled' = (byescheduled \/ byepackets = <<>>)
    /\ used' = used \ {ssrc}
    /\ UNCHANGED sentpackets

LastBye ==
    /\ MainGoto("bye", "flush")
    /\ \/ sentpackets /\ QueueBye
       \/ UNCHANGED byes
    /\ UNCHANGED <<poll, thread, lost>>

\* rtcpsched says it is time: one BYE is sent, the next is scheduled.
FlushBye ==
    /\ byepackets # <<>>
    /\ MainGoto("flush", "flush")
    /\ byepackets' = Tail(byepackets)
    /\ byescheduled' = (byepackets' # <<>>)
    /\ UNCHANGED <<poll, thread, sentpackets, used, lost>>

\* None is left, or the caller's maximum has passed.
Flushed ==
    /\ MainGoto("flush", "delete")
    /\ UNCHANGED <<poll, thread, byes, lost>>

DeleteTransmitter ==
    /\ MainGoto("delete", "cleanup")
    /\ UNCHANGED <<poll, thread, byes, lost>>

Cleanup ==
    /\ MainGoto("cleanup", "unmark")
    /\ byepackets' = <<>>
    /\ byescheduled' = FALSE
    /\ UNCHANGED <<poll, thread, sentpackets, used, lost>>

ClearCreated ==
    /\ MainGoto("unmark", "closed")
    /\ UNCHANGED <<poll, thread, byes, lost>>

-----------------------------------------------------------------------------
(* SendPacket.                                                             *)

WriterGoto(w, from, to) ==
    /\ writer[w] = from /\ writer' = [writer EXCEPT ![w] = to]
    /\ UNCHANGED <<main, poll, thread, ssrc, own, byepackets, byescheduled, history>>

Begin(w) ==
    /\ Created
    /\ WriterGoto(w, "idle", "build")
    /\ UNCHANGED <<locks, built, sentpackets, used>>

\* A builder that was destroyed meanwhile refuses.
Build(w) ==
    /\ builder = Nobody
    /\ \/ BuilderGone /\ WriterGoto(w, "build", "idle") /\ UNCHANGED <<builder, built>>
       \/ /\ ~BuilderGone /\ WriterGoto(w, "build", "send")
          /\ builder' = w
          /\ built' = [built EXCEPT ![w] = ssrc]
    /\ UNCHANGED <<sources, sentpackets, used>>

\* The call goes on to the source table, or returns an error.
SendReturned(w) ==
    \/ WriterGoto(w, "send", "count") /\ UNCHANGED built
    \/ WriterGoto(w, "send", "idle") /\ built' = [built EXCEPT ![w] = 0]

\* Mutant: the buffer stays locked until the source table has been told.
SendLocked(w) ==
    /\ ~TransmitterGone
    /\ WriterGoto(w, "send", "count") /\ UNCHANGED builder
    /\ UNCHANGED <<sources, built, sentpackets, used>>

\* The transmitter sends, or reports an error.
Send(w) ==
    /\ ~TransmitterGone
    /\ SendReturned(w)
    /\ builder' = Nobody
    /\ UNCHANGED <<sources, sentpackets, used>>

\* The transmitter was deleted while created was still true.  Undefined: the
\* call returns something, or its thread never comes back from it.
SendGone(w) ==
    /\ TransmitterGone
    /\ \/ SendReturned(w) /\ builder' = Nobody
       \/ WriterGoto(w, "send", "lost") /\ UNCHANGED <<builder, built>>
    /\ UNCHANGED <<sources, sentpackets, used>>

\* SentRTPPacket, in between.
LockToCount(w) ==
    /\ sources = Nobody
    /\ WriterGoto(w, "count", "counted")
    /\ sources' = w
    /\ UNCHANGED <<builder, built, sentpackets, used>>

Counted(w) ==
    /\ WriterGoto(w, "counted", "flag")
    /\ sources' = Nobody
    /\ UNCHANGED <<builder, built, sentpackets, used>>

\* The flag is set after both locks were released.  A send that ends after
\* ProcessPolledData has looked at the flag was not over at the collision.
SetSent(w) ==
    /\ WriterGoto(w, "flag", "idle")
    /\ sentpackets' = TRUE
    /\ used' = IF built[w] = ssrc /\ poll # "newssrc" THEN used \cup {ssrc} ELSE used
    /\ built' = [built EXCEPT ![w] = 0]
    /\ UNCHANGED locks

-----------------------------------------------------------------------------
(* The poll thread: RTPPollThread::Thread.                                 *)

PollGoto(from, to) == poll = from /\ poll' = to /\ UNCHANGED <<main, writer, built, builder, lost>>

LockSources == sources = Nobody /\ sources' = PollThread

\* Whoever holds it, if anybody does.
UnlockSources == sources' = Nobody

TestStop ==
    /\ PollGoto("test", IF stop THEN "end" ELSE "delay")
    /\ UNCHANGED <<thread, sources, ssrc, own, byes, bare>>

\* GetTransmissionDelay, with SCHED and SOURCES for the while.
Delay ==
    /\ PollGoto("delay", "enter")
    /\ sources = Nobody
    /\ UNCHANGED <<thread, sources, ssrc, own, byes, bare>>

\* WaitForIncomingData: the flag, select, and the flag again.
EnterWait ==
    /\ PollGoto("enter", "select")
    /\ waitingfordata' = TRUE
    /\ UNCHANGED <<stop, abortdesc, sources, ssrc, own, byes, bare>>

Select ==
    /\ PollGoto("select", IF abortdesc THEN "aborted" ELSE "woken")
    /\ UNCHANGED <<thread, sources, ssrc, own, byes, bare>>

\* The byte is read if select has seen it.
LeaveWait ==
    /\ \/ PollGoto("woken", "receive") /\ UNCHANGED abortdesc
       \/ PollGoto("aborted", "receive") /\ abortdesc' = FALSE
    /\ waitingfordata' = FALSE
    /\ UNCHANGED <<stop, sources, ssrc, own, byes, bare>>

\* select fails, or Poll does.
WaitFails ==
    /\ PollGoto("woken", "end") \/ PollGoto("receive", "end")
    /\ waitingfordata' = FALSE
    /\ UNCHANGED <<stop, abortdesc, sources, ssrc, own, byes, bare>>

-----------------------------------------------------------------------------
(* The poll thread: ProcessPolledData, which keeps SOURCES throughout.     *)

BeginProcess ==
    /\ PollGoto("receive", "packets")
    /\ LockSources
    /\ UNCHANGED <<thread, ssrc, own, byes, bare>>

\* A packet collides with the own SSRC, from an address that has not yet; or
\* there are no more packets.  Others change nothing here.
NextPacket ==
    /\ \/ ssrc < MaxSsrc /\ PollGoto("packets", "collision")
       \/ PollGoto("packets", "time")
    /\ UNCHANGED <<thread, sources, ssrc, own, byes, bare>>

\* A packet cannot be processed, or one to send not be built or sent.
ProcessFails ==
    /\ \E from \in {"packets", "bye", "rtcp"} : PollGoto(from, "end")
    /\ UnlockSources
    /\ UNCHANGED <<thread, ssrc, own, byes, bare>>

\* Mutant: the flag is read the wrong way round.
CollisionInverted ==
    /\ PollGoto("collision", IF sentpackets THEN "newssrc" ELSE "bye")
    /\ UNCHANGED <<thread, sources, ssrc, own, byes, bare>>

Collision ==
    /\ PollGoto("collision", IF sentpackets THEN "bye" ELSE "newssrc")
    /\ UNCHANGED <<thread, sources, ssrc, own, byes, bare>>

CollisionBye ==
    /\ builder = Nobody
    /\ PollGoto("bye", "newssrc")
    /\ QueueBye
    /\ UNCHANGED <<thread, sources, ssrc, own, bare>>

CreateNewSsrc ==
    /\ builder = Nobody
    /\ PollGoto("newssrc", "clear")
    /\ ssrc' = ssrc + 1
    /\ UNCHANGED <<thread, sources, own, byes, bare>>

ClearSent ==
    /\ PollGoto("clear", "own")
    /\ sentpackets' = FALSE
    /\ UNCHANGED <<thread, sources, ssrc, own, byepackets, byescheduled, used, bare>>

\* Mutant: the table is unlocked before the own entry is replaced.
ReplaceOwnLate ==
    /\ \/ /\ sources = PollThread /\ UnlockSources
          /\ UNCHANGED <<main, poll, writer, built, builder, lost, own>>
       \/ /\ sources # PollThread
          /\ LockSources
          /\ PollGoto("own", "packets")
          /\ own' = ssrc
    /\ poll = "own"
    /\ UNCHANGED <<thread, ssrc, byes, bare>>

\* DeleteOwnSSRC, which fails only if there is no own entry, and CreateOwnSSRC.
ReplaceOwn ==
    /\ PollGoto("own", "packets")
    /\ own' = ssrc
    /\ UNCHANGED <<thread, sources, ssrc, byes, bare>>

\* There is no memory for the new entry when the old one has been deleted.
CreateOwnFails ==
    /\ PollGoto("own", "end")
    /\ own' = 0
    /\ UnlockSources
    /\ UNCHANGED <<thread, ssrc, byes, bare>>

\* The timeouts; and is it time for RTCP?
IsTime ==
    /\ \/ PollGoto("time", "step") /\ UnlockSources /\ UNCHANGED byescheduled
       \/ /\ PollGoto("time", IF byepackets = <<>> THEN "rtcp" ELSE "sendbye")
          /\ byescheduled' = FALSE
          /\ UNCHANGED sources
    /\ UNCHANGED <<thread, ssrc, own, sentpackets, byepackets, used, bare>>

SendRtcp ==
    /\ builder = Nobody
    /\ PollGoto("rtcp", "step")
    /\ sentpackets' = TRUE
    /\ used' = used \cup {ssrc}
    /\ UnlockSources
    /\ UNCHANGED <<thread, ssrc, own, byepackets, byescheduled, bare>>

\* The BYE of an SSRC given up earlier is sent, or fails to be.
SendBye ==
    /\ poll = "sendbye"
    /\ byepackets' = Tail(byepackets)
    /\ \/ /\ PollGoto("sendbye", "step")
          /\ sentpackets' = TRUE
          /\ byescheduled' = (byepackets' # <<>>)
       \/ PollGoto("sendbye", "end") /\ UNCHANGED <<sentpackets, byescheduled>>
    /\ UnlockSources
    /\ UNCHANGED <<thread, ssrc, own, used, bare>>

-----------------------------------------------------------------------------
(* The poll thread: OnPollThreadStep of CustomRTPSession, between           *)
(* BeginDataAccess and EndDataAccess, which both look at created.           *)

BeginDataAccess ==
    /\ PollGoto("step", "data")
    /\ IF Created THEN LockSources /\ UNCHANGED bare
                  ELSE bare' = TRUE /\ UNCHANGED sources
    /\ UNCHANGED <<thread, ssrc, own, byes>>

EndDataAccess ==
    /\ PollGoto("data", "test")
    /\ IF Created THEN UnlockSources ELSE UNCHANGED sources
    /\ UNCHANGED <<thread, ssrc, own, byes, bare>>

-----------------------------------------------------------------------------
CreateStep == StartThread \/ SetCreated
DestroyStep ==
    \/ AbortWait \/ Stopped \/ Kill \/ LastBye \/ FlushBye \/ Flushed
    \/ DeleteTransmitter \/ Cleanup \/ ClearCreated
SendStep(w) ==
    \/ Build(w) \/ Send(w) \/ SendGone(w) \/ LockToCount(w) \/ Counted(w) \/ SetSent(w)
PollStep ==
    \/ TestStop \/ Delay \/ EnterWait \/ Select \/ LeaveWait \/ WaitFails
    \/ BeginProcess \/ NextPacket \/ ProcessFails
    \/ Collision \/ CollisionBye \/ CreateNewSsrc \/ ClearSent
    \/ ReplaceOwn \/ CreateOwnFails
    \/ IsTime \/ SendRtcp \/ SendBye \/ BeginDataAccess \/ EndDataAccess

Next ==
    \/ CreateStep \/ Stop \/ DestroyStep
    \/ \E w \in Writers : Begin(w) \/ SendStep(w)
    \/ PollStep

(* Threads run, and a mutex that is free again and again is got.  Nobody has *)
(* to end the session or to send.                                           *)
Fairness ==
    /\ WF_vars(DestroyStep) /\ SF_vars(PollStep)
    /\ \A w \in Writers : SF_vars(SendStep(w))

Spec == Init /\ [][Next]_vars /\ Fairness

-----------------------------------------------------------------------------
(* Properties.                                                             *)

MainLocs == {"create", "started", "open", "abort", "wait", "exited", "bye", "flush",
             "delete", "cleanup", "unmark", "closed"}
PollLocs == {"off", "test", "delay", "enter", "select", "woken", "aborted", "receive",
             "packets", "collision", "bye", "newssrc", "clear", "own", "time", "rtcp",
             "sendbye", "step", "data", "end"}
WriterLocs == {"idle", "build", "send", "count", "counted", "flag", "lost"}
Ssrcs == 1 .. MaxSsrc

TypeOK ==
    /\ main \in MainLocs /\ poll \in PollLocs
    /\ writer \in [Writers -> WriterLocs]
    /\ stop \in BOOLEAN /\ waitingfordata \in BOOLEAN /\ abortdesc \in BOOLEAN
    /\ sources \in Writers \cup {Nobody, PollThread}
    /\ builder \in Writers \cup {Nobody}
    /\ ssrc \in Ssrcs /\ own \in Ssrcs \cup {0}
    /\ built \in [Writers -> 0 .. MaxSsrc]
    /\ byepackets \in Seq(Ssrcs) /\ used \subseteq Ssrcs
    /\ sentpackets \in BOOLEAN /\ byescheduled \in BOOLEAN
    /\ bare \in BOOLEAN /\ lost \in BOOLEAN

\* BYEDestroy goes on to the parts that the poll thread uses without asking
\* (transmitter, builders, source table) only when the thread has ended, also if
\* it had not come to its wait when it was to be aborted, or ends by an error.
FullControl ==
    main \in {"bye", "flush", "delete", "cleanup", "unmark", "closed"} => poll = "end"

\* However the poll thread ends, the source table is not left locked by it.
EndsUnlocked == poll = "end" => sources # PollThread

\* Whoever gets the lock on the source table finds the own entry under the SSRC
\* that packets are sent with, through any number of collisions; or none, when
\* the poll thread has ended for want of one, and never the old one.  (Not so in
\* a session whose first poll step came before created was set: that step can
\* unlock what another thread has locked.)
OwnIsCurrent ==
    ~bare /\ sources = Nobody => own = ssrc \/ (own = 0 /\ poll = "end")

\* While the poll thread runs, BYEs wait in the queue exactly if one is scheduled:
\* none is kept for ever, and no schedule finds an empty queue.
ByesAreScheduled ==
    poll \notin {"sendbye", "end"} => (byescheduled <=> byepackets # <<>>)

\* An SSRC is given up for another only with a BYE, if peers have heard it: in a
\* report, or in a packet whose SendPacket was over when the collision was found.
\* That needs SentRTPPacket's lock between the send and the flag: without it the
\* flag of a first packet under the new SSRC is cleared with that of the old.
NoSsrcLeftSilently == ~bare => used \subseteq {ssrc}

\* The main thread is lost to Kill only if AbortWait came before the thread had
\* entered its wait: a wait that has begun never outlasts its abort, also when
\* data or a timeout ends it at the same time.
KillMeansLostAbort == main = "exited" => lost

\* BYEDestroy comes to its end, or to Kill.
DestroyReturns == main = "abort" ~> main \in {"closed", "exited"}

\* SendPacket returns, whatever the poll thread and the other loops hold, while
\* there is a transmitter.
SendReturns ==
    \A w \in Writers : writer[w] # "idle" ~> (writer[w] = "idle" \/ TransmitterGone)

\* No call into the session hangs on the poll thread, on its two mutexes or on a
\* lost signal.
CallsReturn == DestroyReturns /\ SendReturns
=============================================================================
