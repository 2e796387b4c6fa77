------------------------------ MODULE Discovery ------------------------------
(***************************************************************************)
(* How phones find each other: MultiCastSender together with the receiving *)
(* thread of the service (utils/MultiCastReceiver.java), the order in      *)
(* which LocalCallService starts and stops the two, and MainActivity's     *)
(* list of contacts.                                                       *)
(*                                                                         *)
(* The receiver's fields mStop and mReceiveMulticastSocket are plain and   *)
(* are read again at each use, by run() and by stopReceive, which close    *)
(* and clear the socket with the same code.  A null socket ends the loop   *)
(* of run(); in the closing code it ends the process, and so does leaving   *)
(* the group before run() has its address.                                 *)
(***************************************************************************)
EXTENDS MultiCastSender

CONSTANTS
    Peers,              \* addresses that other phones announce
    Contains(_, _)      \* does the first address, as a text, contain the second?

ASSUME PeersAssumption == Peers \cap (Ips \cup {NoIp}) = {}
ASSUME ContainsAssumption == \A a \in Ips : Contains(a, a)

Nothing == "nothing"
Announced == Ips \cup {NoIp} \cup Peers

Closers == {"receiver", "main"}

VARIABLES
    recvStop,   \* MultiCastReceiver: mStop
    field,      \* is mReceiveMulticastSocket not null?
    socket,     \* the socket: "none", "open", "closed"
    group,      \* is mInetSocketAddressGroup not null?
    pc,         \* where the receiving thread and stopReceive are
    inbox,      \* the datagram in the socket's buffer (bound: one)
    listed,     \* MainActivity: keys of mIPMap
    moved       \* history: getLocalIpAddress has found no address, or another one

receiver == <<recvStop, field, socket, group, pc>>
contacts == <<inbox, listed, moved>>
dvars == <<vars, receiver, contacts>>

DInit ==
    /\ Init
    /\ recvStop = TRUE
    /\ field = FALSE /\ socket = "none" /\ group = FALSE
    /\ pc = [receiver |-> "new", main |-> "idle"]
    /\ inbox = Nothing
    /\ listed = {}
    /\ moved = (localIp = NoIp)

Dead == \E c \in Closers : pc[c] = "dead"

At(c, from) == pc[c] = from /\ ~Dead
Go(c, to) == pc' = [pc EXCEPT ![c] = to]

\* The process ends, and the sender with it, if it was started.
Die(c) == Go(c, "dead") /\ sender' = IF sender = "new" THEN sender ELSE "done"

-----------------------------------------------------------------------------
(* The closing code, by run()'s finally block and by stopReceive.           *)

TestField(c) ==
    /\ At(c, "test")
    /\ Go(c, IF field THEN "isClosed" ELSE "done")
    /\ UNCHANGED <<vars, recvStop, field, socket, group, contacts>>

\* isClosed, leaveGroup and close each read the field again.
TestClosed(c) ==
    /\ At(c, "isClosed")
    /\ IF ~field THEN Die(c)
       ELSE Go(c, IF socket = "closed" THEN "done" ELSE "leave") /\ UNCHANGED sender
    /\ UNCHANGED <<mStop, mWait, mSelfIp, main, binder, localIp, history,
                   recvStop, field, socket, group, contacts>>

\* Leaving the group of a closed socket throws, and that is caught.  A group that
\* is null is an illegal argument, which is not.
LeaveGroup(c) ==
    /\ At(c, "leave")
    /\ IF ~field \/ (socket = "open" /\ ~group) THEN Die(c) ELSE Go(c, "close") /\ UNCHANGED sender
    /\ UNCHANGED <<mStop, mWait, mSelfIp, main, binder, localIp, history,
                   recvStop, field, socket, group, contacts>>

\* Mutant: the group is left and the socket forgotten.
CloseReceiverForgets(c) ==
    /\ At(c, "close")
    /\ Go(c, "clear") /\ UNCHANGED <<sender, socket>>
    /\ UNCHANGED <<mStop, mWait, mSelfIp, main, binder, localIp, history,
                   recvStop, field, group, contacts>>

CloseReceiver(c) ==
    /\ At(c, "close")
    /\ IF ~field THEN Die(c) /\ UNCHANGED socket
       ELSE Go(c, "clear") /\ socket' = "closed" /\ UNCHANGED sender
    /\ UNCHANGED <<mStop, mWait, mSelfIp, main, binder, localIp, history,
                   recvStop, field, group, contacts>>

ClearField(c) ==
    /\ At(c, "clear")
    /\ Go(c, "done")
    /\ field' = FALSE
    /\ UNCHANGED <<vars, recvStop, socket, group, contacts>>

Closing(c) == TestField(c) \/ TestClosed(c) \/ LeaveGroup(c) \/ CloseReceiver(c) \/ ClearField(c)

-----------------------------------------------------------------------------
(* The service's main thread.                                              *)

\* startReceive, before startSend.
StartReceive ==
    /\ At("receiver", "new") /\ recvStop
    /\ Go("receiver", "begin")
    /\ UNCHANGED <<vars, recvStop, field, socket, group, contacts>>

\* stopReceive, before stopSend.
StopReceive ==
    /\ main = "running" /\ binder = "idle"
    /\ At("main", "idle")
    /\ Go("main", "test")
    /\ recvStop' = TRUE
    /\ UNCHANGED <<vars, field, socket, group, contacts>>

-----------------------------------------------------------------------------
(* The receiving thread: run().                                            *)

Receiver(from, to) == At("receiver", from) /\ Go("receiver", to)

BeginReceive ==
    /\ Receiver("begin", "create")
    /\ recvStop' = FALSE
    /\ UNCHANGED <<vars, field, socket, group, contacts>>

CreateSocket ==
    /\ Receiver("create", "bind")
    /\ field' = TRUE /\ socket' = "open"
    /\ UNCHANGED <<vars, recvStop, group, contacts>>

\* An access to the socket, which throws if that is null or closed, or anyway.
Uses(from, to) == (field /\ socket = "open" /\ Receiver(from, to)) \/ Receiver(from, "test")

Bind ==
    /\ Uses("bind", "name")
    /\ UNCHANGED <<vars, recvStop, field, socket, group, contacts>>

\* The group's address; looking up the interface may still throw.
NameGroup ==
    /\ \/ Receiver("name", "join") /\ group' = TRUE
       \/ Receiver("name", "test") /\ group' \in {group, TRUE}
    /\ UNCHANGED <<vars, recvStop, field, socket, contacts>>

\* setLoopbackMode and joinGroup.
JoinGroup ==
    /\ Uses("join", "while")
    /\ UNCHANGED <<vars, recvStop, field, socket, group, contacts>>

TestReceive ==
    /\ Receiver("while", IF recvStop THEN "test" ELSE "receive")
    /\ UNCHANGED <<vars, recvStop, field, socket, group, contacts>>

CallReceive ==
    /\ Receiver("receive", IF field THEN "receiving" ELSE "test")
    /\ UNCHANGED <<vars, recvStop, field, socket, group, contacts>>

\* Mutant: the screen trusts that the receiver has dropped its own.
ShowAll(a) == listed' = listed \cup {a}

\* MainActivity's callback: an address that contains the own one is taken for
\* it.  Another screen, or none, hears nothing.
Show(a) ==
    \/ listed' = IF localIp # NoIp /\ Contains(a, localIp) THEN listed ELSE listed \cup {a}
    \/ UNCHANGED listed

\* receive returns a datagram, which goes to the screen: it holds an address and
\* a port, which never equal the own address alone.  (The main looper's delay is
\* that of the buffer.)  Or the socket was closed.
Receive ==
    /\ \/ /\ inbox # Nothing /\ socket = "open"
          /\ Receiver("receiving", "while")
          /\ Show(inbox)
          /\ inbox' = Nothing
       \/ /\ socket = "closed"
          /\ Receiver("receiving", "test")
          /\ UNCHANGED <<inbox, listed>>
    /\ UNCHANGED <<vars, recvStop, field, socket, group, moved>>

ReceiverStep ==
    \/ BeginReceive \/ CreateSocket \/ Bind \/ NameGroup \/ JoinGroup
    \/ TestReceive \/ CallReceive \/ Receive
    \/ Closing("receiver")

-----------------------------------------------------------------------------
(* Announcements.                                                          *)

\* A datagram reaches a socket whose buffer is free, or is lost.
Arrives(a) ==
    /\ socket = "open" /\ inbox = Nothing
    /\ inbox' = a

PeerAnnounces ==
    /\ ~Dead
    /\ \E p \in Peers : Arrives(p)
    /\ UNCHANGED <<vars, receiver, listed, moved>>

\* SendPacket, with loopback: the phone hears itself.
Announce ==
    /\ SendPacket
    /\ \/ sender' = "sleep" /\ Arrives(mSelfIp)
       \/ UNCHANGED inbox
    /\ UNCHANGED <<receiver, listed, moved>>

Moves ==
    /\ IpChanges
    /\ moved' = TRUE
    /\ UNCHANGED <<receiver, inbox, listed>>

-----------------------------------------------------------------------------
DSender ==
    ~Dead /\ (Begin \/ TestStop \/ TakeSelfIp \/ Sleep \/ TestWait \/ EnterWait \/ Finally)
DMain ==
    \/ pc["receiver"] # "new" /\ StartSend
    \/ pc["main"] = "done" /\ StopSend
    \/ pc["main"] = "idle" /\ \E flag \in BOOLEAN : WaitSend(flag)

DNext ==
    \/ StartReceive \/ StopReceive \/ Closing("main")
    \/ ReceiverStep
    \/ PeerAnnounces
    \/ ~Dead /\ (Announce \/ Moves)
    \/ /\ ~Dead /\ (DSender \/ DMain \/ StopNotify \/ WaitNotify \/ SpuriousWakeup)
       /\ UNCHANGED <<receiver, contacts>>

DFairness ==
    /\ WF_dvars(ReceiverStep)
    /\ WF_dvars(Closing("main"))
    /\ WF_dvars(~Dead /\ (Announce \/ (DSender /\ UNCHANGED <<receiver, contacts>>)))
    /\ WF_dvars(~Dead /\ StopNotify /\ UNCHANGED <<receiver, contacts>>)
    /\ WF_dvars(~Dead /\ WaitNotify /\ UNCHANGED <<receiver, contacts>>)

DSpec == DInit /\ [][DNext]_dvars /\ DFairness

-----------------------------------------------------------------------------
(* Why the safety properties hold.                                         *)

ThreadLocs == {"new", "begin", "create", "bind", "name", "join", "while", "receive", "receiving",
               "idle", "test", "isClosed", "leave", "close", "clear", "done", "dead"}

\* Every variable stays in its range.
DTypeOK ==
    /\ {recvStop, field, group, moved} \subseteq BOOLEAN
    /\ socket \in {"none", "open", "closed"}
    /\ pc \in [Closers -> ThreadLocs]
    /\ inbox \in Announced \cup {Unset, Nothing}
    /\ listed \subseteq Announced \cup {Unset}

\* The receiver's fields, until it has a socket, and where the thread is.
ClosingLocs == {"isClosed", "leave", "close", "clear"}
SocketInv ==
    /\ pc["receiver"] \in {"new", "begin", "create"} => socket = "none" /\ ~field
    /\ socket = "none" => ~field /\ pc["main"] \notin ClosingLocs
    /\ ~field => socket # "open"
    /\ \A c \in Closers : pc[c] = "clear" => socket = "closed"

\* What a phone that has not moved says of itself, and hears.
AddressInv ==
    /\ sender = "send" => mSelfIp # Unset
    /\ ~moved => /\ localIp \in Ips /\ mSelfIp \in {Unset, localIp}
                 /\ inbox \in {Nothing, localIp} \cup Peers

-----------------------------------------------------------------------------
(* Properties.                                                             *)

\* A phone that has had one address only is never a contact of its own, although
\* the receiver's filter passes what the phone itself announces.
SelfNotListed == ~moved => listed \subseteq Peers

\* The socket is closed when the thread has ended, whoever closes it.
ReceiverCloses == pc["receiver"] = "done" => socket # "open"

\* stopReceive that finds the thread in its loop ends it, or the process.
StopEndsReceiver ==
    (pc["main"] = "test" /\ recvStop /\ pc["receiver"] \in {"while", "receive", "receiving"})
        ~> (pc["receiver"] = "done" \/ Dead)
=============================================================================
