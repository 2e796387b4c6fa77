--------------------------- MODULE MultiCastSender ---------------------------
(***************************************************************************)
(* The advertising thread of the service (utils/MultiCastSender.java).     *)
(*                                                                         *)
(* Once a second it multicasts the address the peers call back.  It shares *)
(* two plain fields, mStop and mWait, and the monitor mLock with           *)
(*   - the service's main thread: startSend in onCreate, stopSend in       *)
(*     onDestroy,                                                          *)
(*   - a binder thread: waitSend(false) and waitSend(true), called when    *)
(*     MainActivity comes to the front and leaves it.                      *)
(* The flags are written and tested outside the monitor, so each test,     *)
(* each write and each critical section is a step of its own.              *)
(***************************************************************************)
EXTENDS Naturals

CONSTANTS
    Ips,        \* addresses the Wi-Fi interface can have
    NoIp        \* getLocalIpAddress found no address: it returns null

ASSUME IpsAssumption == NoIp \notin Ips

Unset == "unset"        \* mSelfIp before its first assignment: ""

ASSUME UnsetAssumption == Unset \notin Ips \cup {NoIp}

VARIABLES
    mStop,      \* stop flag
    mWait,      \* suspend flag
    mSelfIp,    \* the cached address
    sender,     \* where the sender thread is
    main,       \* progress of the service's main thread
    binder,     \* progress of the waitSend call
    localIp,    \* environment: the interface's present address
    sinceWait,  \* history: packets sent since mWait was set or the thread parked
    sinceStop   \* history: packets sent since mStop was set

vars == <<mStop, mWait, mSelfIp, sender, main, binder, localIp, sinceWait, sinceStop>>
history == <<sinceWait, sinceStop>>

SenderLocs == {"new", "begin", "while", "self", "send", "sleep", "test",
               "wait", "waiting", "finally", "done"}
MainLocs == {"create", "running", "notify", "destroyed"}
BinderLocs == {"idle", "notify"}

Init ==
    /\ mStop = TRUE
    /\ mWait = FALSE
    /\ mSelfIp = Unset
    /\ sender = "new"
    /\ main = "create"
    /\ binder = "idle"
    /\ localIp \in Ips \cup {NoIp}
    /\ sinceWait = 0
    /\ sinceStop = 0

-----------------------------------------------------------------------------
(* The service's main thread.                                              *)

\* startSend, called once, by onCreate.
StartSend ==
    /\ main = "create"
    /\ mStop
    /\ main' = "running"
    /\ sender' = "begin"
    /\ UNCHANGED <<mStop, mWait, mSelfIp, binder, localIp, history>>

\* stopSend, called by onDestroy once no client is bound: the flag is set ...
StopSend ==
    /\ main = "running" /\ binder = "idle"
    /\ mStop' = TRUE
    /\ main' = "notify"
    /\ sinceStop' = 0
    /\ UNCHANGED <<mWait, mSelfIp, sender, binder, localIp, sinceWait>>

\* mLock.notifyAll(): the thread leaves the wait set if it is in it.
NotifyAll == sender' = IF sender = "waiting" THEN "while" ELSE sender

\* Mutant: the flag is set and nobody is notified.
StopNotifyNobody ==
    /\ main = "notify"
    /\ main' = "destroyed"
    /\ UNCHANGED <<mStop, mWait, mSelfIp, sender, binder, localIp, history>>

\* ... and then the monitor is notified.
StopNotify ==
    /\ main = "notify"
    /\ main' = "destroyed"
    /\ NotifyAll
    /\ UNCHANGED <<mStop, mWait, mSelfIp, binder, localIp, history>>

-----------------------------------------------------------------------------
(* waitSend, on a binder thread; the stub lives from onCreate to onDestroy. *)

WaitSend(flag) ==
    /\ main = "running" /\ binder = "idle"
    /\ mWait' = flag
    /\ binder' = IF flag THEN "idle" ELSE "notify"
    /\ sinceWait' = IF flag /\ ~mWait THEN 0 ELSE sinceWait
    /\ UNCHANGED <<mStop, mSelfIp, sender, main, localIp, sinceStop>>

WaitNotify ==
    /\ binder = "notify"
    /\ binder' = "idle"
    /\ NotifyAll
    /\ UNCHANGED <<mStop, mWait, mSelfIp, main, localIp, history>>

-----------------------------------------------------------------------------
(* The sender thread: run().                                               *)

Goto(from, to) == sender = from /\ sender' = to

\* run() clears mStop itself; opening the socket may then fail.
Begin ==
    /\ \/ Goto("begin", "while")
       \/ Goto("begin", "finally")
    /\ mStop' = FALSE
    /\ UNCHANGED <<mWait, mSelfIp, main, binder, localIp, history>>

TestStop ==
    /\ IF mStop THEN Goto("while", "finally") ELSE Goto("while", "self")
    /\ UNCHANGED <<mStop, mWait, mSelfIp, main, binder, localIp, history>>

\* The address is looked up only while the cache is empty, and a null
\* address becomes the text "null:<port>", which is not empty.
TakeSelfIp ==
    /\ Goto("self", "send")
    /\ mSelfIp' = IF mSelfIp = Unset THEN localIp ELSE mSelfIp
    /\ UNCHANGED <<mStop, mWait, main, binder, localIp, history>>

\* send() succeeds, or throws (no route while Wi-Fi is off): the loop is left.
SendPacket ==
    /\ \/ /\ Goto("send", "sleep")
          /\ sinceWait' = IF mWait THEN sinceWait + 1 ELSE sinceWait
          /\ sinceStop' = IF mStop THEN sinceStop + 1 ELSE sinceStop
       \/ /\ Goto("send", "finally")
          /\ UNCHANGED history
    /\ UNCHANGED <<mStop, mWait, mSelfIp, main, binder, localIp>>

Sleep ==
    /\ Goto("sleep", "test")
    /\ UNCHANGED <<mStop, mWait, mSelfIp, main, binder, localIp, history>>

\* Mutant: the suspend flag is not looked at.
TestWaitNever ==
    /\ Goto("test", "while")
    /\ UNCHANGED <<mStop, mWait, mSelfIp, main, binder, localIp, history>>

\* if (mWait), outside the monitor.
TestWait ==
    /\ IF mWait THEN Goto("test", "wait") ELSE Goto("test", "while")
    /\ UNCHANGED <<mStop, mWait, mSelfIp, main, binder, localIp, history>>

\* The monitor is entered and wait() releases it: the flags are not read again.
EnterWait ==
    /\ Goto("wait", "waiting")
    /\ sinceWait' = 0
    /\ UNCHANGED <<mStop, mWait, mSelfIp, main, binder, localIp, sinceStop>>

\* Object.wait may return with nobody notifying.
SpuriousWakeup ==
    /\ Goto("waiting", "while")
    /\ UNCHANGED <<mStop, mWait, mSelfIp, main, binder, localIp, history>>

Finally ==
    /\ Goto("finally", "done")
    /\ UNCHANGED <<mStop, mWait, mSelfIp, main, binder, localIp, history>>

-----------------------------------------------------------------------------
(* Environment: Wi-Fi associates, moves to another network, goes away.     *)

IpChanges ==
    /\ localIp' \in (Ips \cup {NoIp}) \ {localIp}
    /\ UNCHANGED <<mStop, mWait, mSelfIp, sender, main, binder, history>>

SenderStep == Begin \/ TestStop \/ TakeSelfIp \/ SendPacket \/ Sleep
              \/ TestWait \/ EnterWait \/ Finally

Next ==
    \/ StartSend \/ StopSend \/ StopNotify
    \/ \E flag \in BOOLEAN : WaitSend(flag)
    \/ WaitNotify
    \/ SenderStep
    \/ SpuriousWakeup
    \/ IpChanges

(* A started thread keeps running, and a call that was entered returns; no  *)
(* user has to do anything, wait() need not wake and the address may stay.  *)
Fairness == WF_vars(SenderStep) /\ WF_vars(StopNotify) /\ WF_vars(WaitNotify)

Spec == Init /\ [][Next]_vars /\ Fairness

-----------------------------------------------------------------------------
(* Every variable stays in its range.                                      *)
TypeOK ==
    /\ mStop \in BOOLEAN /\ mWait \in BOOLEAN
    /\ mSelfIp \in Ips \cup {NoIp, Unset}
    /\ sender \in SenderLocs
    /\ main \in MainLocs
    /\ binder \in BinderLocs
    /\ localIp \in Ips \cup {NoIp}
    /\ sinceWait \in Nat /\ sinceStop \in Nat

(* While advertising is suspended the thread sends at most one more packet  *)
(* after the suspension (or after it last parked), however waitSend(true)   *)
(* falls between its unlocked steps and however often wait() wakes by       *)
(* itself.                                                                  *)
SuspendBound == mWait => sinceWait <= 1

(* After stopSend, unless run() has cleared the flag again, the thread      *)
(* sends at most one more packet.                                           *)
StopBound == mStop => sinceStop <= 1

(* What is heard of a phone that was told to be quiet: one packet at most,  *)
(* whichever flag it was told by and wherever the thread was.               *)
SendsBound == SuspendBound /\ StopBound

(* Why the two bounds hold, location by location: between parking, or       *)
(* waking, and the next send no packet is on the account of the suspension; *)
(* and once mStop is seen set the loop is left before the next packet.      *)
SuspendInv ==
    mWait => /\ sinceWait <= 1
             /\ sender \in {"new", "begin", "while", "self", "send", "waiting"}
                    => sinceWait = 0
StartInv == main = "create" <=> sender = "new"
StopInv ==
    mStop => /\ sinceStop <= 1
             /\ sender \in {"self", "send"} => sinceStop = 0

(* If stopSend finds the loop parked in wait(), or anywhere else with no    *)
(* suspension asked for, the thread ends.                                   *)
StopEndsRunningLoop ==
    (/\ main = "notify" /\ mStop
     /\ \/ sender = "waiting"
        \/ ~mWait /\ sender \notin {"begin", "wait"}) ~> (sender = "done")

(* waitSend(false) that finds the thread in wait() makes it advertise       *)
(* again, or end.                                                           *)
ResumeWakesWaiting ==
    (binder = "notify" /\ sender = "waiting") ~> (sender \in {"send", "done"})

(* No notification that is sent while the thread waits is lost: stopSend's  *)
(* ends it, and waitSend(false)'s makes it go on.                           *)
SignalsArrive == StopEndsRunningLoop /\ ResumeWakesWaiting
=============================================================================
