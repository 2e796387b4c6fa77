------------------------------- MODULE HotSpot -------------------------------
(***************************************************************************)
(* The two screens around the Wi-Fi service: OpenHotActivity opens a hot   *)
(* spot through WifiApAdmin, ConnectHotActivity joins one through          *)
(* WifiAdmin.  Each asks the Wi-Fi service, which answers in its own time, *)
(* and has a CustomTimer poll the result on a thread of its own; results   *)
(* are posted to the UI thread.                                            *)
(*                                                                         *)
(* An attempt is one activity with its timer.  The UI thread may destroy   *)
(* an activity that has finished after the user has started the next, so   *)
(* attempts overlap.  Handlers of the UI thread are one step; the handler  *)
(* of the timer's thread is two, around the poll.                          *)
(***************************************************************************)
EXTENDS Naturals, Sequences

CONSTANTS
    MaxTries,   \* bound: attempts
    Times       \* polls of a timer before it gives up, 7 in the code

ASSUME BoundsAssumption == MaxTries \in Nat /\ Times \in Nat

Tries == 1 .. MaxTries
Kinds == {"open", "connect"}

VARIABLES
    kind,           \* which of the two activities an attempt is
    act,            \* the activity's life cycle
    mError,         \* the activity's flag
    timer,          \* where the timer's thread is
    mTiles,         \* polls the timer has left
    posts,          \* results on the UI thread's queue
    mOriginalOpen,  \* WifiApAdmin's and WifiAdmin's static field
    app,            \* MainActivity, and whether the process has crashed
    wifi, wifiReq,  \* external: Wi-Fi, and what it was last asked to become
    ap, apReq,      \* external: the hot spot, likewise
    connected,      \* external: Wi-Fi is connected to some network
    results         \* history: results an attempt has posted

screens == <<kind, act, mError, app>>
timers == <<timer, mTiles>>
requests == <<mOriginalOpen, wifiReq, apReq>>
service == <<wifi, ap, connected>>
vars == <<screens, timers, posts, requests, service, results>>

ActStates == {"none", "shown", "finishing", "destroyed"}
TimerLocs == {"none", "armed", "check", "checkQuit", "quit"}

Init ==
    /\ kind \in [Tries -> Kinds]
    /\ act = [i \in Tries |-> "none"]
    /\ mError = [i \in Tries |-> FALSE]
    /\ timer = [i \in Tries |-> "none"]
    /\ mTiles = [i \in Tries |-> Times]
    /\ posts = <<>>
    /\ mOriginalOpen = [k \in Kinds |-> FALSE]
    /\ app = "running"
    /\ wifi \in {"on", "off"} /\ wifiReq = wifi
    /\ ap = "off" /\ apReq = "off"
    /\ connected = FALSE
    /\ results = [i \in Tries |-> 0]

\* The process that the screens, the timers and the queue are part of.
Alive == app # "crashed"

-----------------------------------------------------------------------------
(* The timer (CustomTimer).                                                *)

\* checkBreakFlag and checkBreakFlagOver post to the main looper.
Post(i, what) ==
    /\ posts' = Append(posts, [try |-> i, what |-> what])
    /\ results' = [results EXCEPT ![i] = @ + 1]

TimerGoto(i, from, to) == timer[i] = from /\ timer' = [timer EXCEPT ![i] = to]

\* Mutant: the polls are not counted.
TickForever(i) ==
    /\ Alive
    /\ TimerGoto(i, "armed", "check")
    /\ UNCHANGED <<mTiles, posts, results, screens, requests, service>>

\* handleMessage: the timer gives up, or is about to poll.
Tick(i) ==
    /\ Alive
    /\ \/ /\ mTiles[i] = 0
          /\ TimerGoto(i, "armed", "quit")
          /\ Post(i, "error")
          /\ UNCHANGED mTiles
       \/ /\ mTiles[i] > 0
          /\ TimerGoto(i, "armed", "check")
          /\ mTiles' = [mTiles EXCEPT ![i] = @ - 1]
          /\ UNCHANGED <<posts, results>>
    /\ UNCHANGED <<screens, requests, service>>

\* isWifiApEnabled, isWifiContected: of the moment, whoever brought it about.
Reached(i) == IF kind[i] = "open" THEN ap = "on" ELSE connected

\* Mutant: the timer polls on after a success.
CheckGoesOn(i) ==
    /\ Alive
    /\ TimerGoto(i, "check", "armed") \/ TimerGoto(i, "checkQuit", "quit")
    /\ IF Reached(i) THEN Post(i, "open") ELSE UNCHANGED <<posts, results>>
    /\ UNCHANGED <<mTiles, screens, requests, service>>

\* The rest of handleMessage: success ends the timer, else it polls again,
\* unless the looper has quit meanwhile.
Check(i) ==
    /\ Alive
    /\ \/ /\ Reached(i)
          /\ TimerGoto(i, "check", "quit") \/ TimerGoto(i, "checkQuit", "quit")
          /\ Post(i, "open")
       \/ /\ ~Reached(i)
          /\ TimerGoto(i, "check", "armed") \/ TimerGoto(i, "checkQuit", "quit")
          /\ UNCHANGED <<posts, results>>
    /\ UNCHANGED <<mTiles, screens, requests, service>>

\* stopTimer tells its callback that time is over, whatever has been said, and
\* quits; a handler that runs is not interrupted.
StopTimer(i) ==
    /\ Post(i, "error")
    /\ timer' = [timer EXCEPT ![i] = CASE @ = "armed" -> "quit"
                                       [] @ = "check" -> "checkQuit"
                                       [] OTHER -> @]

-----------------------------------------------------------------------------
(* The UI thread.                                                          *)

\* startWifiAp turns Wi-Fi off, remembers it, and asks for the hot spot.
StartWifiAp ==
    /\ mOriginalOpen' = [mOriginalOpen EXCEPT !["open"] = (wifi = "on")]
    /\ wifiReq' = IF wifi = "on" THEN "off" ELSE wifiReq
    /\ apReq' = "on"

\* connectWifi turns Wi-Fi on, before it looks for the network in the list.
ConnectWifi ==
    /\ mOriginalOpen' = [mOriginalOpen EXCEPT !["connect"] = (wifi = "on")]
    /\ wifiReq' = IF wifi = "off" THEN "on" ELSE wifiReq
    /\ UNCHANGED apReq

\* What both classes do last: Wi-Fi is turned on if it was, as far as its
\* present state tells.
RestoreWifi(kinds) ==
    wifiReq' = IF (\E k \in kinds : mOriginalOpen[k]) /\ wifi = "off"
               THEN "on" ELSE wifiReq

\* MainActivity, in front, starts an attempt ...
Starts(i) ==
    /\ app = "running"
    /\ act[i] = "none" /\ \A j \in Tries : j < i => act[j] \in {"finishing", "destroyed"}

\* ... by its onCreate.
OnCreate(i) ==
    /\ Starts(i)
    /\ act' = [act EXCEPT ![i] = "shown"]
    /\ timer' = [timer EXCEPT ![i] = "armed"]
    /\ IF kind[i] = "open" THEN StartWifiAp ELSE ConnectWifi
    /\ UNCHANGED <<kind, mError, app, mTiles, posts, service, results>>

\* getConfiguredNetworks has no list to look through, as it may while Wi-Fi is not
\* on: the exception ends the process, with Wi-Fi asked to be on.
ListMissing(i) ==
    /\ Starts(i)
    /\ kind[i] = "connect"
    /\ app' = "crashed"
    /\ ConnectWifi
    /\ UNCHANGED <<kind, act, mError, timers, posts, service, results>>

\* finish().
Finished(i) == [act EXCEPT ![i] = IF @ = "shown" THEN "finishing" ELSE @]

\* The button or the back key.
Cancel(i) ==
    /\ Alive
    /\ act[i] = "shown"
    /\ act' = Finished(i)
    /\ mError' = [mError EXCEPT ![i] = TRUE]
    /\ UNCHANGED <<kind, app, timers, posts, requests, service, results>>

\* onOpen and onConnectApSuccess, or onOpenError and onConnectApFailed: also
\* for an activity that is already gone.
RunPost ==
    LET p == Head(posts) IN
    /\ Alive
    /\ posts # <<>>
    /\ posts' = Tail(posts)
    /\ act' = Finished(p.try)
    /\ mError' = [mError EXCEPT ![p.try] = @ \/ p.what = "error"]
    /\ UNCHANGED <<kind, app, timers, requests, service, results>>

\* stopWifiAp.
StopWifiAp(i) ==
    /\ StopTimer(i)
    /\ apReq' = "off"
    /\ RestoreWifi({"open"})

\* disconnectWifi: enableNetwork(id, false), which leaves the network enabled,
\* and the timer goes on.
DisconnectWifi ==
    /\ RestoreWifi({"connect"})
    /\ UNCHANGED <<posts, results, timer, apReq>>

\* Mutant: only a cancelled activity cleans up before the timer has ended.
OnDestroyEarly(i) ==
    /\ Alive
    /\ act[i] = "finishing"
    /\ act' = [act EXCEPT ![i] = "destroyed"]
    /\ IF mError[i] /\ timer[i] # "quit"
       THEN IF kind[i] = "open" THEN StopWifiAp(i) ELSE DisconnectWifi
       ELSE UNCHANGED <<posts, results, timer, wifiReq, apReq>>
    /\ UNCHANGED <<kind, mError, app, mTiles, mOriginalOpen, service>>

\* onDestroy, some time after the activity has finished.
OnDestroy(i) ==
    /\ Alive
    /\ act[i] = "finishing"
    /\ act' = [act EXCEPT ![i] = "destroyed"]
    /\ IF mError[i]
       THEN IF kind[i] = "open" THEN StopWifiAp(i) ELSE DisconnectWifi
       ELSE UNCHANGED <<posts, results, timer, wifiReq, apReq>>
    /\ UNCHANGED <<kind, mError, app, mTiles, mOriginalOpen, service>>

\* MainActivity's onDestroy: both classes anew, without a timer.
MainDestroy ==
    /\ app = "running"
    /\ \A i \in Tries : act[i] # "shown"
    /\ app' = "destroyed"
    /\ apReq' = "off"
    /\ RestoreWifi(Kinds)
    /\ UNCHANGED <<kind, act, mError, timers, posts, mOriginalOpen, service, results>>

-----------------------------------------------------------------------------
(* The Wi-Fi service.  It does what it was asked last, if it can.          *)

WifiSettles ==
    /\ wifi # wifiReq
    /\ wifi' = wifiReq
    /\ connected' = (connected /\ wifiReq = "on")
    /\ UNCHANGED <<screens, timers, posts, requests, ap, results>>

ApSettles ==
    /\ ap # apReq
    /\ apReq = "on" => wifi = "off"
    /\ ap' = apReq
    /\ UNCHANGED <<screens, timers, posts, requests, wifi, connected, results>>

ConnectionChanges ==
    /\ wifi = "on"
    /\ connected' = ~connected
    /\ UNCHANGED <<screens, timers, posts, requests, wifi, ap, results>>

-----------------------------------------------------------------------------

TimerStep(i) == Tick(i) \/ Check(i)

Next ==
    \/ \E i \in Tries :
         TimerStep(i) \/ OnCreate(i) \/ ListMissing(i) \/ Cancel(i) \/ OnDestroy(i)
    \/ RunPost \/ MainDestroy
    \/ WifiSettles \/ ApSettles \/ ConnectionChanges

\* The timers' threads and the UI thread run.  Neither the user nor the Wi-Fi
\* service owes anything.
Fairness ==
    /\ WF_vars(RunPost)
    /\ \A i \in Tries : WF_vars(TimerStep(i)) /\ WF_vars(OnDestroy(i))

Spec == Init /\ [][Next]_vars /\ Fairness

-----------------------------------------------------------------------------
(* Properties.                                                             *)

\* The variables keep their types: a timer never counts below zero.
TypeOK ==
    /\ kind \in [Tries -> Kinds]
    /\ act \in [Tries -> ActStates]
    /\ mError \in [Tries -> BOOLEAN]
    /\ timer \in [Tries -> TimerLocs]
    /\ mTiles \in [Tries -> 0 .. Times]
    /\ posts \in Seq([try : Tries, what : {"open", "error"}])
    /\ mOriginalOpen \in [Kinds -> BOOLEAN]
    /\ app \in {"running", "destroyed", "crashed"}
    /\ {wifi, wifiReq, ap, apReq} \subseteq {"on", "off"}
    /\ connected \in BOOLEAN
    /\ results \in [Tries -> Nat]

\* However success, time-out, cancel and onDestroy fall together, the user is
\* told the result of a connection once, and of a hot spot twice at most
\* (stopTimer repeats the time-out, or follows a success).
ResultBound == \A i \in Tries : results[i] <= IF kind[i] = "open" THEN 2 ELSE 1

\* The screen that says "connecting" goes away, though the Wi-Fi service may
\* never do what it was asked: the timer gives up.  (Or it goes with the process,
\* if the next attempt crashes that.)
AttemptEnds == \A i \in Tries : (act[i] = "shown") ~> (act[i] = "destroyed" \/ ~Alive)

\* A hot spot whose last attempt was cancelled, or reported as failed, is
\* turned off and stays off, whatever earlier attempts do late.
FailedIsOff ==
    \A i \in Tries :
        /\ kind[i] = "open" /\ act[i] = "destroyed" /\ mError[i]
        /\ \A j \in Tries : j > i /\ kind[j] = "open" => act[j] = "none"
        => apReq = "off"
=============================================================================
