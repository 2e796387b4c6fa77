-------------------------------- MODULE Call --------------------------------
(***************************************************************************)
(* A call between two phones: the activities and the callback they         *)
(* register (MainActivity, CallActivity, LocalCallServiceMgr), the service *)
(* they drive (LocalCallService), and the control connections between the  *)
(* two services (CtlSocket, CtlServerSocket).                              *)
(*                                                                         *)
(* Steps are whole handlers of the UI thread and single reads or events of *)
(* the socket threads.  A line or an event a socket thread reports becomes *)
(* a message of the UI thread if a callback is registered at that time,    *)
(* and goes to the callback registered when it runs.  What interleaves     *)
(* within the server's close() is the subject of CtlServerSocket.          *)
(***************************************************************************)
EXTENDS Naturals, Sequences, FiniteSets

CONSTANTS
    Callers,    \* the phones whose users place calls
    MaxCalls,   \* bound: connectServer calls in one behaviour
    MaxInputs   \* bound: presses of a talk button and of a home key

Phones == {"A", "B"}

ASSUME CallersAssumption == Callers \subseteq Phones
ASSUME BoundsAssumption == MaxCalls \in Nat /\ MaxInputs \in Nat

Peer(p) == IF p = "A" THEN "B" ELSE "A"

Calls == 1 .. MaxCalls              \* CtlSocket objects
Servers == 1 .. (MaxCalls + 2)      \* CtlServerSocket objects, each its own port
None == 0

\* The port a phone advertises is that of the server its service began with.
Advertised(p) == IF p = "A" THEN 1 ELSE 2

Lines == {"hello", "bye", "down", "up"}
Events == {"connected", "disconnected", "server connected", "server disconnected"}

VARIABLES
    ui,         \* the phone's activities
    role,       \* CallActivity: "client" called, "server" was called
    canTalk,    \* CallActivity: mCanTalk
    finishing,  \* CallActivity: finish() was called
    finger,     \* is the talk button held?
    posts,      \* messages of the UI thread: what was reported
    server,     \* LocalCallService: mCtlServerSocket
    client,     \* LocalCallService: mCtlSocket
    owner,      \* the phone of each server
    listen,     \* each server: "none", "open", "closing", "ended", "unbound"
    serving,    \* the call each server's thread reads from
    from, target,   \* of each call: the phone that called, the server called
    link,       \* the caller's thread: "none", "connecting", "up", "closed", "end"
    side,       \* the callee's end: "none", "backlog", "served", "over"
    toServer, toClient, \* lines under way
    reset,      \* the caller closed with lines unread: its end is an error
    inputs,     \* presses and home keys, counted for the bound
    returned    \* history: CallActivity came back from the background

activity == <<ui, role, canTalk, finishing, finger, returned>>
services == <<server, client>>
servers == <<owner, listen, serving>>
lines == <<toServer, toClient>>
calls == <<from, target, link, side, reset>>
vars == <<activity, posts, services, servers, lines, calls, inputs>>

UiStates == {"main", "starting", "toCall", "call", "pausing", "home", "toMain"}

Init ==
    /\ ui = [p \in Phones |-> "main"]
    /\ role = [p \in Phones |-> "client"]
    /\ canTalk = [p \in Phones |-> TRUE]
    /\ finishing = [p \in Phones |-> FALSE]
    /\ finger = [p \in Phones |-> FALSE]
    /\ returned = [p \in Phones |-> FALSE]
    /\ posts = [p \in Phones |-> <<>>]
    /\ server = [p \in Phones |-> Advertised(p)]
    /\ client = [p \in Phones |-> None]
    /\ owner = [s \in Servers |-> IF s = 2 THEN "B" ELSE "A"]
    /\ listen = [s \in Servers |-> IF s \in {1, 2} THEN "open" ELSE "none"]
    /\ serving = [s \in Servers |-> None]
    /\ from = [n \in Calls |-> "A"]
    /\ target = [n \in Calls |-> None]
    /\ link = [n \in Calls |-> "none"]
    /\ side = [n \in Calls |-> "none"]
    /\ toServer = [n \in Calls |-> <<>>]
    /\ toClient = [n \in Calls |-> <<>>]
    /\ reset = [n \in Calls |-> FALSE]
    /\ inputs = 0

-----------------------------------------------------------------------------
(* Reports to the UI.                                                      *)

\* MainActivity and CallActivity are registered from onResume until onPause
\* has run to its end.
Registered(p) == ui[p] \in {"main", "starting", "call", "pausing"}

Report(p, what) ==
    posts' = IF Registered(p)
             THEN [posts EXCEPT ![p] = Append(@, what)]
             ELSE posts

(* Commands from the UI: each goes to the current connection, if it has one, *)
(* and is lost otherwise.                                                    *)

ClientLine(p, m) ==
    LET n == client[p] IN
    toServer' = IF n # None /\ link[n] = "up" /\ side[n] # "over"
                THEN [toServer EXCEPT ![n] = Append(@, m)] ELSE toServer

ServerLine(p, m) ==
    LET n == IF server[p] = None THEN None ELSE serving[server[p]] IN
    toClient' = IF n # None /\ link[n] = "up"
                THEN [toClient EXCEPT ![n] = Append(@, m)] ELSE toClient

\* A command of CallActivity, which knows its role.
RoleLine(p, m) ==
    IF role[p] = "client" THEN ClientLine(p, m) /\ UNCHANGED toClient
                          ELSE ServerLine(p, m) /\ UNCHANGED toServer

-----------------------------------------------------------------------------
(* Connections.                                                            *)

\* CtlSocket.closeConnect of call n: a pending connect fails without a word.
CloseLink(n) ==
    CASE link[n] = "connecting" -> "end"
      [] link[n] = "up" -> "closed"
      [] OTHER -> link[n]

\* CtlServerSocket.close of server s: a client being read from is dropped and
\* the thread ends; a thread that waits in accept() stays a while.
CloseServer(s) ==
    /\ listen' = IF s = None THEN listen
                 ELSE [listen EXCEPT ![s] = IF serving[s] = None THEN "closing" ELSE "ended"]
    /\ serving' = IF s = None THEN serving ELSE [serving EXCEPT ![s] = None]
    /\ side' = IF s = None \/ serving[s] = None THEN side
               ELSE [side EXCEPT ![serving[s]] = "over"]

\* CtlSocket.process: connect() succeeds while the port is bound, whether or
\* not the server's thread is free, and even after that thread has ended.
Connect(n) ==
    /\ link[n] = "connecting" /\ listen[target[n]] \in {"open", "closing", "ended"}
    /\ link' = [link EXCEPT ![n] = "up"]
    /\ side' = [side EXCEPT ![n] = "backlog"]
    /\ Report(from[n], "connected")
    /\ UNCHANGED <<activity, services, servers, lines, from, target, reset, inputs>>

\* connect() fails, refused or for want of a network: nothing is reported.
ConnectFails(n) ==
    /\ link[n] = "connecting"
    /\ link' = [link EXCEPT ![n] = "end"]
    /\ UNCHANGED <<activity, posts, services, servers, lines, from, target, side, reset, inputs>>

ClientRead(n) ==
    /\ link[n] = "up" /\ toClient[n] # <<>>
    /\ Report(from[n], Head(toClient[n]))
    /\ toClient' = [toClient EXCEPT ![n] = Tail(@)]
    /\ UNCHANGED <<activity, services, servers, toServer, calls, inputs>>

\* The callee's end is closed, or was never accepted and its port is gone.
ServerGone(n) ==
    side[n] = "over" \/ (side[n] = "backlog" /\ listen[target[n]] = "unbound")

\* readLine returns null, or throws after closeConnect: both are reported.
ClientEnd(n) ==
    /\ link[n] = "closed" \/ (link[n] = "up" /\ toClient[n] = <<>> /\ ServerGone(n))
    /\ link' = [link EXCEPT ![n] = "end"]
    /\ Report(from[n], "disconnected")
    /\ toClient' = [toClient EXCEPT ![n] = <<>>]
    /\ UNCHANGED <<activity, services, servers, toServer, from, target, side, reset, inputs>>

ClientStep(n) == Connect(n) \/ ConnectFails(n) \/ ClientRead(n) \/ ClientEnd(n)

\* CtlServerSocket.process: one client after the other.
Accept(s, n) ==
    /\ listen[s] \in {"open", "closing"} /\ serving[s] = None
    /\ target[n] = s /\ side[n] = "backlog"
    /\ serving' = [serving EXCEPT ![s] = n]
    /\ side' = [side EXCEPT ![n] = "served"]
    /\ Report(owner[s], "server connected")
    /\ UNCHANGED <<activity, services, owner, listen, lines, from, target, link, reset, inputs>>

ServerRead(s) ==
    LET n == serving[s] IN
    /\ n # None /\ toServer[n] # <<>>
    /\ Report(owner[s], Head(toServer[n]))
    /\ toServer' = [toServer EXCEPT ![n] = Tail(@)]
    /\ UNCHANGED <<activity, services, servers, toClient, calls, inputs>>

\* The caller is gone: its end is reported, an error is not.  A server that
\* was closed meanwhile ends instead of accepting again.
ServerEnd(s) ==
    LET n == serving[s] IN
    /\ n # None /\ link[n] \in {"closed", "end"}
    /\ \/ toServer[n] = <<>> /\ ~reset[n] /\ Report(owner[s], "server disconnected")
       \/ reset[n] /\ UNCHANGED posts
    /\ serving' = [serving EXCEPT ![s] = None]
    /\ side' = [side EXCEPT ![n] = "over"]
    /\ toServer' = [toServer EXCEPT ![n] = <<>>]
    /\ listen' = [listen EXCEPT ![s] = IF @ = "closing" THEN "ended" ELSE @]
    /\ UNCHANGED <<activity, services, owner, toClient, from, target, link, reset, inputs>>

\* accept() times out in a server that was closed.
AcceptTimeout(s) ==
    /\ listen[s] = "closing" /\ serving[s] = None
    /\ listen' = [listen EXCEPT ![s] = "ended"]
    /\ UNCHANGED <<activity, posts, services, owner, serving, lines, calls, inputs>>

\* Nothing closes the ServerSocket: its port stays bound after the thread has
\* ended, until the object is collected, if it ever is.
Collect(s) ==
    /\ listen[s] = "ended"
    /\ listen' = [listen EXCEPT ![s] = "unbound"]
    /\ UNCHANGED <<activity, posts, services, owner, serving, lines, calls, inputs>>

ServerStep(s) ==
    (\E n \in Calls : Accept(s, n)) \/ ServerRead(s) \/ ServerEnd(s) \/ AcceptTimeout(s)

-----------------------------------------------------------------------------
(* The UI thread: activities come and go.                                  *)

\* A list item is clicked: startActivity(CallActivity) as client.  Bound: not
\* after the last call.
Dial(p) ==
    /\ p \in Callers /\ ui[p] = "main" /\ \E n \in Calls : link[n] = "none"
    /\ ui' = [ui EXCEPT ![p] = "starting"]
    /\ role' = [role EXCEPT ![p] = "client"]
    /\ UNCHANGED <<canTalk, finishing, finger, returned, posts, services, servers, lines, calls, inputs>>

\* A phone whose callback was taken away: the messages posted so far run before
\* the next onResume, which is scheduled later, and find no callback.
Unregister(p, next) ==
    /\ ui' = [ui EXCEPT ![p] = next]
    /\ posts' = [posts EXCEPT ![p] = <<>>]

\* MainActivity.onPause; a CallActivity is created, its fields as in Init.
MainPause(p) ==
    /\ ui[p] = "starting"
    /\ Unregister(p, "toCall")
    /\ UNCHANGED <<role, canTalk, finishing, finger, returned, services, servers, lines, calls, inputs>>

\* CallActivity.onResume, for either role.
ResumeCall(p) ==
    /\ ui[p] \in {"toCall", "home"}
    /\ ui' = [ui EXCEPT ![p] = "call"]
    /\ finger' = [finger EXCEPT ![p] = FALSE]
    /\ returned' = [returned EXCEPT ![p] = ui[p] = "home"]
    /\ UNCHANGED <<role, canTalk, finishing, posts, owner, lines, inputs>>

\* CallActivity.onResume of the callee registers the callback.
CallResumeServer(p) ==
    /\ role[p] = "server"
    /\ ResumeCall(p)
    /\ UNCHANGED <<services, listen, serving, calls>>

\* Of the caller, it also calls connectServer, with the port advertised: the
\* phone's own server and its last CtlSocket are closed.
CallResumeClient(p) ==
    /\ role[p] = "client"
    /\ ResumeCall(p)
    /\ \E n \in Calls :
        /\ link[n] = "none" /\ \A m \in Calls : m < n => link[m] # "none"
        /\ client' = [client EXCEPT ![p] = n]
        /\ from' = [from EXCEPT ![n] = p]
        /\ target' = [target EXCEPT ![n] = Advertised(Peer(p))]
        /\ link' = [m \in Calls |-> IF m = n THEN "connecting"
                                    ELSE IF m = client[p] THEN CloseLink(m) ELSE link[m]]
    /\ CloseServer(server[p])
    /\ server' = [server EXCEPT ![p] = None]
    /\ UNCHANGED reset

\* CallActivity.onPause, after finish(), the back key, or for the time being.
PauseCall(p, back) ==
    /\ ui[p] = "call"
    /\ ui' = [ui EXCEPT ![p] = "pausing"]
    /\ finishing' = [finishing EXCEPT ![p] = @ \/ back]
    /\ IF finishing'[p] THEN UNCHANGED inputs
                        ELSE inputs < MaxInputs /\ inputs' = inputs + 1
    /\ UNCHANGED <<role, canTalk, finger, returned, posts>>

\* Mutants of PauseClient: the connection is kept; the server is opened anew
\* only if the connection has not ended by itself.
PauseClientKeeps(p, back) ==
    /\ role[p] = "client"
    /\ PauseCall(p, back)
    /\ \E s \in Servers :
        /\ listen[s] = "none" /\ \A t \in Servers : t < s => listen[t] # "none"
        /\ server' = [server EXCEPT ![p] = s]
        /\ owner' = [owner EXCEPT ![s] = p]
        /\ listen' = [listen EXCEPT ![s] = "open"]
    /\ UNCHANGED <<client, serving, lines, calls>>

PauseClientLive(p, back) ==
    /\ role[p] = "client"
    /\ PauseCall(p, back)
    /\ \E s \in Servers :
        /\ listen[s] = "none" /\ \A t \in Servers : t < s => listen[t] # "none"
        /\ server' = [server EXCEPT ![p] = IF link[client[p]] # "end" THEN s ELSE None]
        /\ owner' = [owner EXCEPT ![s] = p]
        /\ listen' = [listen EXCEPT ![s] = "open"]
    /\ link' = [link EXCEPT ![client[p]] = CloseLink(client[p])]
    /\ reset' = [reset EXCEPT ![client[p]] = @ \/ toClient[client[p]] # <<>>]
    /\ UNCHANGED <<client, serving, lines, from, target, side>>

\* The caller's calls disconnectServer: a new server, on a new port, and the
\* connection is closed.
PauseClient(p, back) ==
    /\ role[p] = "client"
    /\ PauseCall(p, back)
    /\ \E s \in Servers :
        /\ listen[s] = "none" /\ \A t \in Servers : t < s => listen[t] # "none"
        /\ server' = [server EXCEPT ![p] = s]
        /\ owner' = [owner EXCEPT ![s] = p]
        /\ listen' = [listen EXCEPT ![s] = "open"]
    /\ link' = [link EXCEPT ![client[p]] = CloseLink(client[p])]
    /\ reset' = [reset EXCEPT ![client[p]] = @ \/ toClient[client[p]] # <<>>]
    /\ UNCHANGED <<client, serving, lines, from, target, side>>

\* The callee's says so to whoever is connected, and leaves the connection.
PauseServer(p, back) ==
    /\ role[p] = "server"
    /\ PauseCall(p, back)
    /\ ServerLine(p, "bye") /\ UNCHANGED toServer
    /\ UNCHANGED <<services, servers, calls>>

\* onPause ends by taking the callback away.
PauseEnd(p) ==
    /\ ui[p] = "pausing"
    /\ Unregister(p, IF finishing[p] THEN "toMain" ELSE "home")
    /\ UNCHANGED <<role, canTalk, finishing, finger, returned, services, servers, lines, calls, inputs>>

\* MainActivity.onResume; the finished CallActivity and its fields are gone.
MainResume(p) ==
    /\ ui[p] = "toMain"
    /\ ui' = [ui EXCEPT ![p] = "main"]
    /\ role' = [role EXCEPT ![p] = "client"]
    /\ canTalk' = [canTalk EXCEPT ![p] = TRUE]
    /\ finishing' = [finishing EXCEPT ![p] = FALSE]
    /\ returned' = [returned EXCEPT ![p] = FALSE]
    /\ finger' = [finger EXCEPT ![p] = FALSE]
    /\ UNCHANGED <<posts, services, servers, lines, calls, inputs>>

-----------------------------------------------------------------------------
(* The UI thread: touches and messages.                                    *)

Press(p) ==
    /\ ui[p] = "call" /\ canTalk[p] /\ ~finger[p]
    /\ inputs < MaxInputs /\ inputs' = inputs + 1
    /\ finger' = [finger EXCEPT ![p] = TRUE]
    /\ RoleLine(p, "down")
    /\ UNCHANGED <<ui, role, canTalk, finishing, returned, posts, services, servers, calls>>

\* ACTION_UP, or ACTION_CANCEL, which may come after onPause.
Release(p) ==
    /\ finger[p] /\ ui[p] # "pausing"
    /\ finger' = [finger EXCEPT ![p] = FALSE]
    /\ RoleLine(p, "up")
    /\ UNCHANGED <<ui, role, canTalk, finishing, returned, posts, services, servers, calls, inputs>>

\* MainActivity's callback: only the caller's greeting does anything.
MainHandles(p, what) ==
    /\ IF what = "hello"
       THEN ui' = [ui EXCEPT ![p] = "starting"] /\ role' = [role EXCEPT ![p] = "server"]
       ELSE UNCHANGED <<ui, role>>
    /\ UNCHANGED <<canTalk, finishing, lines>>

CallHandlesCallee(p, what) ==
    /\ IF what \in {"connected", "server connected", "hello"}
       THEN ClientLine(p, "hello") /\ UNCHANGED toClient
       ELSE UNCHANGED lines
    /\ finishing' = [finishing EXCEPT ![p] = @ \/ what = "server disconnected"]
    /\ canTalk' = [canTalk EXCEPT ![p] = (@ \/ what \in {"up", "bye"}) /\ what # "down"]
    /\ UNCHANGED <<ui, role>>

CallHandlesBusy(p, what) ==
    /\ IF what \in {"connected", "server connected", "hello"}
       THEN ClientLine(p, "hello") /\ UNCHANGED toClient
       ELSE UNCHANGED lines
    /\ finishing' = [finishing EXCEPT ![p] =
            @ \/ what \in {"disconnected", "server disconnected", "bye"}]
    /\ canTalk' = [canTalk EXCEPT ![p] =
            (@ \/ (what = "up" /\ ~finger[p])) /\ what # "down"]
    /\ UNCHANGED <<ui, role>>

\* CallActivity's callback.  Reports are told apart by what their text
\* contains: "server socket connected" and the greeting contain "socket
\* connected", "server socket disconnected" and the callee's bye contain
\* "socket disconnected".
CallHandles(p, what) ==
    /\ IF what \in {"connected", "server connected", "hello"}
       THEN ClientLine(p, "hello") /\ UNCHANGED toClient
       ELSE UNCHANGED lines
    /\ finishing' = [finishing EXCEPT ![p] =
            @ \/ what \in {"disconnected", "server disconnected", "bye"}]
    /\ canTalk' = [canTalk EXCEPT ![p] = (@ \/ what = "up") /\ what # "down"]
    /\ UNCHANGED <<ui, role>>

\* A message runs, in the callback registered now.  Bound: a second
\* greeting does not start a second CallActivity on top of the first.
RunPost(p) ==
    /\ posts[p] # <<>> /\ ui[p] # "pausing"
    /\ posts' = [posts EXCEPT ![p] = Tail(@)]
    /\ LET what == Head(posts[p]) IN
        \/ ui[p] = "main" /\ MainHandles(p, what)
        \/ ui[p] = "starting" /\ what # "hello" /\ MainHandles(p, what)
        \/ ui[p] = "call" /\ CallHandles(p, what)
    /\ UNCHANGED <<finger, returned, services, servers, calls, inputs>>

-----------------------------------------------------------------------------
Pause(p, back) == PauseClient(p, back) \/ PauseServer(p, back)

\* What the system owes: activities that are under way arrive, a finished
\* activity is paused, messages run.
SystemStep(p) ==
    \/ MainPause(p) \/ PauseEnd(p) \/ MainResume(p)
    \/ ui[p] = "toCall" /\ (CallResumeServer(p) \/ CallResumeClient(p))
    \/ finishing[p] /\ Pause(p, TRUE)
    \/ RunPost(p)

UiStep(p) ==
    \/ Dial(p) \/ MainPause(p) \/ PauseEnd(p) \/ MainResume(p) \/ RunPost(p)
    \/ CallResumeServer(p) \/ CallResumeClient(p)
    \/ \E back \in BOOLEAN : PauseClient(p, back) \/ PauseServer(p, back)
    \/ Press(p) \/ Release(p)

Next ==
    \/ \E n \in Calls : ClientStep(n)
    \/ \E s \in Servers : ServerStep(s) \/ Collect(s)
    \/ \E p \in Phones : UiStep(p)

Fairness ==
    /\ \A n \in Calls : WF_vars(ClientStep(n))
    /\ \A s \in Servers : WF_vars(ServerStep(s))
    /\ \A p \in Phones : WF_vars(SystemStep(p))

Spec == Init /\ [][Next]_vars /\ Fairness

-----------------------------------------------------------------------------
(* Properties.                                                             *)

Reports == Lines \cup Events

TypeOK ==
    /\ ui \in [Phones -> UiStates]
    /\ role \in [Phones -> {"client", "server"}]
    /\ canTalk \in [Phones -> BOOLEAN] /\ finishing \in [Phones -> BOOLEAN]
    /\ finger \in [Phones -> BOOLEAN] /\ returned \in [Phones -> BOOLEAN]
    /\ posts \in [Phones -> Seq(Reports)]
    /\ server \in [Phones -> Servers \cup {None}]
    /\ client \in [Phones -> Calls \cup {None}]
    /\ owner \in [Servers -> Phones]
    /\ listen \in [Servers -> {"none", "open", "closing", "ended", "unbound"}]
    /\ serving \in [Servers -> Calls \cup {None}]
    /\ from \in [Calls -> Phones]
    /\ target \in [Calls -> Servers \cup {None}]
    /\ link \in [Calls -> {"none", "connecting", "up", "closed", "end"}]
    /\ side \in [Calls -> {"none", "backlog", "served", "over"}]
    /\ toServer \in [Calls -> Seq(Lines)] /\ toClient \in [Calls -> Seq(Lines)]
    /\ reset \in [Calls -> BOOLEAN]
    /\ inputs \in 0 .. MaxInputs

InCall(p, r) == ui[p] = "call" /\ role[p] = r

\* A control connection that is being set up or is up belongs to a caller whose
\* CallActivity is in the foreground, and is the one its service holds: however
\* calls, redials and answers cross, none outlives its activity or runs beside
\* its successor.
LiveLinkOnlyInCall ==
    \A n \in Calls : link[n] \in {"connecting", "up"} =>
        InCall(from[n], "client") /\ client[from[n]] = n

\* A phone is without a control server exactly while it is the caller in a call;
\* at all other times the server its service holds is one whose thread serves
\* clients, whatever became of the servers before it.
ListensUnlessCalling ==
    \A p \in Phones :
        IF InCall(p, "client") THEN server[p] = None
        ELSE server[p] # None /\ listen[server[p]] = "open" /\ owner[server[p]] = p

PostedTo(p, what) == \E i \in DOMAIN posts[p] : posts[p][i] = what

\* The lines that a phone's socket threads still read.
Heard(p) ==
    {toClient[n] : n \in {k \in Calls : from[k] = p /\ link[k] = "up"}}
        \cup {toServer[serving[s]] : s \in {t \in Servers : owner[t] = p /\ serving[t] # None}}

UnderWay(p, m) ==
    PostedTo(p, m) \/ \E line \in Heard(p) : \E i \in DOMAIN line : line[i] = m

\* A connection of the phone has ended, or will once its thread looks.
EndUnderWay(p) ==
    \/ PostedTo(p, "disconnected") \/ PostedTo(p, "server disconnected")
    \/ \E n \in Calls : from[n] = p /\ link[n] = "up" /\ ServerGone(n)
    \/ \E s \in Servers :
        owner[s] = p /\ serving[s] # None /\ link[serving[s]] \in {"closed", "end"}

\* A phone that may not talk is right: the other phone's button is held, or word
\* that it was released, or that the call is over, is under way.  No crossing of
\* presses, releases, greetings and calls loses the floor.  Not so once the activity
\* came back from the background, since it has missed an "up" that passed meanwhile,
\* or when a call of the other phone ended in an error, of which nobody is told.
FloorFollowsPeer ==
    \A p \in Phones :
        /\ ui[p] = "call" /\ ~canTalk[p] /\ ~finishing[p] /\ ~returned[p]
        /\ \A n \in Calls : from[n] = Peer(p) => ~reset[n]
        => \/ finger[Peer(p)]
           \/ UnderWay(p, "up") \/ UnderWay(p, "bye") \/ EndUnderWay(p)

\* The caller of the call that p answered has hung up.  (After an error the server
\* thread leaves its loop without a word: the caller closed with lines unread.)
CallerGone(p, n) ==
    /\ InCall(p, "server") /\ server[p] # None /\ serving[server[p]] = n
    /\ link[n] \in {"closed", "end"} /\ ~reset[n]

\* The phone that p called has left, or its end of the connection is closed.
CalleeGone(p, n) ==
    /\ InCall(p, "client") /\ client[p] = n /\ link[n] = "up"
    /\ side[n] = "over" \/ \E i \in DOMAIN toClient[n] : toClient[n][i] = "bye"

\* One side hangs up and the other's CallActivity goes away, although the news
\* passes a line buffer, a socket thread, a callback that may be absent and the UI
\* thread's queue.
HangUpReachesPeer ==
    \A p \in Phones :
        (\E n \in Calls : CallerGone(p, n) \/ CalleeGone(p, n)) ~> ui[p] # "call"

\* What MultiCastSender.java:19 calls the control port is one that a phone
\* in its list of contacts listens on.
AdvertisedIsListening ==
    \A p \in Phones : ui[p] = "main" => listen[Advertised(p)] = "open"
=============================================================================
