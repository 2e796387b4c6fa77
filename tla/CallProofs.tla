----------------------------- MODULE CallProofs -----------------------------
(* Theorems about Call, for any number of calls and inputs: its variables   *)
(* keep their types, no control connection outlives its CallActivity, a     *)
(* phone that is not calling can be called, and one that may not talk is    *)
(* right or will hear so.  And, at the end, about the socket of one call,   *)
(* CtlSocket, for any number of timeouts: its types, that its connection is *)
(* closed when its owner is done, and how much of it is still reported      *)
(* after closeConnect.                                                      *)
EXTENDS Call, CtlSocket, TLAPS

\* The types hold at the start.
LEMMA InitType == Init => TypeOK
BY BoundsAssumption DEF Init, TypeOK, UiStates, Calls, Servers, Phones, Advertised, None

\* A report leaves the queues of messages well typed.
LEMMA ReportType ==
    ASSUME TypeOK, NEW p \in Phones, NEW what \in Lines \cup Events, Report(p, what)
    PROVE  posts' \in [Phones -> Seq(Reports)]
<1>1. what \in Reports
    BY DEF Reports
<1>2. posts \in [Phones -> Seq(Reports)]
    BY DEF TypeOK
<1>3. Append(posts[p], what) \in Seq(Reports)
    BY <1>1, <1>2
<1>4. posts' = posts \/ posts' = [posts EXCEPT ![p] = Append(@, what)]
    BY DEF Report
<1> QED
    BY <1>2, <1>3, <1>4

\* Commands of the UI leave the lines under way well typed.
LEMMA LineTypes ==
    ASSUME TypeOK, NEW p \in Phones, NEW m \in Lines
    PROVE  /\ ClientLine(p, m) => toServer' \in [Calls -> Seq(Lines)]
           /\ ServerLine(p, m) => toClient' \in [Calls -> Seq(Lines)]
           /\ RoleLine(p, m) => /\ toServer' \in [Calls -> Seq(Lines)]
                                /\ toClient' \in [Calls -> Seq(Lines)]
<1>1. toServer \in [Calls -> Seq(Lines)] /\ toClient \in [Calls -> Seq(Lines)]
    BY DEF TypeOK
<1>2. ASSUME NEW f \in [Calls -> Seq(Lines)], NEW n \in Calls
      PROVE  [f EXCEPT ![n] = Append(@, m)] \in [Calls -> Seq(Lines)]
    BY <1>2
<1>3. client[p] \in Calls \cup {None}
    BY DEF TypeOK
<1>4. server[p] # None => serving[server[p]] \in Calls \cup {None}
    BY DEF TypeOK
<1>5. ClientLine(p, m) => toServer' \in [Calls -> Seq(Lines)]
    BY <1>1, <1>2, <1>3 DEF ClientLine
<1>6. ServerLine(p, m) => toClient' \in [Calls -> Seq(Lines)]
    BY <1>1, <1>2, <1>4 DEF ServerLine
<1> QED
    BY <1>1, <1>5, <1>6 DEF RoleLine

\* What a nonempty sequence gives when its head is taken.
LEMMA HeadTail ==
    ASSUME NEW S, NEW q \in Seq(S), q # <<>>
    PROVE  Head(q) \in S /\ Tail(q) \in Seq(S)
OBVIOUS

\* The caller's socket threads keep the types.
LEMMA ClientType ==
    ASSUME TypeOK, NEW n \in Calls, ClientStep(n)
    PROVE  TypeOK'
<1> USE DEF TypeOK, activity, services, servers, lines, calls
<1>1. CASE Connect(n)
    <2>1. posts' \in [Phones -> Seq(Reports)]
        BY <1>1, ReportType DEF Connect, Events
    <2> QED BY <1>1, <2>1 DEF Connect
<1>2. CASE ConnectFails(n)
    BY <1>2 DEF ConnectFails
<1>3. CASE ClientRead(n)
    <2>1. Head(toClient[n]) \in Lines /\ Tail(toClient[n]) \in Seq(Lines)
        BY <1>3, HeadTail DEF ClientRead
    <2>2. posts' \in [Phones -> Seq(Reports)]
        BY <1>3, <2>1, ReportType DEF ClientRead
    <2> QED BY <1>3, <2>1, <2>2 DEF ClientRead
<1>4. CASE ClientEnd(n)
    <2>1. posts' \in [Phones -> Seq(Reports)]
        BY <1>4, ReportType DEF ClientEnd, Events
    <2> QED BY <1>4, <2>1 DEF ClientEnd
<1> QED BY <1>1, <1>2, <1>3, <1>4 DEF ClientStep

\* The server threads, and the collector, keep the types.
LEMMA ServerType ==
    ASSUME TypeOK, NEW s \in Servers, ServerStep(s) \/ Collect(s)
    PROVE  TypeOK'
<1> USE DEF TypeOK, activity, services, servers, lines, calls
<1>1. ASSUME NEW n \in Calls, Accept(s, n) PROVE TypeOK'
    <2>1. posts' \in [Phones -> Seq(Reports)]
        BY <1>1, ReportType DEF Accept, Events
    <2> QED BY <1>1, <2>1 DEF Accept
<1>2. CASE ServerRead(s)
    <2>1. serving[s] \in Calls /\ toServer[serving[s]] \in Seq(Lines) /\ owner[s] \in Phones
        BY <1>2 DEF ServerRead
    <2>2. Head(toServer[serving[s]]) \in Lines /\ Tail(toServer[serving[s]]) \in Seq(Lines)
        BY <1>2, <2>1, HeadTail DEF ServerRead
    <2>3. posts' \in [Phones -> Seq(Reports)]
        BY <1>2, <2>1, <2>2, ReportType DEF ServerRead
    <2> QED BY <1>2, <2>1, <2>2, <2>3 DEF ServerRead
<1>3. CASE ServerEnd(s)
    <2>1. serving[s] \in Calls /\ owner[s] \in Phones
        BY <1>3 DEF ServerEnd
    <2>2. posts' \in [Phones -> Seq(Reports)]
        BY <1>3, <2>1, ReportType DEF ServerEnd, Events
    <2>3. <<>> \in Seq(Lines)
        OBVIOUS
    <2>4. /\ listen' \in [Servers -> {"none", "open", "closing", "ended", "unbound"}]
          /\ serving' \in [Servers -> Calls \cup {None}]
          /\ side' \in [Calls -> {"none", "backlog", "served", "over"}]
        BY <1>3, <2>1 DEF ServerEnd
    <2>5. toServer' \in [Calls -> Seq(Lines)]
        BY <1>3, <2>1, <2>3 DEF ServerEnd
    <2> QED BY <1>3, <2>2, <2>4, <2>5 DEF ServerEnd
<1>4. CASE AcceptTimeout(s)
    BY <1>4 DEF AcceptTimeout
<1>5. CASE Collect(s)
    BY <1>5 DEF Collect
<1> HIDE DEF TypeOK
<1> QED BY <1>1, <1>2, <1>3, <1>4, <1>5 DEF ServerStep

\* Closing a connection gives one of its states.
LEMMA CloseLinkType ==
    ASSUME TypeOK, NEW n \in Calls
    PROVE  CloseLink(n) \in {"none", "connecting", "up", "closed", "end"}
BY DEF CloseLink, TypeOK

\* Closing a server leaves servers and connections well typed.
LEMMA CloseServerType ==
    ASSUME TypeOK, NEW s \in Servers \cup {None}, CloseServer(s)
    PROVE  /\ listen' \in [Servers -> {"none", "open", "closing", "ended", "unbound"}]
           /\ serving' \in [Servers -> Calls \cup {None}]
           /\ side' \in [Calls -> {"none", "backlog", "served", "over"}]
BY DEF CloseServer, TypeOK

\* The UI thread keeps the types.
LEMMA UiType ==
    ASSUME TypeOK, NEW p \in Phones, UiStep(p)
    PROVE  TypeOK'
<1> USE BoundsAssumption DEF TypeOK, activity, services, servers, lines, calls, UiStates
<1>1. CASE Dial(p)
    BY <1>1 DEF Dial
<1>2. CASE MainPause(p)
    BY <1>2 DEF MainPause, Unregister
<1>3. CASE PauseEnd(p)
    BY <1>3 DEF PauseEnd, Unregister
<1>4. CASE MainResume(p)
    BY <1>4 DEF MainResume
<1>5. CASE RunPost(p)
    <2>1. Head(posts[p]) \in Reports /\ posts' \in [Phones -> Seq(Reports)]
        BY <1>5, HeadTail DEF RunPost
    <2> DEFINE what == Head(posts[p])
    <2>2. /\ ui' \in [Phones -> UiStates] /\ role' \in [Phones -> {"client", "server"}]
          /\ canTalk' \in [Phones -> BOOLEAN] /\ finishing' \in [Phones -> BOOLEAN]
        BY <1>5 DEF RunPost, MainHandles, CallHandles
    <2>3. toServer' \in [Calls -> Seq(Lines)] /\ toClient' \in [Calls -> Seq(Lines)]
        BY <1>5, LineTypes DEF RunPost, MainHandles, CallHandles, Lines
    <2> QED BY <1>5, <2>1, <2>2, <2>3 DEF RunPost
<1>6. CASE CallResumeServer(p)
    BY <1>6 DEF CallResumeServer, ResumeCall
<1>7. CASE CallResumeClient(p)
    <2>1. /\ ui' \in [Phones -> UiStates] /\ finger' \in [Phones -> BOOLEAN]
          /\ returned' \in [Phones -> BOOLEAN]
          /\ UNCHANGED <<role, canTalk, finishing, posts, owner, lines, inputs, reset>>
        BY <1>7 DEF CallResumeClient, ResumeCall
    <2>2. /\ listen' \in [Servers -> {"none", "open", "closing", "ended", "unbound"}]
          /\ serving' \in [Servers -> Calls \cup {None}]
          /\ side' \in [Calls -> {"none", "backlog", "served", "over"}]
        BY <1>7, CloseServerType DEF CallResumeClient
    <2>3. Advertised(Peer(p)) \in Servers
        BY DEF Advertised, Servers
    <2>4. /\ client' \in [Phones -> Calls \cup {None}] /\ from' \in [Calls -> Phones]
          /\ target' \in [Calls -> Servers \cup {None}]
        BY <1>7, <2>3 DEF CallResumeClient
    <2>5. link' \in [Calls -> {"none", "connecting", "up", "closed", "end"}]
        BY <1>7, CloseLinkType DEF CallResumeClient
    <2>6. server' \in [Phones -> Servers \cup {None}]
        BY <1>7 DEF CallResumeClient
    <2> QED BY <2>1, <2>2, <2>4, <2>5, <2>6
<1>8. ASSUME NEW back \in BOOLEAN, PauseClient(p, back) PROVE TypeOK'
    <2>1. /\ ui' \in [Phones -> UiStates] /\ finishing' \in [Phones -> BOOLEAN]
          /\ inputs' \in 0 .. MaxInputs
          /\ UNCHANGED <<role, canTalk, finger, returned, posts, client, serving, lines,
                         from, target, side>>
        BY <1>8 DEF PauseClient, PauseCall
    <2>2. /\ server' \in [Phones -> Servers \cup {None}] /\ owner' \in [Servers -> Phones]
          /\ listen' \in [Servers -> {"none", "open", "closing", "ended", "unbound"}]
        BY <1>8 DEF PauseClient
    <2>3. link' \in [Calls -> {"none", "connecting", "up", "closed", "end"}]
        BY <1>8, CloseLinkType DEF PauseClient
    <2>4. reset' \in [Calls -> BOOLEAN]
        BY <1>8 DEF PauseClient
    <2> QED BY <2>1, <2>2, <2>3, <2>4
<1>9. ASSUME NEW back \in BOOLEAN, PauseServer(p, back) PROVE TypeOK'
    <2>1. /\ ui' \in [Phones -> UiStates] /\ finishing' \in [Phones -> BOOLEAN]
          /\ inputs' \in 0 .. MaxInputs
        BY <1>9 DEF PauseServer, PauseCall
    <2>2. toClient' \in [Calls -> Seq(Lines)]
        BY <1>9, LineTypes DEF PauseServer, Lines
    <2> QED BY <1>9, <2>1, <2>2 DEF PauseServer, PauseCall
<1>10. CASE Press(p)
    <2>1. toServer' \in [Calls -> Seq(Lines)] /\ toClient' \in [Calls -> Seq(Lines)]
        BY <1>10, LineTypes DEF Press, Lines
    <2> QED BY <1>10, <2>1 DEF Press
<1>11. CASE Release(p)
    <2>1. toServer' \in [Calls -> Seq(Lines)] /\ toClient' \in [Calls -> Seq(Lines)]
        BY <1>11, LineTypes DEF Release, Lines
    <2> QED BY <1>11, <2>1 DEF Release
<1> HIDE DEF TypeOK
<1> QED
    BY <1>1, <1>2, <1>3, <1>4, <1>5, <1>6, <1>7, <1>8, <1>9, <1>10, <1>11 DEF UiStep

\* Every step keeps the types.
LEMMA NextType == TypeOK /\ [Next]_vars => TypeOK'
<1> SUFFICES ASSUME TypeOK, [Next]_vars PROVE TypeOK'
    OBVIOUS
<1>1. ASSUME NEW n \in Calls, ClientStep(n) PROVE TypeOK'
    BY <1>1, ClientType
<1>2. ASSUME NEW s \in Servers, ServerStep(s) \/ Collect(s) PROVE TypeOK'
    BY <1>2, ServerType
<1>3. ASSUME NEW p \in Phones, UiStep(p) PROVE TypeOK'
    BY <1>3, UiType
<1>4. CASE UNCHANGED vars
    BY <1>4 DEF TypeOK, vars, activity, services, servers, lines, calls
<1> QED BY <1>1, <1>2, <1>3, <1>4 DEF Next

(* Every variable of a call keeps its type, for any number of calls.        *)
THEOREM TypeCorrect == Spec => []TypeOK
<1>1. Init => TypeOK
    BY InitType
<1>2. TypeOK /\ [Next]_vars => TypeOK'
    BY NextType
<1> QED BY <1>1, <1>2, PTL DEF Spec

-----------------------------------------------------------------------------
(* No connection outlives its CallActivity: LiveLinkOnlyInCall is inductive *)
(* given the types.                                                         *)

Live(n) == link[n] \in {"connecting", "up"}

\* A message that runs takes no phone into a call or out of one.
LEMMA PostKeepsCalls ==
    ASSUME TypeOK, NEW p \in Phones, RunPost(p)
    PROVE  /\ \A q \in Phones : InCall(q, "client")' <=> InCall(q, "client")
           /\ UNCHANGED <<server, client, owner, listen, from, link>>
<1>1. UNCHANGED <<server, client, owner, listen, from, link>>
    BY DEF RunPost, services, servers, calls
<1>2. \/ UNCHANGED <<ui, role>>
      \/ /\ ui[p] # "call" /\ ui' = [ui EXCEPT ![p] = "starting"]
         /\ role' = [role EXCEPT ![p] = "server"]
    BY DEF RunPost, MainHandles, CallHandles
<1>3. CASE UNCHANGED <<ui, role>>
    BY <1>1, <1>3 DEF InCall
<1>4. CASE /\ ui[p] # "call" /\ ui' = [ui EXCEPT ![p] = "starting"]
           /\ role' = [role EXCEPT ![p] = "server"]
    BY <1>1, <1>4 DEF InCall, TypeOK
<1> QED BY <1>2, <1>3, <1>4

\* Only the UI thread starts a connection.
LEMMA SocketsKillLinks ==
    ASSUME TypeOK, LiveLinkOnlyInCall,
           (\E n \in Calls : ClientStep(n)) \/ (\E s \in Servers : ServerStep(s) \/ Collect(s))
    PROVE  LiveLinkOnlyInCall'
<1>1. UNCHANGED <<ui, role, client, from>>
    BY DEF ClientStep, Connect, ConnectFails, ClientRead, ClientEnd, ServerStep, Accept,
           ServerRead, ServerEnd, AcceptTimeout, Collect, activity, services, calls
<1>2. \A m \in Calls : Live(m)' => Live(m)
    <2>1. ASSUME NEW n \in Calls, ClientStep(n), NEW m \in Calls, Live(m)' PROVE Live(m)
        BY <2>1 DEF Live, TypeOK, ClientStep, Connect, ConnectFails, ClientRead, ClientEnd, calls
    <2>2. (\E s \in Servers : ServerStep(s) \/ Collect(s)) => link' = link
        BY DEF ServerStep, Accept, ServerRead, ServerEnd, AcceptTimeout, Collect, calls
    <2> QED BY <2>1, <2>2 DEF Live
<1> QED BY <1>1, <1>2 DEF LiveLinkOnlyInCall, Live, InCall

\* The UI thread ends a phone's connection before its CallActivity leaves.
LEMMA UiKeepsLinks ==
    ASSUME TypeOK, LiveLinkOnlyInCall, NEW p \in Phones, UiStep(p)
    PROVE  LiveLinkOnlyInCall'
<1> USE DEF Live, InCall, LiveLinkOnlyInCall
<1>0. \A m \in Calls : link[m] \in {"none", "connecting", "up", "closed", "end"}
                       /\ from[m] \in Phones
    BY DEF TypeOK
<1>1. CASE CallResumeClient(p)
    <2>1. ui[p] # "call" /\ ui' = [ui EXCEPT ![p] = "call"] /\ role' = role /\ role[p] = "client"
        BY <1>1 DEF CallResumeClient, ResumeCall
    <2>2. PICK n \in Calls :
            /\ link[n] = "none"
            /\ client' = [client EXCEPT ![p] = n] /\ from' = [from EXCEPT ![n] = p]
            /\ link' = [m \in Calls |-> IF m = n THEN "connecting"
                                        ELSE IF m = client[p] THEN CloseLink(m) ELSE link[m]]
        BY <1>1 DEF CallResumeClient
    <2>3. ui'[p] = "call" /\ role'[p] = "client" /\ client'[p] = n /\ from'[n] = p
        BY <2>1, <2>2 DEF TypeOK
    <2>4. ASSUME NEW m \in Calls, m # n, Live(m)'
          PROVE  InCall(from[m], "client")' /\ client'[from'[m]] = m
        <3>1. Live(m)
            BY <2>2, <2>4 DEF CloseLink
        <3>2. from[m] # p /\ from'[m] = from[m]
            BY <3>1, <2>1, <2>2, <2>4 DEF TypeOK
        <3> QED BY <3>1, <3>2, <1>0, <2>1, <2>2 DEF TypeOK
    <2> QED BY <2>3, <2>4
<1>2. ASSUME NEW back \in BOOLEAN, PauseClient(p, back) PROVE LiveLinkOnlyInCall'
    <2>1. /\ ui' = [ui EXCEPT ![p] = "pausing"] /\ UNCHANGED <<role, client, from>>
          /\ link' = [link EXCEPT ![client[p]] = CloseLink(client[p])]
        BY <1>2 DEF PauseClient, PauseCall
    <2>2. ASSUME NEW m \in Calls, Live(m)'
          PROVE  Live(m) /\ from[m] # p
        BY <2>1, <2>2, <1>0 DEF CloseLink, TypeOK
    <2> QED BY <2>1, <2>2, <1>0 DEF TypeOK
<1>3. ASSUME NEW back \in BOOLEAN, PauseServer(p, back) PROVE LiveLinkOnlyInCall'
    BY <1>3, <1>0 DEF PauseServer, PauseCall, TypeOK, services, calls
<1>4. CASE CallResumeServer(p)
    BY <1>4, <1>0 DEF CallResumeServer, ResumeCall, TypeOK, services, calls
<1>5. CASE RunPost(p)
    BY <1>5, <1>0, PostKeepsCalls
<1>6. CASE Dial(p) \/ MainPause(p) \/ PauseEnd(p) \/ MainResume(p)
    BY <1>6, <1>0 DEF Dial, MainPause, PauseEnd, MainResume, Unregister, TypeOK, services, calls
<1>7. CASE Press(p) \/ Release(p)
    BY <1>7 DEF Press, Release, services, calls
<1> HIDE DEF LiveLinkOnlyInCall
<1> QED BY <1>1, <1>2, <1>3, <1>4, <1>5, <1>6, <1>7 DEF UiStep

(* A control connection that is being set up or is up is the current one of *)
(* a caller in the foreground, for any number of calls and redials.         *)
THEOREM LinksEndWithCall == Spec => []LiveLinkOnlyInCall
<1>1. Init => LiveLinkOnlyInCall
    BY DEF Init, LiveLinkOnlyInCall
<1>2. TypeOK /\ LiveLinkOnlyInCall /\ [Next]_vars => LiveLinkOnlyInCall'
    <2> SUFFICES ASSUME TypeOK, LiveLinkOnlyInCall, [Next]_vars PROVE LiveLinkOnlyInCall'
        OBVIOUS
    <2>1. CASE UNCHANGED vars
        BY <2>1 DEF LiveLinkOnlyInCall, InCall, vars, activity, services, calls
    <2> QED BY <2>1, SocketsKillLinks, UiKeepsLinks DEF Next
<1> QED BY <1>1, <1>2, TypeCorrect, PTL DEF Spec

-----------------------------------------------------------------------------
(* Whoever is not calling can be called: ListensUnlessCalling is inductive  *)
(* given the types, because the servers two phones hold are never the same. *)

\* No socket thread ends a server that is open.
LEMMA SocketsKeepServers ==
    ASSUME TypeOK, ListensUnlessCalling,
           (\E n \in Calls : ClientStep(n)) \/ (\E s \in Servers : ServerStep(s) \/ Collect(s))
    PROVE  ListensUnlessCalling'
<1>1. UNCHANGED <<ui, role, server, owner>>
    BY DEF ClientStep, Connect, ConnectFails, ClientRead, ClientEnd, ServerStep, Accept,
           ServerRead, ServerEnd, AcceptTimeout, Collect, activity, services, servers
<1>2. \A s \in Servers : listen[s] = "open" => listen'[s] = "open"
    <2>1. (\E n \in Calls : ClientStep(n)) => listen' = listen
        BY DEF ClientStep, Connect, ConnectFails, ClientRead, ClientEnd, servers
    <2>2. ASSUME NEW t \in Servers, ServerStep(t) \/ Collect(t),
                 NEW s \in Servers, listen[s] = "open"
          PROVE  listen'[s] = "open"
        <3>1. listen \in [Servers -> {"none", "open", "closing", "ended", "unbound"}]
            BY DEF TypeOK
        <3>2. \/ listen' = listen
              \/ listen' = [listen EXCEPT ![t] = IF @ = "closing" THEN "ended" ELSE @]
              \/ listen[t] = "closing" /\ listen' = [listen EXCEPT ![t] = "ended"]
              \/ listen[t] = "ended" /\ listen' = [listen EXCEPT ![t] = "unbound"]
            BY <2>2 DEF ServerStep, Accept, ServerRead, ServerEnd, AcceptTimeout, Collect, servers
        <3> QED BY <2>2, <3>1, <3>2
    <2> QED BY <2>1, <2>2
<1>3. \A q \in Phones : server[q] \in Servers \cup {None}
    BY DEF TypeOK
<1> QED BY <1>1, <1>2, <1>3 DEF ListensUnlessCalling, InCall

\* The UI thread closes only its own phone's server, and opens another one.
LEMMA UiKeepsServers ==
    ASSUME TypeOK, ListensUnlessCalling, NEW p \in Phones, UiStep(p)
    PROVE  ListensUnlessCalling'
<1> USE DEF InCall, ListensUnlessCalling
<1>0. \A q \in Phones : server[q] \in Servers \cup {None}
    BY DEF TypeOK
<1>1. CASE CallResumeClient(p)
    <2>1. /\ ui[p] # "call" /\ ui' = [ui EXCEPT ![p] = "call"] /\ role[p] = "client"
          /\ UNCHANGED <<role, owner>> /\ server' = [server EXCEPT ![p] = None]
        BY <1>1 DEF CallResumeClient, ResumeCall
    <2>2. server[p] \in Servers /\ owner[server[p]] = p
        BY <2>1, <1>0
    <2>3. \A s \in Servers : s # server[p] => listen'[s] = listen[s]
        BY <1>1 DEF CallResumeClient, CloseServer, TypeOK
    <2>4. ASSUME NEW q \in Phones, q # p
          PROVE  IF InCall(q, "client")' THEN server'[q] = None
                 ELSE server'[q] # None /\ listen'[server'[q]] = "open" /\ owner'[server'[q]] = q
        BY <2>1, <2>2, <2>3, <2>4, <1>0 DEF TypeOK
    <2> QED BY <2>1, <2>4 DEF TypeOK
<1>2. ASSUME NEW back \in BOOLEAN, PauseClient(p, back) PROVE ListensUnlessCalling'
    <2>1. ui' = [ui EXCEPT ![p] = "pausing"] /\ role' = role
        BY <1>2 DEF PauseClient, PauseCall
    <2>2. PICK s \in Servers :
            /\ listen[s] = "none" /\ server' = [server EXCEPT ![p] = s]
            /\ owner' = [owner EXCEPT ![s] = p] /\ listen' = [listen EXCEPT ![s] = "open"]
        BY <1>2 DEF PauseClient
    <2>3. s # None
        BY DEF Servers, None
    <2>4. ASSUME NEW q \in Phones, q # p
          PROVE  IF InCall(q, "client")' THEN server'[q] = None
                 ELSE server'[q] # None /\ listen'[server'[q]] = "open" /\ owner'[server'[q]] = q
        BY <2>1, <2>2, <2>4, <1>0 DEF TypeOK
    <2> QED BY <2>1, <2>2, <2>3, <2>4 DEF TypeOK
<1>3. ASSUME NEW back \in BOOLEAN, PauseServer(p, back) PROVE ListensUnlessCalling'
    BY <1>3 DEF PauseServer, PauseCall, TypeOK, services, servers
<1>4. CASE CallResumeServer(p)
    BY <1>4 DEF CallResumeServer, ResumeCall, TypeOK, services, servers
<1>5. CASE RunPost(p)
    <2>1. UNCHANGED <<server, owner, listen>>
        BY <1>5, PostKeepsCalls
    <2>2. ASSUME NEW q \in Phones
          PROVE  IF InCall(q, "client")' THEN server'[q] = None
                 ELSE server'[q] # None /\ listen'[server'[q]] = "open" /\ owner'[server'[q]] = q
        BY <1>5, <2>1, PostKeepsCalls
    <2> QED BY <2>2
<1>6. CASE Dial(p) \/ MainPause(p) \/ PauseEnd(p) \/ MainResume(p)
    BY <1>6 DEF Dial, MainPause, PauseEnd, MainResume, Unregister, TypeOK, services, servers
<1>7. CASE Press(p) \/ Release(p)
    BY <1>7 DEF Press, Release, services, servers
<1> HIDE DEF ListensUnlessCalling
<1> QED BY <1>1, <1>2, <1>3, <1>4, <1>5, <1>6, <1>7 DEF UiStep

(* A phone that is not the caller in a call holds a control server whose    *)
(* thread accepts, for any history of calls.                                *)
THEOREM AlwaysReachable == Spec => []ListensUnlessCalling
<1>1. Init => ListensUnlessCalling
    <2> SUFFICES ASSUME Init, NEW p \in Phones
                 PROVE  /\ ~InCall(p, "client") /\ server[p] # None
                        /\ listen[server[p]] = "open" /\ owner[server[p]] = p
        BY DEF ListensUnlessCalling
    <2>1. 1 \in Servers /\ 2 \in Servers
        BY BoundsAssumption DEF Servers
    <2>2. CASE p = "A"
        BY <2>1, <2>2 DEF Init, InCall, Advertised, None
    <2>3. CASE p = "B"
        BY <2>1, <2>3 DEF Init, InCall, Advertised, None
    <2> QED BY <2>2, <2>3 DEF Phones
<1>2. TypeOK /\ ListensUnlessCalling /\ [Next]_vars => ListensUnlessCalling'
    <2> SUFFICES ASSUME TypeOK, ListensUnlessCalling, [Next]_vars PROVE ListensUnlessCalling'
        OBVIOUS
    <2>1. CASE UNCHANGED vars
        BY <2>1 DEF ListensUnlessCalling, InCall, vars, activity, services, servers
    <2> QED BY <2>1, SocketsKeepServers, UiKeepsServers DEF Next
<1> QED BY <1>1, <1>2, TypeCorrect, PTL DEF Spec

-----------------------------------------------------------------------------
(* The floor.  A line or a queue of reports leaves a press unanswered if    *)
(* what was said last about the floor is "down".                            *)

Relief == {"up", "bye", "disconnected", "server disconnected"}
Relieved(l) == \E i \in DOMAIN l : l[i] \in Relief
Unanswered(l) == \E i \in DOMAIN l : l[i] = "down" /\ \A j \in DOMAIN l : j > i => l[j] \notin Relief

\* Nothing has been said in an empty line.
LEMMA SaidNothing == ~Relieved(<<>>) /\ ~Unanswered(<<>>)
BY DEF Relieved, Unanswered

\* What is added to a line outweighs what was said before, if it is about the floor.
LEMMA SaidLast ==
    ASSUME NEW S, NEW l \in Seq(S), NEW x \in S
    PROVE  /\ Relieved(Append(l, x)) <=> x \in Relief \/ Relieved(l)
           /\ Unanswered(Append(l, x)) <=> x = "down" \/ (x \notin Relief /\ Unanswered(l))
<1> DEFINE a == Append(l, x)
<1>1. /\ Len(l) \in Nat /\ DOMAIN l = 1 .. Len(l) /\ DOMAIN a = 1 .. Len(l) + 1
      /\ a[Len(l) + 1] = x /\ \A i \in 1 .. Len(l) : a[i] = l[i]
    OBVIOUS
<1> HIDE DEF a
<1>2. Relieved(a) <=> x \in Relief \/ Relieved(l)
    BY <1>1 DEF Relieved
<1>3. x = "down" => Unanswered(a)
    <2>1. Len(l) + 1 \in DOMAIN a /\ \A j \in DOMAIN a : ~(j > Len(l) + 1)
        BY <1>1
    <2> QED BY <1>1, <2>1 DEF Unanswered
<1>4. x \notin Relief /\ Unanswered(l) => Unanswered(a)
    BY <1>1 DEF Unanswered
<1>5. Unanswered(a) => x = "down" \/ (x \notin Relief /\ Unanswered(l))
    BY <1>1 DEF Unanswered
<1> QED BY <1>2, <1>3, <1>4, <1>5 DEF a

\* What is taken from a line was said before all the rest of it.
LEMMA SaidFirst ==
    ASSUME NEW S, NEW l \in Seq(S), l # <<>>
    PROVE  /\ Relieved(l) <=> Head(l) \in Relief \/ Relieved(Tail(l))
           /\ Unanswered(l) <=> \/ Unanswered(Tail(l))
                                \/ Head(l) = "down" /\ ~Relieved(Tail(l))
<1> DEFINE t == Tail(l)
<1>1. /\ Len(l) \in Nat \ {0} /\ DOMAIN l = 1 .. Len(l) /\ DOMAIN t = 1 .. Len(l) - 1
      /\ Head(l) = l[1] /\ \A i \in 1 .. Len(l) - 1 : t[i] = l[i + 1]
    OBVIOUS
<1>2. \A i \in 2 .. Len(l) : i - 1 \in 1 .. Len(l) - 1 /\ l[i] = t[i - 1]
    BY <1>1
<1>3. Head(l) = l[1]
    BY <1>1
<1> HIDE DEF t
<1>4. Relieved(l) <=> l[1] \in Relief \/ Relieved(t)
    <2>1. Relieved(t) => Relieved(l)
        BY <1>1 DEF Relieved
    <2>2. Relieved(l) => l[1] \in Relief \/ Relieved(t)
        <3>1. SUFFICES ASSUME NEW i \in 1 .. Len(l), l[i] \in Relief, i # 1 PROVE Relieved(t)
            BY <1>1 DEF Relieved
        <3> QED BY <3>1, <1>1, <1>2 DEF Relieved
    <2> QED BY <2>1, <2>2, <1>1 DEF Relieved
<1>5. Unanswered(t) => Unanswered(l)
    <2>1. SUFFICES ASSUME NEW i \in DOMAIN t, t[i] = "down",
                          \A j \in DOMAIN t : j > i => t[j] \notin Relief
                   PROVE  Unanswered(l)
        BY DEF Unanswered
    <2>2. i + 1 \in DOMAIN l /\ l[i + 1] = "down"
        BY <1>1, <2>1
    <2>3. ASSUME NEW j \in DOMAIN l, j > i + 1 PROVE l[j] \notin Relief
        BY <1>1, <1>2, <2>1, <2>3
    <2> QED BY <2>2, <2>3 DEF Unanswered
<1>6. l[1] = "down" /\ ~Relieved(t) => Unanswered(l)
    <2>1. SUFFICES ASSUME l[1] = "down", ~Relieved(t) PROVE Unanswered(l)
        OBVIOUS
    <2>2. ASSUME NEW j \in DOMAIN l, j > 1 PROVE l[j] \notin Relief
        BY <1>1, <1>2, <2>1, <2>2 DEF Relieved
    <2> QED BY <1>1, <2>1, <2>2 DEF Unanswered
<1>7. ASSUME Unanswered(l) PROVE Unanswered(t) \/ (l[1] = "down" /\ ~Relieved(t))
    <2>1. PICK i \in DOMAIN l : l[i] = "down" /\ \A j \in DOMAIN l : j > i => l[j] \notin Relief
        BY <1>7 DEF Unanswered
    <2>2. CASE i = 1
        <3>1. ASSUME NEW j \in DOMAIN t PROVE t[j] \notin Relief
            BY <1>1, <2>1, <2>2, <3>1
        <3> QED BY <2>1, <2>2, <3>1 DEF Relieved
    <2>3. CASE i # 1
        <3>1. i - 1 \in DOMAIN t /\ t[i - 1] = "down"
            BY <1>1, <1>2, <2>1, <2>3
        <3>2. ASSUME NEW j \in DOMAIN t, j > i - 1 PROVE t[j] \notin Relief
            BY <1>1, <2>1, <3>2
        <3> QED BY <3>1, <3>2 DEF Unanswered
    <2> QED BY <2>2, <2>3
<1> QED BY <1>3, <1>4, <1>5, <1>6, <1>7 DEF t

\* There are two phones, each with the port it advertises.
LEMMA TwoPhones ==
    /\ \A p \in Phones : /\ Peer(p) \in Phones /\ Peer(p) # p /\ Peer(Peer(p)) = p
                         /\ Advertised(p) \in Servers /\ Advertised(p) # None
    /\ \A p, q \in Phones : (p # q => q = Peer(p)) /\ (Advertised(p) = Advertised(q) => p = q)
BY BoundsAssumption DEF Phones, Peer, Advertised, Servers, None

-----------------------------------------------------------------------------
(* What goes with a call: which activity has messages, which connections    *)
(* are served by whom, and what there is of one before it is made.          *)

\* Only a registered activity has messages, and mCanTalk is as it was created until
\* CallActivity is on the screen.
ActivityInv ==
    \A p \in Phones :
        /\ ui[p] \in {"main", "starting", "toCall"} => canTalk[p]
        /\ ui[p] \in {"toCall", "home", "toMain"} => posts[p] = <<>>

\* A server serves a connection that was made to it.
ServedInv ==
    /\ \A s \in Servers : serving[s] # None => target[serving[s]] = s /\ side[serving[s]] = "served"
    /\ \A s \in Servers : listen[s] = "none" => serving[s] = None
    /\ \A p \in Phones : owner[Advertised(p)] = p /\ listen[Advertised(p)] # "none"

\* A connection is from one phone to the port the other advertises.
LinkInv ==
    /\ \A n \in Calls : link[n] = "none" => ~reset[n]
    /\ \A n \in Calls : link[n] # "none" => target[n] = Advertised(Peer(from[n]))
    /\ \A n \in Calls : link[n] \in {"none", "connecting"} =>
            side[n] = "none" /\ toServer[n] = <<>> /\ toClient[n] = <<>>
    /\ \A p \in Phones : client[p] # None => from[client[p]] = p /\ link[client[p]] # "none"
    /\ \A p \in Phones : InCall(p, "client") => client[p] # None

WireInv == ServedInv /\ LinkInv

\* A report is the last message of its phone, if anybody is registered there.
LEMMA ReportAppends ==
    ASSUME TypeOK, NEW q \in Phones, NEW what \in Reports, Report(q, what), NEW p \in Phones
    PROVE  posts'[p] = IF p = q /\ Registered(q) THEN Append(posts[p], what) ELSE posts[p]
BY DEF Report, TypeOK

\* No socket thread reports to an activity that is not registered.
LEMMA SocketsReport ==
    ASSUME TypeOK, NEW p \in Phones, ~Registered(p),
           (\E n \in Calls : ClientStep(n)) \/ (\E s \in Servers : ServerStep(s) \/ Collect(s))
    PROVE  posts'[p] = posts[p]
<1>1. ASSUME NEW n \in Calls, ClientStep(n) PROVE posts'[p] = posts[p]
    <2>1. from[n] \in Phones
        BY DEF TypeOK
    <2>2. p # from[n] => posts'[p] = posts[p]
        <3>1. posts' = posts \/ \E x : Report(from[n], x)
            BY <1>1 DEF ClientStep, Connect, ConnectFails, ClientRead, ClientEnd
        <3> QED BY <2>1, <3>1 DEF TypeOK, Report
    <2>3. ~Registered(from[n]) => posts' = posts
        BY <1>1 DEF ClientStep, Connect, ConnectFails, ClientRead, ClientEnd, Report
    <2> QED BY <2>1, <2>2, <2>3
<1>2. ASSUME NEW s \in Servers, ServerStep(s) \/ Collect(s) PROVE posts'[p] = posts[p]
    <2>1. owner[s] \in Phones
        BY DEF TypeOK
    <2>2. p # owner[s] => posts'[p] = posts[p]
        <3>1. posts' = posts \/ \E x : Report(owner[s], x)
            BY <1>2 DEF ServerStep, Accept, ServerRead, ServerEnd, AcceptTimeout, Collect
        <3> QED BY <2>1, <3>1 DEF TypeOK, Report
    <2>3. ~Registered(owner[s]) => posts' = posts
        BY <1>2 DEF ServerStep, Accept, ServerRead, ServerEnd, AcceptTimeout, Collect, Report
    <2> QED BY <2>1, <2>2, <2>3
<1> QED BY <1>1, <1>2

\* The activities' part holds at the start and is kept.
LEMMA ActivityInit == Init => ActivityInv
BY DEF Init, ActivityInv

\* Every step keeps it.
LEMMA ActivityStep == TypeOK /\ ActivityInv /\ [Next]_vars => ActivityInv'
<1> SUFFICES ASSUME TypeOK, ActivityInv, [Next]_vars PROVE ActivityInv'
    OBVIOUS
<1>1. CASE (\E n \in Calls : ClientStep(n)) \/ (\E s \in Servers : ServerStep(s) \/ Collect(s))
    <2>1. UNCHANGED <<ui, canTalk>>
        BY <1>1 DEF ClientStep, Connect, ConnectFails, ClientRead, ClientEnd, ServerStep, Accept,
           ServerRead, ServerEnd, AcceptTimeout, Collect, activity
    <2>2. \A p \in Phones : ui[p] \in {"toCall", "home", "toMain"} => posts'[p] = posts[p]
        BY <1>1, SocketsReport DEF Registered
    <2> QED BY <2>1, <2>2 DEF ActivityInv
<1>2. ASSUME NEW p \in Phones, UiStep(p) PROVE ActivityInv'
    <2> USE DEF ActivityInv, TypeOK
    <2>1. CASE Dial(p)
        BY <2>1 DEF Dial
    <2>2. CASE MainPause(p) \/ PauseEnd(p)
        BY <2>2 DEF MainPause, PauseEnd, Unregister
    <2>3. CASE MainResume(p)
        BY <2>3 DEF MainResume
    <2>4. CASE RunPost(p)
        <3>1. /\ ui[p] \in {"main", "starting"} => ui'[p] \in {"main", "starting"} /\ canTalk' = canTalk
              /\ ui[p] \in {"main", "starting"} \/ (ui[p] = "call" /\ ui'[p] = "call")
              /\ \A q \in Phones : q # p => /\ ui'[q] = ui[q] /\ canTalk'[q] = canTalk[q]
                                            /\ posts'[q] = posts[q]
            BY <2>4 DEF RunPost, MainHandles, CallHandles
        <3> QED BY <3>1
    <2>5. CASE CallResumeServer(p) \/ CallResumeClient(p)
        BY <2>5 DEF CallResumeServer, CallResumeClient, ResumeCall
    <2>6. ASSUME NEW back \in BOOLEAN, PauseClient(p, back) \/ PauseServer(p, back) PROVE ActivityInv'
        BY <2>6 DEF PauseClient, PauseServer, PauseCall
    <2>7. CASE Press(p) \/ Release(p)
        BY <2>7 DEF Press, Release
    <2> HIDE DEF ActivityInv
    <2> QED BY <1>2, <2>1, <2>2, <2>3, <2>4, <2>5, <2>6, <2>7 DEF UiStep
<1>3. CASE UNCHANGED vars
    BY <1>3 DEF vars, activity, ActivityInv
<1> QED BY <1>1, <1>2, <1>3 DEF Next

\* A connection that is served has been made, by the other phone to the port the
\* server's phone advertises.
LEMMA ServedFacts ==
    ASSUME TypeOK, WireInv, NEW s \in Servers, serving[s] # None
    PROVE  /\ serving[s] \in Calls /\ side[serving[s]] = "served" /\ target[serving[s]] = s
           /\ link[serving[s]] \in {"up", "closed", "end"}
           /\ s = Advertised(owner[s]) /\ from[serving[s]] = Peer(owner[s])
<1>1. /\ serving[s] \in Calls /\ side[serving[s]] = "served" /\ target[serving[s]] = s
      /\ link[serving[s]] \in {"none", "connecting", "up", "closed", "end"}
      /\ from[serving[s]] \in Phones
    BY DEF TypeOK, WireInv, ServedInv
<1>2. link[serving[s]] \in {"up", "closed", "end"}
    BY <1>1 DEF WireInv, LinkInv
<1>3. s = Advertised(Peer(from[serving[s]]))
    BY <1>1, <1>2 DEF WireInv, LinkInv
<1>4. owner[s] = Peer(from[serving[s]])
    BY <1>1, <1>3, TwoPhones DEF WireInv, ServedInv
<1> QED BY <1>1, <1>2, <1>3, <1>4, TwoPhones

\* It holds at the start.
LEMMA WireInit == Init => WireInv
<1> SUFFICES ASSUME Init PROVE WireInv
    OBVIOUS
<1>1. 1 \in Servers /\ 2 \in Servers
    BY BoundsAssumption DEF Servers
<1>2. \A p \in Phones : owner[Advertised(p)] = p /\ listen[Advertised(p)] = "open"
    BY <1>1 DEF Init, Phones, Advertised
<1>3. ServedInv
    BY <1>2 DEF Init, ServedInv
<1>4. LinkInv
    BY DEF Init, LinkInv, InCall
<1> QED BY <1>3, <1>4 DEF WireInv

\* A line goes to a connection that is up.
LEMMA LinesOfLinks ==
    ASSUME TypeOK, NEW p \in Phones, NEW m, NEW n \in Calls, link[n] # "up"
    PROVE  /\ ClientLine(p, m) => toServer'[n] = toServer[n]
           /\ ServerLine(p, m) => toClient'[n] = toClient[n]
           /\ RoleLine(p, m) => toServer'[n] = toServer[n] /\ toClient'[n] = toClient[n]
<1>1. ClientLine(p, m) => toServer'[n] = toServer[n]
    BY DEF TypeOK, ClientLine
<1>2. ServerLine(p, m) => toClient'[n] = toClient[n]
    BY DEF TypeOK, ServerLine
<1> QED BY <1>1, <1>2 DEF RoleLine

\* The socket threads of a caller keep it.
LEMMA WireClient ==
    ASSUME TypeOK, WireInv, NEW n \in Calls, ClientStep(n)
    PROVE  WireInv'
<1>1. UNCHANGED <<ui, role, client, target, from, reset, owner, listen, serving, toServer>>
    BY DEF ClientStep, Connect, ConnectFails, ClientRead, ClientEnd, activity, services, servers, lines, calls
<1>2. /\ \A m \in Calls : m # n => /\ link'[m] = link[m] /\ side'[m] = side[m]
                                   /\ toClient'[m] = toClient[m]
      /\ link[n] \in {"connecting", "up", "closed"} /\ link'[n] \in {"up", "end"}
      /\ side'[n] = side[n] \/ link[n] = "connecting"
    BY DEF TypeOK, ClientStep, Connect, ConnectFails, ClientRead, ClientEnd, lines, calls
<1>3. ServedInv'
    <2>1. \A s \in Servers : serving[s] # None =>
              serving[s] \in Calls /\ link[serving[s]] \in {"up", "closed", "end"}
              /\ target[serving[s]] = s /\ side[serving[s]] = "served"
        BY ServedFacts
    <2>2. \A s \in Servers : serving[s] # None => side'[serving[s]] = "served"
        BY <1>2, <2>1
    <2> QED BY <1>1, <2>1, <2>2 DEF WireInv, ServedInv
<1>4. LinkInv'
    <2>1. \A m \in Calls : link'[m] \in {"none", "connecting"} <=> (m # n /\ link[m] \in {"none", "connecting"})
        BY <1>2
    <2>2. \A m \in Calls : link'[m] = "none" <=> link[m] = "none"
        BY <1>2
    <2>3. \A p \in Phones : client[p] # None => client[p] \in Calls
        BY DEF TypeOK
    <2> QED BY <1>1, <1>2, <2>1, <2>2, <2>3 DEF WireInv, LinkInv, InCall
<1> QED BY <1>3, <1>4 DEF WireInv

\* So do the server threads and the collector.
LEMMA WireServer ==
    ASSUME TypeOK, WireInv, NEW s \in Servers, ServerStep(s) \/ Collect(s)
    PROVE  WireInv'
<1>1. UNCHANGED <<ui, role, client, target, from, reset, link, owner, toClient>>
    BY DEF ServerStep, Accept, ServerRead, ServerEnd, AcceptTimeout, Collect, activity, services,
           servers, lines, calls
<1>2. \A t \in Servers : serving[t] # None =>
          serving[t] \in Calls /\ link[serving[t]] \in {"up", "closed", "end"}
          /\ target[serving[t]] = t /\ side[serving[t]] = "served"
    BY ServedFacts
<1>3. \A t \in Servers : listen'[t] = "none" <=> listen[t] = "none"
    BY DEF TypeOK, ServerStep, Accept, ServerRead, ServerEnd, AcceptTimeout, Collect, servers
<1>4. ServedInv' /\ \A m \in Calls : side[m] = "none" => side'[m] = "none"
    <2>1. ASSUME NEW n \in Calls, Accept(s, n)
          PROVE  ServedInv' /\ \A m \in Calls : side[m] = "none" => side'[m] = "none"
        <3>1. /\ target[n] = s /\ side[n] = "backlog" /\ listen[s] # "none"
              /\ serving'[s] = n /\ \A t \in Servers : t # s => serving'[t] = serving[t]
              /\ side'[n] = "served" /\ \A m \in Calls : m # n => side'[m] = side[m]
            BY <2>1 DEF TypeOK, Accept
        <3>2. \A t \in Servers : serving'[t] # None => target[serving'[t]] = t /\ side'[serving'[t]] = "served"
            BY <1>2, <3>1
        <3>3. \A t \in Servers : listen[t] = "none" => serving'[t] = None
            BY <3>1 DEF WireInv, ServedInv
        <3> QED BY <1>1, <1>3, <3>1, <3>2, <3>3, TwoPhones DEF WireInv, ServedInv
    <2>2. CASE ServerEnd(s)
        <3>1. /\ serving[s] # None
              /\ serving'[s] = None /\ \A t \in Servers : t # s => serving'[t] = serving[t]
              /\ side'[serving[s]] = "over" /\ \A m \in Calls : m # serving[s] => side'[m] = side[m]
            <4>1. serving[s] # None /\ serving' = [serving EXCEPT ![s] = None]
                  /\ side' = [side EXCEPT ![serving[s]] = "over"]
                BY <2>2 DEF ServerEnd
            <4> QED BY <1>2, <4>1 DEF TypeOK
        <3>2. \A t \in Servers : serving'[t] # None => target[serving'[t]] = t /\ side'[serving'[t]] = "served"
            BY <1>2, <3>1
        <3>3. \A t \in Servers : listen[t] = "none" => serving'[t] = None
            BY <3>1 DEF WireInv, ServedInv
        <3> QED BY <1>1, <1>2, <1>3, <3>1, <3>2, <3>3, TwoPhones DEF WireInv, ServedInv
    <2>3. CASE ServerRead(s) \/ AcceptTimeout(s) \/ Collect(s)
        <3>1. UNCHANGED <<serving, side>>
            BY <2>3 DEF ServerRead, AcceptTimeout, Collect, servers, calls
        <3> QED BY <1>1, <1>2, <1>3, <3>1, TwoPhones DEF WireInv, ServedInv
    <2> QED BY <2>1, <2>2, <2>3 DEF ServerStep
<1>5. \A m \in Calls : link[m] \in {"none", "connecting"} => toServer'[m] = toServer[m]
    <2>1. toServer' = toServer \/ (serving[s] # None
                           /\ \A m \in Calls : m # serving[s] => toServer'[m] = toServer[m])
        BY DEF TypeOK, ServerStep, Accept, ServerRead, ServerEnd, AcceptTimeout, Collect, lines
    <2> QED BY <1>2, <2>1
<1>6. LinkInv'
    BY <1>1, <1>4, <1>5 DEF WireInv, LinkInv, InCall
<1> QED BY <1>4, <1>6 DEF WireInv

\* The UI thread makes connections, and closes its own phone's.
LEMMA WireUi ==
    ASSUME TypeOK, WireInv, NEW p \in Phones, UiStep(p)
    PROVE  WireInv'
<1>1. \A t \in Servers : serving[t] # None =>
          serving[t] \in Calls /\ link[serving[t]] \in {"up", "closed", "end"}
          /\ target[serving[t]] = t /\ side[serving[t]] = "served"
    BY ServedFacts
<1>2. \A q \in Phones : server[q] \in Servers \cup {None} /\ client[q] \in Calls \cup {None}
    BY DEF TypeOK
<1>3. CASE CallResumeClient(p)
    <2>1. /\ ui' = [ui EXCEPT ![p] = "call"] /\ UNCHANGED <<role, owner, toServer, toClient, reset>>
          /\ CloseServer(server[p])
        BY <1>3 DEF CallResumeClient, ResumeCall, lines
    <2>2. PICK n \in Calls :
            /\ link[n] = "none"
            /\ client' = [client EXCEPT ![p] = n] /\ from' = [from EXCEPT ![n] = p]
            /\ target' = [target EXCEPT ![n] = Advertised(Peer(p))]
            /\ link' = [m \in Calls |-> IF m = n THEN "connecting"
                                        ELSE IF m = client[p] THEN CloseLink(m) ELSE link[m]]
        BY <1>3 DEF CallResumeClient
    <2>3. /\ target'[n] = Advertised(Peer(p)) /\ from'[n] = p /\ link'[n] = "connecting"
          /\ \A m \in Calls : m # n => target'[m] = target[m] /\ from'[m] = from[m]
                                       /\ (link'[m] = "none" <=> link[m] = "none")
                                       /\ (link'[m] = "connecting" => link[m] = "connecting")
        BY <2>2 DEF TypeOK, CloseLink
    <2>4. /\ \A t \in Servers : serving'[t] \in {serving[t], None}
          /\ \A t \in Servers : listen'[t] = "none" => listen[t] = "none"
          /\ \A m \in Calls : side'[m] = side[m] \/ \E t \in Servers : serving[t] = m /\ serving'[t] = None
        <3>1. server[p] # None => server[p] \in Servers
            BY <1>2
        <3> QED BY <1>1, <2>1, <3>1 DEF TypeOK, CloseServer
    <2>5. ServedInv'
        <3>1. ASSUME NEW t \in Servers, serving'[t] # None
              PROVE  target'[serving'[t]] = t /\ side'[serving'[t]] = "served"
            <4>1. serving'[t] = serving[t] /\ serving[t] # None
                BY <2>4, <3>1
            <4>2. serving[t] # n
                BY <1>1, <2>2, <4>1
            <4>3. side'[serving[t]] = side[serving[t]]
                <5>1. \A u \in Servers : serving[u] = serving[t] => u = t
                    BY <1>1, <4>1
                <5> QED BY <1>1, <2>4, <3>1, <4>1, <5>1
            <4> QED BY <1>1, <2>3, <4>1, <4>2, <4>3
        <3> QED BY <2>1, <2>4, <3>1, TwoPhones DEF WireInv, ServedInv
    <2>6. LinkInv'
        <3>1. \A m \in Calls : link[m] \in {"none", "connecting"} => side'[m] = side[m]
            BY <1>1, <2>4 DEF Calls, None
        <3>2. \A q \in Phones : client'[q] # None => from'[client'[q]] = q /\ link'[client'[q]] # "none"
            BY <1>2, <2>2, <2>3 DEF TypeOK, WireInv, LinkInv
        <3>3. \A q \in Phones : InCall(q, "client")' => client'[q] # None
            <4>1. n # None
                BY DEF Calls, None
            <4> QED BY <2>1, <2>2, <4>1 DEF TypeOK, InCall, WireInv, LinkInv
        <3>4. \A m \in Calls : link'[m] # "none" => target'[m] = Advertised(Peer(from'[m]))
            BY <2>3 DEF WireInv, LinkInv
        <3>5. \A m \in Calls : link'[m] \in {"none", "connecting"} =>
                side'[m] = "none" /\ toServer'[m] = <<>> /\ toClient'[m] = <<>>
            BY <2>1, <2>2, <2>3, <3>1 DEF WireInv, LinkInv
        <3>6. \A m \in Calls : link'[m] = "none" => ~reset'[m]
            BY <2>1, <2>3 DEF WireInv, LinkInv
        <3> QED BY <3>2, <3>3, <3>4, <3>5, <3>6 DEF LinkInv
    <2> QED BY <2>5, <2>6 DEF WireInv
<1>4. ASSUME NEW back \in BOOLEAN, PauseClient(p, back) PROVE WireInv'
    <2>1. /\ ui' = [ui EXCEPT ![p] = "pausing"] /\ ui[p] = "call" /\ role[p] = "client"
          /\ UNCHANGED <<role, client, serving, toServer, toClient, from, target, side>>
          /\ link' = [link EXCEPT ![client[p]] = CloseLink(client[p])]
          /\ reset' = [reset EXCEPT ![client[p]] = @ \/ toClient[client[p]] # <<>>]
        BY <1>4 DEF PauseClient, PauseCall, lines
    <2>2. PICK s \in Servers :
            /\ listen[s] = "none"
            /\ owner' = [owner EXCEPT ![s] = p] /\ listen' = [listen EXCEPT ![s] = "open"]
        BY <1>4 DEF PauseClient
    <2>3. client[p] \in Calls /\ link[client[p]] # "none"
        BY <1>2, <2>1 DEF WireInv, LinkInv, InCall
    <2>4. \A m \in Calls : /\ link'[m] = "none" <=> link[m] = "none"
                           /\ link'[m] = "connecting" => link[m] = "connecting"
                           /\ m # client[p] => reset'[m] = reset[m]
        BY <2>1, <2>3 DEF TypeOK, CloseLink
    <2>5. \A q \in Phones : Advertised(q) # s
        BY <2>2 DEF WireInv, ServedInv
    <2>6. ServedInv'
        BY <2>1, <2>2, <2>5, TwoPhones DEF TypeOK, WireInv, ServedInv
    <2>7. \A q \in Phones : InCall(q, "client")' => InCall(q, "client")
        BY <2>1 DEF TypeOK, InCall
    <2>8. LinkInv'
        BY <1>2, <2>1, <2>3, <2>4, <2>7 DEF WireInv, LinkInv
    <2> QED BY <2>6, <2>8 DEF WireInv
<1>5. ASSUME UNCHANGED <<client, from, target, side, reset, link, owner, listen, serving>>,
             \A q \in Phones : InCall(q, "client")' => InCall(q, "client"),
             \A m \in Calls : link[m] # "up" => toServer'[m] = toServer[m] /\ toClient'[m] = toClient[m]
      PROVE  WireInv'
    BY <1>5 DEF WireInv, ServedInv, LinkInv
<1>6. ASSUME NEW back \in BOOLEAN, PauseServer(p, back) PROVE WireInv'
    BY <1>5, <1>6, LinesOfLinks DEF PauseServer, PauseCall, services, servers, calls, TypeOK, InCall
<1>7. CASE CallResumeServer(p)
    BY <1>5, <1>7 DEF CallResumeServer, ResumeCall, services, calls, lines, TypeOK, InCall
<1>8. CASE RunPost(p)
    <2>1. UNCHANGED <<client, from, target, side, reset, link, owner, listen, serving>>
        BY <1>8 DEF RunPost, services, servers, calls
    <2>2. \A m \in Calls : link[m] # "up" => toServer'[m] = toServer[m] /\ toClient'[m] = toClient[m]
        BY <1>8, LinesOfLinks DEF RunPost, MainHandles, CallHandles, lines
    <2> QED BY <1>5, <1>8, <2>1, <2>2, PostKeepsCalls
<1>9. CASE Dial(p) \/ MainPause(p) \/ PauseEnd(p) \/ MainResume(p)
    BY <1>5, <1>9 DEF Dial, MainPause, PauseEnd, MainResume, Unregister, TypeOK, InCall, services,
                      servers, calls, lines
<1>10. CASE Press(p) \/ Release(p)
    BY <1>5, <1>10, LinesOfLinks DEF Press, Release, services, servers, calls, InCall
<1> QED BY <1>3, <1>4, <1>6, <1>7, <1>8, <1>9, <1>10 DEF UiStep

\* Every step keeps it.
LEMMA WireStep == TypeOK /\ WireInv /\ [Next]_vars => WireInv'
<1> SUFFICES ASSUME TypeOK, WireInv, [Next]_vars PROVE WireInv'
    OBVIOUS
<1>1. CASE UNCHANGED vars
    BY <1>1 DEF vars, activity, services, servers, lines, calls, WireInv, ServedInv, LinkInv, InCall
<1> QED BY <1>1, WireClient, WireServer, WireUi DEF Next

-----------------------------------------------------------------------------
(* Lines under way.  An unanswered press is that of a button still held, on *)
(* the connection its release will go to.                                   *)

\* The callee n was made to holds the button, in the call that it serves n for.
SpeaksAsServer(n) ==
    LET q == Peer(from[n]) IN
    /\ ui[q] = "call" /\ role[q] = "server" /\ finger[q]
    /\ server[q] # None /\ serving[server[q]] = n

ToClientInv ==
    \A n \in Calls : link[n] = "up" /\ Unanswered(toClient[n]) => side[n] = "over" \/ SpeaksAsServer(n)

ToServerInv ==
    \A n \in Calls :
        link[n] = "up" /\ side[n] # "over" /\ Unanswered(toServer[n]) => finger[from[n]]

\* All that the floor rests on.
CallInv == TypeOK /\ LiveLinkOnlyInCall /\ ListensUnlessCalling /\ ActivityInv /\ WireInv

\* A line is added to the connection it is meant for, if that is up.
LEMMA LineAppends ==
    ASSUME TypeOK, NEW p \in Phones, NEW m, NEW n \in Calls
    PROVE  /\ ClientLine(p, m) =>
                toServer'[n] = IF client[p] = n /\ link[n] = "up" /\ side[n] # "over"
                               THEN Append(toServer[n], m) ELSE toServer[n]
           /\ ServerLine(p, m) =>
                toClient'[n] = IF server[p] # None /\ serving[server[p]] = n /\ link[n] = "up"
                               THEN Append(toClient[n], m) ELSE toClient[n]
<1>1. n # None
    BY DEF Calls, None
<1>2. ClientLine(p, m) =>
          toServer'[n] = IF client[p] = n /\ link[n] = "up" /\ side[n] # "over"
                         THEN Append(toServer[n], m) ELSE toServer[n]
    BY <1>1 DEF TypeOK, ClientLine
<1>3. ServerLine(p, m) =>
          toClient'[n] = IF server[p] # None /\ serving[server[p]] = n /\ link[n] = "up"
                         THEN Append(toClient[n], m) ELSE toClient[n]
    BY <1>1 DEF TypeOK, ServerLine
<1> QED BY <1>2, <1>3

\* No activity takes a connection up, and one that stays up is the same as before.
LEMMA UpBefore ==
    ASSUME CallInv, NEW p \in Phones, UiStep(p), NEW n \in Calls, link'[n] = "up"
    PROVE  /\ link[n] = "up" /\ from'[n] = from[n] /\ target'[n] = target[n]
           /\ side'[n] = side[n] \/ side'[n] = "over"
<1> USE DEF CallInv
<1>1. CASE CallResumeClient(p)
    <2>1. link[n] = "up" /\ from'[n] = from[n] /\ target'[n] = target[n]
        BY <1>1 DEF TypeOK, CallResumeClient, CloseLink
    <2>2. CloseServer(server[p])
        BY <1>1 DEF CallResumeClient
    <2> QED BY <2>1, <2>2 DEF TypeOK, CloseServer
<1>2. ASSUME NEW back \in BOOLEAN, PauseClient(p, back)
      PROVE  link[n] = "up" /\ UNCHANGED <<from, target, side>>
    BY <1>2 DEF TypeOK, PauseClient, PauseCall, CloseLink
<1>3. ASSUME NEW back \in BOOLEAN, PauseServer(p, back)
      PROVE  UNCHANGED <<from, target, link, side>>
    BY <1>3 DEF PauseServer, calls
<1>4. CASE Dial(p) \/ MainPause(p) \/ PauseEnd(p) \/ MainResume(p) \/ RunPost(p)
           \/ CallResumeServer(p) \/ Press(p) \/ Release(p)
    BY <1>4 DEF Dial, MainPause, PauseEnd, MainResume, Unregister, RunPost, CallResumeServer, Press,
                Release, calls
<1> QED BY <1>1, <1>2, <1>3, <1>4 DEF UiStep

\* The phone whose connection is up and stays so is in the call that it is for.
LEMMA CallerActs ==
    ASSUME CallInv, NEW n \in Calls, UiStep(from[n]), link'[n] = "up"
    PROVE  /\ RunPost(from[n]) \/ Press(from[n]) \/ Release(from[n])
           /\ from[n] \in Phones /\ ui[from[n]] = "call" /\ role[from[n]] = "client"
           /\ client[from[n]] = n
<1> DEFINE p == from[n]
<1>1. p \in Phones /\ link[n] = "up"
    BY UpBefore DEF CallInv, TypeOK
<1>2. ui[p] = "call" /\ role[p] = "client" /\ client[p] = n
    BY <1>1 DEF CallInv, LiveLinkOnlyInCall, InCall
<1>3. ASSUME NEW back \in BOOLEAN, PauseClient(p, back) PROVE FALSE
    <2>1. link' = [link EXCEPT ![n] = CloseLink(n)]
        BY <1>2, <1>3 DEF PauseClient
    <2> QED BY <1>1, <2>1 DEF CallInv, TypeOK, CloseLink
<1>4. RunPost(p) \/ Press(p) \/ Release(p)
    BY <1>2, <1>3 DEF UiStep, Dial, MainPause, PauseEnd, MainResume, CallResumeServer, CallResumeClient,
                      ResumeCall, PauseServer
<1> QED BY <1>1, <1>2, <1>4

\* What an activity says on a connection made by the other phone.
LEMMA CalleeActs ==
    ASSUME CallInv, NEW n \in Calls, NEW p \in Phones, UiStep(p), from[n] # p, link'[n] = "up"
    PROVE  /\ toServer'[n] = toServer[n]
           /\ finger'[from[n]] = finger[from[n]]
           /\ \/ toClient'[n] = toClient[n]
              \/ \E m \in {"down", "up", "bye"} :
                    /\ toClient'[n] = Append(toClient[n], m)
                    /\ m = "down" => SpeaksAsServer(n)'
           /\ SpeaksAsServer(n) =>
                \/ SpeaksAsServer(n)'
                \/ \E m \in {"up", "bye"} : toClient'[n] = Append(toClient[n], m)
                \/ side'[n] = "over"
<1> USE DEF CallInv
<1>0. /\ link[n] = "up" /\ from'[n] = from[n] /\ from[n] \in Phones /\ Peer(from[n]) = p
      /\ client[p] # n /\ n # None
    <2>1. link[n] = "up" /\ from'[n] = from[n] /\ from[n] \in Phones
        BY UpBefore DEF TypeOK
    <2>2. n # None
        BY DEF Calls, None
    <2>3. Peer(from[n]) = p
        BY <2>1, TwoPhones
    <2>4. client[p] # n
        BY <2>2 DEF WireInv, LinkInv
    <2> QED BY <2>1, <2>2, <2>3, <2>4
<1> DEFINE Serves == server[p] # None /\ serving[server[p]] = n
<1>1. SpeaksAsServer(n) <=> ui[p] = "call" /\ role[p] = "server" /\ finger[p] /\ Serves
    BY <1>0 DEF SpeaksAsServer
<1>2. SpeaksAsServer(n)' <=>
        ui'[p] = "call" /\ role'[p] = "server" /\ finger'[p] /\ server'[p] # None /\ serving'[server'[p]] = n
    BY <1>0 DEF SpeaksAsServer
<1>3. CASE Press(p)
    <2>1. UNCHANGED <<ui, role, server, serving>> /\ ui[p] = "call" /\ ~finger[p] /\ RoleLine(p, "down")
          /\ finger' = [finger EXCEPT ![p] = TRUE]
        BY <1>3 DEF Press, services, servers
    <2>2. toServer'[n] = toServer[n]
          /\ toClient'[n] = IF role[p] = "server" /\ Serves THEN Append(toClient[n], "down") ELSE toClient[n]
        BY <1>0, <2>1, LineAppends DEF RoleLine, TypeOK
    <2> QED BY <1>0, <1>1, <1>2, <2>1, <2>2 DEF TypeOK
<1>4. CASE Release(p)
    <2>1. UNCHANGED <<ui, role, server, serving>> /\ RoleLine(p, "up") /\ finger' = [finger EXCEPT ![p] = FALSE]
        BY <1>4 DEF Release, services, servers
    <2>2. toServer'[n] = toServer[n]
          /\ toClient'[n] = IF role[p] = "server" /\ Serves THEN Append(toClient[n], "up") ELSE toClient[n]
        <3>1. CASE role[p] = "client"
            BY <1>0, <2>1, <3>1, LineAppends DEF RoleLine
        <3>2. CASE role[p] # "client"
            BY <1>0, <2>1, <3>2, LineAppends DEF RoleLine, TypeOK
        <3> QED BY <3>1, <3>2
    <2> QED BY <1>0, <1>1, <2>1, <2>2 DEF TypeOK
<1>5. ASSUME NEW back \in BOOLEAN, PauseServer(p, back)
      PROVE  /\ UNCHANGED <<finger, toServer>>
             /\ toClient'[n] = IF Serves THEN Append(toClient[n], "bye") ELSE toClient[n]
    BY <1>0, <1>5, LineAppends DEF PauseServer, PauseCall
<1>6. CASE RunPost(p)
    <2>1. UNCHANGED <<finger, server, serving, toClient>>
        BY <1>6 DEF RunPost, services, servers, MainHandles, CallHandles, lines
    <2>2. toServer'[n] = toServer[n]
        BY <1>0, <1>6, LineAppends DEF RunPost, MainHandles, CallHandles, lines
    <2>3. ui[p] = "call" => UNCHANGED <<ui, role>>
        BY <1>6 DEF RunPost, CallHandles
    <2> QED BY <1>1, <1>2, <2>1, <2>2, <2>3
<1>7. CASE CallResumeServer(p) \/ CallResumeClient(p) \/ Dial(p) \/ MainPause(p) \/ PauseEnd(p) \/ MainResume(p)
    <2>1. ui[p] # "call" /\ UNCHANGED <<toServer, toClient>> /\ finger'[from[n]] = finger[from[n]]
        BY <1>0, <1>7 DEF CallResumeServer, CallResumeClient, ResumeCall, Dial, MainPause, PauseEnd,
                          MainResume, lines, TypeOK
    <2> QED BY <1>1, <2>1
<1>8. ASSUME NEW back \in BOOLEAN, PauseClient(p, back)
      PROVE  role[p] = "client" /\ UNCHANGED <<finger, toServer, toClient>>
    BY <1>8 DEF PauseClient, PauseCall, lines
<1> QED
    <2>1. CASE \E back \in BOOLEAN : PauseClient(p, back) \/ PauseServer(p, back)
        BY <1>1, <1>5, <1>8, <2>1
    <2> QED BY <1>3, <1>4, <1>6, <1>7, <2>1 DEF UiStep

\* What the caller in a call does changes nothing about its callee.
LEMMA CallerKeeps ==
    ASSUME CallInv, NEW n \in Calls, UiStep(from[n]), link'[n] = "up"
    PROVE  /\ UNCHANGED <<ui, role, server, toClient>>
           /\ UNCHANGED <<owner, listen, serving>> /\ UNCHANGED <<from, target, link, side, reset>>
           /\ \A q \in Phones : q # from[n] => finger'[q] = finger[q]
           /\ SpeaksAsServer(n)' <=> SpeaksAsServer(n)
<1>1. /\ RunPost(from[n]) \/ Press(from[n]) \/ Release(from[n])
      /\ from[n] \in Phones /\ ui[from[n]] = "call" /\ role[from[n]] = "client"
    BY CallerActs
<1>2. /\ UNCHANGED <<ui, role, server, toClient>>
      /\ UNCHANGED <<owner, listen, serving>> /\ UNCHANGED <<from, target, link, side, reset>>
      /\ \A q \in Phones : q # from[n] => finger'[q] = finger[q]
    BY <1>1 DEF RunPost, CallHandles, Press, Release, RoleLine, TypeOK, CallInv, services, servers, calls, lines
<1> QED BY <1>1, <1>2, TwoPhones DEF SpeaksAsServer

\* Nor does a server thread, while the connection is up.
LEMMA ServerKeeps ==
    ASSUME CallInv, NEW s \in Servers, ServerStep(s) \/ Collect(s)
    PROVE  /\ UNCHANGED <<ui, role, finger, server, owner, from, target, link, toClient>>
           /\ \A t \in Servers : serving'[t] = serving[t]
                                 \/ (t = s /\ serving[s] = None)
                                 \/ (t = s /\ serving[s] # None /\ link[serving[s]] # "up")
           /\ \A n \in Calls : side[n] = "over" => side'[n] = "over"
           /\ \A n \in Calls : link[n] = "up" /\ SpeaksAsServer(n) => SpeaksAsServer(n)'
<1>1. UNCHANGED <<ui, role, finger, server, owner, from, target, link, toClient>>
    BY DEF ServerStep, Accept, ServerRead, ServerEnd, AcceptTimeout, Collect, activity, services, servers,
           lines, calls
<1>2. /\ \A t \in Servers : serving'[t] = serving[t]
                            \/ (t = s /\ serving[s] = None)
                            \/ (t = s /\ serving[s] # None /\ link[serving[s]] # "up")
      /\ \A n \in Calls : side[n] = "over" => side'[n] = "over"
    <2>1. ASSUME NEW m \in Calls, Accept(s, m)
          PROVE  /\ serving[s] = None /\ side[m] = "backlog"
                 /\ serving' = [serving EXCEPT ![s] = m] /\ side' = [side EXCEPT ![m] = "served"]
        BY <2>1 DEF Accept
    <2>2. CASE ServerRead(s) \/ AcceptTimeout(s) \/ Collect(s)
        BY <2>2 DEF ServerRead, AcceptTimeout, Collect, servers, calls
    <2>3. CASE ServerEnd(s)
        <3>1. /\ serving[s] # None /\ link[serving[s]] # "up" /\ serving' = [serving EXCEPT ![s] = None]
              /\ side' = [side EXCEPT ![serving[s]] = "over"]
            BY <2>3 DEF ServerEnd
        <3> QED BY <3>1 DEF CallInv, TypeOK
    <2>4. ASSUME NEW m \in Calls, Accept(s, m)
          PROVE  /\ \A t \in Servers : serving'[t] = serving[t] \/ (t = s /\ serving[s] = None)
                 /\ \A n \in Calls : side[n] = "over" => side'[n] = "over"
        BY <2>1, <2>4 DEF CallInv, TypeOK
    <2> QED BY <2>2, <2>3, <2>4 DEF ServerStep
<1>3. \A q \in Phones : server[q] \in Servers \cup {None}
    BY DEF CallInv, TypeOK
<1>4. ASSUME NEW n \in Calls, link[n] = "up", SpeaksAsServer(n) PROVE SpeaksAsServer(n)'
    <2>1. Peer(from[n]) \in Phones /\ n # None
        <3>1. from[n] \in Phones
            BY DEF CallInv, TypeOK
        <3>2. n # None
            BY DEF Calls, None
        <3> QED BY <3>1, <3>2, TwoPhones
    <2> QED BY <1>1, <1>2, <1>3, <1>4, <2>1 DEF SpeaksAsServer
<1> QED BY <1>1, <1>2, <1>4

\* Nothing is in a line at the start.
LEMMA LinesInit == Init => ToClientInv /\ ToServerInv
BY DEF Init, ToClientInv, ToServerInv

\* The UI thread keeps presses answered or held.
LEMMA LinesUi ==
    ASSUME CallInv, ToClientInv, ToServerInv, NEW p \in Phones, UiStep(p)
    PROVE  ToClientInv' /\ ToServerInv'
<1>1. ASSUME NEW n \in Calls, link'[n] = "up"
      PROVE  /\ link[n] = "up" /\ from'[n] = from[n] /\ (side[n] = "over" => side'[n] = "over")
             /\ toServer[n] \in Seq(Lines) /\ toClient[n] \in Seq(Lines)
    BY <1>1, UpBefore DEF CallInv, TypeOK
<1>2. ASSUME NEW n \in Calls, link'[n] = "up", from[n] # p
      PROVE  /\ Unanswered(toClient'[n]) => side'[n] = "over" \/ SpeaksAsServer(n)'
             /\ side'[n] # "over" /\ Unanswered(toServer'[n]) => finger'[from'[n]]
    <2>1. ASSUME Unanswered(toClient'[n]) PROVE side'[n] = "over" \/ SpeaksAsServer(n)'
        <3>1. CASE \E m \in {"down", "up", "bye"} :
                        /\ toClient'[n] = Append(toClient[n], m)
                        /\ m = "down" => SpeaksAsServer(n)'
            <4>1. PICK m \in {"down", "up", "bye"} :
                        /\ toClient'[n] = Append(toClient[n], m)
                        /\ m = "down" => SpeaksAsServer(n)'
                BY <3>1
            <4>2. m \in Lines /\ (m # "down" => m \in Relief)
                BY <4>1 DEF Lines, Relief
            <4>3. m = "down"
                BY <1>1, <1>2, <2>1, <4>1, <4>2, SaidLast
            <4> QED BY <4>1, <4>3
        <3>2. CASE toClient'[n] = toClient[n]
            <4>1. side[n] = "over" \/ SpeaksAsServer(n)
                BY <1>1, <1>2, <2>1, <3>2 DEF ToClientInv
            <4>2. ASSUME NEW m \in {"up", "bye"}, toClient'[n] = Append(toClient[n], m) PROVE FALSE
                <5>1. m \in Lines /\ m \in Relief /\ m # "down"
                    BY DEF Lines, Relief
                <5> QED BY <1>1, <1>2, <2>1, <4>2, <5>1, SaidLast
            <4> QED BY <1>1, <1>2, <4>1, <4>2, CalleeActs
        <3> QED BY <1>2, <3>1, <3>2, CalleeActs
    <2>2. side'[n] # "over" /\ Unanswered(toServer'[n]) => finger'[from'[n]]
        BY <1>1, <1>2, CalleeActs DEF ToServerInv
    <2> QED BY <2>1, <2>2
<1>3. ASSUME NEW n \in Calls, link'[n] = "up", from[n] = p
      PROVE  /\ Unanswered(toClient'[n]) => side'[n] = "over" \/ SpeaksAsServer(n)'
             /\ side'[n] # "over" /\ Unanswered(toServer'[n]) => finger'[from'[n]]
    <2>1. /\ RunPost(p) \/ Press(p) \/ Release(p)
          /\ ui[p] = "call" /\ role[p] = "client" /\ client[p] = n
        BY <1>3, CallerActs
    <2>2. UNCHANGED <<toClient, from, side>> /\ (SpeaksAsServer(n)' <=> SpeaksAsServer(n))
        BY <1>3, CallerKeeps
    <2>4. CASE RunPost(p)
        <3>1. finger' = finger /\ (toServer' = toServer \/ ClientLine(p, "hello"))
            BY <2>1, <2>4 DEF RunPost, CallHandles, lines
        <3>2. toServer'[n] \in {toServer[n], Append(toServer[n], "hello")}
            BY <3>1, LineAppends DEF CallInv
        <3>3. Unanswered(toServer'[n]) => Unanswered(toServer[n])
            <4>1. toServer[n] \in Seq(Lines) /\ "hello" \in Lines
                BY <1>1, <1>3 DEF Lines
            <4>2. Unanswered(Append(toServer[n], "hello")) => Unanswered(toServer[n])
                BY <4>1, SaidLast
            <4> QED BY <3>2, <4>2
        <3> QED BY <1>1, <1>3, <2>2, <3>1, <3>3 DEF ToClientInv, ToServerInv
    <2>5. CASE Press(p)
        <3>1. finger'[p]
            BY <2>5 DEF Press, CallInv, TypeOK
        <3> QED BY <1>1, <1>3, <2>2, <3>1 DEF ToClientInv
    <2>6. CASE Release(p)
        <3>1. ClientLine(p, "up")
            BY <2>1, <2>6 DEF Release, RoleLine
        <3>2. side'[n] # "over" => toServer'[n] = Append(toServer[n], "up")
            <4>1. link[n] = "up" /\ TypeOK /\ side'[n] = side[n]
                BY <1>1, <1>3, <2>2 DEF CallInv
            <4> QED BY <2>1, <3>1, <4>1, LineAppends
        <3>3. side'[n] # "over" => ~Unanswered(toServer'[n])
            <4>1. toServer[n] \in Seq(Lines) /\ "up" \in Lines /\ "up" \in Relief
                BY <1>1, <1>3 DEF Lines, Relief
            <4>2. ~Unanswered(Append(toServer[n], "up"))
                BY <4>1, SaidLast
            <4> QED BY <3>2, <4>2
        <3> QED BY <1>1, <1>3, <2>2, <3>3 DEF ToClientInv
    <2> QED BY <2>1, <2>4, <2>5, <2>6
<1> QED BY <1>2, <1>3 DEF ToClientInv, ToServerInv

\* The caller's socket threads keep presses answered or held.
LEMMA LinesClient ==
    ASSUME CallInv, ToClientInv, ToServerInv, NEW k \in Calls, ClientStep(k)
    PROVE  ToClientInv' /\ ToServerInv'
<1>1. UNCHANGED <<ui, role, finger, server, serving, from, toServer>>
    BY DEF ClientStep, Connect, ConnectFails, ClientRead, ClientEnd, activity, services, servers, lines, calls
<1>2. /\ \A n \in Calls : n # k => link'[n] = link[n] /\ side'[n] = side[n] /\ toClient'[n] = toClient[n]
      /\ \/ link[k] = "connecting" /\ toClient'[k] = toClient[k]
         \/ link'[k] = "end"
         \/ link'[k] = link[k] /\ side'[k] = side[k] /\ toClient[k] # <<>> /\ toClient'[k] = Tail(toClient[k])
    BY DEF CallInv, TypeOK, ClientStep, Connect, ConnectFails, ClientRead, ClientEnd, lines, calls
<1>3. \A n \in Calls : SpeaksAsServer(n)' <=> SpeaksAsServer(n)
    BY <1>1 DEF SpeaksAsServer
<1>4. ASSUME NEW n \in Calls, link'[n] = "up"
      PROVE  /\ Unanswered(toClient'[n]) => side'[n] = "over" \/ SpeaksAsServer(n)'
             /\ side'[n] # "over" /\ Unanswered(toServer'[n]) => finger'[from'[n]]
    <2>1. CASE n # k
        BY <1>1, <1>2, <1>3, <1>4, <2>1 DEF ToClientInv, ToServerInv
    <2>2. CASE n = k /\ link[k] = "connecting" /\ toClient'[k] = toClient[k]
        <3>1. toClient'[n] = <<>> /\ toServer'[n] = <<>>
            BY <1>1, <2>2 DEF CallInv, WireInv, LinkInv
        <3> QED BY <3>1, SaidNothing
    <2>3. CASE n = k /\ link'[k] = link[k] /\ side'[k] = side[k]
                  /\ toClient[k] # <<>> /\ toClient'[k] = Tail(toClient[k])
        <3>1. Unanswered(toClient'[n]) => Unanswered(toClient[n])
            BY <2>3, SaidFirst DEF CallInv, TypeOK
        <3> QED BY <1>1, <1>3, <1>4, <2>3, <3>1 DEF ToClientInv, ToServerInv
    <2> QED BY <1>2, <1>4, <2>1, <2>2, <2>3
<1> QED BY <1>4 DEF ToClientInv, ToServerInv

\* So do the server threads and the collector.
LEMMA LinesServer ==
    ASSUME CallInv, ToClientInv, ToServerInv, NEW s \in Servers, ServerStep(s) \/ Collect(s)
    PROVE  ToClientInv' /\ ToServerInv'
<1>1. UNCHANGED <<finger, from, link, toClient>> /\ \A n \in Calls : side[n] = "over" => side'[n] = "over"
    BY ServerKeeps
<1>2. ToClientInv'
    BY <1>1, ServerKeeps DEF ToClientInv
<1>3. \A n \in Calls : \/ toServer'[n] = toServer[n]
                       \/ toServer[n] # <<>> /\ toServer'[n] = Tail(toServer[n])
                       \/ toServer'[n] = <<>>
    BY DEF CallInv, TypeOK, ServerStep, Accept, ServerRead, ServerEnd, AcceptTimeout, Collect, lines
<1>4. ASSUME NEW n \in Calls, Unanswered(toServer'[n]) PROVE Unanswered(toServer[n])
    <2>1. toServer[n] \in Seq(Lines)
        BY DEF CallInv, TypeOK
    <2>2. toServer[n] # <<>> /\ Unanswered(Tail(toServer[n])) => Unanswered(toServer[n])
        BY <2>1, SaidFirst
    <2> QED BY <1>3, <1>4, <2>2, SaidNothing
<1> QED BY <1>1, <1>2, <1>4 DEF ToServerInv

-----------------------------------------------------------------------------
(* A phone that may not talk, or is about to hear that it may not, is owed  *)
(* relief by one of its connections.                                        *)

\* On the connection n that a phone has made: its callee holds the button, has said
\* that it let go, or is gone.
FromCallee(n) == link[n] = "up" /\ (SpeaksAsServer(n) \/ Relieved(toClient[n]) \/ ServerGone(n))

\* On the connection n that a phone serves: likewise of the caller.
FromCaller(n) ==
    \/ link[n] = "up" /\ finger[from[n]]
    \/ Relieved(toServer[n])
    \/ link[n] \in {"closed", "end"}

\* Either, on a connection of phone p.
ReliefComes(p) ==
    \/ \E n \in Calls : from[n] = p /\ FromCallee(n)
    \/ \E s \in Servers : owner[s] = p /\ serving[s] # None /\ FromCaller(serving[s])

\* The phones the property is about, and those among them that may not talk once their
\* messages have run.
Visiting(p) == ui[p] = "call" /\ ~finishing[p] /\ ~returned[p]
NoErrors(p) == \A n \in Calls : from[n] = Peer(p) => ~reset[n]
Waits(p) == Unanswered(posts[p]) \/ (~canTalk[p] /\ ~Relieved(posts[p]))

\* Who waits is owed relief.
FloorInv == \A p \in Phones : Visiting(p) /\ NoErrors(p) /\ Waits(p) => ReliefComes(p)

\* An error, once there, is not forgotten.
LEMMA ErrorsStay ==
    ASSUME CallInv, [Next]_vars, NEW p \in Phones, NoErrors(p)'
    PROVE  NoErrors(p)
<1> USE DEF CallInv
<1>1. ASSUME NEW n \in Calls, from[n] = Peer(p), reset[n] PROVE from'[n] = from[n] /\ reset'[n]
    <2>1. link[n] # "none"
        BY <1>1 DEF WireInv, LinkInv
    <2>2. CASE (\E k \in Calls : ClientStep(k)) \/ (\E s \in Servers : ServerStep(s) \/ Collect(s))
        BY <1>1, <2>2 DEF ClientStep, Connect, ConnectFails, ClientRead, ClientEnd, ServerStep, Accept,
           ServerRead, ServerEnd, AcceptTimeout, Collect, calls
    <2>3. ASSUME NEW q \in Phones, UiStep(q) PROVE from'[n] = from[n] /\ reset'[n]
        <3>1. CASE CallResumeClient(q)
            BY <1>1, <2>1, <3>1 DEF CallResumeClient, TypeOK
        <3>2. ASSUME NEW back \in BOOLEAN, PauseClient(q, back) PROVE from'[n] = from[n] /\ reset'[n]
            BY <1>1, <3>2 DEF PauseClient, TypeOK
        <3>3. ASSUME NEW back \in BOOLEAN, PauseServer(q, back) PROVE from'[n] = from[n] /\ reset'[n]
            BY <1>1, <3>3 DEF PauseServer, calls
        <3>4. CASE Dial(q) \/ MainPause(q) \/ PauseEnd(q) \/ MainResume(q) \/ RunPost(q)
                   \/ CallResumeServer(q) \/ Press(q) \/ Release(q)
            BY <1>1, <3>4 DEF Dial, MainPause, PauseEnd, MainResume, RunPost, CallResumeServer, Press,
                              Release, calls
        <3> QED BY <2>3, <3>1, <3>2, <3>3, <3>4 DEF UiStep
    <2>4. CASE UNCHANGED vars
        BY <1>1, <2>4 DEF vars, calls
    <2> QED BY <2>2, <2>3, <2>4 DEF Next
<1> QED BY <1>1 DEF NoErrors

\* A queue that grows by a report nobody is relieved by, or by a press, says no more
\* than before; one that grows by a relief owes nothing.
LEMMA WaitsAfterReport ==
    ASSUME TypeOK, NEW p \in Phones, NEW what \in Reports, posts'[p] = Append(posts[p], what),
           canTalk'[p] = canTalk[p], Waits(p)'
    PROVE  what \notin Relief /\ (what = "down" \/ Waits(p))
<1>1. posts[p] \in Seq(Reports)
    BY DEF TypeOK
<1>2. /\ Relieved(posts'[p]) <=> what \in Relief \/ Relieved(posts[p])
      /\ Unanswered(posts'[p]) <=> what = "down" \/ (what \notin Relief /\ Unanswered(posts[p]))
    BY <1>1, SaidLast
<1>3. "down" \notin Relief
    BY DEF Relief
<1> QED BY <1>2, <1>3 DEF Waits

\* What a message that runs leaves to wait for was waited for before.
LEMMA WaitsAfterPost ==
    ASSUME TypeOK, NEW p \in Phones, RunPost(p), ui[p] = "call", Visiting(p)', Waits(p)'
    PROVE  Visiting(p) /\ Waits(p)
<1> DEFINE what == Head(posts[p])
<1>1. /\ posts[p] \in Seq(Reports) /\ posts[p] # <<>> /\ posts'[p] = Tail(posts[p])
    BY DEF TypeOK, RunPost
<1>2. /\ finishing'[p] <=> finishing[p] \/ what \in {"disconnected", "server disconnected", "bye"}
      /\ canTalk'[p] <=> (canTalk[p] \/ what = "up") /\ what # "down"
      /\ UNCHANGED <<ui, returned>>
    BY DEF TypeOK, RunPost, CallHandles
<1>3. /\ Relieved(posts[p]) <=> what \in Relief \/ Relieved(posts'[p])
      /\ Unanswered(posts[p]) <=> Unanswered(posts'[p]) \/ (what = "down" /\ ~Relieved(posts'[p]))
    BY <1>1, SaidFirst
<1>4. Visiting(p) /\ (what = "up" \/ what \notin Relief)
    BY <1>2 DEF Visiting, Relief
<1> QED BY <1>2, <1>3, <1>4 DEF Waits

\* A port that is gone does not come back.
LEMMA UnboundStays ==
    ASSUME CallInv, [Next]_vars, NEW s \in Servers, listen[s] = "unbound"
    PROVE  listen'[s] = "unbound"
<1> USE DEF CallInv
<1>1. CASE \E k \in Calls : ClientStep(k)
    BY <1>1 DEF ClientStep, Connect, ConnectFails, ClientRead, ClientEnd, servers
<1>2. ASSUME NEW t \in Servers, ServerStep(t) \/ Collect(t) PROVE listen'[s] = "unbound"
    BY <1>2 DEF TypeOK, ServerStep, Accept, ServerRead, ServerEnd, AcceptTimeout, Collect, servers
<1>3. ASSUME NEW p \in Phones, UiStep(p) PROVE listen'[s] = "unbound"
    <2>1. CASE CallResumeClient(p)
        <3>1. ui[p] # "call" /\ CloseServer(server[p])
            BY <2>1 DEF CallResumeClient, ResumeCall
        <3>2. server[p] # s
            BY <3>1 DEF ListensUnlessCalling, InCall
        <3> QED BY <3>1, <3>2 DEF TypeOK, CloseServer
    <2>2. ASSUME NEW back \in BOOLEAN, PauseClient(p, back) PROVE listen'[s] = "unbound"
        BY <2>2 DEF TypeOK, PauseClient
    <2>3. ASSUME NEW back \in BOOLEAN, PauseServer(p, back) PROVE listen' = listen
        BY <2>3 DEF PauseServer, servers
    <2>4. CASE Dial(p) \/ MainPause(p) \/ PauseEnd(p) \/ MainResume(p) \/ RunPost(p)
               \/ CallResumeServer(p) \/ Press(p) \/ Release(p)
        BY <2>4 DEF Dial, MainPause, PauseEnd, MainResume, RunPost, CallResumeServer, Press, Release, servers
    <2> QED BY <1>3, <2>1, <2>2, <2>3, <2>4 DEF UiStep
<1>4. CASE UNCHANGED vars
    BY <1>4 DEF vars, servers
<1> QED BY <1>1, <1>2, <1>3, <1>4 DEF Next

\* What the callee owes it goes on owing, while the connection is up and no relief is
\* taken from it.
LEMMA CalleeStays ==
    ASSUME CallInv, [Next]_vars, NEW n \in Calls, FromCallee(n), link'[n] = "up",
           Relieved(toClient[n]) => Relieved(toClient'[n])
    PROVE  from'[n] = from[n] /\ FromCallee(n)'
<1>1. link[n] = "up" /\ target[n] \in Servers /\ from[n] \in Phones /\ toClient[n] \in Seq(Lines)
    <2>1. link[n] = "up" /\ from[n] \in Phones /\ toClient[n] \in Seq(Lines)
        BY DEF FromCallee, CallInv, TypeOK
    <2>2. target[n] = Advertised(Peer(from[n]))
        BY <2>1 DEF CallInv, WireInv, LinkInv
    <2> QED BY <2>1, <2>2, TwoPhones
<1>2. SUFFICES /\ from'[n] = from[n] /\ target'[n] = target[n]
               /\ \/ side'[n] = side[n] \/ side'[n] = "over"
                  \/ listen[target[n]] # "unbound" /\ side[n] = "backlog"
               /\ SpeaksAsServer(n) => SpeaksAsServer(n)' \/ Relieved(toClient'[n]) \/ side'[n] = "over"
    BY <1>1, <1>2, UnboundStays DEF FromCallee, ServerGone
<1>3. ASSUME NEW p \in Phones, UiStep(p), from[n] = p
      PROVE  UNCHANGED <<from, target, side>> /\ (SpeaksAsServer(n)' <=> SpeaksAsServer(n))
    BY <1>3, CallerKeeps
<1>4. ASSUME NEW p \in Phones, UiStep(p), from[n] # p
      PROVE  /\ from'[n] = from[n] /\ target'[n] = target[n]
             /\ side'[n] = side[n] \/ side'[n] = "over"
             /\ SpeaksAsServer(n) => SpeaksAsServer(n)' \/ Relieved(toClient'[n]) \/ side'[n] = "over"
    <2>1. ASSUME NEW m \in {"up", "bye"}, toClient'[n] = Append(toClient[n], m) PROVE Relieved(toClient'[n])
        <3>1. m \in Lines /\ m \in Relief
            BY DEF Lines, Relief
        <3> QED BY <1>1, <2>1, <3>1, SaidLast
    <2> QED BY <1>4, <2>1, UpBefore, CalleeActs
<1>5. ASSUME NEW k \in Calls, ClientStep(k)
      PROVE  /\ UNCHANGED <<ui, role, finger, server, serving, from, target>> /\ side'[n] = side[n]
    BY <1>1, <1>5 DEF CallInv, TypeOK, ClientStep, Connect, ConnectFails, ClientRead, ClientEnd,
                      activity, services,
                      servers, calls
<1>6. ASSUME NEW s \in Servers, ServerStep(s) \/ Collect(s)
      PROVE  /\ UNCHANGED <<from, target>> /\ (SpeaksAsServer(n) => SpeaksAsServer(n)')
             /\ \/ side'[n] = side[n] \/ side'[n] = "over"
                \/ listen[target[n]] # "unbound" /\ side[n] = "backlog"
    <2>1. UNCHANGED <<from, target>> /\ (SpeaksAsServer(n) => SpeaksAsServer(n)')
        BY <1>1, <1>6, ServerKeeps
    <2>2. ASSUME NEW m \in Calls, Accept(s, m)
          PROVE  side'[n] = side[n] \/ (listen[target[n]] # "unbound" /\ side[n] = "backlog")
        BY <2>2 DEF Accept, CallInv, TypeOK
    <2>3. CASE ServerRead(s) \/ AcceptTimeout(s) \/ Collect(s)
        BY <2>1, <2>3 DEF ServerRead, AcceptTimeout, Collect, calls
    <2>4. CASE ServerEnd(s)
        <3>1. side' = [side EXCEPT ![serving[s]] = "over"]
            BY <2>4 DEF ServerEnd
        <3> QED BY <2>1, <3>1 DEF CallInv, TypeOK
    <2> QED BY <1>6, <2>1, <2>2, <2>3, <2>4 DEF ServerStep
<1>7. CASE UNCHANGED vars
    BY <1>7 DEF vars, activity, services, servers, calls, SpeaksAsServer
<1>8. ASSUME NEW k \in Calls, ClientStep(k) PROVE SpeaksAsServer(n)' <=> SpeaksAsServer(n)
    BY <1>5, <1>8 DEF SpeaksAsServer
<1> QED BY <1>3, <1>4, <1>5, <1>6, <1>7, <1>8 DEF Next

\* What the caller owes it goes on owing, while it is served and no relief is taken
\* from the line.
LEMMA CallerStays ==
    ASSUME CallInv, [Next]_vars, NEW s \in Servers, serving[s] # None, FromCaller(serving[s]),
           serving'[s] # None,
           Relieved(toServer[serving[s]]) => Relieved(toServer'[serving[s]])
    PROVE  owner'[s] = owner[s] /\ serving'[s] = serving[s] /\ FromCaller(serving[s])'
<1> DEFINE n == serving[s]
<1>1. /\ n \in Calls /\ side[n] = "served" /\ target[n] = s /\ link[n] \in {"up", "closed", "end"}
      /\ from[n] \in Phones /\ toServer[n] \in Seq(Lines)
    BY ServedFacts DEF CallInv, TypeOK
<1> HIDE DEF n
<1>2. SUFFICES /\ owner'[s] = owner[s] /\ serving'[s] = n /\ from'[n] = from[n]
               /\ link'[n] = link[n] \/ link'[n] \in {"closed", "end"}
               /\ link[n] = "up" /\ link'[n] = "up" /\ finger[from[n]] =>
                    finger'[from[n]] \/ Relieved(toServer'[n])
    <2>1. FromCaller(n)'
        BY <1>1, <1>2 DEF FromCaller, n
    <2> QED BY <1>2, <2>1 DEF n
<1>3. ASSUME NEW p \in Phones, UiStep(p)
      PROVE  /\ owner'[s] = owner[s] /\ serving'[s] = n /\ from'[n] = from[n]
             /\ link'[n] = link[n] \/ link'[n] \in {"closed", "end"}
    <2>1. CASE CallResumeClient(p)
        <3>1. /\ owner' = owner /\ from'[n] = from[n]
              /\ link'[n] = link[n] \/ link'[n] \in {"closed", "end"}
            BY <1>1, <2>1 DEF CallResumeClient, ResumeCall, CallInv, TypeOK, CloseLink
        <3>2. serving'[s] = serving[s]
            BY <2>1 DEF CallResumeClient, CloseServer, CallInv, TypeOK
        <3> QED BY <3>1, <3>2 DEF n
    <2>2. ASSUME NEW back \in BOOLEAN, PauseClient(p, back)
          PROVE  /\ owner'[s] = owner[s] /\ UNCHANGED <<serving, from>>
                 /\ link'[n] = link[n] \/ link'[n] \in {"closed", "end"}
        <3>1. UNCHANGED <<serving, from>> /\ (link'[n] = link[n] \/ link'[n] \in {"closed", "end"})
            BY <1>1, <2>2 DEF PauseClient, CallInv, TypeOK, CloseLink
        <3>2. owner'[s] = owner[s]
            BY <2>2 DEF PauseClient, CallInv, TypeOK, WireInv, ServedInv
        <3> QED BY <3>1, <3>2
    <2>3. ASSUME NEW back \in BOOLEAN, PauseServer(p, back) PROVE UNCHANGED <<owner, serving, from, link>>
        BY <2>3 DEF PauseServer, servers, calls
    <2>4. CASE Dial(p) \/ MainPause(p) \/ PauseEnd(p) \/ MainResume(p) \/ RunPost(p)
               \/ CallResumeServer(p) \/ Press(p) \/ Release(p)
        <3>1. UNCHANGED <<owner, serving, from, link>>
            BY <2>4 DEF Dial, MainPause, PauseEnd, MainResume, RunPost, CallResumeServer, ResumeCall,
                          Press, Release, servers, calls
        <3> QED BY <3>1 DEF n
    <2> QED BY <1>3, <2>1, <2>2, <2>3, <2>4 DEF UiStep, n
<1>4. ASSUME NEW p \in Phones, UiStep(p), link[n] = "up", link'[n] = "up", finger[from[n]]
      PROVE  finger'[from[n]] \/ Relieved(toServer'[n])
    <2>1. CASE from[n] # p
        BY <1>1, <1>4, <2>1, CalleeActs
    <2>2. CASE from[n] = p
        <3>1. /\ RunPost(p) \/ Press(p) \/ Release(p)
              /\ role[p] = "client" /\ client[p] = n
            BY <1>1, <1>4, <2>2, CallerActs
        <3>2. CASE Release(p)
            <4>1. ClientLine(p, "up")
                BY <3>1, <3>2 DEF Release, RoleLine
            <4>2. toServer'[n] = Append(toServer[n], "up")
                BY <1>1, <1>4, <3>1, <4>1, LineAppends DEF CallInv
            <4>3. "up" \in Lines /\ "up" \in Relief
                BY DEF Lines, Relief
            <4> QED BY <1>1, <4>2, <4>3, SaidLast
        <3>3. CASE RunPost(p) \/ Press(p)
            BY <1>4, <2>2, <3>3 DEF RunPost, Press
        <3> QED BY <3>1, <3>2, <3>3
    <2> QED BY <2>1, <2>2
<1>5. ASSUME NEW k \in Calls, ClientStep(k)
      PROVE  UNCHANGED <<owner, serving, from, finger>> /\ (link'[n] = link[n] \/ link'[n] = "end")
    BY <1>1, <1>5 DEF CallInv, TypeOK, ClientStep, Connect, ConnectFails, ClientRead, ClientEnd,
                      activity, services,
                      servers, calls
<1>6. ASSUME NEW t \in Servers, ServerStep(t) \/ Collect(t)
      PROVE  UNCHANGED <<owner, from, link, finger>> /\ serving'[s] = serving[s]
    <2>1. UNCHANGED <<owner, from, link, finger>>
        BY <1>6, ServerKeeps
    <2>2. CASE ServerEnd(t)
        <3>1. serving' = [serving EXCEPT ![t] = None]
            BY <2>2 DEF ServerEnd
        <3> QED BY <2>1, <3>1 DEF CallInv, TypeOK
    <2>3. ASSUME NEW m \in Calls, Accept(t, m) PROVE serving'[s] = serving[s]
        BY <2>3 DEF Accept, CallInv, TypeOK
    <2>4. CASE ServerRead(t) \/ AcceptTimeout(t) \/ Collect(t)
        BY <2>1, <2>4 DEF ServerRead, AcceptTimeout, Collect, servers
    <2> QED BY <1>6, <2>1, <2>2, <2>3, <2>4 DEF ServerStep
<1>7. CASE UNCHANGED vars
    BY <1>7 DEF vars, activity, servers, calls, n
<1> QED BY <1>3, <1>4, <1>5, <1>6, <1>7 DEF Next, n

\* So relief that a phone is owed stays owed, if none is taken from its lines and no
\* connection of its ends.
LEMMA ReliefStays ==
    ASSUME CallInv, [Next]_vars, NEW p \in Phones, ReliefComes(p),
           \A n \in Calls : from[n] = p /\ link[n] = "up" =>
                link'[n] = "up" /\ (Relieved(toClient[n]) => Relieved(toClient'[n])),
           \A s \in Servers : owner[s] = p /\ serving[s] # None =>
                serving'[s] # None /\ (Relieved(toServer[serving[s]]) => Relieved(toServer'[serving[s]]))
    PROVE  ReliefComes(p)'
<1>1. ASSUME NEW n \in Calls, from[n] = p, FromCallee(n) PROVE from'[n] = p /\ FromCallee(n)'
    <2>1. link[n] = "up"
        BY <1>1 DEF FromCallee
    <2>2. link'[n] = "up" /\ (Relieved(toClient[n]) => Relieved(toClient'[n]))
        BY <1>1, <2>1
    <2> QED BY <1>1, <2>2, CalleeStays
<1>2. ASSUME NEW s \in Servers, owner[s] = p, serving[s] # None, FromCaller(serving[s])
      PROVE  owner'[s] = p /\ serving'[s] # None /\ FromCaller(serving[s])'
    <2>1. serving'[s] # None /\ (Relieved(toServer[serving[s]]) => Relieved(toServer'[serving[s]]))
        BY <1>2
    <2>2. owner'[s] = owner[s] /\ serving'[s] = serving[s] /\ FromCaller(serving[s])'
        BY <1>2, <2>1, CallerStays
    <2> QED BY <1>2, <2>1, <2>2
<1> QED BY <1>1, <1>2 DEF ReliefComes

\* A phone that waits has waited before, unless it has heard a press just now: so it
\* does after any step of the UI thread.
LEMMA WaitsUi ==
    ASSUME CallInv, NEW q \in Phones, UiStep(q), NEW p \in Phones, Visiting(p)', Waits(p)'
    PROVE  Visiting(p) /\ Waits(p)
<1> USE DEF CallInv
<1>1. CASE RunPost(q)
    <2>1. CASE q = p
        <3>1. ui[p] = "call"
            BY <1>1, <2>1 DEF RunPost, MainHandles, Visiting, TypeOK
        <3> QED BY <1>1, <2>1, <3>1, WaitsAfterPost
    <2>2. CASE q # p
        <3>1. /\ ui'[p] = ui[p] /\ finishing'[p] = finishing[p] /\ returned'[p] = returned[p]
              /\ canTalk'[p] = canTalk[p] /\ posts'[p] = posts[p]
            BY <1>1, <2>2 DEF RunPost, MainHandles, CallHandles, TypeOK
        <3> QED BY <3>1 DEF Visiting, Waits
    <2> QED BY <2>1, <2>2
<1>2. CASE CallResumeServer(q) \/ CallResumeClient(q)
    <2>1. ResumeCall(q)
        BY <1>2 DEF CallResumeServer, CallResumeClient
    <2>2. CASE q = p
        <3>1. ui[p] = "toCall" /\ posts' = posts /\ canTalk' = canTalk
            BY <2>1, <2>2 DEF ResumeCall, Visiting, TypeOK
        <3>2. posts'[p] = <<>> /\ canTalk'[p]
            BY <3>1 DEF ActivityInv
        <3> QED BY <3>2, SaidNothing DEF Waits
    <2>3. CASE q # p
        <3>1. /\ ui'[p] = ui[p] /\ finishing'[p] = finishing[p] /\ returned'[p] = returned[p]
              /\ canTalk'[p] = canTalk[p] /\ posts'[p] = posts[p]
            BY <2>1, <2>3 DEF ResumeCall, TypeOK
        <3> QED BY <3>1 DEF Visiting, Waits
    <2> QED BY <2>2, <2>3
<1>3. ASSUME NEW back \in BOOLEAN, PauseClient(q, back) \/ PauseServer(q, back)
      PROVE  Visiting(p) /\ Waits(p)
    <2>1. PauseCall(q, back)
        BY <1>3 DEF PauseClient, PauseServer
    <2>2. q # p
        BY <2>1 DEF PauseCall, Visiting, TypeOK
    <2>3. /\ ui'[p] = ui[p] /\ finishing'[p] = finishing[p] /\ returned'[p] = returned[p]
          /\ canTalk'[p] = canTalk[p] /\ posts'[p] = posts[p]
        BY <2>1, <2>2 DEF PauseCall, TypeOK
    <2> QED BY <2>3 DEF Visiting, Waits
<1>4. CASE Dial(q) \/ MainPause(q) \/ PauseEnd(q) \/ MainResume(q)
    <2>1. q # p
        BY <1>4 DEF Dial, MainPause, PauseEnd, MainResume, Unregister, Visiting, TypeOK
    <2>2. /\ ui'[p] = ui[p] /\ finishing'[p] = finishing[p] /\ returned'[p] = returned[p]
          /\ canTalk'[p] = canTalk[p] /\ posts'[p] = posts[p]
        BY <1>4, <2>1 DEF Dial, MainPause, PauseEnd, MainResume, Unregister, TypeOK
    <2> QED BY <2>2 DEF Visiting, Waits
<1>5. CASE Press(q) \/ Release(q)
    BY <1>5 DEF Press, Release, Visiting, Waits
<1> QED BY <1>1, <1>2, <1>3, <1>4, <1>5 DEF UiStep

\* The UI thread keeps what a phone is owed.
LEMMA FloorUi ==
    ASSUME CallInv, FloorInv, NEW q \in Phones, UiStep(q), [Next]_vars
    PROVE  FloorInv'
<1> SUFFICES ASSUME NEW p \in Phones, Visiting(p)', NoErrors(p)', Waits(p)'
             PROVE  ReliefComes(p)'
    BY DEF FloorInv
<1>1. Visiting(p) /\ ReliefComes(p) /\ TypeOK
    BY WaitsUi, ErrorsStay DEF FloorInv, CallInv
<1>2. ASSUME NEW n \in Calls, from[n] = p, link[n] = "up"
      PROVE  link'[n] = "up" /\ (Relieved(toClient[n]) => Relieved(toClient'[n]))
    <2>1. link'[n] = "up"
        <3>1. InCall(p, "client") /\ client[p] = n
            BY <1>2 DEF CallInv, LiveLinkOnlyInCall
        <3>2. CASE CallResumeClient(q)
            <4>1. q # p
                BY <3>1, <3>2 DEF CallResumeClient, ResumeCall, InCall
            <4>2. client[q] # n
                BY <1>2, <4>1 DEF CallInv, WireInv, LinkInv, Calls, None
            <4> QED BY <1>1, <1>2, <3>2, <4>2 DEF CallResumeClient, TypeOK
        <3>3. ASSUME NEW back \in BOOLEAN, PauseClient(q, back) PROVE link'[n] = "up"
            <4>1. q # p
                BY <1>1, <3>3 DEF PauseClient, PauseCall, Visiting, TypeOK
            <4>2. client[q] # n
                BY <1>2, <4>1 DEF CallInv, WireInv, LinkInv, Calls, None
            <4> QED BY <1>1, <1>2, <3>3, <4>2 DEF PauseClient, TypeOK
        <3>4. ASSUME NEW back \in BOOLEAN, PauseServer(q, back) PROVE link' = link
            BY <3>4 DEF PauseServer, calls
        <3>5. CASE Dial(q) \/ MainPause(q) \/ PauseEnd(q) \/ MainResume(q) \/ RunPost(q)
                   \/ CallResumeServer(q) \/ Press(q) \/ Release(q)
            BY <1>2, <3>5 DEF Dial, MainPause, PauseEnd, MainResume, RunPost, CallResumeServer, Press,
                              Release, calls
        <3> QED BY <1>2, <3>2, <3>3, <3>4, <3>5 DEF UiStep
    <2>2. ASSUME Relieved(toClient[n]) PROVE Relieved(toClient'[n])
        <3>1. toClient'[n] = toClient[n]
              \/ \E m \in {"down", "up", "bye"} : toClient'[n] = Append(toClient[n], m)
            BY <1>2, <2>1, CallerKeeps, CalleeActs
        <3>2. toClient[n] \in Seq(Lines) /\ {"down", "up", "bye"} \subseteq Lines
            BY <1>1 DEF TypeOK, Lines
        <3>3. \A m \in {"down", "up", "bye"} : Relieved(Append(toClient[n], m))
            BY <2>2, <3>2, SaidLast
        <3> QED BY <2>2, <3>1, <3>3
    <2> QED BY <2>1, <2>2
<1>3. ASSUME NEW s \in Servers, owner[s] = p, serving[s] # None
      PROVE  serving'[s] # None /\ (Relieved(toServer[serving[s]]) => Relieved(toServer'[serving[s]]))
    <2>1. serving'[s] # None
        <3>1. CASE CallResumeClient(q)
            <4>1. ui[q] # "call" /\ CloseServer(server[q])
                BY <3>1 DEF CallResumeClient, ResumeCall
            <4>2. server[q] # s
                BY <1>1, <1>3, <4>1 DEF Visiting, CallInv, ListensUnlessCalling, InCall
            <4> QED BY <1>1, <1>3, <4>1, <4>2 DEF CloseServer, TypeOK
        <3>2. CASE ~CallResumeClient(q)
            <4>1. serving' = serving
                BY <3>2 DEF UiStep, Dial, MainPause, PauseEnd, MainResume, RunPost, CallResumeServer,
                            ResumeCall,
                            PauseClient, PauseServer, Press, Release, servers
            <4> QED BY <1>3, <4>1
        <3> QED BY <3>1, <3>2
    <2> DEFINE c == serving[s]
    <2>2. c \in Calls /\ toServer[c] \in Seq(Lines)
        BY <1>1, <1>3 DEF TypeOK
    <2> HIDE DEF c
    <2>3. toServer'[c] = toServer[c] \/ \E m \in Lines : toServer'[c] = Append(toServer[c], m)
        <3>1. toServer' = toServer \/ \E m \in {"hello", "down", "up"} : ClientLine(q, m)
            BY DEF UiStep, Dial, MainPause, PauseEnd, MainResume, RunPost, MainHandles, CallHandles,
                   CallResumeServer, CallResumeClient, ResumeCall, PauseClient, PauseCall, PauseServer, Press,
                   Release, RoleLine, lines
        <3>2. {"hello", "down", "up"} \subseteq Lines
            BY DEF Lines
        <3>3. \A m : ClientLine(q, m) => toServer'[c] = toServer[c] \/ toServer'[c] = Append(toServer[c], m)
            BY <1>1, <2>2, LineAppends
        <3> QED BY <3>1, <3>2, <3>3
    <2>4. Relieved(toServer[c]) => Relieved(toServer'[c])
        BY <2>2, <2>3, SaidLast
    <2> QED BY <2>1, <2>4 DEF c
<1> QED BY <1>1, <1>2, <1>3, ReliefStays

\* The caller's socket threads hand on what is in its line before they report its end.
LEMMA FloorClient ==
    ASSUME CallInv, ToClientInv, FloorInv, NEW k \in Calls, ClientStep(k), [Next]_vars
    PROVE  FloorInv'
<1> SUFFICES ASSUME NEW p \in Phones, Visiting(p)', NoErrors(p)', Waits(p)'
             PROVE  ReliefComes(p)'
    BY DEF FloorInv
<1>1. /\ UNCHANGED <<ui, finishing, returned, canTalk, serving, toServer>>
      /\ \A n \in Calls : n # k => link'[n] = link[n] /\ toClient'[n] = toClient[n]
    BY DEF CallInv, TypeOK, ClientStep, Connect, ConnectFails, ClientRead, ClientEnd, activity, servers,
           calls, lines
<1>2. Visiting(p) /\ Registered(p) /\ TypeOK /\ from[k] \in Phones
    BY <1>1 DEF Visiting, Registered, CallInv, TypeOK
<1>3. Waits(p) => ReliefComes(p)
    BY <1>2, ErrorsStay DEF FloorInv
<1>4. ASSUME NEW x \in Reports, Report(from[k], x), from[k] = p
      PROVE  x \notin Relief /\ (x = "down" \/ Waits(p))
    <2>1. posts'[p] = Append(posts[p], x)
        BY <1>2, <1>4, ReportAppends
    <2> QED BY <1>1, <1>2, <2>1, WaitsAfterReport
<1>5. ASSUME posts'[p] = posts[p] PROVE ReliefComes(p)
    BY <1>1, <1>3, <1>5 DEF Waits
<1>6. ASSUME NEW x \in Reports, Report(from[k], x), from[k] # p PROVE ReliefComes(p)
    BY <1>2, <1>5, <1>6, ReportAppends
<1>7. ASSUME ReliefComes(p),
             from[k] = p /\ link[k] = "up" =>
                link'[k] = "up" /\ (Relieved(toClient[k]) => Relieved(toClient'[k]))
      PROVE  ReliefComes(p)'
    BY <1>1, <1>7, ReliefStays
<1>8. CASE Connect(k)
    <2>1. Report(from[k], "connected") /\ link[k] = "connecting" /\ "connected" \in Reports
          /\ "connected" # "down"
        BY <1>8 DEF Connect, Reports, Events
    <2> QED BY <1>3, <1>4, <1>6, <1>7, <2>1
<1>9. CASE ConnectFails(k)
    BY <1>5, <1>7, <1>9 DEF ConnectFails
<1>10. CASE ClientRead(k)
    <2> DEFINE x == Head(toClient[k])
    <2>1. /\ link[k] = "up" /\ toClient[k] # <<>> /\ Report(from[k], x) /\ UNCHANGED <<link, side, from>>
          /\ toClient[k] \in Seq(Lines) /\ x \in Reports /\ toClient'[k] = Tail(toClient[k])
        BY <1>2, <1>10 DEF ClientRead, TypeOK, Reports, calls
    <2> HIDE DEF x
    <2>2. CASE from[k] # p
        BY <1>6, <1>7, <2>1, <2>2
    <2>3. CASE from[k] = p
        <3>1. x \notin Relief /\ (x = "down" \/ Waits(p))
            BY <1>4, <2>1, <2>3
        <3>2. /\ Relieved(toClient[k]) <=> Relieved(toClient'[k])
              /\ Unanswered(toClient[k]) <=> Unanswered(toClient'[k]) \/ (x = "down" /\ ~Relieved(toClient'[k]))
            BY <2>1, <3>1, SaidFirst DEF x
        <3>3. CASE Waits(p)
            BY <1>3, <1>7, <2>1, <3>2, <3>3
        <3>4. CASE x = "down"
            <4>1. Relieved(toClient[k]) \/ side[k] = "over" \/ SpeaksAsServer(k)
                BY <2>1, <3>2, <3>4 DEF ToClientInv
            <4>2. FromCallee(k)
                BY <2>1, <4>1 DEF FromCallee, ServerGone
            <4>3. ReliefComes(p)
                BY <2>3, <4>2 DEF ReliefComes
            <4> QED BY <1>7, <2>1, <3>2, <4>3
        <3> QED BY <3>1, <3>3, <3>4
    <2> QED BY <2>2, <2>3
<1>11. CASE ClientEnd(k)
    <2>1. Report(from[k], "disconnected") /\ "disconnected" \in Reports /\ "disconnected" \in Relief
        BY <1>11 DEF ClientEnd, Reports, Events, Relief
    <2>2. from[k] # p
        BY <1>4, <2>1
    <2> QED BY <1>6, <1>7, <2>1, <2>2
<1> QED BY <1>8, <1>9, <1>10, <1>11 DEF ClientStep

\* So do the server threads, if the end is no error.
LEMMA FloorServer ==
    ASSUME CallInv, ToServerInv, FloorInv, NEW t \in Servers, ServerStep(t) \/ Collect(t), [Next]_vars
    PROVE  FloorInv'
<1> SUFFICES ASSUME NEW p \in Phones, Visiting(p)', NoErrors(p)', Waits(p)'
             PROVE  ReliefComes(p)'
    BY DEF FloorInv
<1>1. /\ UNCHANGED <<ui, finishing, returned, canTalk, link, toClient>>
      /\ \A s \in Servers : s # t => serving'[s] = serving[s]
    <2>1. UNCHANGED <<ui, finishing, returned, canTalk, link, toClient>>
        BY DEF ServerStep, Accept, ServerRead, ServerEnd, AcceptTimeout, Collect, activity, calls, lines
    <2> QED BY <2>1, ServerKeeps
<1>2. Visiting(p) /\ Registered(p) /\ TypeOK /\ owner[t] \in Phones /\ NoErrors(p)
    BY <1>1, ErrorsStay DEF Visiting, Registered, CallInv, TypeOK
<1>3. Waits(p) => ReliefComes(p)
    BY <1>2 DEF FloorInv
<1>4. ASSUME NEW x \in Reports, Report(owner[t], x), owner[t] = p
      PROVE  x \notin Relief /\ (x = "down" \/ Waits(p))
    <2>1. posts'[p] = Append(posts[p], x)
        BY <1>2, <1>4, ReportAppends
    <2> QED BY <1>1, <1>2, <2>1, WaitsAfterReport
<1>5. ASSUME posts'[p] = posts[p] PROVE ReliefComes(p)
    BY <1>1, <1>3, <1>5 DEF Waits
<1>6. ASSUME NEW x \in Reports, Report(owner[t], x), owner[t] # p PROVE ReliefComes(p)
    BY <1>2, <1>5, <1>6, ReportAppends
<1>7. ASSUME ReliefComes(p),
             owner[t] = p /\ serving[t] # None => serving'[t] # None,
             \A s \in Servers : owner[s] = p /\ serving[s] # None =>
                (Relieved(toServer[serving[s]]) => Relieved(toServer'[serving[s]]))
      PROVE  ReliefComes(p)'
    BY <1>1, <1>7, ReliefStays
<1>8. ASSUME NEW m \in Calls, Accept(t, m) PROVE ReliefComes(p)'
    <2>1. /\ Report(owner[t], "server connected") /\ serving[t] = None /\ toServer' = toServer
          /\ "server connected" \in Reports /\ "server connected" # "down"
        BY <1>8 DEF Accept, Reports, Events, lines
    <2> QED BY <1>3, <1>4, <1>6, <1>7, <2>1
<1>9. CASE AcceptTimeout(t) \/ Collect(t)
    <2>1. UNCHANGED <<posts, serving, toServer>>
        BY <1>9 DEF AcceptTimeout, Collect, lines
    <2> QED BY <1>5, <1>7, <2>1
<1>10. ASSUME NEW s \in Servers, serving[s] # None, s # t PROVE serving[s] # serving[t] \/ serving[t] = None
    BY <1>10, ServedFacts DEF CallInv
<1>11. CASE ServerRead(t)
    <2> DEFINE c == serving[t]
               x == Head(toServer[c])
    <2>1. /\ c # None /\ c \in Calls /\ link[c] \in {"up", "closed", "end"} /\ side[c] = "served"
          /\ toServer[c] \in Seq(Lines)
        <3>1. c # None
            BY <1>11 DEF ServerRead
        <3> QED BY <1>2, <3>1, ServedFacts DEF CallInv, TypeOK
    <2>2. /\ toServer[c] # <<>> /\ Report(owner[t], x) /\ serving' = serving
          /\ toServer' = [toServer EXCEPT ![c] = Tail(@)]
        BY <1>11 DEF ServerRead, servers
    <2>3. /\ x \in Reports /\ toServer'[c] = Tail(toServer[c])
          /\ \A n \in Calls : n # c => toServer'[n] = toServer[n]
        BY <1>2, <2>1, <2>2 DEF TypeOK, Reports
    <2>4. \A s \in Servers : serving[s] # None /\ s # t => toServer'[serving[s]] = toServer[serving[s]]
        BY <1>2, <1>10, <2>1, <2>3 DEF TypeOK
    <2> HIDE DEF x
    <2>5. CASE owner[t] # p
        <3>1. \A s \in Servers : owner[s] = p => s # t
            BY <2>5
        <3> QED BY <1>6, <1>7, <2>2, <2>3, <2>4, <2>5, <3>1
    <2>6. CASE owner[t] = p
        <3>1. x \notin Relief /\ (x = "down" \/ Waits(p))
            BY <1>4, <2>2, <2>3, <2>6
        <3>2. /\ Relieved(toServer[c]) <=> Relieved(toServer'[c])
              /\ Unanswered(toServer[c]) <=> Unanswered(toServer'[c]) \/ (x = "down" /\ ~Relieved(toServer'[c]))
            BY <2>1, <2>2, <2>3, <3>1, SaidFirst DEF x
        <3>3. \A s \in Servers : owner[s] = p /\ serving[s] # None =>
                  (Relieved(toServer[serving[s]]) => Relieved(toServer'[serving[s]]))
            BY <2>4, <3>2
        <3>4. CASE x = "down"
            <4>1. FromCaller(c)
                BY <2>1, <3>2, <3>4 DEF ToServerInv, FromCaller
            <4>2. ReliefComes(p)
                BY <2>1, <2>6, <4>1 DEF ReliefComes
            <4> QED BY <1>7, <2>2, <3>3, <4>2
        <3>5. CASE Waits(p)
            BY <1>3, <1>7, <2>2, <3>3, <3>5
        <3> QED BY <3>1, <3>4, <3>5
    <2> QED BY <2>5, <2>6
<1>12. CASE ServerEnd(t)
    <2> DEFINE c == serving[t]
    <2>1. c # None /\ toServer' = [toServer EXCEPT ![c] = <<>>]
          /\ (Report(owner[t], "server disconnected") \/ (reset[c] /\ posts' = posts))
        BY <1>12 DEF ServerEnd
    <2>2. c \in Calls /\ from[c] = Peer(owner[t])
        BY <2>1, ServedFacts DEF CallInv
    <2>3. owner[t] # p
        <3>1. SUFFICES ASSUME owner[t] = p PROVE FALSE
            OBVIOUS
        <3>2. ~reset[c]
            BY <1>2, <2>2, <3>1 DEF NoErrors
        <3>3. "server disconnected" \in Reports /\ "server disconnected" \in Relief
            BY DEF Reports, Events, Relief
        <3> QED BY <1>4, <2>1, <3>1, <3>2, <3>3
    <2>4. ReliefComes(p)
        <3>1. "server disconnected" \in Reports
            BY DEF Reports, Events
        <3> QED BY <1>5, <1>6, <2>1, <2>3, <3>1
    <2>5. \A s \in Servers : serving[s] # None /\ s # t => toServer'[serving[s]] = toServer[serving[s]]
        BY <1>2, <1>10, <2>1, <2>2 DEF TypeOK
    <2>6. \A s \in Servers : owner[s] = p => s # t
        BY <2>3
    <2> QED BY <1>7, <2>3, <2>4, <2>5, <2>6
<1> QED BY <1>8, <1>9, <1>11, <1>12 DEF ServerStep

\* At the start everybody may talk.
LEMMA FloorInit == Init => FloorInv
<1> SUFFICES ASSUME Init, NEW p \in Phones PROVE ~Waits(p)
    BY DEF FloorInv
<1>1. canTalk[p] /\ posts[p] = <<>>
    BY DEF Init
<1> QED BY <1>1, SaidNothing DEF Waits

\* Both kinds of lines.
LinesInv == ToClientInv /\ ToServerInv

\* Every step keeps lines and floor.
LEMMA FloorStep == CallInv /\ LinesInv /\ FloorInv /\ [Next]_vars => LinesInv' /\ FloorInv'
<1> SUFFICES ASSUME CallInv, LinesInv, FloorInv, [Next]_vars PROVE LinesInv' /\ FloorInv'
    OBVIOUS
<1>1. CASE UNCHANGED vars
    BY <1>1 DEF vars, activity, services, servers, lines, calls, LinesInv, ToClientInv, ToServerInv, FloorInv,
                SpeaksAsServer, Visiting, NoErrors, Waits, ReliefComes, FromCallee, FromCaller, ServerGone
<1>2. ASSUME NEW k \in Calls, ClientStep(k) PROVE LinesInv' /\ FloorInv'
    BY <1>2, LinesClient, FloorClient DEF LinesInv
<1>3. ASSUME NEW s \in Servers, ServerStep(s) \/ Collect(s) PROVE LinesInv' /\ FloorInv'
    BY <1>3, LinesServer, FloorServer DEF LinesInv
<1>4. ASSUME NEW p \in Phones, UiStep(p) PROVE LinesInv' /\ FloorInv'
    BY <1>4, LinesUi, FloorUi DEF LinesInv
<1> QED BY <1>1, <1>2, <1>3, <1>4 DEF Next

\* What a phone is owed is what the property allows it to wait for.
LEMMA OwedIsUnderWay ==
    ASSUME CallInv, NEW p \in Phones, ReliefComes(p)
    PROVE  finger[Peer(p)] \/ UnderWay(p, "up") \/ UnderWay(p, "bye") \/ EndUnderWay(p)
<1> USE DEF CallInv
<1>1. ASSUME NEW l \in Heard(p), l \in Seq(Lines), Relieved(l) PROVE UnderWay(p, "up") \/ UnderWay(p, "bye")
    <2>1. PICK i \in DOMAIN l : l[i] \in Relief
        BY <1>1 DEF Relieved
    <2>2. l[i] \in Lines
        BY <1>1, <2>1
    <2>3. l[i] \in {"up", "bye"}
        BY <2>1, <2>2 DEF Lines, Relief
    <2> QED BY <1>1, <2>1, <2>3 DEF UnderWay
<1>2. ASSUME NEW n \in Calls, from[n] = p, FromCallee(n)
      PROVE  finger[Peer(p)] \/ UnderWay(p, "up") \/ UnderWay(p, "bye") \/ EndUnderWay(p)
    <2>1. toClient[n] \in Heard(p) /\ toClient[n] \in Seq(Lines)
        BY <1>2 DEF FromCallee, Heard, TypeOK
    <2>2. Relieved(toClient[n]) => UnderWay(p, "up") \/ UnderWay(p, "bye")
        BY <1>1, <2>1
    <2>3. link[n] = "up" /\ ServerGone(n) => EndUnderWay(p)
        BY <1>2 DEF EndUnderWay
    <2> QED BY <1>2, <2>2, <2>3 DEF FromCallee, SpeaksAsServer
<1>3. ASSUME NEW s \in Servers, owner[s] = p, serving[s] # None, FromCaller(serving[s])
      PROVE  finger[Peer(p)] \/ UnderWay(p, "up") \/ UnderWay(p, "bye") \/ EndUnderWay(p)
    <2>1. from[serving[s]] = Peer(p) /\ serving[s] \in Calls
        BY <1>3, ServedFacts
    <2>2. toServer[serving[s]] \in Heard(p) /\ toServer[serving[s]] \in Seq(Lines)
        BY <1>3, <2>1 DEF Heard, TypeOK
    <2>3. Relieved(toServer[serving[s]]) => UnderWay(p, "up") \/ UnderWay(p, "bye")
        BY <1>1, <2>2
    <2>4. link[serving[s]] \in {"closed", "end"} => EndUnderWay(p)
        BY <1>3 DEF EndUnderWay
    <2> QED BY <1>3, <2>1, <2>3, <2>4 DEF FromCaller
<1> QED BY <1>2, <1>3 DEF ReliefComes

\* With that, or with what is in its queue already, the property holds.
LEMMA FloorEnough == CallInv /\ FloorInv => FloorFollowsPeer
<1> SUFFICES ASSUME CallInv, FloorInv, NEW p \in Phones, Visiting(p), ~canTalk[p], NoErrors(p)
             PROVE  finger[Peer(p)] \/ UnderWay(p, "up") \/ UnderWay(p, "bye") \/ EndUnderWay(p)
    BY DEF FloorFollowsPeer, Visiting, NoErrors
<1>1. CASE Relieved(posts[p])
    BY <1>1 DEF Relieved, Relief, UnderWay, EndUnderWay, PostedTo
<1>2. CASE ~Relieved(posts[p])
    BY <1>2, OwedIsUnderWay DEF FloorInv, Waits
<1> QED BY <1>1, <1>2

(* A phone that may not talk is right, or will be told so: however presses, *)
(* releases, greetings and calls cross, for any number of them.             *)
THEOREM FloorFollows == Spec => []FloorFollowsPeer
<1>1. Init => ActivityInv /\ WireInv /\ LinesInv /\ FloorInv
    BY ActivityInit, WireInit, LinesInit, FloorInit DEF LinesInv
<1>2. CallInv /\ [Next]_vars => ActivityInv' /\ WireInv'
    BY ActivityStep, WireStep DEF CallInv
<1>3. CallInv <=> TypeOK /\ LiveLinkOnlyInCall /\ ListensUnlessCalling /\ ActivityInv /\ WireInv
    BY DEF CallInv
<1> QED
    BY <1>1, <1>2, <1>3, FloorStep, FloorEnough, TypeCorrect, LinksEndWithCall, AlwaysReachable, PTL DEF Spec

-----------------------------------------------------------------------------
(* The caller's end of a control connection, for any number of timeouts.    *)

\* The types, for pc as a function, and for the count of reports.
CTypes == CTypeOK /\ pc \in [Threads -> CloseLocs \cup ThreadLocs \cup BinderLocs] /\ late \in Nat

\* closeConnect has returned, once at least.
Returned == pc["binder"] = "closed" \/ asked = "again"

(* What the thread may still report of a connection that is closed.         *)
CommandAhead == pc["thread"] \in {"connected", "line"}
EndAhead ==
    \/ pc["thread"] \in {"out", "in", "connected", "line", "read", "reading"}
    \/ pc["thread"] \in CloseLocs /\ phase["thread"] = "stream"
Ahead == (IF CommandAhead THEN 1 ELSE 0) + (IF EndAhead THEN 1 ELSE 0)

(* A socket is forgotten only when it has been closed, and closeConnect     *)
(* returns only when it is; from then on the reports are counted down.      *)
CloseInv ==
    /\ ~mSocket => conn = "closed"
    /\ \A t \in Threads : pc[t] = "nullSocket" => conn = "closed"
    /\ pc["thread"] = "end" \/ Returned => conn = "closed"
    /\ pc["binder"] \in {"idle", "write", "flush"} => asked = "no"

\* Of a connection that closeConnect has closed, two reports at most are made.
LateInv == IF Returned THEN late + Ahead <= 2 ELSE late = 0

\* A thread goes to a place of its own.
LEMMA GotoTypes ==
    ASSUME CTypes, NEW t \in Threads, NEW place, pc' = [pc EXCEPT ![t] = place],
           place \in CloseLocs \/ (t = "thread" /\ place \in ThreadLocs)
                               \/ (t = "binder" /\ place \in BinderLocs)
    PROVE  /\ pc' \in [Threads -> CloseLocs \cup ThreadLocs \cup BinderLocs]
           /\ pc'["thread"] \in CloseLocs \cup ThreadLocs
           /\ pc'["binder"] \in CloseLocs \cup BinderLocs
<1> USE DEF CTypes, CTypeOK
<1>1. t = "thread" \/ t = "binder"
    BY DEF Threads
<1>2. "thread" \in Threads /\ "binder" \in Threads
    BY DEF Threads
<1>3. pc' \in [Threads -> CloseLocs \cup ThreadLocs \cup BinderLocs]
    OBVIOUS
<1>4. CASE t = "thread"
    BY <1>2, <1>3, <1>4
<1>5. CASE t = "binder"
    BY <1>2, <1>3, <1>5
<1> QED
    BY <1>1, <1>4, <1>5

(* The pieces that closing is made of.                                      *)
LEMMA NpeTypes ==
    ASSUME CTypes, NEW t \in Threads, NEW place, Npe(t, place)
    PROVE  /\ \E to : /\ pc' = [pc EXCEPT ![t] = to]
                      /\ to \in {"testOut", "dead", "npe"}
                      /\ to = "dead" => t = "thread"
                      /\ to = "npe" => t = "binder"
           /\ phase' \in [Threads -> {"stream", "socket"}]
           /\ tries' \in 0 .. MaxTries /\ thrown' \in BOOLEAN
<1>1. CASE t = "binder"
    BY <1>1 DEF Npe, Goto, CTypes, CTypeOK
<1>2. CASE t = "thread"
    BY <1>2, MaxTriesAssumption DEF Npe, Goto, Closing, CTypes, CTypeOK
<1> QED
    BY <1>1, <1>2 DEF Threads

\* process(), or closeConnect, returns.
LEMMA ReturnTypes ==
    ASSUME CTypes, NEW t \in Threads, NEW place, Return(t, place)
    PROVE  /\ \E to : /\ pc' = [pc EXCEPT ![t] = to]
                      /\ to \in {"testOut", "dead", "end", "closed"}
                      /\ to \in {"dead", "end"} => t = "thread"
                      /\ to = "closed" => t = "binder"
           /\ phase' \in [Threads -> {"stream", "socket"}]
           /\ tries' \in 0 .. MaxTries /\ thrown' \in BOOLEAN
<1>1. CASE t = "binder"
    BY <1>1 DEF Return, Goto, CTypes, CTypeOK
<1>2. CASE t = "thread"
    BY <1>2, MaxTriesAssumption DEF Return, Goto, Closing, CTypes, CTypeOK
<1> QED
    BY <1>1, <1>2 DEF Threads

\* closeStream is over.
LEMMA StreamsTypes ==
    ASSUME CTypes, NEW t \in Threads, NEW place, StreamsClosed(t, place)
    PROVE  /\ \E to \in {"testOut", "testSocket"} : pc' = [pc EXCEPT ![t] = to]
           /\ phase' \in [Threads -> {"stream", "socket"}]
           /\ tries' = tries /\ thrown' = thrown
           /\ reported' \in {"nothing", "connected", "disconnected"} /\ late' \in Nat
BY DEF StreamsClosed, Goto, Closing, Tell, report, CTypes, CTypeOK

(* A step of closing keeps the types.                                       *)
LEMMA ClosingTypes ==
    ASSUME CTypes, NEW t \in Threads, CloseStep(t)
    PROVE  CTypes'
<1>1. \E to : /\ pc' = [pc EXCEPT ![t] = to]
              /\ to \in CloseLocs \/ (t = "thread" /\ to \in ThreadLocs)
                                  \/ (t = "binder" /\ to \in BinderLocs)
    <2> USE DEF Goto, CloseLocs, ThreadLocs, BinderLocs
    <2>1. CASE TestOut(t)
        BY <2>1 DEF TestOut
    <2>2. CASE CloseOut(t)
        BY <2>2, NpeTypes DEF CloseOut
    <2>3. CASE NullOut(t)
        BY <2>3 DEF NullOut
    <2>4. CASE TestIn(t)
        BY <2>4, StreamsTypes DEF TestIn
    <2>5. CASE CloseIn(t)
        BY <2>5, NpeTypes DEF CloseIn
    <2>6. CASE NullIn(t)
        BY <2>6, StreamsTypes DEF NullIn
    <2>7. CASE TestSocket(t)
        BY <2>7, ReturnTypes DEF TestSocket
    <2>8. CASE CloseSocket(t)
        BY <2>8, NpeTypes DEF CloseSocket
    <2>9. CASE NullSocket(t)
        BY <2>9, ReturnTypes DEF NullSocket
    <2> QED
        BY <2>1, <2>2, <2>3, <2>4, <2>5, <2>6, <2>7, <2>8, <2>9 DEF CloseStep
<1>2. /\ pc' \in [Threads -> CloseLocs \cup ThreadLocs \cup BinderLocs]
      /\ pc'["thread"] \in CloseLocs \cup ThreadLocs
      /\ pc'["binder"] \in CloseLocs \cup BinderLocs
    BY <1>1, GotoTypes
<1>3. /\ phase' \in [Threads -> {"stream", "socket"}]
      /\ tries' \in 0 .. MaxTries /\ thrown' \in BOOLEAN
      /\ mSocket' \in BOOLEAN /\ mOut' \in BOOLEAN /\ mIn' \in BOOLEAN
      /\ conn' \in {"none", "open", "closed"}
      /\ reported' \in {"nothing", "connected", "disconnected"} /\ late' \in Nat
      /\ line' = line /\ gone' = gone /\ asked' = asked
    <2> USE DEF CTypes, CTypeOK, fields, peer, report
    <2>1. CASE TestOut(t)
        BY <2>1 DEF TestOut
    <2>2. CASE CloseOut(t)
        BY <2>2, NpeTypes DEF CloseOut
    <2>3. CASE NullOut(t)
        BY <2>3 DEF NullOut
    <2>4. CASE TestIn(t)
        BY <2>4, StreamsTypes DEF TestIn
    <2>5. CASE CloseIn(t)
        BY <2>5, NpeTypes DEF CloseIn
    <2>6. CASE NullIn(t)
        BY <2>6, StreamsTypes DEF NullIn
    <2>7. CASE TestSocket(t)
        BY <2>7, ReturnTypes DEF TestSocket
    <2>8. CASE CloseSocket(t)
        BY <2>8, NpeTypes DEF CloseSocket
    <2>9. CASE NullSocket(t)
        BY <2>9, ReturnTypes DEF NullSocket
    <2> QED
        BY <2>1, <2>2, <2>3, <2>4, <2>5, <2>6, <2>7, <2>8, <2>9 DEF CloseStep
<1> QED
    BY <1>2, <1>3 DEF CTypes, CTypeOK

(* Every other step: where it leads, and the rest.                          *)
OtherCtlStep ==
    \/ CallConnect \/ Connected \/ ConnectThrows \/ ConnectTimesOut
    \/ MakeOut \/ MakeIn \/ NewCommand \/ Read \/ ReadLine
    \/ WriteCommand \/ CloseConnect \/ Write \/ Flush

\* Every step outside the closing code keeps the types: it moves one thread to one of
\* its places, and what else it changes keeps its range.
LEMMA OtherTypes ==
    ASSUME CTypes, OtherCtlStep
    PROVE  CTypes'
<1> USE DEF OtherCtlStep, CallConnect, Connected, ConnectThrows, ConnectTimesOut, MakeOut, MakeIn, NewCommand,
            Read, ReadLine, WriteCommand, CloseConnect, Write, Flush
<1>1. \E t \in Threads : \E to :
          /\ pc' = [pc EXCEPT ![t] = to]
          /\ to \in CloseLocs \/ (t = "thread" /\ to \in ThreadLocs)
                              \/ (t = "binder" /\ to \in BinderLocs)
    BY DEF Goto, Closing, Thread, Binder, CloseLocs, ThreadLocs, BinderLocs, Threads
<1>2. /\ pc' \in [Threads -> CloseLocs \cup ThreadLocs \cup BinderLocs]
      /\ pc'["thread"] \in CloseLocs \cup ThreadLocs
      /\ pc'["binder"] \in CloseLocs \cup BinderLocs
    BY <1>1, GotoTypes
<1>3. phase' \in [Threads -> {"stream", "socket"}]
    BY DEF CTypes, CTypeOK, Closing, Thread, Binder
<1>4. /\ tries' = tries \/ (tries < MaxTries /\ tries' = tries + 1)
      /\ thrown' = thrown \/ thrown' = TRUE
    OBVIOUS
<1> HIDE DEF OtherCtlStep, CallConnect, Connected, ConnectThrows, ConnectTimesOut, MakeOut, MakeIn, NewCommand,
             Read, ReadLine, WriteCommand, CloseConnect, Write, Flush
<1>9. tries' \in 0 .. MaxTries
    BY <1>4, MaxTriesAssumption DEF CTypes, CTypeOK
<1>10. thrown' \in BOOLEAN
    BY <1>4 DEF CTypes, CTypeOK
<1> USE DEF OtherCtlStep, CallConnect, Connected, ConnectThrows, ConnectTimesOut, MakeOut, MakeIn, NewCommand,
            Read, ReadLine, WriteCommand, CloseConnect, Write, Flush
<1>5. mSocket' \in BOOLEAN /\ mOut' \in BOOLEAN /\ mIn' \in BOOLEAN
    BY DEF CTypes, CTypeOK, fields
<1>6. conn' \in {"none", "open", "closed"} /\ asked' \in {"no", "once", "again"}
    BY DEF CTypes, CTypeOK
<1>7. reported' \in {"nothing", "connected", "disconnected"} /\ late' \in Nat
    BY DEF CTypes, CTypeOK, Tell, report
<1>8. line' \in BOOLEAN /\ gone' \in BOOLEAN
    BY DEF CTypes, CTypeOK, peer
<1> QED
    BY <1>2, <1>3, <1>9, <1>10, <1>5, <1>6, <1>7, <1>8 DEF CTypes, CTypeOK

\* Every step keeps the types.
LEMMA CtlTypes == CTypes /\ [CNext]_cvars => CTypes'
<1> SUFFICES ASSUME CTypes, [CNext]_cvars PROVE CTypes'
    OBVIOUS
<1>1. ASSUME NEW t \in Threads, CloseStep(t) PROVE CTypes'
    BY <1>1, ClosingTypes
<1>2. CASE OtherCtlStep
    BY <1>2, OtherTypes
<1>3. CASE Send \/ HangUp
    <2>1. UNCHANGED <<fields, pc, phase, tries, thrown, conn, report, asked>>
        BY <1>3 DEF Send, HangUp
    <2>2. line' \in BOOLEAN /\ gone' \in BOOLEAN
        BY <1>3 DEF Send, HangUp, CTypes, CTypeOK
    <2> QED
        BY <2>1, <2>2 DEF CTypes, CTypeOK, fields, report
<1>4. CASE UNCHANGED cvars
    BY <1>4 DEF cvars, CTypes, CTypeOK, fields, peer, report
<1> QED
    BY <1>1, <1>2, <1>3, <1>4 DEF CNext, ThreadStep, BinderStep, OtherCtlStep, Threads

\* The invariant of closing holds at the start.
LEMMA CtlInit == CInit => CTypes /\ CloseInv /\ LateInv
<1> SUFFICES ASSUME CInit PROVE CTypes /\ CloseInv /\ LateInv
    OBVIOUS
<1>1. pc["thread"] = "connect" /\ pc["binder"] = "idle"
    BY DEF CInit, Threads
<1>2. pc \in [Threads -> CloseLocs \cup ThreadLocs \cup BinderLocs]
    BY DEF CInit, Threads, ThreadLocs, BinderLocs
<1>3. CTypes
    <2>1. tries \in 0 .. MaxTries /\ late \in Nat
        BY MaxTriesAssumption DEF CInit
    <2>2. pc["thread"] \in ThreadLocs /\ pc["binder"] \in BinderLocs
        BY <1>1 DEF ThreadLocs, BinderLocs
    <2>3. phase \in [Threads -> {"stream", "socket"}]
        BY DEF CInit
    <2> QED
        BY <1>2, <2>1, <2>2, <2>3 DEF CInit, CTypes, CTypeOK
<1>4. CloseInv
    BY <1>1 DEF CInit, CloseInv, Threads, Returned
<1>5. LateInv
    BY <1>1 DEF CInit, LateInv, Returned
<1> QED
    BY <1>3, <1>4, <1>5

\* A connection that was closed stays closed.
LEMMA StaysClosed ==
    ASSUME [CNext]_cvars, conn = "closed"
    PROVE  conn' = "closed"
BY DEF CNext, ThreadStep, BinderStep, CloseStep, CallConnect, Connected, ConnectThrows,
       ConnectTimesOut, MakeOut, MakeIn, NewCommand, Read, ReadLine, WriteCommand, CloseConnect,
       Write, Flush, Send, HangUp, TestOut, CloseOut, NullOut, TestIn, CloseIn, NullIn, TestSocket,
       CloseSocket, NullSocket, cvars

(* Where a step of closing by a thread can lead.                            *)
LEMMA CloseLeads ==
    ASSUME CTypes, NEW t \in Threads, CloseStep(t)
    PROVE  /\ pc[t] \in CloseLocs
           /\ pc'[t] = "nullSocket" => conn' = "closed"
           /\ pc'[t] \in {"end", "closed"} => pc[t] = "nullSocket" \/ ~mSocket
           /\ mSocket' = mSocket \/ pc[t] = "nullSocket"
           /\ pc'[t] \notin {"idle", "write", "flush"}
           /\ \A u \in Threads \ {t} : pc'[u] = pc[u] /\ phase'[u] = phase[u]
<1> USE DEF CTypes, CTypeOK, CloseLocs, Goto, Closing, fields
<1>1. CASE TestOut(t)
    BY <1>1 DEF TestOut
<1>2. CASE CloseOut(t)
    BY <1>2 DEF CloseOut, Npe
<1>3. CASE NullOut(t)
    BY <1>3 DEF NullOut
<1>4. CASE TestIn(t)
    BY <1>4 DEF TestIn, StreamsClosed
<1>5. CASE CloseIn(t)
    BY <1>5 DEF CloseIn, Npe
<1>6. CASE NullIn(t)
    BY <1>6 DEF NullIn, StreamsClosed
<1>7. CASE TestSocket(t)
    BY <1>7 DEF TestSocket, Return
<1>8. CASE CloseSocket(t)
    BY <1>8 DEF CloseSocket, Npe
<1>9. CASE NullSocket(t)
    BY <1>9 DEF NullSocket, Return
<1> QED
    BY <1>1, <1>2, <1>3, <1>4, <1>5, <1>6, <1>7, <1>8, <1>9 DEF CloseStep

(* What a step of closing reports.                                          *)
LEMMA CloseReports ==
    ASSUME CTypes, NEW t \in Threads, CloseStep(t)
    PROVE  \/ late' = late
           \/ /\ t = "thread" /\ phase[t] = "stream" /\ phase'[t] = "socket"
              /\ late' = IF Returned THEN late + 1 ELSE late
<1> USE DEF report, fields
<1>1. CASE TestOut(t)
    BY <1>1 DEF TestOut
<1>2. CASE CloseOut(t)
    BY <1>2 DEF CloseOut
<1>3. CASE NullOut(t)
    BY <1>3 DEF NullOut
<1>4. CASE TestIn(t)
    BY <1>4 DEF TestIn, StreamsClosed, Closing, Tell, Returned, CTypes, CTypeOK, Threads
<1>5. CASE CloseIn(t)
    BY <1>5 DEF CloseIn
<1>6. CASE NullIn(t)
    BY <1>6 DEF NullIn, StreamsClosed, Closing, Tell, Returned, CTypes, CTypeOK, Threads
<1>7. CASE TestSocket(t)
    BY <1>7 DEF TestSocket
<1>8. CASE CloseSocket(t)
    BY <1>8 DEF CloseSocket
<1>9. CASE NullSocket(t)
    BY <1>9 DEF NullSocket
<1> QED
    BY <1>1, <1>2, <1>3, <1>4, <1>5, <1>6, <1>7, <1>8, <1>9 DEF CloseStep

(* After closing a thread is done, or closes on: nothing is left to report. *)
LEMMA CloseGoesOn ==
    ASSUME CTypes, NEW t \in Threads, CloseStep(t)
    PROVE  /\ pc'[t] \in CloseLocs \cup {"dead", "end", "npe", "closed"}
           /\ phase'[t] = "stream" => phase[t] = "stream"
           /\ asked' = asked
<1> USE DEF CTypes, CTypeOK, CloseLocs, Goto, Closing
<1>1. CASE TestOut(t)
    BY <1>1 DEF TestOut
<1>2. CASE CloseOut(t)
    BY <1>2 DEF CloseOut, Npe
<1>3. CASE NullOut(t)
    BY <1>3 DEF NullOut
<1>4. CASE TestIn(t)
    BY <1>4 DEF TestIn, StreamsClosed
<1>5. CASE CloseIn(t)
    BY <1>5 DEF CloseIn, Npe
<1>6. CASE NullIn(t)
    BY <1>6 DEF NullIn, StreamsClosed
<1>7. CASE TestSocket(t)
    BY <1>7 DEF TestSocket, Return
<1>8. CASE CloseSocket(t)
    BY <1>8 DEF CloseSocket, Npe
<1>9. CASE NullSocket(t)
    BY <1>9 DEF NullSocket, Return
<1> QED
    BY <1>1, <1>2, <1>3, <1>4, <1>5, <1>6, <1>7, <1>8, <1>9 DEF CloseStep

(* A step that neither closes nor is the peer's: what it leaves and leads to. *)
LEMMA OtherLeads ==
    ASSUME CTypes, OtherCtlStep
    PROVE  \E t \in Threads :
               /\ pc'[t] \notin {"nullSocket", "end", "closed"}
               /\ mSocket' = mSocket
               /\ t = "thread" => asked' = asked
               /\ \A u \in Threads \ {t} : pc'[u] = pc[u] /\ phase'[u] = phase[u]
<1>1. CASE CallConnect \/ Connected \/ ConnectThrows \/ ConnectTimesOut \/ MakeOut \/ MakeIn
    <2>1. /\ pc'["thread"] \notin {"nullSocket", "end", "closed"}
          /\ mSocket' = mSocket /\ asked' = asked
          /\ \A u \in Threads \ {"thread"} : pc'[u] = pc[u] /\ phase'[u] = phase[u]
        BY <1>1 DEF CallConnect, Connected, ConnectThrows, ConnectTimesOut, MakeOut, MakeIn,
                    Thread, Goto, Closing, CTypes, CTypeOK, fields, Threads
    <2> QED
        BY <2>1 DEF Threads
<1>2. CASE NewCommand \/ Read \/ ReadLine
    <2>1. /\ pc'["thread"] \notin {"nullSocket", "end", "closed"}
          /\ mSocket' = mSocket /\ asked' = asked
          /\ \A u \in Threads \ {"thread"} : pc'[u] = pc[u] /\ phase'[u] = phase[u]
        BY <1>2 DEF NewCommand, Read, ReadLine,
                    Thread, Goto, Closing, CTypes, CTypeOK, fields, Threads
    <2> QED
        BY <2>1 DEF Threads
<1>3. CASE WriteCommand \/ CloseConnect \/ Write \/ Flush
    <2>1. /\ pc'["binder"] \notin {"nullSocket", "end", "closed"}
          /\ mSocket' = mSocket
          /\ \A u \in Threads \ {"binder"} : pc'[u] = pc[u] /\ phase'[u] = phase[u]
        BY <1>3 DEF WriteCommand, CloseConnect, Write, Flush,
                    Binder, Goto, Closing, CTypes, CTypeOK, fields, Threads
    <2> QED
        BY <2>1 DEF Threads
<1> QED
    BY <1>1, <1>2, <1>3 DEF OtherCtlStep

\* What the binder thread's own calls do to what was asked.
LEMMA BinderAsks ==
    ASSUME CTypes, CloseInv, OtherCtlStep
    PROVE  /\ pc'["binder"] \in {"idle", "write", "flush"} => asked' = "no"
           /\ asked = "again" => asked' = "again"
           /\ asked' = "again" => Returned
           /\ pc["binder"] = "closed" => pc'["binder"] = "closed" \/ asked' = "again"
<1>1. CASE UNCHANGED <<asked, pc>>
    BY <1>1 DEF CloseInv, Returned
<1>2. CASE UNCHANGED asked /\ pc'["binder"] = pc["binder"]
    BY <1>2 DEF CloseInv, Returned
<1>3. CASE CloseConnect
    BY <1>3 DEF CloseConnect, Closing, Goto, CloseInv, Returned, CTypes, CTypeOK, Threads
<1>4. CASE WriteCommand \/ Write \/ Flush
    <2>1. asked' = asked /\ pc["binder"] \in {"idle", "write", "flush"}
        BY <1>4 DEF WriteCommand, Write, Flush, Binder, Goto
    <2> QED
        BY <2>1 DEF CloseInv, Returned
<1>5. CASE OtherCtlStep /\ ~(CloseConnect \/ WriteCommand \/ Write \/ Flush)
    BY <1>2, <1>5 DEF OtherCtlStep, CallConnect, Connected, ConnectThrows, ConnectTimesOut,
                MakeOut, MakeIn, NewCommand, Read, ReadLine, Thread, Goto, Closing, CTypes, CTypeOK,
                Threads
<1> QED
    BY <1>3, <1>4, <1>5

\* closeConnect, once it has returned, has returned.
LEMMA StaysReturned ==
    ASSUME CTypes, CloseInv, [CNext]_cvars, Returned
    PROVE  Returned'
<1>1. CASE OtherCtlStep
    BY <1>1, BinderAsks DEF Returned
<1>2. ASSUME NEW t \in Threads, CloseStep(t) PROVE Returned'
    <2>1. asked' = asked
        BY <1>2, CloseGoesOn
    <2>2. pc["binder"] = "closed" => t # "binder"
        BY <1>2, CloseLeads DEF CloseLocs
    <2>3. pc["binder"] = "closed" => pc'["binder"] = "closed"
        BY <1>2, <2>2, CloseLeads DEF Threads
    <2> QED
        BY <2>1, <2>3 DEF Returned
<1>3. CASE Send \/ HangUp \/ UNCHANGED cvars
    BY <1>3 DEF Send, HangUp, cvars, Returned
<1> QED
    BY <1>1, <1>2, <1>3 DEF CNext, ThreadStep, BinderStep, OtherCtlStep, Threads

\* Every step keeps the invariant of closing.
LEMMA CloseInvStep ==
    ASSUME CTypes, CloseInv, [CNext]_cvars
    PROVE  CloseInv'
<1>1. CASE OtherCtlStep
    <2>1. PICK t \in Threads :
               /\ pc'[t] \notin {"nullSocket", "end", "closed"}
               /\ mSocket' = mSocket
               /\ t = "thread" => asked' = asked
               /\ \A u \in Threads \ {t} : pc'[u] = pc[u] /\ phase'[u] = phase[u]
        BY <1>1, OtherLeads
    <2>2. conn = "closed" => conn' = "closed"
        BY StaysClosed
    <2>3. ~mSocket' => conn' = "closed"
        BY <2>1, <2>2 DEF CloseInv
    <2>4. \A u \in Threads : pc'[u] = "nullSocket" => conn' = "closed"
        BY <2>1, <2>2 DEF CloseInv
    <2>5. pc'["thread"] = "end" => conn' = "closed"
        BY <2>1, <2>2 DEF CloseInv, Threads
    <2>6. pc'["binder"] = "closed" => pc["binder"] = "closed"
        BY <2>1 DEF Threads
    <2>7. Returned' => conn' = "closed"
        BY <1>1, <2>2, <2>6, BinderAsks DEF CloseInv, Returned
    <2> QED
        BY <1>1, <2>3, <2>4, <2>5, <2>7, BinderAsks DEF CloseInv
<1>2. ASSUME NEW t \in Threads, CloseStep(t) PROVE CloseInv'
    <2>1. /\ pc'[t] = "nullSocket" => conn' = "closed"
          /\ pc'[t] \in {"end", "closed"} => pc[t] = "nullSocket" \/ ~mSocket
          /\ mSocket' = mSocket \/ pc[t] = "nullSocket"
          /\ pc'[t] \notin {"idle", "write", "flush"}
          /\ \A u \in Threads \ {t} : pc'[u] = pc[u]
          /\ asked' = asked
        BY <1>2, CloseLeads, CloseGoesOn
    <2>2. conn = "closed" => conn' = "closed"
        BY StaysClosed
    <2>3. ~mSocket' => conn' = "closed"
        BY <2>1, <2>2 DEF CloseInv
    <2>4. \A u \in Threads : pc'[u] = "nullSocket" => conn' = "closed"
        BY <2>1, <2>2 DEF CloseInv
    <2>5. pc'["thread"] = "end" \/ pc'["binder"] = "closed" => conn' = "closed"
        BY <2>1, <2>2 DEF CloseInv, Threads, Returned
    <2>6. pc'["binder"] \in {"idle", "write", "flush"} => asked' = "no"
        BY <2>1 DEF CloseInv, Threads
    <2>7. asked' = "again" => conn' = "closed"
        BY <2>1, <2>2 DEF CloseInv, Returned
    <2> QED
        BY <2>3, <2>4, <2>5, <2>6, <2>7 DEF CloseInv, Returned
<1>3. CASE Send \/ HangUp \/ UNCHANGED cvars
    BY <1>3 DEF Send, HangUp, cvars, fields, CloseInv, Returned
<1> QED
    BY <1>1, <1>2, <1>3 DEF CNext, ThreadStep, BinderStep, OtherCtlStep, Threads

(* A report uses up one of those that are left, and no step adds one to a   *)
(* connection that is closed.                                               *)
LEMMA CountDown ==
    ASSUME CTypes, CloseInv, Returned, [CNext]_cvars
    PROVE  late' + Ahead' <= late + Ahead
<1>0. late \in Nat /\ conn = "closed"
    BY DEF CTypes, CloseInv
<1>1. CASE NewCommand
    <2>1. pc["thread"] \in {"connected", "line"} /\ pc'["thread"] = "read" /\ late' = late + 1
        BY <1>1 DEF NewCommand, Thread, Goto, Tell, Returned, CTypes, CTypeOK, Threads
    <2>2. CommandAhead /\ EndAhead /\ ~CommandAhead' /\ EndAhead'
        BY <2>1 DEF CommandAhead, EndAhead
    <2> QED
        BY <1>0, <2>1, <2>2 DEF Ahead
<1>2. CASE OtherCtlStep /\ ~NewCommand
    <2>1. late' = late
        BY <1>2 DEF OtherCtlStep, CallConnect, Connected, ConnectThrows, ConnectTimesOut,
                MakeOut, MakeIn, Read, ReadLine, WriteCommand, CloseConnect, Write, Flush, report
    <2>2. CommandAhead' => CommandAhead
        <3>1. CASE CallConnect \/ ConnectThrows \/ ConnectTimesOut \/ Connected \/ MakeOut \/ MakeIn
            BY <1>0, <3>1 DEF CallConnect, Connected, ConnectThrows, ConnectTimesOut, MakeOut, MakeIn,
                       Thread, Goto, Closing, CTypes, CTypeOK, Threads, CommandAhead
        <3>2. CASE Read \/ ReadLine
            BY <1>0, <3>2 DEF Read, ReadLine,
                       Thread, Goto, Closing, CTypes, CTypeOK, Threads, CommandAhead
        <3>3. CASE WriteCommand \/ CloseConnect \/ Write \/ Flush
            BY <3>3 DEF WriteCommand, CloseConnect, Write, Flush,
                       Binder, Goto, Closing, CTypes, CTypeOK, Threads, CommandAhead
        <3> QED
            BY <1>2, <3>1, <3>2, <3>3 DEF OtherCtlStep
    <2>3. EndAhead' => EndAhead
        <3>1. CASE CallConnect \/ ConnectThrows \/ ConnectTimesOut \/ Connected \/ MakeOut \/ MakeIn
            BY <1>0, <3>1 DEF CallConnect, Connected, ConnectThrows, ConnectTimesOut, MakeOut, MakeIn,
                       Thread, Goto, Closing, CTypes, CTypeOK, Threads, EndAhead, CloseLocs
        <3>2. CASE Read \/ ReadLine
            BY <1>0, <3>2 DEF Read, ReadLine,
                       Thread, Goto, Closing, CTypes, CTypeOK, Threads, EndAhead, CloseLocs
        <3>3. CASE WriteCommand \/ CloseConnect \/ Write \/ Flush
            BY <3>3 DEF WriteCommand, CloseConnect, Write, Flush,
                       Binder, Goto, Closing, CTypes, CTypeOK, Threads, EndAhead
        <3> QED
            BY <1>2, <3>1, <3>2, <3>3 DEF OtherCtlStep
    <2> QED
        BY <1>0, <2>1, <2>2, <2>3 DEF Ahead
<1>3. CASE CloseStep("thread")
    <2>1. /\ pc["thread"] \in CloseLocs
          /\ pc'["thread"] \in CloseLocs \cup {"dead", "end", "npe", "closed"}
          /\ phase'["thread"] = "stream" => phase["thread"] = "stream"
        BY <1>3, CloseLeads, CloseGoesOn DEF Threads
    <2>2. ~CommandAhead /\ ~CommandAhead'
        BY <2>1 DEF CommandAhead, CloseLocs
    <2>3. EndAhead' => EndAhead
        BY <2>1 DEF EndAhead, CloseLocs
    <2>4. CASE late' = late
        BY <1>0, <2>2, <2>3, <2>4 DEF Ahead
    <2>5. CASE phase["thread"] = "stream" /\ phase'["thread"] = "socket" /\ late' = late + 1
        <3>1. EndAhead /\ ~EndAhead'
            BY <2>1, <2>5 DEF EndAhead, CloseLocs
        <3> QED
            BY <1>0, <2>2, <2>5, <3>1 DEF Ahead
    <2> QED
        BY <1>3, <2>4, <2>5, CloseReports DEF Threads
<1>4. CASE CloseStep("binder")
    <2>1. late' = late
        BY <1>4, CloseReports DEF Threads
    <2>2. pc'["thread"] = pc["thread"] /\ phase'["thread"] = phase["thread"]
        BY <1>4, CloseLeads DEF Threads
    <2>3. (CommandAhead' <=> CommandAhead) /\ (EndAhead' <=> EndAhead)
        BY <2>2 DEF CommandAhead, EndAhead
    <2> QED
        BY <1>0, <2>1, <2>3 DEF Ahead
<1>5. CASE Send \/ HangUp \/ UNCHANGED cvars
    <2>1. UNCHANGED <<pc, phase, late>>
        BY <1>5 DEF Send, HangUp, cvars, report
    <2>2. (CommandAhead' <=> CommandAhead) /\ (EndAhead' <=> EndAhead)
        BY <2>1 DEF CommandAhead, EndAhead
    <2> QED
        BY <1>0, <2>1, <2>2 DEF Ahead
<1> QED
    BY <1>1, <1>2, <1>3, <1>4, <1>5 DEF CNext, ThreadStep, BinderStep, OtherCtlStep, Threads

\* Before closeConnect has returned nothing is late.
LEMMA NotYetLate ==
    ASSUME CTypes, CloseInv, ~Returned, [CNext]_cvars
    PROVE  late' = late
<1>1. CASE NewCommand
    BY <1>1 DEF NewCommand, Tell, Returned
<1>2. CASE OtherCtlStep /\ ~NewCommand
    BY <1>2 DEF OtherCtlStep, CallConnect, Connected, ConnectThrows, ConnectTimesOut,
                MakeOut, MakeIn, Read, ReadLine, WriteCommand, CloseConnect, Write, Flush, report
<1>3. ASSUME NEW t \in Threads, CloseStep(t) PROVE late' = late
    BY <1>3, CloseReports
<1>4. CASE Send \/ HangUp \/ UNCHANGED cvars
    BY <1>4 DEF Send, HangUp, cvars, report
<1> QED
    BY <1>1, <1>2, <1>3, <1>4 DEF CNext, ThreadStep, BinderStep, OtherCtlStep, Threads

\* What does not grow stays below two.
LEMMA AtMostTwo ==
    \A a, b, c, d \in Nat : a + b <= 2 /\ c + d <= a + b => c + d <= 2
OBVIOUS

\* Every step keeps the count of what was, and may be, reported late.
LEMMA LateInvStep ==
    ASSUME CTypes, CloseInv, LateInv, [CNext]_cvars
    PROVE  LateInv'
<1>1. late \in Nat /\ Ahead \in Nat /\ late' \in Nat /\ Ahead' \in Nat
    BY CtlTypes DEF CTypes, Ahead
<1>2. CASE Returned
    <2>1. late + Ahead <= 2
        BY <1>2 DEF LateInv
    <2>2. late' + Ahead' <= late + Ahead
        BY <1>2, CountDown
    <2>3. late' + Ahead' <= 2
        BY <1>1, <2>1, <2>2, AtMostTwo, Zenon
    <2>4. Returned'
        BY <1>2, StaysReturned
    <2> QED
        BY <2>3, <2>4 DEF LateInv
<1>3. CASE ~Returned
    <2>1. late' = 0
        BY <1>3, NotYetLate DEF LateInv
    <2>2. late' + Ahead' <= 2
        BY <2>1 DEF Ahead
    <2>3. CASE Returned'
        BY <2>2, <2>3 DEF LateInv
    <2>4. CASE ~Returned'
        BY <2>1, <2>4 DEF LateInv
    <2> QED
        BY <2>3, <2>4
<1> QED
    BY <1>2, <1>3

\* The invariant holds.
LEMMA CtlInvariant == CSpec => [](CTypes /\ CloseInv /\ LateInv)
<1>1. CInit => CTypes /\ CloseInv /\ LateInv
    BY CtlInit
<1>2. CTypes /\ CloseInv /\ LateInv /\ [CNext]_cvars => (CTypes /\ CloseInv /\ LateInv)'
    BY CtlTypes, CloseInvStep, LateInvStep
<1> QED
    BY <1>1, <1>2, PTL DEF CSpec

-----------------------------------------------------------------------------
(* Theorems.                                                               *)

\* Every variable of CtlSocket stays in its range.
THEOREM CtlTypeCorrect == CSpec => []CTypeOK
<1>1. CTypes => CTypeOK
    BY DEF CTypes
<1> QED
    BY <1>1, CtlInvariant, PTL

\* The connection is closed when the thread has ended and when closeConnect has
\* returned (ClosedWhenDone), in whatever order the two threads run.
THEOREM ClosedWithItsOwner == CSpec => []ClosedWhenDone
<1>1. CloseInv => ClosedWhenDone
    BY DEF CloseInv, ClosedWhenDone, Returned
<1> QED
    BY <1>1, CtlInvariant, PTL

\* After closeConnect has returned, the callback hears at most one more command of the
\* connection, and its end (LateBound).
THEOREM FewLateReports == CSpec => []LateBound
<1>1. CTypes /\ LateInv => LateBound
    BY DEF CTypes, LateInv, LateBound, Ahead
<1> QED
    BY <1>1, CtlInvariant, PTL
=============================================================================
