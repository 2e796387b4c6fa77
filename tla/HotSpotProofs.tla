---------------------------- MODULE HotSpotProofs ----------------------------
(* Proofs about the hot spot's screens: types, how often an attempt reports *)
(* its result, and that a failed attempt leaves the hot spot off.           *)
EXTENDS HotSpot, SequenceTheorems, TLAPS

\* A result of an attempt waits for the UI thread.
Posted(i, what) ==
    \E n \in 1 .. Len(posts) : posts[n].try = i /\ posts[n].what = what

(* Attempts start in order, each with its timer. *)
OrderInv ==
    \A i \in Tries :
        /\ act[i] = "none" <=> timer[i] = "none"
        /\ act[i] # "none" => \A j \in Tries : j < i => act[j] # "none"

(* The results of an attempt, by where its timer is: only the onDestroy of  *)
(* an open attempt adds to what the timer reports by itself.                *)
ResultInv ==
    \A i \in Tries :
        /\ timer[i] \in {"none", "armed", "check"} => results[i] = 0
        /\ timer[i] = "checkQuit" =>
              results[i] = 1 /\ act[i] = "destroyed" /\ kind[i] = "open"
        /\ act[i] # "destroyed" \/ kind[i] = "connect" => results[i] <= 1

(* What waits has been counted; a success that an activity will still see   *)
(* is not contradicted; an activity that goes without error has heard all.  *)
PostInv ==
    \A i \in Tries :
        /\ results[i] = 0 => \A what \in {"open", "error"} : ~Posted(i, what)
        /\ Posted(i, "open") /\ act[i] # "destroyed" =>
              timer[i] = "quit" /\ ~Posted(i, "error")
        /\ act[i] \in {"finishing", "destroyed"} /\ ~mError[i] =>
              timer[i] = "quit" /\ ~Posted(i, "error")

IInv == TypeOK /\ OrderInv /\ ResultInv /\ PostInv /\ ResultBound /\ FailedIsOff

-----------------------------------------------------------------------------

\* Posting adds one result to those that wait.
LEMMA PostAdds ==
    ASSUME TypeOK, NEW i \in Tries, NEW w \in {"open", "error"}, Post(i, w)
    PROVE  /\ posts' \in Seq([try : Tries, what : {"open", "error"}])
           /\ results' = [results EXCEPT ![i] = @ + 1]
           /\ \A j \in Tries, v \in {"open", "error"} :
                 Posted(j, v)' <=> Posted(j, v) \/ (j = i /\ v = w)
<1>1. DEFINE e == [try |-> i, what |-> w]
<1>2. e \in [try : Tries, what : {"open", "error"}]
  OBVIOUS
<1>3. /\ Len(posts') = Len(posts) + 1
      /\ posts'[Len(posts) + 1] = e
      /\ \A n \in 1 .. Len(posts) : posts'[n] = posts[n]
  BY <1>2 DEF Post, TypeOK
<1>4. ASSUME NEW j \in Tries, NEW v \in {"open", "error"}
      PROVE  Posted(j, v)' <=> Posted(j, v) \/ (j = i /\ v = w)
  <2>1. Len(posts) \in Nat
    BY DEF TypeOK
  <2>2. ASSUME Posted(j, v)' PROVE Posted(j, v) \/ (j = i /\ v = w)
    <3>1. PICK n \in 1 .. Len(posts') : posts'[n].try = j /\ posts'[n].what = v
      BY <2>2 DEF Posted
    <3>2. CASE n = Len(posts) + 1
      BY <3>1, <3>2, <1>3
    <3>3. CASE n \in 1 .. Len(posts)
      BY <3>1, <3>3, <1>3 DEF Posted
    <3> QED
      BY <3>2, <3>3, <2>1, <1>3
  <2>3. ASSUME Posted(j, v) PROVE Posted(j, v)'
    <3>1. PICK n \in 1 .. Len(posts) : posts[n].try = j /\ posts[n].what = v
      BY <2>3 DEF Posted
    <3> QED
      BY <3>1, <2>1, <1>3 DEF Posted
  <2>4. ASSUME j = i, v = w PROVE Posted(j, v)'
    BY <2>4, <2>1, <1>3 DEF Posted
  <2> QED
    BY <2>2, <2>3, <2>4
<1> QED
  BY <1>2, <1>4 DEF Post, TypeOK

\* Running a result takes it from those that wait.
LEMMA RunTakes ==
    ASSUME TypeOK, posts # <<>>, posts' = Tail(posts)
    PROVE  /\ Head(posts).try \in Tries /\ Head(posts).what \in {"open", "error"}
           /\ Posted(Head(posts).try, Head(posts).what)
           /\ posts' \in Seq([try : Tries, what : {"open", "error"}])
           /\ \A j \in Tries, v \in {"open", "error"} : Posted(j, v)' => Posted(j, v)
<1>1. /\ Len(posts) \in Nat \ {0} /\ Len(posts') = Len(posts) - 1
      /\ \A n \in 1 .. Len(posts') : posts'[n] = posts[n + 1]
      /\ Head(posts) = posts[1]
      /\ posts[1] \in [try : Tries, what : {"open", "error"}]
      /\ posts' \in Seq([try : Tries, what : {"open", "error"}])
  <2>1. posts \in Seq([try : Tries, what : {"open", "error"}])
    BY DEF TypeOK
  <2>2. Len(posts) \in Nat \ {0} /\ Head(posts) = posts[1]
    BY <2>1
  <2>3. /\ Tail(posts) \in Seq([try : Tries, what : {"open", "error"}])
        /\ Len(Tail(posts)) = Len(posts) - 1
        /\ \A n \in 1 .. Len(Tail(posts)) : Tail(posts)[n] = posts[n + 1]
    BY <2>1, HeadTailProperties, Zenon
  <2>4. posts[1] \in [try : Tries, what : {"open", "error"}]
    <3>1. 1 \in 1 .. Len(posts)
      BY <2>2
    <3> QED
      BY <2>1, <3>1, ElementOfSeq, Zenon
  <2> QED
    BY <2>2, <2>3, <2>4
<1>2. Posted(Head(posts).try, Head(posts).what)
  BY <1>1 DEF Posted
<1>3. ASSUME NEW j \in Tries, NEW v \in {"open", "error"}, Posted(j, v)'
      PROVE  Posted(j, v)
  <2>1. PICK n \in 1 .. Len(posts') : posts'[n].try = j /\ posts'[n].what = v
    BY <1>3 DEF Posted
  <2> QED
    BY <2>1, <1>1 DEF Posted
<1> QED
  BY <1>1, <1>2, <1>3

\* Where nothing is posted or run, the same results wait.
LEMMA SamePosts ==
    ASSUME posts' = posts
    PROVE  \A j, v : Posted(j, v)' <=> Posted(j, v)
BY DEF Posted

\* The inductive invariant holds at the start.
LEMMA InitInv == Init => IInv
<1> SUFFICES ASSUME Init PROVE IInv
  OBVIOUS
<1> USE DEF Init
<1>1. TypeOK
  <2>1. Times \in 0 .. Times
    BY BoundsAssumption
  <2>2. posts \in Seq([try : Tries, what : {"open", "error"}])
    OBVIOUS
  <2> QED
    BY <2>1, <2>2 DEF TypeOK, ActStates, TimerLocs
<1>2. OrderInv /\ ResultInv /\ ResultBound /\ FailedIsOff
  BY <1>1 DEF OrderInv, ResultInv, ResultBound, FailedIsOff, Kinds
<1>3. PostInv
  BY DEF PostInv, Posted
<1> QED
  BY <1>1, <1>2, <1>3 DEF IInv

-----------------------------------------------------------------------------
(* One lemma per action.                                                   *)

\* The polls, and the attempt the timer gives up.
LEMMA TickStep == ASSUME IInv, NEW i \in Tries, Tick(i) PROVE IInv'
<1> USE DEF IInv
<1>1. CASE mTiles[i] = 0
  <2>1. Post(i, "error") /\ timer[i] = "armed" /\ timer' = [timer EXCEPT ![i] = "quit"]
    BY <1>1, BoundsAssumption DEF Tick, TimerGoto, TypeOK
  <2>2. UNCHANGED <<mTiles, kind, act, mError, app, mOriginalOpen, wifiReq, apReq, wifi, ap, connected>>
    BY <1>1, BoundsAssumption DEF Tick, TypeOK, screens, requests, service
  <2>3. results' = [results EXCEPT ![i] = @ + 1] /\ results[i] = 0
    BY <2>1 DEF Post, ResultInv
  <2>8. /\ posts' \in Seq([try : Tries, what : {"open", "error"}])
        /\ \A j \in Tries, v \in {"open", "error"} :
              Posted(j, v)' <=> Posted(j, v) \/ (j = i /\ v = "error")
    BY <2>1, PostAdds
  <2>4. TypeOK'
    BY <2>1, <2>2, <2>3, <2>8 DEF TypeOK, TimerLocs
  <2>5. OrderInv' /\ FailedIsOff'
    BY <2>1, <2>2 DEF OrderInv, FailedIsOff, TypeOK
  <2>6. ResultInv' /\ ResultBound'
    BY <2>1, <2>2, <2>3 DEF ResultInv, ResultBound, TypeOK
  <2>7. PostInv'
    BY <2>1, <2>2, <2>3, <2>8 DEF PostInv, TypeOK
  <2> QED
    BY <2>4, <2>5, <2>6, <2>7
<1>2. CASE mTiles[i] > 0
  <2>1. /\ timer[i] = "armed" /\ timer' = [timer EXCEPT ![i] = "check"]
        /\ mTiles' = [mTiles EXCEPT ![i] = @ - 1]
        /\ UNCHANGED <<posts, results>>
    BY <1>2, BoundsAssumption DEF Tick, TimerGoto, TypeOK
  <2>2. UNCHANGED <<kind, act, mError, app, mOriginalOpen, wifiReq, apReq, wifi, ap, connected>>
    BY DEF Tick, screens, requests, service
  <2>3. TypeOK'
    BY <1>2, <2>1, <2>2, BoundsAssumption DEF TypeOK, TimerLocs
  <2>4. OrderInv' /\ FailedIsOff' /\ ResultInv' /\ ResultBound'
    BY <2>1, <2>2 DEF OrderInv, FailedIsOff, ResultInv, ResultBound, TypeOK
  <2>5. PostInv'
    BY <2>1, <2>2, SamePosts DEF PostInv, TypeOK
  <2> QED
    BY <2>3, <2>4, <2>5
<1> QED
  BY <1>1, <1>2, BoundsAssumption DEF TypeOK, Tick

\* The poll.
LEMMA CheckStep == ASSUME IInv, NEW i \in Tries, Check(i) PROVE IInv'
<1> USE DEF IInv
<1>1. UNCHANGED <<mTiles, kind, act, mError, app, mOriginalOpen, wifiReq, apReq, wifi, ap, connected>>
  BY DEF Check, screens, requests, service
<1>2. timer[i] \in {"check", "checkQuit"}
  BY DEF Check, TimerGoto
<1>3. CASE Reached(i)
  <2>1. Post(i, "open") /\ timer' = [timer EXCEPT ![i] = "quit"]
    BY <1>3 DEF Check, TimerGoto
  <2>2. results' = [results EXCEPT ![i] = @ + 1]
    BY <2>1 DEF Post
  <2>7. /\ posts' \in Seq([try : Tries, what : {"open", "error"}])
        /\ \A j \in Tries, v \in {"open", "error"} :
              Posted(j, v)' <=> Posted(j, v) \/ (j = i /\ v = "open")
    BY <2>1, PostAdds
  <2>3. TypeOK'
    BY <2>1, <1>1, <2>2, <2>7 DEF TypeOK, TimerLocs
  <2>4. OrderInv' /\ FailedIsOff'
    BY <2>1, <1>1, <1>2 DEF OrderInv, FailedIsOff, TypeOK
  <2>5. ResultInv' /\ ResultBound'
    BY <2>1, <1>1, <1>2, <2>2 DEF ResultInv, ResultBound, TypeOK
  <2>6. PostInv'
    BY <2>1, <1>1, <1>2, <2>2, <2>7 DEF PostInv, ResultInv, TypeOK
  <2> QED
    BY <2>3, <2>4, <2>5, <2>6
<1>4. CASE ~Reached(i)
  <2>1. /\ UNCHANGED <<posts, results>>
        /\ \/ timer[i] = "check" /\ timer' = [timer EXCEPT ![i] = "armed"]
           \/ timer[i] = "checkQuit" /\ timer' = [timer EXCEPT ![i] = "quit"]
    BY <1>4 DEF Check, TimerGoto
  <2>2. TypeOK'
    BY <2>1, <1>1 DEF TypeOK, TimerLocs
  <2>3. OrderInv' /\ FailedIsOff' /\ ResultInv' /\ ResultBound'
    BY <2>1, <1>1 DEF OrderInv, FailedIsOff, ResultInv, ResultBound, TypeOK
  <2>4. PostInv'
    BY <2>1, <1>1, SamePosts DEF PostInv, TypeOK
  <2> QED
    BY <2>2, <2>3, <2>4
<1> QED
  BY <1>3, <1>4

\* A new attempt.
LEMMA OnCreateStep == ASSUME IInv, NEW i \in Tries, OnCreate(i) PROVE IInv'
<1> USE DEF IInv
<1>1. /\ act[i] = "none" /\ \A j \in Tries : j < i => act[j] \in {"finishing", "destroyed"}
      /\ act' = [act EXCEPT ![i] = "shown"]
      /\ timer' = [timer EXCEPT ![i] = "armed"]
      /\ UNCHANGED <<kind, mError, app, mTiles, posts, wifi, ap, connected, results>>
  BY DEF OnCreate, Starts, service
<1>2. TypeOK'
  <2>1. /\ mOriginalOpen' \in [Kinds -> BOOLEAN]
        /\ wifiReq' \in {"on", "off"} /\ apReq' \in {"on", "off"}
    BY DEF OnCreate, StartWifiAp, ConnectWifi, TypeOK, Kinds
  <2> QED
    BY <1>1, <2>1 DEF TypeOK, ActStates, TimerLocs
<1>3. OrderInv' /\ ResultInv' /\ ResultBound'
  BY <1>1 DEF OrderInv, ResultInv, ResultBound, TypeOK, Kinds
<1>4. PostInv'
  BY <1>1, SamePosts DEF PostInv, OrderInv, ResultInv, TypeOK
<1>5. FailedIsOff'
  <2> SUFFICES ASSUME NEW k \in Tries,
                      kind[k] = "open", act'[k] = "destroyed", mError[k],
                      \A j \in Tries : j > k /\ kind[j] = "open" => act'[j] = "none"
               PROVE  apReq' = "off"
    BY <1>1 DEF FailedIsOff
  <2>1. k # i /\ act[k] = "destroyed" /\ act'[i] = "shown"
    BY <1>1 DEF TypeOK
  <2>2. k < i
    BY <1>1, <2>1, BoundsAssumption DEF OrderInv, Tries
  <2>3. kind[i] = "connect"
    BY <2>1, <2>2, BoundsAssumption DEF TypeOK, Kinds, Tries
  <2>4. apReq' = apReq
    BY <2>3 DEF OnCreate, ConnectWifi
  <2> QED
    BY <1>1, <2>1, <2>3, <2>4 DEF FailedIsOff, TypeOK
<1> QED
  BY <1>2, <1>3, <1>4, <1>5

\* The process ends with an attempt.
LEMMA ListMissingStep == ASSUME IInv, NEW i \in Tries, ListMissing(i) PROVE IInv'
<1> USE DEF IInv
<1>1. /\ app' = "crashed" /\ apReq' = apReq
      /\ UNCHANGED <<kind, act, mError, timer, mTiles, posts, wifi, ap, connected, results>>
  BY DEF ListMissing, ConnectWifi, timers, service
<1>2. TypeOK'
  <2>1. mOriginalOpen' \in [Kinds -> BOOLEAN] /\ wifiReq' \in {"on", "off"}
    BY DEF ListMissing, ConnectWifi, TypeOK, Kinds
  <2> QED
    BY <1>1, <2>1 DEF TypeOK
<1>3. OrderInv' /\ FailedIsOff' /\ ResultInv' /\ ResultBound'
  BY <1>1 DEF OrderInv, FailedIsOff, ResultInv, ResultBound
<1>4. PostInv'
  BY <1>1, SamePosts DEF PostInv
<1> QED
  BY <1>2, <1>3, <1>4

\* The user gives up.
LEMMA CancelStep == ASSUME IInv, NEW i \in Tries, Cancel(i) PROVE IInv'
<1> USE DEF IInv
<1>1. /\ act[i] = "shown" /\ act' = [act EXCEPT ![i] = "finishing"]
      /\ mError' = [mError EXCEPT ![i] = TRUE]
      /\ UNCHANGED <<kind, app, timer, mTiles, posts, mOriginalOpen, wifiReq, apReq, wifi, ap,
                     connected, results>>
  BY DEF Cancel, Finished, timers, requests, service, TypeOK
<1>2. TypeOK'
  BY <1>1 DEF TypeOK, ActStates
<1>3. OrderInv' /\ FailedIsOff' /\ ResultInv' /\ ResultBound'
  BY <1>1 DEF OrderInv, FailedIsOff, ResultInv, ResultBound, TypeOK
<1>4. PostInv'
  BY <1>1, SamePosts DEF PostInv, TypeOK
<1> QED
  BY <1>2, <1>3, <1>4

\* A result reaches its activity.
LEMMA RunPostStep == ASSUME IInv, RunPost PROVE IInv'
<1> USE DEF IInv
<1> DEFINE i == Head(posts).try
           w == Head(posts).what
<1>1. /\ act' = [act EXCEPT ![i] = IF @ = "shown" THEN "finishing" ELSE @]
      /\ mError' = [mError EXCEPT ![i] = @ \/ w = "error"]
      /\ UNCHANGED <<kind, app, timer, mTiles, mOriginalOpen, wifiReq, apReq, wifi, ap,
                     connected, results>>
  BY DEF RunPost, Finished, timers, requests, service
<1>2. /\ i \in Tries /\ w \in {"open", "error"}
      /\ Posted(i, w)
      /\ posts' \in Seq([try : Tries, what : {"open", "error"}])
      /\ \A j \in Tries, v \in {"open", "error"} : Posted(j, v)' => Posted(j, v)
  BY RunTakes DEF RunPost
<1> HIDE DEF i, w
<1>3. act[i] # "none"
  BY <1>2 DEF PostInv, OrderInv, ResultInv
<1>4. /\ act' \in [Tries -> ActStates] /\ mError' \in [Tries -> BOOLEAN]
      /\ \A j \in Tries : /\ j # i => act'[j] = act[j] /\ mError'[j] = mError[j]
                          /\ act'[j] = "none" <=> act[j] = "none"
                          /\ act'[j] = "destroyed" <=> act[j] = "destroyed"
                          /\ mError[j] => mError'[j]
  BY <1>1, <1>2 DEF TypeOK, ActStates
<1>5. TypeOK'
  BY <1>1, <1>2, <1>4 DEF TypeOK
<1>6. OrderInv' /\ ResultInv' /\ ResultBound'
  BY <1>1, <1>2, <1>4 DEF OrderInv, ResultInv, ResultBound, TypeOK
<1>7. PostInv'
  <2>1. w = "error" => mError'[i]
    BY <1>1, <1>2 DEF TypeOK
  <2>2. w = "open" /\ act[i] # "destroyed" => timer[i] = "quit" /\ ~Posted(i, "error")
    BY <1>2 DEF PostInv
  <2>3. ASSUME NEW j \in Tries, act'[j] \in {"finishing", "destroyed"}, ~mError'[j]
        PROVE  timer'[j] = "quit" /\ ~Posted(j, "error")'
    <3>1. ~mError[j]
      BY <2>3, <1>4
    <3>2. CASE j # i
      BY <2>3, <3>1, <3>2, <1>1, <1>2, <1>4 DEF PostInv
    <3>3. CASE j = i
      <4>1. w = "open"
        BY <2>3, <3>3, <2>1, <1>2
      <4>2. CASE act[i] = "destroyed"
        BY <4>2, <3>1, <3>3, <1>1, <1>2 DEF PostInv
      <4>3. CASE act[i] # "destroyed"
        BY <4>1, <4>3, <2>2, <3>3, <1>1, <1>2
      <4> QED
        BY <4>2, <4>3
    <3> QED
      BY <3>2, <3>3
  <2>4. ASSUME NEW j \in Tries, Posted(j, "open")', act'[j] # "destroyed"
        PROVE  timer'[j] = "quit" /\ ~Posted(j, "error")'
    BY <2>4, <1>1, <1>2, <1>4 DEF PostInv
  <2>5. ASSUME NEW j \in Tries, results'[j] = 0, NEW v \in {"open", "error"}
        PROVE  ~Posted(j, v)'
    BY <2>5, <1>1, <1>2 DEF PostInv
  <2> QED
    BY <2>3, <2>4, <2>5 DEF PostInv
<1>8. FailedIsOff'
  <2> SUFFICES ASSUME NEW k \in Tries,
                      kind[k] = "open", act'[k] = "destroyed", mError'[k],
                      \A j \in Tries : j > k /\ kind[j] = "open" => act'[j] = "none"
               PROVE  apReq = "off"
    BY <1>1 DEF FailedIsOff
  <2>1. act[k] = "destroyed" /\ \A j \in Tries : j > k /\ kind[j] = "open" => act[j] = "none"
    BY <1>4
  <2>2. mError[k]
    <3>1. CASE k # i
      BY <3>1, <1>4
    <3>2. CASE k = i /\ w = "error"
      BY <3>2, <2>1, <1>2 DEF PostInv
    <3>3. CASE k = i /\ w = "open"
      BY <3>3, <1>1 DEF TypeOK
    <3> QED
      BY <3>1, <3>2, <3>3, <1>2
  <2> QED
    BY <2>1, <2>2 DEF FailedIsOff
<1> QED
  BY <1>5, <1>6, <1>7, <1>8

\* The activity is gone, and cleans up if it failed.
LEMMA OnDestroyStep == ASSUME IInv, NEW i \in Tries, OnDestroy(i) PROVE IInv'
<1> USE DEF IInv
<1>1. /\ act[i] = "finishing" /\ act' = [act EXCEPT ![i] = "destroyed"]
      /\ UNCHANGED <<kind, mError, app, mTiles, mOriginalOpen, wifi, ap, connected>>
  BY DEF OnDestroy, service
<1>2. wifiReq' \in {"on", "off"} /\ apReq' \in {"on", "off"}
  BY DEF OnDestroy, StopWifiAp, DisconnectWifi, RestoreWifi, TypeOK
<1>3. CASE mError[i] /\ kind[i] = "open"
  <2>1. /\ Post(i, "error") /\ apReq' = "off"
        /\ timer' = [timer EXCEPT ![i] = CASE @ = "armed" -> "quit"
                                           [] @ = "check" -> "checkQuit"
                                           [] OTHER -> @]
    BY <1>3 DEF OnDestroy, StopWifiAp, StopTimer
  <2>2. results' = [results EXCEPT ![i] = @ + 1]
    BY <2>1 DEF Post
  <2>3. /\ posts' \in Seq([try : Tries, what : {"open", "error"}])
        /\ \A j \in Tries, v \in {"open", "error"} :
              Posted(j, v)' <=> Posted(j, v) \/ (j = i /\ v = "error")
    BY <2>1, PostAdds
  <2>4. /\ timer[i] \in {"armed", "check", "quit"}
        /\ timer[i] = "armed" => timer'[i] = "quit"
        /\ timer[i] = "check" => timer'[i] = "checkQuit"
        /\ timer[i] = "quit" => timer'[i] = "quit"
        /\ timer' \in [Tries -> TimerLocs]
        /\ \A j \in Tries : j # i => timer'[j] = timer[j]
    <3>1. timer[i] \in {"armed", "check", "quit"}
      BY <1>1 DEF OrderInv, ResultInv, TypeOK, TimerLocs
    <3> QED
      BY <3>1, <2>1 DEF TypeOK, TimerLocs
  <2>9. /\ results' \in [Tries -> Nat] /\ results'[i] = results[i] + 1
        /\ act' \in [Tries -> ActStates] /\ act'[i] = "destroyed"
        /\ \A j \in Tries : j # i => results'[j] = results[j] /\ act'[j] = act[j]
    BY <1>1, <2>2 DEF TypeOK, ActStates
  <2>5. TypeOK'
    BY <1>1, <1>2, <2>3, <2>4, <2>9 DEF TypeOK
  <2>6. OrderInv' /\ FailedIsOff'
    BY <1>1, <2>1, <2>4 DEF OrderInv, FailedIsOff, TypeOK
  <2>7. ResultInv' /\ ResultBound'
    <3>1. /\ results[i] \in Nat /\ results[i] <= 1
          /\ timer[i] \in {"armed", "check"} => results[i] = 0
      BY <1>1, <2>4 DEF ResultInv, TypeOK
    <3>2. ASSUME NEW j \in Tries, j # i
          PROVE  /\ timer'[j] \in {"none", "armed", "check"} => results'[j] = 0
                 /\ timer'[j] = "checkQuit" =>
                      results'[j] = 1 /\ act'[j] = "destroyed" /\ kind'[j] = "open"
                 /\ act'[j] # "destroyed" \/ kind'[j] = "connect" => results'[j] <= 1
                 /\ results'[j] <= IF kind'[j] = "open" THEN 2 ELSE 1
      BY <3>2, <1>1, <2>4, <2>9 DEF ResultInv, ResultBound
    <3>3. /\ timer'[i] \notin {"none", "armed", "check"}
          /\ timer'[i] = "checkQuit" => results'[i] = 1
          /\ act'[i] = "destroyed" /\ kind'[i] = "open" /\ results'[i] <= 2
      BY <3>1, <1>1, <1>3, <2>4, <2>9
    <3> QED
      BY <3>2, <3>3 DEF ResultInv, ResultBound
  <2>8. PostInv'
    BY <1>1, <1>3, <2>2, <2>3, <2>4 DEF PostInv, TypeOK
  <2> QED
    BY <2>5, <2>6, <2>7, <2>8
<1>4. CASE ~(mError[i] /\ kind[i] = "open")
  <2>1. UNCHANGED <<posts, results, timer, apReq>>
    BY <1>4 DEF OnDestroy, DisconnectWifi
  <2>2. TypeOK'
    BY <1>1, <1>2, <2>1 DEF TypeOK, ActStates
  <2>3. OrderInv' /\ FailedIsOff'
    BY <1>1, <1>4, <2>1 DEF OrderInv, FailedIsOff, TypeOK
  <2>4. ResultInv' /\ ResultBound'
    BY <1>1, <2>1 DEF ResultInv, ResultBound, TypeOK
  <2>5. PostInv'
    BY <1>1, <2>1, SamePosts DEF PostInv, TypeOK
  <2> QED
    BY <2>2, <2>3, <2>4, <2>5
<1> QED
  BY <1>3, <1>4

\* The application goes.
LEMMA MainDestroyStep == ASSUME IInv, MainDestroy PROVE IInv'
<1> USE DEF IInv
<1>1. /\ app' = "destroyed" /\ apReq' = "off" /\ wifiReq' \in {"on", "off"}
      /\ UNCHANGED <<kind, act, mError, timer, mTiles, posts, mOriginalOpen, wifi, ap,
                     connected, results>>
  BY DEF MainDestroy, RestoreWifi, timers, service, TypeOK
<1>2. TypeOK'
  BY <1>1 DEF TypeOK
<1>3. OrderInv' /\ FailedIsOff' /\ ResultInv' /\ ResultBound'
  BY <1>1 DEF OrderInv, FailedIsOff, ResultInv, ResultBound
<1>4. PostInv'
  BY <1>1, SamePosts DEF PostInv
<1> QED
  BY <1>2, <1>3, <1>4

\* The Wi-Fi service does something, or nothing happens.
LEMMA ServiceStep ==
    ASSUME IInv, WifiSettles \/ ApSettles \/ ConnectionChanges \/ UNCHANGED vars
    PROVE  IInv'
<1> USE DEF IInv
<1>1. UNCHANGED <<kind, act, mError, app, timer, mTiles, posts, mOriginalOpen, wifiReq, apReq,
                 results>>
  BY DEF WifiSettles, ApSettles, ConnectionChanges, vars, screens, timers, requests
<1>2. wifi' \in {"on", "off"} /\ ap' \in {"on", "off"} /\ connected' \in BOOLEAN
  BY DEF WifiSettles, ApSettles, ConnectionChanges, vars, service, TypeOK
<1>3. TypeOK'
  BY <1>1, <1>2 DEF TypeOK
<1>4. OrderInv' /\ FailedIsOff' /\ ResultInv' /\ ResultBound'
  BY <1>1 DEF OrderInv, FailedIsOff, ResultInv, ResultBound
<1>5. PostInv'
  BY <1>1, SamePosts DEF PostInv
<1> QED
  BY <1>3, <1>4, <1>5

\* Every step keeps the inductive invariant.
LEMMA StepInv == IInv /\ [Next]_vars => IInv'
<1> SUFFICES ASSUME IInv, [Next]_vars PROVE IInv'
  OBVIOUS
<1>1. ASSUME NEW i \in Tries, TimerStep(i) PROVE IInv'
  BY <1>1, TickStep, CheckStep DEF TimerStep
<1>2. ASSUME NEW i \in Tries, OnCreate(i) \/ ListMissing(i) \/ Cancel(i) \/ OnDestroy(i)
      PROVE  IInv'
  BY <1>2, OnCreateStep, ListMissingStep, CancelStep, OnDestroyStep
<1>3. CASE RunPost \/ MainDestroy
  BY <1>3, RunPostStep, MainDestroyStep
<1>4. CASE WifiSettles \/ ApSettles \/ ConnectionChanges \/ UNCHANGED vars
  BY <1>4, ServiceStep
<1> QED
  BY <1>1, <1>2, <1>3, <1>4 DEF Next

\* The inductive invariant holds in every behaviour.
LEMMA Invariance == Spec => []IInv
<1> QED
  BY InitInv, StepInv, PTL DEF Spec

-----------------------------------------------------------------------------

\* The variables keep their types, for any number of attempts and polls.
THEOREM TypeCorrect == Spec => []TypeOK
<1>1. IInv => TypeOK
  BY DEF IInv
<1> QED
  BY <1>1, Invariance, PTL

\* A connection's result is told once and a hot spot's twice at most, however
\* the timer, the user and onDestroy interleave, for any number of attempts.
THEOREM ResultsBounded == Spec => []ResultBound
<1>1. IInv => ResultBound
  BY DEF IInv
<1> QED
  BY <1>1, Invariance, PTL

\* After a last attempt that failed or was cancelled the hot spot is off.
THEOREM FailedOff == Spec => []FailedIsOff
<1>1. IInv => FailedIsOff
  BY DEF IInv
<1> QED
  BY <1>1, Invariance, PTL
=============================================================================
