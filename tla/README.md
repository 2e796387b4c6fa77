# LocalCall in TLA+

LocalCall is an Android intercom for phones on one Wi-Fi network. Phones announce
themselves by multicast, one phone opens a control connection to another, and
while a user holds the talk button recorded frames travel over RTP. The Java code is
in `src/src/com/android/localcall` (paths below are relative to it), the native RTP
glue in `src/jni`. There are no tests and no prose documentation; the modules are
translated from the code, and what is held against it are its own comments and the
messages it shows.

## 1. The system

### Components

| Component | State | Operations | Talks to |
|---|---|---|---|
| `service/LocalCallService` | the current server, client, RTP session, sender, receiver; `stopRecorder`, `mCtlPort` | the stub's calls (recorder, player, connect, disconnect, commands), onCreate, onDestroy | everything below, by calls; the activities, by callback |
| `service/LocalCallServiceMgr` | the registered callback | register, hand a report to the UI thread | activities |
| `socket/CtlServerSocket` | stop flag, socket, two streams | open, close, writeCommand; thread: accept, read | service (callback), peers (TCP) |
| `socket/CtlSocket` | socket, two streams | connectServer, closeConnect, writeCommand; thread: connect, read | service (callback), peers |
| `utils/MultiCastSender` | stop and wait flags, the address announced | startSend, stopSend, waitSend; thread: send, sleep, wait | network |
| `utils/MultiCastReceiver` | stop flag, socket | startReceive, stopReceive; thread: receive | MainActivity's list |
| `utils/AudioSync` | command queue, player, recorder, two frame queues | offer commands, read recorded, write played frames; thread: command, play, record | service, devices |
| `data/FrameBufferQueueNew` | a concurrent queue and a counter | offerCustom, pollCustom, reset | AudioSync, RTP's thread, the recording loops |
| `jni/Rtp` and its C++ glue | native session, destinations | open, close, write, addRtpDestinationIp | jrtplib |
| jrtplib's session (`RTPSession`, `RTPPollThread`) | `created`, `sentpackets`, queued BYEs, seven mutexes | Create, SendPacket, BYEDestroy; thread: wait, receive, process, send RTCP | UDP, the glue's OnPollThreadStep |
| jrtplib's source table (`RTPSources`, `RTPInternalSourceData`, `RTPCollisionList`) | who speaks under which SSRC, counters, packets not played yet | process a packet, time out, deliver | the session |
| jrtplib's transmitter and `jthread` | the socket, the pipe that ends a wait | WaitForIncomingData, AbortWait, Kill | the poll thread |
| `MainActivity`, `CallActivity`, `DialActivity` | what is on the screen; `mCanTalk` | life cycle, touches, callback | LocalCallServiceMgr |
| `OpenHotActivity`, `ConnectHotActivity`, `CustomTimer`, `WifiAdmin`, `WifiApAdmin` | timer, Wi-Fi state | poll until connected | Wi-Fi service |
| `data/FrameBufferQueue`, `socket/SocketExt` | a pool of buffers with states | not started by the application | - |

### How a call goes

MainActivity of A starts CallActivity, whose onResume registers its callback and calls
`connectServer`. The service closes A's own control server and starts a CtlSocket to the
port B announced. B's server thread reports "server socket connected"; A's thread
reports "socket connected", A answers with the greeting "socket connected:ip:port", and
at the greeting B's MainActivity starts CallActivity as the callee. Holding the button
sends "down", letting go "up"; `mCanTalk` of the other side follows. The caller's onPause
calls `disconnectServer`, which opens a new server and closes the connection; the
callee's onPause sends "socket disconnected". Every report crosses a callback that may
be unset, and the UI thread's queue.

### Where it is hard

* Fields shared by threads without a lock, tested and then read again
  (CtlServerSocket, CtlSocket, `mRtp`, `mCount`).
* A monitor whose condition is tested outside it (MultiCastSender).
* Flags that a start clears while the loop they stop still runs (`stopRecorder`,
  `mStop`).
* Reports that carry no identity and reach whoever is registered when they run.
* Two activities, two services and two sockets per call that each go away on their own.
* Values read once and kept: the announced address and port.
* A native object that outlives neither its writers nor its poll thread by itself.
* A timer's thread that races the user and a late onDestroy, over a Wi-Fi service that
  answers when it likes.
* Two threads that close the same socket and clear the same field (MultiCastReceiver).
* A session whose own SSRC changes under its senders, and whose poll thread is told to
  stop while it is on its way to its wait.
* A table of peers who move, restart, collide and fall silent, fed by a network that
  loses, doubles and delays, with sequence numbers that wrap.

### What makes each part correct

* Sender: bounded traffic after suspend and stop; resume resumes, stop ends.
* Receiver: its socket is closed and its thread ends; a phone does not list itself.
* Control client: its connection is closed and its end is reported, whenever
  closeConnect comes.
* Control server: it serves until closed, whatever a concurrent close or write does to
  its fields; no accepted connection is left open; close returns.
* Frame queue: each frame at most once, in order; the counter does not hide frames.
* Audio: the devices do what the last gesture asked for, and are given back.
* Call: at most one live connection, owned by the activity on the screen; a phone that
  is not calling can be called; the floor follows the buttons; hanging up reaches the
  other side.
* RTP: the poll thread never outlives its native object, frames are heard by the service
  they came to and speech reaches the peer the button was pressed for.
* Session: no SSRC that peers know is dropped without a BYE, the own entry is current,
  calls return.
* Source table: counters agree with entries, a source's packets come from one host, a peer
  that goes on is heard again; a round of packets is played once and in order.
* Hot spot: the user hears a bounded number of results, the screen goes away, and what
  failed is turned off.

The hazards are listed line by line in `PROJECT.json`; those that happen, and that no
property calls wrong, are listed with a note that says so.

## 2. Modules

| Module | Models | Grain |
|---|---|---|
| `MultiCastSender` | the sender's thread, the service's main thread, a binder thread | each access to a flag, each monitor operation |
| `Discovery` | the sender with the receiver's thread, the service's starts and stops, the list of contacts | each access to the receiver's fields |
| `FrameFifo` | what a frame queue promises | one operation |
| `FrameBufferQueueNew` | the queue and its counter | each read and write of `mCount` |
| `AudioSync` | gestures, stub calls, audio thread, recording loops | each test of a shared field, each command |
| `CtlServerSocket` | server thread, a caller of close and writeCommand, clients | each read and write of a field |
| `CtlSocket` | connecting thread, a caller of closeConnect and writeCommand, the peer | each read and write of a field |
| `Call` | two phones: activities, callbacks, services, connections | a handler of the UI thread, a read or event of a socket thread |
| `HotSpot` | the two Wi-Fi screens, their timers, MainActivity's onDestroy; the Wi-Fi service | a handler of the UI thread, a poll before and after |
| `Rtp` | services one after the other, their native sessions, poll threads and writers | each test of a field, each step of onCreate and onDestroy |
| `RTPSession` | one jrtplib session: creator and destroyer, senders, poll thread | the stretches between lock operations |
| `RTPSources` | the source table, the own SSRC, peers that move and restart | a packet, a round of time-outs, a delivery |
| `RTPSequence` | one source's packets from the wire to the round that is played | a datagram |

`MC*` modules give TLC its instances; `*Proofs` modules hold the theorems.
`Call` takes the server's close as one step, because what interleaves within it is
`CtlServerSocket`'s subject; `AudioSync` takes a frame queue as a counter, because its
inside is `FrameBufferQueueNew`'s. `Discovery` extends `MultiCastSender` and runs its steps
beside the receiver's. The three jrtplib modules split one object by its locks: what
happens with the source table locked is a step of `RTPSources`, what locks and unlocks it
is `RTPSession`; numbering, which touches one entry only, is `RTPSequence`; `Rtp` sees the
session from outside, as a thread that must be gone before its object.

### State and actions against the code

* **MultiCastSender.** `mStop`, `mWait`, `mSelfIp` are the fields; `sender`, `main` and
  `binder` say where the sending thread, onCreate/onDestroy and a stub call are. Actions
  from `Begin` to `Finally` are the lines of `run`; `StopSend`/`StopNotify` and
  `WaitSend`/`WaitNotify` the two halves of the calls. `IpChanges` is the network.
  wait() may wake by itself, and a send or a sleep may fail.
* **FrameBufferQueueNew.** `mCount++` is `IncRead`, `IncWrite`; `mCount--` is `DecRead`,
  `DecWrite`. The base class, `ConcurrentLinkedQueue`, is atomic. `resetBy`, chosen at
  the start, says which thread resets: AudioSync's thread consumes the playing queue and
  produces into the recording queue, and resets both when it ends.
* **AudioSync.** A gesture starts a stub call as a sequence of steps (`call`); the
  command queue is `cmds`; each press that is accepted spawns a recording loop of its
  own (`loop`). `stopRecorder` is the one flag they share. A device is null, ready, or
  uninitialized when its start threw.
* **Discovery.** `recvStop`, `field`, `socket` are the receiver's mStop, its socket field
  and the socket; `pc` says where its thread and stopReceive are, which close and clear
  with the same code. Binding, naming the group and joining it may each fail (`Bind`,
  `NameGroup`, `JoinGroup`). A null socket in the loop is caught; in the closing code it
  ends the process, and so does a group that `run` has not named yet (`group`). `listed`
  is MainActivity's list by address. `Contains` is the text test with which MainActivity
  leaves itself out; of it only that a text contains itself is assumed.
* **CtlServerSocket.** `mSocket`, `mOut` and `mIn` hold the connection the field refers
  to. Both threads go through the nine locations of closeSocket. An exception inside the
  loop is caught, one in its `finally` ends the process, one of the caller goes back to
  it.
* **CtlSocket.** `pc` and `phase` say where each thread is in closeStream and closeSocket,
  which the two `finally` blocks and closeConnect share. process() calls itself when
  connect() times out (`tries`), and then closes once per call. The service keeps the
  object, so closeConnect may come again.
* **Call.** `ui` is the life cycle: *main* and *call* are on the screen, *starting* and
  *pausing* are about to leave it with their callback still registered, *toCall*, *home*
  and *toMain* are between two activities with none. `posts` is the UI thread's queue.
  `link` is a CtlSocket's thread, `side` the other end as the callee's server sees it,
  `toServer` and `toClient` the lines under way. `listen` is a server: its thread may
  still wait in accept() after close (*closing*), and its port stays bound after the
  thread ended, until the object is collected.
* **HotSpot.** An attempt is one of the two activities with its timer; attempts overlap,
  since onDestroy comes some time after finish(). `timer` says whether the timer's
  message is due (*armed*), its handler is polling (*check*), or polling after its looper
  was told to quit (*checkQuit*). `posts` is the UI thread's queue of results.
  `mOriginalOpen` is static in both Wi-Fi classes. What the code asks of the Wi-Fi
  service is `wifiReq` and `apReq`; the service (external) does it when it likes, or
  never, and connects and disconnects by itself. If it gives no list of networks the start
  of a connection ends the process (`ListMissing`).
* **Rtp.** `mRtp` is the service's field, `mJavaRtp` the Rtp's, `object` what it points
  to. `mIDataCallback` is static and outlives its service. A service is *opened* between
  openRtp and setCallback and *closing* while BYEDestroy waits for the poll thread, whose
  loop is `rtppollthread.cpp`'s. An exception nobody catches, in a writer or in onDestroy,
  ends the process (`alive`), and so may a write into a deleted object.
* **RTPSession.** `main`, `poll` and `writer` are the places of InternalCreate and
  BYEDestroy, of `RTPPollThread::Thread` with what it calls, and of SendPacket. `sources`
  and `builder` hold the two mutexes that are kept over several steps; the others enclose
  single steps. `Created` is a place of `main`, since the code's flag is set and cleared
  there. `used` is what peers still need a BYE of; `bare` and `lost` record that the poll
  thread found `created` false and that AbortWait found nobody waiting. select() ends by
  data, by time or by the pipe; building, sending and processing may fail, and so may
  making the own entry anew, which leaves the table without one and ends the thread
  (`CreateOwnFails`).
* **RTPSources.** An entry has its two addresses, flags, ages and packets. A packet is
  accepted or dropped by CheckCollision; a drop of one's own SSRC changes it or, from a
  listed address, is taken for a loop. A BYE comes
  with the name that validates its source. Ages are cut off at the limits they are compared
  with.
* **RTPSequence.** The peer's packets are numbered without end; `Header` is what the wire
  carries. `Extend` is RTPSourceStats, `Insert` the sorted list of a round. Any number of
  packets may be overtaken across a wrap; `overtaken` says whether one ever was, and whether
  one is in the round at hand.

### Plain fields

The Java fields are neither volatile nor locked. The models take them as sequentially
consistent: a read sees the last write. The memory model allows more (a loop need not
ever see a flag), so a property that fails here fails in the code, and one that holds is
held for a build that does not reorder or cache these accesses.

## 3. Runs

| Run | Module | Bound | Shows |
|---|---|---|---|
| `sender` | `Discovery` | one own address that comes and goes, one other | `SendsBound`: one announcement at most after a suspend or stop that stays; `SignalsArrive`: stop and resume work in the states where they can; `SelfNotListed`, `ReceiverCloses`, `StopEndsReceiver` |
| `queue` | `FrameBufferQueueNew` | 3 frames, 2 consumers | `ImplementsFifo`: the queue implements `FrameFifo`; `NonNegative`; `CountDrains`: a queue that is left alone is emptied of what its counter shows |
| `audio` | `AudioSync` | 2 visits, 2 presses, 1 queued frame | `SettledDevices`, `ReleasedWhenDone`, `SendBound`; `ThreadsEnd` |
| `server` | `CtlServerSocket` | 2 connections | `ServesUntilClosed`, `NoOrphan`; `CloseWorks`: close() returns and ends the thread, for clients that hang up |
| `client` | `CtlSocket` | 1 time-out of connect() | `ClosedWhenDone`, `LateBound`; `EndReported`, `CloseEndsThread` |
| `hotspot` | `HotSpot` | 2 attempts, 2 polls | `ResultBound`, `FailedIsOff`; `AttemptEnds` |
| `rtp` | `Rtp` | 2 services, 2 loops, 2 peers | `PollThreadSafe`, `PlaysOwnFrames`, `SpeechReachesPeer` |
| `session` | `RTPSession` | 2 loops, 2 SSRCs | `OwnIsCurrent`, `NoSsrcLeftSilently`, `KillMeansLostAbort`; `CallsReturn` |
| `sources` | `RTPSources` | 1 peer, 2 hosts, 3 SSRCs, 1 change, 1 BYE | `CountsMatch`, `OneHost`; `HeardAgain` |
| `sequence` | `RTPSequence` | numbers modulo 10, 13 packets, delay 2, 4 a round, 3 starts, 3 counted wraps | `RoundPlays`, `CountedRight` |
| `call` | `Call` | 1 call by either phone, 2 presses or leaves | `FloorFollowsPeer`, `LiveLinkOnlyInCall`, `ListensUnlessCalling`; `HangUpReachesPeer` |

Why the bounds are enough to show the cases: an address that is lost and found gives a
contact list with one's own old entry, and the second one begins with the first, which is
the text test's blind spot; two presses give two recording loops and crossed talk buttons;
two connections give one that is served and one that arrives while it is dropped or after
close; one time-out gives process() within process(); two attempts overlap, and two polls
give one that fails before the last; two services share the static callback, with two
loops of which either may belong to the old one; two SSRCs give a collision, with a sender
before, in and after it; one peer that moves or restarts has a table with its old entry,
its new one and one's own, and its restart may draw the SSRC that is one's own; thirteen
packets modulo ten pass a wrap from any of the starts and two from the last, with the
delay short of half the numbers, as in the code, and the third counted wrap is one that a
packet from before the first or second adds; three frames give two in the queue while one
is in flight. One call has no successor: that calls, redials and answers may cross is
covered for the three invariants of the run by theorems. They hold, too, for two calls
with `Callers = {"A"}` and `MaxInputs = 2` (18 million states) and for two calls by either
phone with `MaxInputs = 1` (36 million), which take too long to be kept as runs. Each
property of a passing run has a mutant, listed in `PROJECT.json`, that the run finds.

One run ends in a counterexample, to what the code calls the control port it announces:

| Run | Property | What happens |
|---|---|---|
| `call_port` | `AdvertisedIsListening` | the port of the new server is never announced |

### Seen while modelling

These have no run of their own; the properties say where they leave them out.

*Discovery.* A resume that comes between the test of `mWait` and wait() is lost. A
`stopSend` before the thread runs is undone by `run`'s `mStop = false`, which is why
`StopEndsRunningLoop` starts in a loop that runs. The sender computes its address once and
goes on announcing it after the network has changed.
`run` of the receiver clears `mStop`, too; its `finally` block and stopReceive may find the
socket null between test and use, or the group null if the socket could not be bound, and
either ends the process. The receiver's self filter
compares an address and port with an address and holds nothing back; MainActivity's test
leaves out every phone whose address contains one's own, and after a change of address it
lists one's own old one (`SelfNotListed` is about a phone that has kept its address).

*Audio.* An update of `mCount` can be lost, so the counter may differ from the number of
frames when all is quiet; `CountDrains` says that it heals. A quick second press clears
`stopRecorder` before the first loop looks, and two loops record. A loop may write into a
native object that onDestroy has just deleted, since the lock around its address does not
cover its use. After the audio thread has ended, network frames still enter the playing
queue, which has no limit.

*Control connections.* `close()` leaves the server socket open, so a thread waiting in
accept() takes one more client before it ends. closeConnect before or during connect()
clears `mSocket` under the thread, whose exception ends the process; the same field cleared
under a writer throws into the caller. A connect() that fails is reported to nobody.
closeConnect may wait for the reader's lock until the peer sends or hangs up.

*Calls.* A callee back from the background may show for ever that the other side is
talking, because it has missed the "up" (`returned`); so may one whose caller hung up with
lines unread, also through the caller's next call, since the server thread then leaves its
loop without a report (`reset`). The
report that a connection has ended does not say which, and may end the call that was
opened meanwhile.

*Hot spot.* The onDestroy of a cancelled attempt may turn off the hot spot that the next
has opened, and Wi-Fi may be left off after two attempts because the second has
overwritten `mOriginalOpen`. A Wi-Fi service that gives no list of networks ends the process
after Wi-Fi was turned on.

*jrtplib.* InternalCreate starts the poll thread before it sets `created`, and
BeginDataAccess and EndDataAccess each look at it: a first step may go without the lock
and unlock what another thread has locked (`bare`). AbortWait writes to the pipe only if
somebody waits; one that comes just before is lost, the wait then lasts up to 6.16 s, Stop
gives up after five and calls Kill, in which pthread_cancel is commented out and
pthread_exit ends the calling thread, here the application's main thread
(`KillMeansLostAbort` says that nothing else leads there). BYEDestroy deletes the
transmitter while `created` is still true, and a SendPacket may use it (`SendGone`).
`sentpackets` is set after the locks are released and by a BYE of the old SSRC, so a
collision in between sends a BYE for an SSRC nobody has heard, or none for one that was
just heard, unlike the comment at `rtpsession.cpp:1233`. Any error of Poll or
ProcessPolledData ends the poll thread, and nobody is told; one between the removal of the
old own entry and the new one leaves a session that sends without an entry of its own. In
the source table, an entry that said BYE may be dropped with packets that were not played;
a peer that keeps saying BYE can be starved; one that collides twice with one's own SSRC
from a listed address is taken for a loop; one that has moved is ignored until its old
entry times out. A packet from before a wrap that comes after it is counted a cycle ahead:
it is played after its successors, and 65536 packets too many are reported lost; each
packet that does so may add another cycle. There is no buffer across rounds: a packet that
comes a round late is played late, one that comes again in the next is played again.

### Deadlock

Checked in `sources`, where packets and time never end. The other systems may stop (all
frames polled, the process gone, both phones idle, all attempts over, all packets sent),
so it is off there.

### Fairness

Threads that can run do run, and calls that were entered return (weak fairness of each
thread's steps). Users owe nothing: no press, release, call or leave is fair, nor is a
failure, a spurious wake-up, a change of address or the collection of an object. In `Call`
the system owes what the UI thread has pending: a started activity arrives, a finished one
is paused, messages run. In `HotSpot` the timers and the UI thread run and the Wi-Fi
service owes nothing. A mutex, or a reader's lock, that is free again and again is got in
the end (strong fairness, in `RTPSession` and of `CtlSocket`'s caller). In `RTPSources` a
peer whose packets could be received again and again is heard from, which is a network
that does not lose everything, and time passes. `CloseWorks` and `CloseEndsThread` also
assume that the other side hangs up: one that stays silent blocks close(), as the code has
it. `Rtp` and `RTPSequence` state safety only.

## 4. Proofs

TLAPS proves, for every value of the constants, every invariant that a run checks and the
refinement of `FrameFifo`:

* **Discovery**, with the sender alone: `TypeCorrect`, `SendsBounded`. The bounds are not
  inductive, since a count of one is fine only where no send can follow at once;
  `IInv` adds the bound by location (`SuspendInv`, `StopInv`) and that a thread which
  has not been started has not begun. `SendsBoundedBeside` carries them over to the sender
  beside the receiver: by the lemma `SenderPart` a step there is the sender's, or leaves it
  alone, or ends the process. `ReceiverClosed` rests on `SocketInv`: whoever
  clears the field has closed the socket, and the thread that opened it passes the closing
  code. `OwnNotListed` rests on `AddressInv`: what a phone announces is its address, as long
  as that has not changed.
* **FrameBufferQueueNew** (in `AudioSyncProofs`): `QueueTypeCorrect`; `FifoRefinement`,
  the step simulation onto `FrameFifo`; `CountNonNegative`, for one consumer that also
  resets. There `InFlightInv` carries the proof: between the test and the write the
  consumer's read value is positive, and the producer never makes the counter smaller than
  it should be for that.
* **AudioSync**: `TypeCorrect`; `SendBounded`, from `SendInv`, which says where a loop may
  already have sent its one late frame; `Released`; `Settled`. A device settles by the last
  start or stop still to come, of the running call first and then of the queue, or by what
  it is if there is none. `SettledInv` says so of both devices at any time; four lemmas on
  sequences say what taking the first command and adding a last one change about it.
* **CtlServerSocket**: `TypeCorrect`; `Serves`, because only a closing caller clears a field
  under the server thread's hands and by then the stop flag is set (`CloseSetsStop`,
  `TestedFields`); `NoneOrphaned`, because a connection is cleared from its field only
  after it was closed (`OpenIsInField`, `ShutBeforeCleared`, `NothingOpen`).
* **Call**: `TypeCorrect`; `LinksEndWithCall`; `AlwaysReachable`. Both invariants are
  inductive given the types. A new connection starts only in a resume, when by the
  invariant the phone can have no other that is alive; and a service closes only the
  server it holds, which no other phone holds, since each server has one owner.
  `FloorFollows` is the long one: what keeps a phone silent may be in its queue of
  messages, in a line or at the other button, and the word that frees it likewise. Of any
  queue it matters only whether it has *relief* (an "up" or an end) in it, and whether its
  last word is a "down" (*unanswered*); three lemmas say what adding a last and taking
  a first entry change about that. `LinesInv`: an unanswered "down" in a line is that of a
  button still held, whose release goes to the same connection. `FloorInv`: a phone that
  waits, because it may not talk and has no relief queued or because a "down" is the last
  it has queued, is owed relief by one of its connections. They need to know who serves
  which connection (`WireInv`) and that nothing is left from an earlier visit
  (`ActivityInv`). The property itself is not inductive, since it does not see a "down"
  still on its way.
* **CtlSocket** (in `CallProofs`): `CtlTypeCorrect`; `ClosedWithItsOwner`; `FewLateReports`,
  for any number of time-outs. `CloseInv`: the field is cleared, and closeConnect returns,
  only when the socket has been closed, and a writer has not been asked to close.
  `LateInv` counts the reports that may still come with those that have: after
  closeConnect has returned, the line the thread has just read, and the end.
* **HotSpot**: `TypeCorrect`, `ResultsBounded`, `FailedOff`. `ResultInv` counts results by
  where the timer is: none before it has quit, and only the onDestroy of an *open*
  attempt adds to what the timer says. `PostInv` shows that an activity which ends without
  error has no error still coming, so that none can arrive after its clean-up was skipped;
  the queue is treated by two lemmas on posting and running. `OrderInv` orders attempts.
* **Rtp**: `TypeCorrect`, with the single deletion; `PollThreadsSafe`, `OwnFramesPlayed`,
  `SpeechReaches`. `ServiceInv` says, by how far a service is, whether its address, its
  object and its thread are there; `OrderInv` that only the last service is alive and that
  the callback is its; `LoopInv` that a loop's peer was added before the loop started.

* **RTPSession**: `TypeCorrect`; `DestroyAlone` and `TableUnlocked`, which the run does
  not list; `OwnCurrent`, `SsrcLeftWithBye`, `KilledUnheard`. `LockInv` ties each holder
  of the source table's lock to a place of a thread, as long as no step went without it
  (`bare`); `OwnInv` lets own entry and SSRC differ only between CreateNewSSRC and
  ReplaceOwn, where the poll thread holds that lock, or after the entry could not be made
  anew; `ByeInv` says which SSRCs peers may know at each place, with a loop's packet
  between the send and its flag; `AbortInv`, that a wait which was to be aborted has its
  byte or was not heard (`lost`).
* **RTPSources** (in `SourcesProofs`): `SourcesTypeCorrect`; `CountersRight`;
  `SourceOfOneHost`, for any peers, hosts and SSRCs. The counters are changed entry by entry
  and are compared with cardinalities, which needs that the table is finite, and that the
  own entry is active, since a new SSRC replaces it without counting (`TableInv`). A round
  of time-outs, which removes many entries at once, counts anew what it leaves; the other
  steps change one entry, and one lemma on finite sets says what that does to the counts.
* **RTPSequence** (in `SourcesProofs`): `NumbersRight`; `PlayedInOrder`, for numbers of
  any width, any first number and any delay below half the numbers. The stored number is
  not that of the latest packet once one was overtaken across a wrap, so the invariant
  speaks of the packet the stored number follows (`Follows`): every extended number in the
  list is as far from the highest as its packet is from that one, less whole cycles: none
  in a round without such a packet (`Fits`). `ListInv` adds that the list is sorted by
  extended number, `RoundInv` that the round has nothing newer than the latest packet. A
  round that is not empty has a packet of the followed one's cycle or a later one: so an
  old number can be told from one of the cycle before.

Assumptions on constants are the named `ASSUME`s: bounds and limits are natural numbers, an
unknown address is not an address, a text contains itself, the addresses of hosts are not
the two marks of an entry without one, and a delay is shorter than half the sequence
numbers. jrtplib makes no sense of packets beyond that last one: it is how it tells
a late number from a wrap.

Only model-checked are the liveness properties, which TLAPS does not prove: `SignalsArrive`,
`StopEndsReceiver`, `CountDrains`, `ThreadsEnd`, `CloseWorks`, `EndReported`,
`CloseEndsThread`, `AttemptEnds`, `CallsReturn`, `HeardAgain` and `HangUpReachesPeer`. They
hold for the bounds of section 3 and under the fairness above. `AdvertisedIsListening` does
not hold, and nothing is proved of it.

## 5. What is not modelled

* A report's test of the callback and its post are one step in `Call`; in the code the
  callback may change in between, which sends even more reports to the wrong activity.
* Messages posted before a callback is taken away run before the next onResume. This is
  the order of the UI thread's queue, and in `Call` they are dropped at once.
* A second greeting does not stack a second CallActivity on the first. MainActivity stays
  in the foreground unless a call starts, the service stays bound, and DialActivity
  counts as an item of the list.
* The playing half of AudioSync beyond its queue; the codec.
* Of jrtplib: the scheduler beyond whether a packet is due, the contents of RTCP packets,
  contributing sources, jitter and round-trip times, note time-outs, sockets and local
  addresses, and the calls the application does not make.
* Which network Wi-Fi is connected to, and the configuration of networks.
* LocalCallService's onDestroy as a whole: its parts are in `Discovery`, `AudioSync`, `Call`
  and `Rtp`, each on its own.
* FrameBufferQueue and SocketExt, which nothing in the application constructs.
* Vendored code that the application does not call (`jni/jvoip`, jrtplib's IPv6 and other
  transmitters), or that is a codec without states of interest (`speex`); the unused
  AudioPlayer, AudioRecorder and FrameBufferQueueExt, views, statistics and
  advertisements.
* Two of the code's waits by length: that five seconds are shorter than a wait of 6.16 is a
  choice in `Kill`, not a clock.

## 6. Plan

In order, done so far first:

1. `MultiCastSender`, `FrameFifo`, `FrameBufferQueueNew`, `AudioSync`, `CtlServerSocket`,
   `Call`, `HotSpot`, `Rtp`, with their runs and proofs. *(done)*
2. `CtlSocket` at the grain of `CtlServerSocket`; `Discovery`, the receiver with the list of
   contacts; `RTPSession`, `RTPSources`, `RTPSequence`, the parts of jrtplib that the
   application runs; the proofs of `RTPSession`, `Discovery` and `SettledDevices`. *(done)*
3. Proofs of `FloorFollowsPeer`, of the invariants of `CtlSocket`, `RTPSources` and
   `RTPSequence`. *(done)*
4. `LocalCallService`: onCreate and onDestroy as a whole, over the parts.
5. Step simulations between the modules that see one object from two sides: that
   `CtlSocket` and `CtlServerSocket` do what `Call` takes as steps of a link and of a
   server.
