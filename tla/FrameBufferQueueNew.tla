------------------------- MODULE FrameBufferQueueNew -------------------------
(***************************************************************************)
(* The frame queue between the audio thread and its neighbours             *)
(* (data/FrameBufferQueueNew.java).  It is a ConcurrentLinkedQueue, whose  *)
(* own operations are atomic, with a plain int mCount beside it that       *)
(* pollCustom tests instead of the queue.  mCount++ and mCount-- are a     *)
(* read and a write, and both are apart from the queue operation.          *)
(*                                                                         *)
(* AudioSync has two of these queues.  Of the one with frames to play, its *)
(* thread is the consumer, and the only one; of the one with recorded      *)
(* frames, the producer, and each recording loop is a consumer.  In both,  *)
(* it is the thread that resets the queue, once, when it ends.             *)
(***************************************************************************)
EXTENDS Integers, Sequences

CONSTANTS
    Consumers,  \* threads that call pollCustom
    Player,     \* the one among them that polls the playing queue
    MaxFrames   \* bound: frames offered in one behaviour

ASSUME PlayerAssumption == Player \in Consumers
ASSUME MaxFramesAssumption == MaxFrames \in Nat

None == 0       \* null; frames are numbered from 1

VARIABLES
    resetBy,    \* which queue it is: the side AudioSync's thread is on
    mCount,     \* the counter
    frames,     \* the queue proper
    offered,    \* frames offered so far
    prod,       \* where the producer is
    prodRead,   \* the value its mCount++ has read
    cons,       \* where each consumer is
    consRead,   \* the value its mCount-- has read
    got         \* what its last pollCustom returned

qvars == <<resetBy, mCount, frames, offered, prod, prodRead, cons, consRead, got>>
producer == <<resetBy, prod, prodRead>>
consumers == <<resetBy, cons, consRead, got>>

ResetLocs == {"reset", "clear", "clearAgain", "end"}

QInit ==
    /\ resetBy \in {"producer", "consumer"}
    /\ mCount = 0
    /\ frames = <<>>
    /\ offered = 0
    /\ prod = "idle"
    /\ prodRead = 0
    /\ cons = [c \in Consumers |->
                 IF resetBy = "consumer" /\ c # Player THEN "end" ELSE "test"]
    /\ consRead = [c \in Consumers |-> 0]
    /\ got = [c \in Consumers |-> None]

-----------------------------------------------------------------------------
(* offerCustom: mCount++ ; offer(data)                                     *)

IncRead ==
    /\ prod = "idle" /\ offered < MaxFrames
    /\ prodRead' = mCount
    /\ prod' = "write"
    /\ UNCHANGED <<mCount, frames, offered, consumers>>

IncWrite ==
    /\ prod = "write"
    /\ mCount' = prodRead + 1
    /\ prod' = "offer"
    /\ UNCHANGED <<frames, offered, prodRead, consumers>>

Offer ==
    /\ prod = "offer"
    /\ offered' = offered + 1
    /\ frames' = Append(frames, offered')
    /\ prod' = "idle"
    /\ UNCHANGED <<mCount, prodRead, consumers>>

-----------------------------------------------------------------------------
(* pollCustom: if (mCount == 0) return null ; mCount-- ; return poll()     *)

At(c, from, to) == cons[c] = from /\ cons' = [cons EXCEPT ![c] = to]

\* Mutant: the test lets an empty queue through.
TestNegative(c) ==
    /\ IF mCount < 0
       THEN At(c, "test", "test") /\ got' = [got EXCEPT ![c] = None]
       ELSE At(c, "test", "read") /\ UNCHANGED got
    /\ UNCHANGED <<mCount, frames, offered, producer, consRead>>

\* Mutant: the test holds back the last frame.
TestOne(c) ==
    /\ IF mCount <= 1
       THEN At(c, "test", "test") /\ got' = [got EXCEPT ![c] = None]
       ELSE At(c, "test", "read") /\ UNCHANGED got
    /\ UNCHANGED <<mCount, frames, offered, producer, consRead>>

Test(c) ==
    /\ IF mCount = 0
       THEN At(c, "test", "test") /\ got' = [got EXCEPT ![c] = None]
       ELSE At(c, "test", "read") /\ UNCHANGED got
    /\ UNCHANGED <<mCount, frames, offered, producer, consRead>>

\* Below -MaxFrames (a bound) a counter that went negative is not followed.
DecRead(c) ==
    /\ mCount > -MaxFrames
    /\ At(c, "read", "write")
    /\ consRead' = [consRead EXCEPT ![c] = mCount]
    /\ UNCHANGED <<mCount, frames, offered, producer, got>>

DecWrite(c) ==
    /\ At(c, "write", "poll")
    /\ mCount' = consRead[c] - 1
    /\ UNCHANGED <<frames, offered, producer, consRead, got>>

\* Mutant: peek() for poll().
PollPeek(c) ==
    /\ At(c, "poll", "test")
    /\ got' = [got EXCEPT ![c] = IF frames = <<>> THEN None ELSE Head(frames)]
    /\ UNCHANGED <<mCount, frames, offered, producer, consRead>>

Poll(c) ==
    /\ At(c, "poll", "test")
    /\ IF frames = <<>>
       THEN got' = [got EXCEPT ![c] = None] /\ UNCHANGED frames
       ELSE got' = [got EXCEPT ![c] = Head(frames)] /\ frames' = Tail(frames)
    /\ UNCHANGED <<mCount, offered, producer, consRead>>

-----------------------------------------------------------------------------
(* reset: mCount = 0 ; clear(), and AudioSync clears once more.  It happens *)
(* between two calls of the resetting thread, which then ends.              *)

EndProducer ==
    /\ resetBy = "producer" /\ prod = "idle"
    /\ prod' = "reset"
    /\ UNCHANGED <<mCount, frames, offered, prodRead, consumers>>

EndConsumer(c) ==
    /\ resetBy = "consumer"
    /\ At(c, "test", "reset")
    /\ UNCHANGED <<mCount, frames, offered, producer, consRead, got>>

\* The resetting thread goes on to its next step.
ResetGoto(from, to) ==
    \/ /\ prod = from /\ prod' = to
       /\ UNCHANGED <<prodRead, consumers>>
    \/ \E c \in Consumers : At(c, from, to) /\ UNCHANGED <<producer, consRead, got>>

ResetCount ==
    /\ ResetGoto("reset", "clear")
    /\ mCount' = 0
    /\ UNCHANGED <<frames, offered>>

Clear ==
    /\ ResetGoto("clear", "clearAgain") \/ ResetGoto("clearAgain", "end")
    /\ frames' = <<>>
    /\ UNCHANGED <<mCount, offered>>

-----------------------------------------------------------------------------
ProducerStep == IncRead \/ IncWrite \/ Offer
ConsumerStep(c) == Test(c) \/ DecRead(c) \/ DecWrite(c) \/ Poll(c)
ResetStep == ResetCount \/ Clear

QNext ==
    \/ ProducerStep
    \/ \E c \in Consumers : ConsumerStep(c)
    \/ EndProducer \/ \E c \in Consumers : EndConsumer(c)
    \/ ResetStep

(* The consuming loops poll for ever; a started offer or reset completes.   *)
(* No frame has to come, and nobody has to end the audio thread.            *)
QFairness ==
    /\ WF_qvars(IncWrite \/ Offer)
    /\ WF_qvars(ResetStep)
    /\ \A c \in Consumers : WF_qvars(ConsumerStep(c))

QSpec == QInit /\ [][QNext]_qvars /\ QFairness

-----------------------------------------------------------------------------
(* Every variable stays in its range.                                      *)
QTypeOK ==
    /\ resetBy \in {"producer", "consumer"}
    /\ mCount \in Int
    /\ frames \in Seq(Nat)
    /\ offered \in Nat
    /\ prod \in {"idle", "write", "offer"} \cup ResetLocs
    /\ prodRead \in Int
    /\ cons \in [Consumers -> {"test", "read", "write", "poll"} \cup ResetLocs]
    /\ consRead \in [Consumers -> Int]
    /\ got \in [Consumers -> Nat]

(* mCount never goes below zero although pollCustom's test and its          *)
(* decrement are apart: true of the playing queue, whose only consumer is   *)
(* the thread that resets it.                                               *)
NonNegative == resetBy = "consumer" => mCount >= 0

(* What makes NonNegative inductive: every value in flight is a count, and  *)
(* nothing lowers a counter a consumer has found positive but itself.       *)
InFlightInv ==
    resetBy = "consumer" =>
        /\ prodRead >= 0
        /\ prod \notin ResetLocs
        /\ cons[Player] = "read" => mCount > 0
        /\ cons[Player] = "write" => consRead[Player] > 0
        /\ \A c \in Consumers \ {Player} : cons[c] = "end"

Fifo == INSTANCE FrameFifo WITH items <- frames

(* No frame is handed out twice or out of order whatever the counter does.  *)
ImplementsFifo == Fifo!Spec

(* Once no offer is under way the counter of the playing queue always comes *)
(* back to zero, so one that is too high heals: polls of the empty queue    *)
(* lower it.                                                                *)
CountDrains ==
    <>[](resetBy = "consumer" /\ prod = "idle" /\ cons[Player] \notin ResetLocs)
        => []<>(mCount = 0)
=============================================================================
