------------------------------ MODULE FrameFifo ------------------------------
(***************************************************************************)
(* What the audio path expects of a frame queue, whatever its counter      *)
(* does: a frame that was offered is handed out at most once, in the order *)
(* of the offers, and a poll may come back empty-handed.                   *)
(***************************************************************************)
EXTENDS Naturals, Sequences

CONSTANT Consumers

None == 0       \* no frame: frames are numbered from 1

VARIABLES
    items,      \* frames offered and not yet handed out
    offered,    \* number of frames offered so far; they are numbered from 1
    got         \* what each consumer's last poll returned

Init ==
    /\ items = <<>>
    /\ offered = 0
    /\ got = [c \in Consumers |-> None]

Offer ==
    /\ offered' = offered + 1
    /\ items' = Append(items, offered')
    /\ UNCHANGED got

Take(c) ==
    /\ items # <<>>
    /\ got' = [got EXCEPT ![c] = Head(items)]
    /\ items' = Tail(items)
    /\ UNCHANGED offered

TakeNothing(c) ==
    /\ got' = [got EXCEPT ![c] = None]
    /\ UNCHANGED <<items, offered>>

Clear ==
    /\ items' = <<>>
    /\ UNCHANGED <<offered, got>>

Next == Offer \/ Clear \/ \E c \in Consumers : Take(c) \/ TakeNothing(c)

Spec == Init /\ [][Next]_<<items, offered, got>>
=============================================================================
