----------------------------- MODULE RTPSequence -----------------------------
(***************************************************************************)
(* From sequence numbers to a row of packets: what jrtplib makes of the    *)
(* packets of one source (rtpsourcedata.cpp, rtpinternalsourcedata.cpp)    *)
(* over a network that loses, doubles and delays them.                     *)
(*                                                                         *)
(* The peer's packets are 0, 1, 2, ...; in their header is the number      *)
(* modulo Wrap.  RTPSourceStats extends it again, RTPInternalSourceData    *)
(* sorts the packets of a round by it, and OnPollThreadStep plays a round. *)
(***************************************************************************)
EXTENDS Integers, Sequences, SequencesExt

CONSTANTS
    Wrap,           \* 65536 in the code
    Firsts,         \* header numbers of packet 0, which are drawn at random
    MaxDelay,       \* bound: how many later packets one can be behind
    MaxPackets,     \* bound: packets sent
    MaxRound,       \* bound: datagrams of a round
    MaxCycles       \* bound: wraps that are counted

Half == Wrap \div 2

ASSUME WrapAssumption == Wrap \in Nat /\ Half * 2 = Wrap /\ MaxDelay \in 1 .. Half - 1
ASSUME FirstsAssumption == Firsts \subseteq 0 .. Wrap - 1

VARIABLES
    offset,         \* header number of packet 0
    sent,           \* packets sent so far
    sentdata, baseseqnr, exthighseqnr, numcycles, savedextseqnr,    \* RTPSourceStats
    packetlist,     \* of RTPInternalSourceData: [packet, extended number]
    round,          \* history: the datagrams of this round, by packet
    first, highest, \* history: the first, and the latest, packet of this source that came
    reported,       \* history: the latest at the last report
    overtaken       \* history: if packets were overtaken across a wrap: "never", "once",
                    \* or "now", by others of this round

stats == <<sentdata, baseseqnr, exthighseqnr, numcycles, savedextseqnr>>
history == <<round, first, highest, reported, overtaken>>
svars == <<offset, sent, stats, packetlist, history>>

\* The number in the header of a packet, and how often it had wrapped.
Header(n) == (offset + n) % Wrap
Cycle(n) == (offset + n) \div Wrap

SInit ==
    /\ offset \in Firsts
    /\ sent = 0
    /\ sentdata = FALSE /\ baseseqnr = 0 /\ exthighseqnr = 0 /\ numcycles = 0
    /\ savedextseqnr = 0
    /\ packetlist = <<>>
    /\ round = <<>>
    /\ first = 0 /\ highest = 0 /\ reported = 0 /\ overtaken = "never"

-----------------------------------------------------------------------------
\* External: the peer's SendPacket.  (No outage lasts for half the numbers, counted
\* from the latest of the packets that were overtaken.)
Send ==
    /\ sent < MaxPackets
    /\ sent < highest + Half - MaxDelay
    /\ sent' = sent + 1
    /\ UNCHANGED <<offset, stats, packetlist, history>>

\* ACCEPTPACKETCODE: the first packet.  The number before it is the base.
AcceptFirst(seq) ==
    /\ sentdata' = TRUE
    /\ baseseqnr' = IF seq = 0 THEN Wrap - 1 ELSE seq - 1
    /\ numcycles' = IF seq = 0 THEN Wrap ELSE 0
    /\ exthighseqnr' = baseseqnr' + 1
    /\ savedextseqnr' = baseseqnr'

\* Mutant: no half of the numbers is taken for the past.
ExtendAlways(seq) ==
    LET max == exthighseqnr % Wrap IN
    /\ numcycles' = IF seq < max THEN numcycles + Wrap ELSE numcycles
    /\ exthighseqnr' = numcycles' + seq

\* Any other: ahead, also if it is late and from before a wrap; behind a wrap, if
\* that is nearer; or late.
Extend(seq) ==
    LET max == exthighseqnr % Wrap
        wraps == seq < max /\ (seq - max) % Wrap < (max - seq) % Wrap IN
    /\ numcycles' = IF wraps THEN numcycles + Wrap ELSE numcycles
    /\ exthighseqnr' = IF seq >= max \/ wraps THEN numcycles' + seq ELSE exthighseqnr

\* Mutant: a packet is not looked for among those that came.
InsertTwice(p) ==
    LET places == {i \in DOMAIN packetlist : packetlist[i].ext <= p.ext} IN
    packetlist' = InsertAt(packetlist, Cardinality(places) + 1, p)

\* The place is looked for from the end; one that is there already is dropped.
Insert(p) ==
    LET places == {i \in DOMAIN packetlist : packetlist[i].ext <= p.ext}
        place == IF places = {} THEN 0 ELSE Max(places) IN
    packetlist' = IF place # 0 /\ packetlist[place].ext = p.ext THEN packetlist
                  ELSE InsertAt(packetlist, place + 1, p)

\* Packets from behind a wrap have come before this one.
Overtaken(n) == sentdata /\ Cycle(highest) > Cycle(n)

Note(n) ==
    /\ round' = Append(round, n)
    /\ first' = IF sentdata THEN first ELSE n
    /\ highest' = IF sentdata /\ n < highest THEN highest ELSE n
    /\ overtaken' = IF overtaken = "now" \/ \E m \in ToSet(round) : Cycle(m) > Cycle(n) THEN "now"
                    ELSE IF Overtaken(n) THEN "once"
                    ELSE overtaken

\* A packet comes, the first time or again.
Receive(n) ==
    LET seq == Header(n) IN
    /\ Len(round) < MaxRound
    /\ IF ~sentdata
       THEN AcceptFirst(seq) /\ Insert([packet |-> n, ext |-> exthighseqnr'])
       ELSE /\ Extend(seq)
            /\ UNCHANGED <<sentdata, baseseqnr, savedextseqnr>>
            /\ numcycles' <= MaxCycles * Wrap
            /\ Insert([packet |-> n, ext |-> numcycles' + seq])
    /\ Note(n)
    /\ UNCHANGED <<offset, sent, reported>>

DeliverRound ==
    /\ packetlist # <<>>
    /\ packetlist' = <<>> /\ round' = <<>>
    /\ overtaken' = IF overtaken = "now" THEN "once" ELSE overtaken
    /\ UNCHANGED <<offset, sent, stats, first, highest, reported>>

\* A report block about the source was added: a new interval begins.
Report ==
    /\ sentdata
    /\ savedextseqnr' = exthighseqnr
    /\ reported' = highest
    /\ UNCHANGED <<offset, sent, sentdata, baseseqnr, exthighseqnr, numcycles, packetlist,
                   round, first, highest, overtaken>>

\* The source has timed out, or said BYE; what comes then is from a new one.
Forget ==
    /\ sentdata
    /\ sentdata' = FALSE /\ baseseqnr' = 0 /\ exthighseqnr' = 0 /\ numcycles' = 0
    /\ savedextseqnr' = 0
    /\ packetlist' = <<>>
    /\ round' = <<>>
    /\ first' = 0 /\ highest' = 0 /\ reported' = 0 /\ overtaken' = "never"
    /\ UNCHANGED <<offset, sent>>

SNext ==
    \/ Send \/ DeliverRound \/ Report \/ Forget
    \/ \E n \in sent - MaxDelay - 1 .. sent - 1 : n >= 0 /\ Receive(n)

SSpec == SInit /\ [][SNext]_svars

-----------------------------------------------------------------------------
(* Properties.                                                             *)

\* Every packet that came in a round is played in it, once and in the order of
\* sending, however they came.  Not so in a round in which one from before a wrap
\* came after one from behind it: each such packet is taken to be a whole cycle ahead
\* of those before it.
RoundPlays ==
    /\ {p.packet : p \in ToSet(packetlist)} = ToSet(round)
    /\ overtaken # "now" =>
         \A i, j \in DOMAIN packetlist : i < j => packetlist[i].packet < packetlist[j].packet

\* The numbers that reports give the peer (packets expected since the first, and
\* since the last report) are right, across wraps and from any first number, as
\* long as no packet has been overtaken across a wrap.
CountedRight ==
    sentdata /\ overtaken = "never" =>
        /\ exthighseqnr - baseseqnr = highest - first + 1
        /\ savedextseqnr # baseseqnr => exthighseqnr - savedextseqnr = highest - reported
=============================================================================
