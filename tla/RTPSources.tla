----------------------------- MODULE RTPSources -----------------------------
(***************************************************************************)
(* The source table of an RTPSession: who is heard under which SSRC        *)
(* (rtpsources.cpp, rtpinternalsourcedata.cpp, rtpcollisionlist.cpp and    *)
(* the part of rtpsession.cpp's ProcessPolledData that changes the own     *)
(* SSRC).  All of it runs with SOURCES locked, so a packet, a round of     *)
(* timeouts and a delivery are steps.                                      *)
(*                                                                         *)
(* A host stands for its pair of addresses (RTP and RTCP ports are fixed). *)
(* Own packets never get here, nobody sends CSRCs, and sequence numbers    *)
(* are left out: an entry holds a set of packets.                          *)
(***************************************************************************)
EXTENDS Naturals, FiniteSets

CONSTANTS
    Peers, Hosts, Ssrcs,
    FirstSsrc,      \* the SSRC drawn first, any
    ByeLimit, SenderLimit, MemberLimit, CollisionLimit, \* timeouts, in ticks
    MaxChanges, MaxByes     \* bounds: moves and restarts of peers, and their BYEs

ASSUME LimitsAssumption ==
    /\ ByeLimit \in Nat \ {0} /\ SenderLimit \in Nat \ {0}
    /\ MemberLimit \in Nat \ {0} /\ CollisionLimit \in Nat \ {0}

ASSUME BoundsAssumption == MaxChanges \in Nat /\ MaxByes \in Nat

ASSUME SsrcAssumption == FirstSsrc \in Ssrcs

Unset == "unset"
Own == "own"        \* the null address of the own entry

ASSUME HostsAssumption == Hosts \cap {Unset, Own} = {}

VARIABLES
    sourcelist,     \* SSRC -> entry
    total, senders, active,     \* totalcount, sendercount, activecount
    owndata,        \* SSRC of the own entry
    collisions,     \* addresses that have collided with the own SSRC -> age
    poll,           \* the poll thread: "wait", "process" (holds SOURCES), "deliver"
    peer,           \* each peer's SSRC and host
    changes, byes   \* bounds: moves and restarts, and BYEs, so far

counts == <<total, senders, active>>
table == <<sourcelist, counts>>
vars == <<table, owndata, collisions, poll, peer, changes, byes>>

Entry == [rtp |-> Unset, rtcp |-> Unset, validated |-> FALSE, issender |-> FALSE,
          bye |-> FALSE, msgAge |-> 0, rtpAge |-> 0, byeAge |-> 0, data |-> {}]

OwnEntry == [Entry EXCEPT !.validated = TRUE, !.rtp = Own, !.rtcp = Own]

IsActive(e) == e.validated /\ ~e.bye

Init ==
    /\ owndata = FirstSsrc
    /\ sourcelist = [s \in {owndata} |-> OwnEntry]
    /\ total = 1 /\ senders = 0 /\ active = 1
    /\ collisions = <<>>
    /\ poll = "wait"
    /\ peer \in [Peers -> [ssrc : Ssrcs, host : Hosts]]
    /\ changes = 0 /\ byes = 0

-----------------------------------------------------------------------------
(* What a packet finds under its SSRC.                                     *)

\* ObtainSourceDataInstance.
Obtain(list, s) == IF s \in DOMAIN list THEN list[s] ELSE Entry

\* Mutant: an address that is not set yet takes any host.
CheckCollisionOne(e, h, kind) == e[kind] # Unset /\ e[kind] # h

\* CheckCollision: the address is another one, or the other address is another
\* host's.
CheckCollision(e, h, kind) ==
    \/ e[kind] # Unset /\ e[kind] # h
    \/ e[kind] = Unset /\ \E other \in {"rtp", "rtcp"} : e[other] \notin {Unset, h}

\* A table in which x stands under key k.
Put(list, k, x) == [i \in DOMAIN list \cup {k} |-> IF i = k THEN x ELSE list[i]]

\* The entry of s becomes e.
Store(s, e) ==
    /\ sourcelist' = Put(sourcelist, s, e)
    /\ total' = IF s \in DOMAIN sourcelist THEN total ELSE total + 1

Up(count, before, after) == IF ~before /\ after THEN count + 1 ELSE count

\* Mutant: the counter is raised by every packet of an active source.
ProcessRTPPacketCounts(s, p) ==
    LET old == Obtain(sourcelist, s)
        new == [old EXCEPT !.rtp = p.host, !.validated = TRUE, !.issender = TRUE,
                           !.msgAge = 0, !.rtpAge = 0, !.data = @ \cup {p}] IN
    /\ Store(s, new)
    /\ senders' = Up(senders, old.issender, TRUE)
    /\ active' = Up(active, old.validated, TRUE) + (IF old.bye THEN 1 ELSE 0)

\* An RTP packet that does not collide.
ProcessRTPPacket(s, p) ==
    LET old == Obtain(sourcelist, s)
        new == [old EXCEPT !.rtp = p.host, !.validated = TRUE, !.issender = TRUE,
                           !.msgAge = 0, !.rtpAge = 0, !.data = @ \cup {p}] IN
    /\ Store(s, new)
    /\ senders' = Up(senders, old.issender, TRUE)
    /\ active' = Up(active, IsActive(old), IsActive(new))

\* A compound RTCP packet that does not collide: its report ...
UpdateReceiveTime(e, h) == [e EXCEPT !.rtcp = h, !.msgAge = 0]

ProcessReport(s, p) ==
    /\ Store(s, UpdateReceiveTime(Obtain(sourcelist, s), p.host))
    /\ UNCHANGED <<senders, active>>

\* ... then its CNAME, which validates the source ...
ProcessSDES(s, p) ==
    LET old == Obtain(sourcelist, s)
        new == [UpdateReceiveTime(old, p.host) EXCEPT !.validated = TRUE] IN
    /\ Store(s, new)
    /\ active' = Up(active, IsActive(old), IsActive(new))
    /\ UNCHANGED senders

\* ... and its BYE, which comes with both.
ProcessBYE(s, p) ==
    LET old == Obtain(sourcelist, s)
        new == [UpdateReceiveTime(old, p.host) EXCEPT !.validated = TRUE,
                                                      !.bye = TRUE, !.byeAge = 0] IN
    /\ Store(s, new)
    /\ active' = IF IsActive(old) /\ ~IsActive(new) THEN active - 1 ELSE active
    /\ UNCHANGED senders

-----------------------------------------------------------------------------
(* The poll thread.                                                        *)

\* CreateNewSSRC draws until it has an SSRC that the table does not know.
CreateNewSsrc == owndata' \in Ssrcs \ DOMAIN sourcelist

\* Mutant: the own entry is taken for a sender's.
ReplaceOwnSender ==
    /\ sourcelist' = [s \in (DOMAIN sourcelist \ {owndata}) \cup {owndata'} |->
                        IF s = owndata' THEN OwnEntry ELSE sourcelist[s]]
    /\ senders' = senders - 1
    /\ UNCHANGED <<total, active>>

\* DeleteOwnSSRC and CreateOwnSSRC.
ReplaceOwn ==
    LET own == sourcelist[owndata] IN
    /\ sourcelist' = [s \in (DOMAIN sourcelist \ {owndata}) \cup {owndata'} |->
                        IF s = owndata' THEN OwnEntry ELSE sourcelist[s]]
    /\ senders' = IF own.issender THEN senders - 1 ELSE senders
    /\ UNCHANGED <<total, active>>

\* A packet collides with the own SSRC: the first from its address within
\* CollisionLimit makes the session change it.
OwnCollision(h, kind) ==
    /\ collisions' = Put(collisions, <<h, kind>>, 0)
    /\ IF <<h, kind>> \in DOMAIN collisions
       THEN UNCHANGED <<table, owndata>>
       ELSE CreateNewSsrc /\ ReplaceOwn

\* A packet that does not collide is processed; another one is dropped.
Accept(s, h, kind) ==
    /\ poll \in {"wait", "process"} /\ poll' = "process"
    /\ ~CheckCollision(Obtain(sourcelist, s), h, kind)
    /\ UNCHANGED <<owndata, collisions>>

Drop(s, h, kind) ==
    /\ poll \in {"wait", "process"} /\ poll' = "process"
    /\ CheckCollision(Obtain(sourcelist, s), h, kind)
    /\ IF s = owndata THEN OwnCollision(h, kind) ELSE UNCHANGED <<table, owndata, collisions>>

ReceiveRtp(p) ==
    LET s == peer[p].ssrc
        h == peer[p].host IN
    /\ \/ Accept(s, h, "rtp") /\ ProcessRTPPacket(s, [id |-> p, host |-> h])
       \/ Drop(s, h, "rtp")
    /\ UNCHANGED <<peer, changes, byes>>

\* A report alone, or with the CNAME (the jrtplib of a peer sends both).
ReceiveRtcp(p) ==
    LET s == peer[p].ssrc
        h == peer[p].host IN
    /\ \/ Accept(s, h, "rtcp") /\ (ProcessReport(s, peer[p]) \/ ProcessSDES(s, peer[p]))
       \/ Drop(s, h, "rtcp")
    /\ UNCHANGED <<peer, changes, byes>>

\* A peer gives up its SSRC, or seems to: packets can overtake its BYE.
ReceiveBye(p) ==
    LET s == peer[p].ssrc
        h == peer[p].host IN
    /\ byes < MaxByes /\ byes' = byes + 1
    /\ \/ Accept(s, h, "rtcp") /\ ProcessBYE(s, peer[p])
       \/ Drop(s, h, "rtcp")
    /\ UNCHANGED <<peer, changes>>

\* Mutant: only sources that have said BYE are dropped.
TimedOutBye(s) == s # owndata /\ sourcelist[s].bye /\ sourcelist[s].byeAge >= ByeLimit

TimedOut(s) ==
    LET e == sourcelist[s] IN
    /\ s # owndata
    /\ (e.bye /\ e.byeAge >= ByeLimit) \/ e.msgAge >= MemberLimit

ClearSender(e) ==
    IF e.issender /\ e.rtpAge >= SenderLimit THEN [e EXCEPT !.issender = FALSE, !.rtpAge = 0] ELSE e

\* MultipleTimeouts, which counts anew, and that of the collision list.
MultipleTimeouts ==
    LET left == {s \in DOMAIN sourcelist : ~TimedOut(s)}
        list == [s \in left |-> ClearSender(sourcelist[s])] IN
    /\ poll \in {"wait", "process"} /\ poll' = "deliver"
    /\ sourcelist' = list
    /\ total' = Cardinality(left)
    /\ senders' = Cardinality({s \in left : list[s].issender})
    /\ active' = Cardinality({s \in left : IsActive(list[s])})
    /\ collisions' = [a \in {b \in DOMAIN collisions : collisions[b] < CollisionLimit} |-> collisions[a]]
    /\ UNCHANGED <<owndata, peer, changes, byes>>

\* OnPollThreadStep takes all packets.
Deliver ==
    /\ poll = "deliver" /\ poll' = "wait"
    /\ sourcelist' = [s \in DOMAIN sourcelist |-> [sourcelist[s] EXCEPT !.data = {}]]
    /\ UNCHANGED <<counts, owndata, collisions, peer, changes, byes>>

-----------------------------------------------------------------------------
(* SendPacket of a recording loop, time, and the peers.                    *)

SentRTPPacket ==
    /\ poll # "process"
    /\ sourcelist' = [sourcelist EXCEPT ![owndata].issender = TRUE,
                                        ![owndata].msgAge = 0, ![owndata].rtpAge = 0]
    /\ senders' = Up(senders, sourcelist[owndata].issender, TRUE)
    /\ UNCHANGED <<total, active, owndata, collisions, poll, peer, changes, byes>>

Older(age, limit) == IF age < limit THEN age + 1 ELSE age

\* A whole interval passes between two rounds of the poll thread.  Ages that are
\* not looked at stay as they are.
Aged(s, e) ==
    [e EXCEPT !.msgAge = IF s = owndata THEN @ ELSE Older(@, MemberLimit),
              !.rtpAge = IF e.issender THEN Older(@, SenderLimit) ELSE @,
              !.byeAge = IF e.bye THEN Older(@, ByeLimit) ELSE @]

Tick ==
    /\ poll # "process"
    /\ sourcelist' = [s \in DOMAIN sourcelist |-> Aged(s, sourcelist[s])]
    /\ collisions' = [a \in DOMAIN collisions |-> Older(collisions[a], CollisionLimit)]
    /\ UNCHANGED <<counts, owndata, poll, peer, changes, byes>>

\* The peer's address changes, or it starts a new session.
Change(p) ==
    /\ changes < MaxChanges /\ changes' = changes + 1
    /\ \E h \in Hosts, s \in Ssrcs : peer' = [peer EXCEPT ![p] = [ssrc |-> s, host |-> h]]
    /\ UNCHANGED <<table, owndata, collisions, poll, byes>>

Next ==
    \/ \E p \in Peers : ReceiveRtp(p) \/ ReceiveRtcp(p) \/ ReceiveBye(p) \/ Change(p)
    \/ MultipleTimeouts \/ Deliver
    \/ SentRTPPacket \/ Tick

(* The poll thread runs and time passes; peers go on sending.              *)
Fairness ==
    /\ WF_vars(MultipleTimeouts) /\ WF_vars(Deliver) /\ SF_vars(Tick)
    /\ \A p \in Peers : SF_vars(ReceiveRtp(p)) /\ SF_vars(ReceiveRtcp(p))

Spec == Init /\ [][Next]_vars /\ Fairness

-----------------------------------------------------------------------------
(* Properties.                                                             *)

Entries ==
    [rtp : Hosts \cup {Unset, Own}, rtcp : Hosts \cup {Unset, Own},
     validated : BOOLEAN, issender : BOOLEAN, bye : BOOLEAN,
     msgAge : 0 .. MemberLimit, rtpAge : 0 .. SenderLimit, byeAge : 0 .. ByeLimit,
     data : SUBSET [id : Peers, host : Hosts]]

\* Every variable stays in its range.
TypeOK ==
    /\ owndata \in DOMAIN sourcelist /\ DOMAIN sourcelist \subseteq Ssrcs
    /\ sourcelist \in [DOMAIN sourcelist -> Entries]
    /\ total \in Nat /\ senders \in Nat /\ active \in Nat
    /\ collisions \in [DOMAIN collisions -> 0 .. CollisionLimit]
    /\ poll \in {"wait", "process", "deliver"}
    /\ peer \in [Peers -> [ssrc : Ssrcs, host : Hosts]]
    /\ changes \in 0 .. MaxChanges /\ byes \in 0 .. MaxByes

\* The three counters, which decide how often RTCP is sent and when sources time
\* out, are right between any two packets, not only after a round of timeouts.
CountsMatch ==
    /\ total = Cardinality(DOMAIN sourcelist)
    /\ senders = Cardinality({s \in DOMAIN sourcelist : sourcelist[s].issender})
    /\ active = Cardinality({s \in DOMAIN sourcelist : IsActive(sourcelist[s])})

\* What is played as one source comes from one host, which is also the one whose
\* reports are believed; the own entry takes packets from nobody.
OneHost ==
    \A s \in DOMAIN sourcelist :
         LET e == sourcelist[s] IN
         /\ (e.rtp = Own) <=> (s = owndata)
         /\ e.rtp # Unset /\ e.rtcp # Unset => e.rtp = e.rtcp
         /\ \A p \in e.data : p.host = e.rtp

\* Collides for good: the own SSRC is the peer's again, and both addresses are
\* listed, so the packets are taken for one's own, looped back.  (It takes two
\* restarts of the peer, each with the SSRC that is one's own by then.)
Looped(p) ==
    peer[p].ssrc = owndata /\ {<<peer[p].host, k>> : k \in {"rtp", "rtcp"}} \subseteq DOMAIN collisions

\* Packets of p are delivered.
Heard(p) == Deliver /\ \E s \in DOMAIN sourcelist : \E d \in sourcelist[s].data : d.id = p

Alone(p) == \A q \in Peers \ {p} : peer[q].ssrc # peer[p].ssrc

\* A peer whose address has changed, or whose SSRC is also one's own or somebody's
\* who has left, is heard again, for all the packets of it that are ignored at first.
\* (If it says BYE again and again, its packets can be dropped for ever; MaxByes
\* bounds that.)
HeardAgain ==
    \A p \in Peers :
        <>[]Alone(p) => []<><<Heard(p)>>_vars \/ <>[]Looped(p)
=============================================================================
