---------------------------- MODULE SourcesProofs ----------------------------
(* Proofs about the source table, for any peers, hosts and SSRCs: its types *)
(* and its counters, and that a source is one host's; and, in the second    *)
(* half, about the packets of one source, for sequence numbers of any width *)
(* and any delay of less than half of them: that a round is played in the   *)
(* order of sending, and that what is reported of it is right.              *)
EXTENDS RTPSources, RTPSequence, FiniteSetTheorems, SequenceTheorems, WellFoundedInduction, TLAPS

-----------------------------------------------------------------------------
(* The table and its counters.                                              *)

Senders(list) == {s \in DOMAIN list : list[s].issender}
Actives(list) == {s \in DOMAIN list : IsActive(list[s])}

(* The counters are right only together with this: the table is finite, and *)
(* the own entry, which is replaced without counting, is active.            *)
TableInv ==
    /\ IsFiniteSet(DOMAIN sourcelist)
    /\ IsActive(sourcelist[owndata])

TableTypes ==
    /\ owndata \in DOMAIN sourcelist /\ DOMAIN sourcelist \subseteq Ssrcs
    /\ sourcelist \in [DOMAIN sourcelist -> Entries]
    /\ total \in Nat /\ senders \in Nat /\ active \in Nat

CInv == TableTypes /\ CountsMatch /\ TableInv /\ OneHost

OtherTypes ==
    /\ collisions \in [DOMAIN collisions -> 0 .. CollisionLimit]
    /\ poll \in {"wait", "process", "deliver"}
    /\ peer \in [Peers -> [ssrc : Ssrcs, host : Hosts]]
    /\ changes \in 0 .. MaxChanges /\ byes \in 0 .. MaxByes

\* Fresh entries are entries.
LEMMA EntryTypes ==
    /\ Entry \in Entries /\ ~Entry.issender /\ ~IsActive(Entry)
    /\ OwnEntry \in Entries /\ ~OwnEntry.issender /\ IsActive(OwnEntry)
    /\ OwnEntry.rtp = Own /\ OwnEntry.rtcp = Own /\ OwnEntry.data = {}
    /\ Entry.rtp = Unset /\ Entry.rtcp = Unset /\ Entry.data = {}
<1>1. /\ Entry \in Entries /\ ~Entry.issender /\ ~IsActive(Entry)
      /\ Entry.rtp = Unset /\ Entry.rtcp = Unset /\ Entry.data = {}
    BY LimitsAssumption DEF Entry, Entries, IsActive
<1>2. OwnEntry \in Entries
    BY <1>1 DEF OwnEntry, Entries
<1>3. /\ OwnEntry.rtp = Own /\ OwnEntry.rtcp = Own /\ OwnEntry.data = {}
      /\ OwnEntry.validated /\ ~OwnEntry.issender /\ ~OwnEntry.bye
    BY DEF OwnEntry, Entry
<1> QED
    BY <1>1, <1>2, <1>3 DEF IsActive

\* One key takes another's place.
LEMMA SwapOne ==
    ASSUME NEW A, IsFiniteSet(A), NEW a \in A, NEW b, b \notin A
    PROVE  IsFiniteSet((A \ {a}) \cup {b}) /\ Cardinality((A \ {a}) \cup {b}) = Cardinality(A)
<1>1. /\ IsFiniteSet(A \ {a}) /\ Cardinality(A \ {a}) = Cardinality(A) - 1
      /\ Cardinality(A) \in Nat
    BY FS_RemoveElement, FS_CardinalityType
<1> DEFINE B == A \ {a}
<1>2. b \notin B
    OBVIOUS
<1> HIDE DEF B
<1>3. IsFiniteSet(B \cup {b}) /\ Cardinality(B \cup {b}) = Cardinality(B) + 1
    <2>1. IsFiniteSet(B)
        BY <1>1 DEF B
    <2> QED
        BY <2>1, <1>2, FS_AddElement
<1> QED
    BY <1>1, <1>3 DEF B

\* The domains that the counters count are finite.
LEMMA FiniteCounts ==
    ASSUME TableInv
    PROVE  IsFiniteSet(Senders(sourcelist)) /\ IsFiniteSet(Actives(sourcelist))
BY FS_Subset DEF TableInv, Senders, Actives

(* An entry is stored: the three counts change by what it was and is.       *)
LEMMA StoreCounts ==
    ASSUME CInv, NEW s \in Ssrcs, NEW e \in Entries, Store(s, e),
           senders' = IF e.issender /\ ~Obtain(sourcelist, s).issender THEN senders + 1
                      ELSE IF ~e.issender /\ Obtain(sourcelist, s).issender THEN senders - 1
                      ELSE senders,
           active' = IF IsActive(e) /\ ~IsActive(Obtain(sourcelist, s)) THEN active + 1
                     ELSE IF ~IsActive(e) /\ IsActive(Obtain(sourcelist, s)) THEN active - 1
                     ELSE active
    PROVE  /\ CountsMatch' /\ IsFiniteSet(DOMAIN sourcelist')
           /\ total' \in Nat /\ senders' \in Nat /\ active' \in Nat
           /\ DOMAIN sourcelist' = DOMAIN sourcelist \cup {s}
           /\ sourcelist' \in [DOMAIN sourcelist' -> Entries]
<1> USE DEF CInv, CountsMatch, TableInv
<1>1. sourcelist' = [i \in DOMAIN sourcelist \cup {s} |-> IF i = s THEN e ELSE sourcelist[i]]
    BY DEF Store, Put
<1>2. /\ DOMAIN sourcelist' = DOMAIN sourcelist \cup {s}
      /\ sourcelist'[s] = e
      /\ \A i \in DOMAIN sourcelist \ {s} : sourcelist'[i] = sourcelist[i]
    BY <1>1
<1>3. sourcelist' \in [DOMAIN sourcelist' -> Entries]
    BY <1>1 DEF TableTypes
<1>4. e.issender \in BOOLEAN /\ IsActive(e) \in BOOLEAN
    BY DEF Entries, IsActive
<1>5. /\ Obtain(sourcelist, s).issender <=> s \in Senders(sourcelist)
      /\ IsActive(Obtain(sourcelist, s)) <=> s \in Actives(sourcelist)
    BY EntryTypes DEF Obtain, Senders, Actives
<1>6. Senders(sourcelist') =
        IF e.issender THEN Senders(sourcelist) \cup {s} ELSE Senders(sourcelist) \ {s}
    BY <1>2 DEF Senders
<1>7. Actives(sourcelist') =
        IF IsActive(e) THEN Actives(sourcelist) \cup {s} ELSE Actives(sourcelist) \ {s}
    BY <1>2 DEF Actives
<1>8. /\ total' = Cardinality(DOMAIN sourcelist') /\ total' \in Nat
      /\ IsFiniteSet(DOMAIN sourcelist')
    BY <1>2, FS_AddElement DEF Store, TableTypes
<1>9. senders' = Cardinality(Senders(sourcelist')) /\ senders' \in Nat
    <2>1. senders = Cardinality(Senders(sourcelist))
        BY DEF Senders
    <2> DEFINE A == Senders(sourcelist)
    <2>2. IsFiniteSet(A) /\ senders = Cardinality(A)
        BY <2>1, FiniteCounts
    <2>3. CASE e.issender
        <3>1. Senders(sourcelist') = A \cup {s}
            BY <1>6, <2>3
        <3>2. senders' = IF s \in A THEN senders ELSE senders + 1
            BY <1>5, <2>3
        <3> HIDE DEF A
        <3> QED
            BY <2>2, <3>1, <3>2, FS_AddElement, FS_CardinalityType
    <2>4. CASE ~e.issender
        <3>1. Senders(sourcelist') = A \ {s}
            BY <1>6, <2>4
        <3>2. senders' = IF s \in A THEN senders - 1 ELSE senders
            BY <1>5, <2>4
        <3> HIDE DEF A
        <3> QED
            BY <2>2, <3>1, <3>2, FS_RemoveElement, FS_CardinalityType
    <2> QED
        BY <2>3, <2>4
<1>10. active' = Cardinality(Actives(sourcelist')) /\ active' \in Nat
    <2>1. active = Cardinality(Actives(sourcelist))
        BY DEF Actives
    <2> DEFINE A == Actives(sourcelist)
    <2>2. IsFiniteSet(A) /\ active = Cardinality(A)
        BY <2>1, FiniteCounts
    <2>3. CASE IsActive(e)
        <3>1. Actives(sourcelist') = A \cup {s}
            BY <1>7, <2>3
        <3>2. active' = IF s \in A THEN active ELSE active + 1
            BY <1>5, <2>3
        <3> HIDE DEF A
        <3> QED
            BY <2>2, <3>1, <3>2, FS_AddElement, FS_CardinalityType
    <2>4. CASE ~IsActive(e)
        <3>1. Actives(sourcelist') = A \ {s}
            BY <1>7, <2>4
        <3>2. active' = IF s \in A THEN active - 1 ELSE active
            BY <1>5, <2>4
        <3> HIDE DEF A
        <3> QED
            BY <2>2, <3>1, <3>2, FS_RemoveElement, FS_CardinalityType
    <2> QED
        BY <2>3, <2>4
<1> QED
    BY <1>2, <1>3, <1>8, <1>9, <1>10 DEF Senders, Actives

\* What a packet that does not collide finds is not the own entry, and both of its
\* addresses are the packet's or not known.
LEMMA NoCollision ==
    ASSUME CInv, NEW s \in Ssrcs, NEW h \in Hosts, NEW kind \in {"rtp", "rtcp"},
           ~CheckCollision(Obtain(sourcelist, s), h, kind)
    PROVE  /\ s # owndata
           /\ Obtain(sourcelist, s) \in Entries
           /\ Obtain(sourcelist, s).rtp \in {Unset, h}
           /\ Obtain(sourcelist, s).rtcp \in {Unset, h}
           /\ \A d \in Obtain(sourcelist, s).data : d.host = h /\ Obtain(sourcelist, s).rtp = h
<1> USE DEF CInv
<1> DEFINE e == Obtain(sourcelist, s)
<1>1. e \in Entries
    BY EntryTypes DEF Obtain, TableTypes
<1>2. /\ e.rtp # Unset /\ e.rtcp # Unset => e.rtp = e.rtcp
      /\ \A d \in e.data : d.host = e.rtp
      /\ s = owndata => e.rtp = Own
    BY EntryTypes DEF Obtain, OneHost, TableTypes
<1>3. h # Own /\ h # Unset
    BY HostsAssumption
<1>4. e.rtp \in {Unset, h} /\ e.rtcp \in {Unset, h}
    <2>1. CASE kind = "rtp"
        BY <1>2, <1>3, <2>1 DEF CheckCollision
    <2>2. CASE kind = "rtcp"
        BY <1>2, <1>3, <2>2 DEF CheckCollision
    <2> QED
        BY <2>1, <2>2
<1>5. s # owndata
    BY <1>2, <1>3, <1>4 DEF Own, Unset
<1>6. \A d \in e.data : d.host = h /\ e.rtp = h
    <2> TAKE d \in e.data
    <2>1. d.host \in Hosts
        BY <1>1 DEF Entries
    <2> QED
        BY <2>1, <1>2, <1>4, HostsAssumption
<1> QED
    BY <1>1, <1>4, <1>5, <1>6

(* A packet's entry, which is not the own one, is stored.                   *)
LEMMA StoreKeeps ==
    ASSUME CInv, NEW s \in Ssrcs, s # owndata, NEW e \in Entries, Store(s, e),
           UNCHANGED owndata,
           senders' = IF e.issender /\ ~Obtain(sourcelist, s).issender THEN senders + 1
                      ELSE IF ~e.issender /\ Obtain(sourcelist, s).issender THEN senders - 1
                      ELSE senders,
           active' = IF IsActive(e) /\ ~IsActive(Obtain(sourcelist, s)) THEN active + 1
                     ELSE IF ~IsActive(e) /\ IsActive(Obtain(sourcelist, s)) THEN active - 1
                     ELSE active,
           e.rtp # Own, e.rtp # Unset /\ e.rtcp # Unset => e.rtp = e.rtcp,
           \A d \in e.data : d.host = e.rtp
    PROVE  CInv'
<1>1. /\ CountsMatch' /\ IsFiniteSet(DOMAIN sourcelist')
      /\ total' \in Nat /\ senders' \in Nat /\ active' \in Nat
      /\ DOMAIN sourcelist' = DOMAIN sourcelist \cup {s}
      /\ sourcelist' \in [DOMAIN sourcelist' -> Entries]
    BY StoreCounts
<1>2. \A i \in DOMAIN sourcelist' : sourcelist'[i] = IF i = s THEN e ELSE sourcelist[i]
    BY DEF Store, Put
<1>3. sourcelist'[owndata'] = sourcelist[owndata]
    BY <1>1, <1>2 DEF CInv, TableTypes
<1>4. TableInv'
    BY <1>1, <1>3 DEF CInv, TableInv
<1>5. TableTypes'
    BY <1>1 DEF CInv, TableTypes
<1>6. OneHost'
    <2> SUFFICES ASSUME NEW i \in DOMAIN sourcelist'
                 PROVE  /\ (sourcelist'[i].rtp = Own) <=> (i = owndata')
                        /\ sourcelist'[i].rtp # Unset /\ sourcelist'[i].rtcp # Unset
                              => sourcelist'[i].rtp = sourcelist'[i].rtcp
                        /\ \A d \in sourcelist'[i].data : d.host = sourcelist'[i].rtp
        BY DEF OneHost
    <2>1. CASE i = s
        BY <2>1, <1>2
    <2>2. CASE i # s
        BY <2>2, <1>1, <1>2 DEF CInv, OneHost
    <2> QED
        BY <2>1, <2>2
<1> QED
    BY <1>1, <1>4, <1>5, <1>6 DEF CInv

\* The fields that packets set keep their ranges.
LEMMA PacketTypes ==
    ASSUME NEW e \in Entries
    PROVE  /\ 0 \in 0 .. MemberLimit /\ 0 \in 0 .. SenderLimit /\ 0 \in 0 .. ByeLimit
           /\ \A p \in Peers, h \in Hosts :
                e.data \cup {[id |-> p, host |-> h]} \in SUBSET [id : Peers, host : Hosts]
BY LimitsAssumption DEF Entries

(* The four packets that are accepted.                                      *)
LEMMA ReceiveKeeps ==
    ASSUME CInv, OtherTypes, NEW p \in Peers, NEW s, s = peer[p].ssrc,
           NEW kind \in {"rtp", "rtcp"}, Accept(s, peer[p].host, kind),
           \/ kind = "rtp" /\ ProcessRTPPacket(s, [id |-> p, host |-> peer[p].host])
           \/ kind = "rtcp" /\ (ProcessReport(s, peer[p]) \/ ProcessSDES(s, peer[p]) \/ ProcessBYE(s, peer[p]))
    PROVE  CInv'
<1> DEFINE h == peer[p].host
           old == Obtain(sourcelist, s)
<1>1. s \in Ssrcs /\ h \in Hosts
    BY DEF OtherTypes
<1>2. /\ s # owndata /\ old \in Entries
      /\ old.rtp \in {Unset, h} /\ old.rtcp \in {Unset, h}
      /\ \A d \in old.data : d.host = h /\ old.rtp = h
    BY <1>1, NoCollision DEF Accept
<1>3. h # Own /\ h # Unset /\ Unset # Own /\ UNCHANGED owndata
    BY <1>1, HostsAssumption DEF Accept, Unset, Own
<1> DEFINE d1 == [id |-> p, host |-> h]
           rtpNew == [old EXCEPT !.rtp = h, !.validated = TRUE, !.issender = TRUE,
                                 !.msgAge = 0, !.rtpAge = 0, !.data = @ \cup {d1}]
           rtcpNew == UpdateReceiveTime(old, h)
           sdesNew == [rtcpNew EXCEPT !.validated = TRUE]
           byeNew == [rtcpNew EXCEPT !.validated = TRUE, !.bye = TRUE, !.byeAge = 0]
<1>4. CASE kind = "rtp"
    <2>1. /\ rtpNew \in Entries /\ rtpNew.rtp = h /\ rtpNew.rtcp = old.rtcp /\ rtpNew.issender = TRUE
          /\ rtpNew.validated /\ rtpNew.bye = old.bye
          /\ rtpNew.data = old.data \cup {d1}
        BY <1>1, <1>2, PacketTypes DEF Entries
    <2>2. Store(s, rtpNew)
        BY <1>4 DEF ProcessRTPPacket
    <2>3. senders' = IF ~old.issender THEN senders + 1 ELSE senders
        BY <1>4 DEF ProcessRTPPacket, Up
    <2>4. active' = IF IsActive(rtpNew) /\ ~IsActive(old) THEN active + 1 ELSE active
        BY <1>4 DEF ProcessRTPPacket, Up
    <2>5. IsActive(old) => IsActive(rtpNew)
        BY <2>1 DEF IsActive
    <2>6. active' = IF IsActive(rtpNew) /\ ~IsActive(old) THEN active + 1
                        ELSE IF ~IsActive(rtpNew) /\ IsActive(old) THEN active - 1
                        ELSE active
        BY <2>4, <2>5
    <2> HIDE DEF rtpNew, old
    <2> QED
        BY <1>1, <1>2, <1>3, <2>1, <2>2, <2>3, <2>6, StoreKeeps DEF old
<1>5. CASE kind = "rtcp"
    <2>1. /\ rtcpNew \in Entries /\ rtcpNew.rtp = old.rtp /\ rtcpNew.rtcp = h
          /\ rtcpNew.issender = old.issender /\ rtcpNew.validated = old.validated
          /\ rtcpNew.bye = old.bye /\ rtcpNew.data = old.data
        BY <1>1, <1>2, PacketTypes DEF UpdateReceiveTime, Entries
    <2> HIDE DEF rtcpNew
    <2>2. CASE ProcessReport(s, peer[p])
        <3>1. Store(s, rtcpNew) /\ senders' = senders /\ active' = active
            BY <2>2 DEF ProcessReport, rtcpNew
        <3>2. IsActive(old) <=> IsActive(rtcpNew)
            BY <2>1 DEF IsActive
        <3> QED
            BY <1>1, <1>2, <1>3, <2>1, <3>1, <3>2, StoreKeeps
    <2>3. CASE ProcessSDES(s, peer[p])
        <3>1. Store(s, sdesNew) /\ senders' = senders
              /\ active' = IF IsActive(sdesNew) /\ ~IsActive(old) THEN active + 1 ELSE active
            BY <2>3 DEF ProcessSDES, rtcpNew, Up
        <3>2. /\ sdesNew \in Entries /\ sdesNew.rtp = old.rtp /\ sdesNew.rtcp = h
              /\ sdesNew.issender = old.issender /\ sdesNew.validated
              /\ sdesNew.bye = old.bye /\ sdesNew.data = old.data
            BY <2>1 DEF Entries
        <3>3. IsActive(old) => IsActive(sdesNew)
            BY <3>2 DEF IsActive
        <3>4. active' = IF IsActive(sdesNew) /\ ~IsActive(old) THEN active + 1
                        ELSE IF ~IsActive(sdesNew) /\ IsActive(old) THEN active - 1
                        ELSE active
            BY <3>1, <3>3
        <3> HIDE DEF sdesNew
        <3> QED
            BY <1>1, <1>2, <1>3, <3>1, <3>2, <3>4, StoreKeeps
    <2>4. CASE ProcessBYE(s, peer[p])
        <3>1. Store(s, byeNew) /\ senders' = senders
              /\ active' = IF IsActive(old) /\ ~IsActive(byeNew) THEN active - 1 ELSE active
            BY <2>4 DEF ProcessBYE, rtcpNew
        <3>2. /\ byeNew \in Entries /\ byeNew.rtp = old.rtp /\ byeNew.rtcp = h
              /\ byeNew.issender = old.issender /\ byeNew.bye /\ byeNew.data = old.data
            BY <2>1, PacketTypes DEF Entries
        <3>3. ~IsActive(byeNew)
            BY <3>2 DEF IsActive
        <3>4. active' = IF IsActive(byeNew) /\ ~IsActive(old) THEN active + 1
                        ELSE IF ~IsActive(byeNew) /\ IsActive(old) THEN active - 1
                        ELSE active
            BY <3>1, <3>3
        <3> HIDE DEF byeNew
        <3> QED
            BY <1>1, <1>2, <1>3, <3>1, <3>2, <3>4, StoreKeeps
    <2> QED
        BY <1>5, <2>2, <2>3, <2>4
<1> QED
    BY <1>4, <1>5

(* The own entry is replaced by one under an SSRC that nobody has.          *)
LEMMA ReplaceOwnKeeps ==
    ASSUME CInv, CreateNewSsrc, ReplaceOwn
    PROVE  CInv'
<1> USE DEF CInv
<1>1. /\ owndata \in DOMAIN sourcelist /\ owndata' \in Ssrcs /\ owndata' \notin DOMAIN sourcelist
      /\ owndata' # owndata
    BY DEF TableTypes, CreateNewSsrc
<1>2. /\ DOMAIN sourcelist' = (DOMAIN sourcelist \ {owndata}) \cup {owndata'}
      /\ sourcelist'[owndata'] = OwnEntry
      /\ \A s \in DOMAIN sourcelist \ {owndata} : sourcelist'[s] = sourcelist[s]
    BY <1>1 DEF ReplaceOwn
<1>3. /\ Senders(sourcelist') = Senders(sourcelist) \ {owndata}
      /\ Actives(sourcelist') = (Actives(sourcelist) \ {owndata}) \cup {owndata'}
      /\ owndata' \notin Actives(sourcelist) /\ owndata \in Actives(sourcelist)
      /\ owndata \in Senders(sourcelist) <=> sourcelist[owndata].issender
    BY <1>1, <1>2, EntryTypes DEF Senders, Actives, TableInv
<1>4. /\ IsFiniteSet(DOMAIN sourcelist')
      /\ Cardinality(DOMAIN sourcelist') = Cardinality(DOMAIN sourcelist)
    BY <1>1, <1>2, SwapOne DEF TableInv
<1>5. Cardinality(Actives(sourcelist')) = Cardinality(Actives(sourcelist))
    BY <1>3, FiniteCounts, SwapOne
<1>6. senders' = Cardinality(Senders(sourcelist')) /\ senders' \in Nat
    <2> DEFINE A == Senders(sourcelist)
    <2>1. IsFiniteSet(A) /\ senders = Cardinality(A)
        BY FiniteCounts DEF CountsMatch, Senders
    <2>2. senders' = IF owndata \in A THEN senders - 1 ELSE senders
        BY <1>3 DEF ReplaceOwn
    <2>3. Senders(sourcelist') = A \ {owndata}
        BY <1>3
    <2> HIDE DEF A
    <2> QED
        BY <2>1, <2>2, <2>3, FS_RemoveElement, FS_CardinalityType
<1>7. CountsMatch'
    BY <1>4, <1>5, <1>6 DEF CountsMatch, Senders, Actives, ReplaceOwn
<1>8. TableInv'
    BY <1>2, <1>4, EntryTypes DEF TableInv
<1>9. TableTypes'
    BY <1>1, <1>2, <1>6, EntryTypes DEF TableTypes, ReplaceOwn
<1>10. OneHost'
    <2> SUFFICES ASSUME NEW i \in DOMAIN sourcelist'
                 PROVE  /\ (sourcelist'[i].rtp = Own) <=> (i = owndata')
                        /\ sourcelist'[i].rtp # Unset /\ sourcelist'[i].rtcp # Unset
                              => sourcelist'[i].rtp = sourcelist'[i].rtcp
                        /\ \A d \in sourcelist'[i].data : d.host = sourcelist'[i].rtp
        BY DEF OneHost
    <2>1. CASE i = owndata'
        BY <2>1, <1>2, EntryTypes
    <2>2. CASE i # owndata'
        BY <2>2, <1>1, <1>2 DEF OneHost
    <2> QED
        BY <2>1, <2>2
<1> QED
    BY <1>7, <1>8, <1>9, <1>10

\* A packet that is dropped, also one that changes the own SSRC.
LEMMA DropKeeps ==
    ASSUME CInv, NEW s, NEW h, NEW kind, Drop(s, h, kind)
    PROVE  CInv'
<1>1. CASE UNCHANGED <<table, owndata>>
    BY <1>1 DEF CInv, TableTypes, TableInv, CountsMatch, OneHost, table, counts
<1>2. CASE CreateNewSsrc /\ ReplaceOwn
    BY <1>2, ReplaceOwnKeeps
<1> QED
    BY <1>1, <1>2 DEF Drop, OwnCollision

(* Entries change that stay what the counters count, and whose they are.    *)
LEMMA SameCounts ==
    ASSUME CInv, UNCHANGED owndata, DOMAIN sourcelist' = DOMAIN sourcelist, UNCHANGED counts,
           sourcelist' \in [DOMAIN sourcelist -> Entries],
           \A s \in DOMAIN sourcelist :
               /\ sourcelist'[s].issender = sourcelist[s].issender
               /\ sourcelist'[s].validated = sourcelist[s].validated
               /\ sourcelist'[s].bye = sourcelist[s].bye
               /\ sourcelist'[s].rtp = sourcelist[s].rtp
               /\ sourcelist'[s].rtcp = sourcelist[s].rtcp
               /\ sourcelist'[s].data \subseteq sourcelist[s].data
    PROVE  CInv'
<1>1. /\ Senders(sourcelist') = Senders(sourcelist)
      /\ Actives(sourcelist') = Actives(sourcelist)
    BY DEF Senders, Actives, IsActive
<1>2. CountsMatch'
    BY <1>1 DEF CInv, CountsMatch, Senders, Actives, counts
<1>3. TableInv'
    BY DEF CInv, TableTypes, TableInv, IsActive
<1>4. TableTypes'
    BY DEF CInv, TableTypes, counts
<1>5. OneHost'
    BY DEF CInv, OneHost
<1> QED
    BY <1>2, <1>3, <1>4, <1>5 DEF CInv

(* A round of timeouts counts anew what it leaves.                          *)
LEMMA TimeoutsKeep ==
    ASSUME CInv, MultipleTimeouts
    PROVE  CInv'
<1> USE DEF CInv
<1> DEFINE left == {s \in DOMAIN sourcelist : ~TimedOut(s)}
<1>1. sourcelist' = [s \in left |-> ClearSender(sourcelist[s])] /\ UNCHANGED owndata
    BY DEF MultipleTimeouts
<1>2. DOMAIN sourcelist' = left /\ left \subseteq DOMAIN sourcelist /\ owndata \in left
    BY <1>1 DEF TableTypes, TimedOut
<1>3. \A s \in left :
          /\ sourcelist'[s] \in Entries
          /\ sourcelist'[s].validated = sourcelist[s].validated
          /\ sourcelist'[s].bye = sourcelist[s].bye
          /\ sourcelist'[s].rtp = sourcelist[s].rtp
          /\ sourcelist'[s].rtcp = sourcelist[s].rtcp
          /\ sourcelist'[s].data = sourcelist[s].data
    <2> TAKE s \in left
    <2>1. sourcelist[s] \in Entries /\ sourcelist'[s] = ClearSender(sourcelist[s])
        BY <1>1 DEF TableTypes
    <2> DEFINE e == sourcelist[s]
    <2>2. ClearSender(e) = e \/ ClearSender(e) = [e EXCEPT !.issender = FALSE, !.rtpAge = 0]
        BY DEF ClearSender
    <2>3. CASE ClearSender(e) = [e EXCEPT !.issender = FALSE, !.rtpAge = 0]
        <3>1. ClearSender(e) \in Entries
            BY <2>1, <2>3, PacketTypes DEF Entries
        <3>2. /\ ClearSender(e).validated = e.validated /\ ClearSender(e).bye = e.bye
              /\ ClearSender(e).rtp = e.rtp /\ ClearSender(e).rtcp = e.rtcp
              /\ ClearSender(e).data = e.data
            BY <2>1, <2>3 DEF Entries
        <3> QED
            BY <2>1, <3>1, <3>2
    <2> QED
        BY <2>1, <2>2, <2>3
<1>4. IsFiniteSet(left)
    BY <1>2, FS_Subset DEF TableInv
<1>5. /\ IsFiniteSet(Senders(sourcelist')) /\ IsFiniteSet(Actives(sourcelist'))
    BY <1>2, <1>4, FS_Subset DEF Senders, Actives
<1>6. CountsMatch'
    BY <1>1, <1>2 DEF MultipleTimeouts, CountsMatch
<1>7. total' \in Nat /\ senders' \in Nat /\ active' \in Nat
    BY <1>2, <1>4, <1>5, <1>6, FS_CardinalityType DEF CountsMatch, Senders, Actives
<1>8. TableTypes'
    <2>1. sourcelist' \in [left -> Entries]
        BY <1>1, <1>3
    <2> QED
        BY <2>1, <1>1, <1>2, <1>7 DEF TableTypes
<1>9. TableInv'
    BY <1>1, <1>2, <1>3, <1>4 DEF TableInv, IsActive
<1>10. OneHost'
    BY <1>1, <1>2, <1>3 DEF OneHost
<1> QED
    BY <1>6, <1>8, <1>9, <1>10

\* The packets of a round are taken.
LEMMA DeliverKeeps ==
    ASSUME CInv, Deliver
    PROVE  CInv'
<1>1. sourcelist' = [s \in DOMAIN sourcelist |-> [sourcelist[s] EXCEPT !.data = {}]]
      /\ UNCHANGED <<counts, owndata>>
    BY DEF Deliver
<1>2. \A s \in DOMAIN sourcelist : sourcelist[s] \in Entries
    BY DEF CInv, TableTypes
<1>3. \A s \in DOMAIN sourcelist :
          /\ sourcelist'[s] \in Entries
          /\ sourcelist'[s].issender = sourcelist[s].issender
          /\ sourcelist'[s].validated = sourcelist[s].validated
          /\ sourcelist'[s].bye = sourcelist[s].bye
          /\ sourcelist'[s].rtp = sourcelist[s].rtp
          /\ sourcelist'[s].rtcp = sourcelist[s].rtcp
          /\ sourcelist'[s].data \subseteq sourcelist[s].data
    BY <1>1, <1>2 DEF Entries
<1>4. sourcelist' \in [DOMAIN sourcelist -> Entries]
    BY <1>1, <1>3
<1> QED
    BY <1>1, <1>3, <1>4, SameCounts DEF counts

\* Time passes.
LEMMA TickKeeps ==
    ASSUME CInv, Tick
    PROVE  CInv'
<1>1. sourcelist' = [s \in DOMAIN sourcelist |-> Aged(s, sourcelist[s])]
      /\ UNCHANGED <<counts, owndata>>
    BY DEF Tick
<1>2. \A s \in DOMAIN sourcelist : sourcelist[s] \in Entries
    BY DEF CInv, TableTypes
<1>3. \A s \in DOMAIN sourcelist :
          /\ Aged(s, sourcelist[s]) \in Entries
          /\ Aged(s, sourcelist[s]).issender = sourcelist[s].issender
          /\ Aged(s, sourcelist[s]).validated = sourcelist[s].validated
          /\ Aged(s, sourcelist[s]).bye = sourcelist[s].bye
          /\ Aged(s, sourcelist[s]).rtp = sourcelist[s].rtp
          /\ Aged(s, sourcelist[s]).rtcp = sourcelist[s].rtcp
          /\ Aged(s, sourcelist[s]).data = sourcelist[s].data
    <2> SUFFICES ASSUME NEW s, NEW e \in Entries
                 PROVE  /\ Aged(s, e) \in Entries
                        /\ Aged(s, e).issender = e.issender
                        /\ Aged(s, e).validated = e.validated
                        /\ Aged(s, e).bye = e.bye
                        /\ Aged(s, e).rtp = e.rtp
                        /\ Aged(s, e).rtcp = e.rtcp
                        /\ Aged(s, e).data = e.data
        BY <1>2
    <2>1. \A limit \in Nat : \A age \in 0 .. limit : Older(age, limit) \in 0 .. limit
        BY DEF Older
    <2>2. PICK m \in 0 .. MemberLimit, r \in 0 .. SenderLimit, b \in 0 .. ByeLimit :
            Aged(s, e) = [e EXCEPT !.msgAge = m, !.rtpAge = r, !.byeAge = b]
        <3>1. e.msgAge \in 0 .. MemberLimit /\ e.rtpAge \in 0 .. SenderLimit /\ e.byeAge \in 0 .. ByeLimit
            BY DEF Entries
        <3> DEFINE m == IF s = owndata THEN e.msgAge ELSE Older(e.msgAge, MemberLimit)
                   r == IF e.issender THEN Older(e.rtpAge, SenderLimit) ELSE e.rtpAge
                   b == IF e.bye THEN Older(e.byeAge, ByeLimit) ELSE e.byeAge
        <3>2. m \in 0 .. MemberLimit /\ r \in 0 .. SenderLimit /\ b \in 0 .. ByeLimit
            BY <2>1, <3>1, LimitsAssumption
        <3>3. Aged(s, e) = [e EXCEPT !.msgAge = m, !.rtpAge = r, !.byeAge = b]
            BY DEF Aged
        <3> HIDE DEF m, r, b
        <3> QED
            BY <3>2, <3>3
    <2> QED
        BY <2>2 DEF Entries
<1>4. sourcelist' \in [DOMAIN sourcelist -> Entries]
    BY <1>1, <1>3
<1> QED
    BY <1>1, <1>3, <1>4, SameCounts DEF counts

\* The own entry becomes a sender's.
LEMMA SentKeeps ==
    ASSUME CInv, SentRTPPacket
    PROVE  CInv'
<1> USE DEF CInv
<1> DEFINE own == sourcelist[owndata]
           new == [own EXCEPT !.issender = TRUE, !.msgAge = 0, !.rtpAge = 0]
<1>1. own \in Entries /\ owndata \in DOMAIN sourcelist /\ UNCHANGED <<total, active, owndata>>
    BY DEF TableTypes, SentRTPPacket
<1>2. /\ new \in Entries /\ new.issender = TRUE /\ new.validated = own.validated /\ new.bye = own.bye
      /\ new.rtp = own.rtp /\ new.rtcp = own.rtcp /\ new.data = own.data
    BY <1>1, PacketTypes DEF Entries
<1>3. sourcelist' = [sourcelist EXCEPT ![owndata] = new]
    BY DEF SentRTPPacket
<1> HIDE DEF new
<1>4. /\ DOMAIN sourcelist' = DOMAIN sourcelist /\ sourcelist'[owndata] = new
      /\ \A s \in DOMAIN sourcelist \ {owndata} : sourcelist'[s] = sourcelist[s]
    BY <1>1, <1>3
<1>5. /\ Senders(sourcelist') = Senders(sourcelist) \cup {owndata}
      /\ Actives(sourcelist') = Actives(sourcelist)
      /\ owndata \in Senders(sourcelist) <=> own.issender
    BY <1>1, <1>2, <1>4 DEF Senders, Actives, IsActive
<1>6. senders' = Cardinality(Senders(sourcelist')) /\ senders' \in Nat
    <2> DEFINE A == Senders(sourcelist)
    <2>1. IsFiniteSet(A) /\ senders = Cardinality(A)
        BY FiniteCounts DEF CountsMatch, Senders
    <2>2. senders' = IF owndata \in A THEN senders ELSE senders + 1
        BY <1>5 DEF SentRTPPacket, Up
    <2>3. Senders(sourcelist') = A \cup {owndata}
        BY <1>5
    <2> HIDE DEF A
    <2> QED
        BY <2>1, <2>2, <2>3, FS_AddElement, FS_CardinalityType
<1>7. CountsMatch'
    BY <1>1, <1>4, <1>5, <1>6 DEF CountsMatch, Senders, Actives
<1>8. TableInv'
    BY <1>1, <1>2, <1>4 DEF TableInv, IsActive
<1>9. TableTypes'
    BY <1>1, <1>2, <1>3, <1>4, <1>6 DEF TableTypes
<1>10. OneHost'
    BY <1>1, <1>2, <1>4 DEF OneHost
<1> QED
    BY <1>7, <1>8, <1>9, <1>10

\* The list of collisions keeps its type.
LEMMA CollisionTypes ==
    ASSUME OtherTypes, NEW s, NEW h, NEW kind, Accept(s, h, kind) \/ Drop(s, h, kind)
    PROVE  collisions' \in [DOMAIN collisions' -> 0 .. CollisionLimit]
<1>1. CASE UNCHANGED collisions
    BY <1>1 DEF OtherTypes
<1>2. CASE collisions' = Put(collisions, <<h, kind>>, 0)
    BY <1>2, LimitsAssumption DEF OtherTypes, Put
<1> QED
    BY <1>1, <1>2 DEF Accept, Drop, OwnCollision

(* Every step.                                                              *)
LEMMA SourcesStep == CInv /\ OtherTypes /\ [Next]_vars => CInv' /\ OtherTypes'
<1> SUFFICES ASSUME CInv, OtherTypes, [Next]_vars PROVE CInv' /\ OtherTypes'
    OBVIOUS
<1>1. ASSUME NEW p \in Peers, ReceiveRtp(p) PROVE CInv' /\ OtherTypes'
    <2>1. CInv'
        BY <1>1, ReceiveKeeps, DropKeeps DEF ReceiveRtp
    <2>2. OtherTypes'
        BY <1>1, CollisionTypes DEF ReceiveRtp, Accept, Drop, OtherTypes
    <2> QED
        BY <2>1, <2>2
<1>2. ASSUME NEW p \in Peers, ReceiveRtcp(p) PROVE CInv' /\ OtherTypes'
    <2>1. CInv'
        BY <1>2, ReceiveKeeps, DropKeeps DEF ReceiveRtcp
    <2>2. OtherTypes'
        BY <1>2, CollisionTypes DEF ReceiveRtcp, Accept, Drop, OtherTypes
    <2> QED
        BY <2>1, <2>2
<1>3. ASSUME NEW p \in Peers, ReceiveBye(p) PROVE CInv' /\ OtherTypes'
    <2>1. CInv'
        BY <1>3, ReceiveKeeps, DropKeeps DEF ReceiveBye
    <2>2. OtherTypes'
        BY <1>3, CollisionTypes, BoundsAssumption DEF ReceiveBye, Accept, Drop, OtherTypes
    <2> QED
        BY <2>1, <2>2
<1>4. ASSUME NEW p \in Peers, Change(p) PROVE CInv' /\ OtherTypes'
    <2>1. UNCHANGED <<table, owndata>> /\ OtherTypes'
        BY <1>4, BoundsAssumption DEF Change, OtherTypes
    <2> QED
        BY <2>1 DEF CInv, TableTypes, TableInv, CountsMatch, OneHost, table, counts
<1>5. CASE MultipleTimeouts
    <2>1. collisions' \in [DOMAIN collisions' -> 0 .. CollisionLimit]
        BY <1>5 DEF MultipleTimeouts, OtherTypes
    <2> QED
        BY <1>5, <2>1, TimeoutsKeep DEF MultipleTimeouts, OtherTypes
<1>6. CASE Deliver
    BY <1>6, DeliverKeeps DEF Deliver, OtherTypes
<1>7. CASE SentRTPPacket
    BY <1>7, SentKeeps DEF SentRTPPacket, OtherTypes
<1>8. CASE Tick
    <2>1. \A age \in 0 .. CollisionLimit : Older(age, CollisionLimit) \in 0 .. CollisionLimit
        BY LimitsAssumption DEF Older
    <2>2. collisions' \in [DOMAIN collisions' -> 0 .. CollisionLimit]
        BY <1>8, <2>1 DEF Tick, OtherTypes
    <2> QED
        BY <1>8, <2>2, TickKeeps DEF Tick, OtherTypes
<1>9. CASE UNCHANGED vars
    BY <1>9 DEF vars, CInv, TableTypes, TableInv, CountsMatch, OneHost, table, counts, OtherTypes
<1> QED
    BY <1>1, <1>2, <1>3, <1>4, <1>5, <1>6, <1>7, <1>8, <1>9 DEF Next

\* At the start there is only the own entry.
LEMMA SourcesInit == Init => CInv /\ OtherTypes
<1> SUFFICES ASSUME Init PROVE CInv /\ OtherTypes
    OBVIOUS
<1>1. DOMAIN sourcelist = {owndata} /\ sourcelist[owndata] = OwnEntry
    BY DEF Init
<1>2. TableTypes
    BY <1>1, EntryTypes, SsrcAssumption DEF Init, TableTypes
<1>3. TableInv
    BY <1>1, EntryTypes, FS_Singleton DEF TableInv
<1>4. Senders(sourcelist) = {} /\ Actives(sourcelist) = {owndata}
    BY <1>1, EntryTypes DEF Senders, Actives
<1>5. CountsMatch
    BY <1>1, <1>4, FS_Singleton, FS_EmptySet DEF Init, CountsMatch, Senders, Actives
<1>6. OneHost
    BY <1>1, EntryTypes DEF OneHost
<1>7. OtherTypes
    BY BoundsAssumption DEF Init, OtherTypes
<1> QED
    BY <1>2, <1>3, <1>5, <1>6, <1>7 DEF CInv

\* The invariant holds.
LEMMA SourcesInv == Spec => [](CInv /\ OtherTypes)
    BY SourcesInit, SourcesStep, PTL DEF Spec

(* Every variable of the source table keeps its type; the counters, which   *)
(* are lowered too, stay natural numbers.                                   *)
THEOREM SourcesTypeCorrect == Spec => []TypeOK
<1>1. CInv /\ OtherTypes => TypeOK
    BY DEF CInv, TableTypes, OtherTypes, TypeOK
<1> QED
    BY <1>1, SourcesInv, PTL

(* totalcount, sendercount and activecount are right between any two        *)
(* packets, however entries come, change, are replaced and time out.        *)
THEOREM CountersRight == Spec => []CountsMatch
<1>1. CInv => CountsMatch
    BY DEF CInv
<1> QED
    BY <1>1, SourcesInv, PTL

(* A source is one host's, and nobody is taken for the own entry.           *)
THEOREM SourceOfOneHost == Spec => []OneHost
<1>1. CInv => OneHost
    BY DEF CInv
<1> QED
    BY <1>1, SourcesInv, PTL

-----------------------------------------------------------------------------
(* The packets of one source.  First numbers modulo Wrap.                   *)

\* Division, with its remainder.
LEMMA DivMod ==
    ASSUME NEW x \in Int, NEW w \in Nat \ {0}
    PROVE  x % w \in 0 .. w - 1 /\ x \div w \in Int /\ x = w * (x \div w) + (x % w)
OBVIOUS

\* A quotient and a remainder are the only ones.
LEMMA DivModUnique ==
    ASSUME NEW x \in Int, NEW q \in Int, NEW w \in Nat \ {0}, NEW r \in Nat, r < w, x = w * q + r
    PROVE  x \div w = q /\ x % w = r
OBVIOUS

\* Multiples of a greater number are greater.
LEMMA Multiples == \A w, x, y \in Int : w >= 0 /\ x <= y => w * x <= w * y
OBVIOUS

\* What the constants are.
LEMMA WrapNat ==
    /\ Wrap \in Nat \ {0} /\ Half \in Nat \ {0} /\ Wrap = 2 * Half
    /\ MaxDelay \in Nat \ {0} /\ MaxDelay < Half
BY WrapAssumption DEF Half

\* A packet's place is what its header says and the wraps before it.
LEMMA HeaderOf ==
    ASSUME offset \in Nat, NEW n \in Nat
    PROVE  Header(n) \in 0 .. Wrap - 1 /\ Cycle(n) \in Int /\ offset + n = Wrap * Cycle(n) + Header(n)
<1>1. offset + n \in Int
    OBVIOUS
<1>2. /\ (offset + n) % Wrap \in 0 .. Wrap - 1 /\ (offset + n) \div Wrap \in Int
      /\ offset + n = Wrap * ((offset + n) \div Wrap) + ((offset + n) % Wrap)
    BY <1>1, WrapNat, DivMod
<1> QED
    BY <1>2, Zenon DEF Header, Cycle

\* Of two packets the later one has wrapped as often, or more often.
LEMMA CycleMonotonic ==
    ASSUME offset \in Nat, NEW m \in Nat, NEW n \in Nat, m <= n
    PROVE  Cycle(m) <= Cycle(n)
<1>1. /\ Header(m) \in 0 .. Wrap - 1 /\ Cycle(m) \in Int /\ offset + m = Wrap * Cycle(m) + Header(m)
      /\ Header(n) \in 0 .. Wrap - 1 /\ Cycle(n) \in Int /\ offset + n = Wrap * Cycle(n) + Header(n)
    BY HeaderOf
<1>2. SUFFICES ASSUME Cycle(n) + 1 <= Cycle(m) PROVE FALSE
    BY <1>1
<1>3. Wrap * (Cycle(n) + 1) <= Wrap * Cycle(m)
    BY <1>1, <1>2, Multiples, WrapNat
<1>4. Wrap * (Cycle(n) + 1) = Wrap * Cycle(n) + Wrap
    BY <1>1, WrapNat
<1>5. Wrap * Cycle(n) \in Int /\ Wrap * Cycle(m) \in Int
    BY <1>1, WrapNat
<1> QED
    BY <1>1, <1>3, <1>4, <1>5, WrapNat

\* Two packets that are less than half the numbers apart.
LEMMA NearPackets ==
    ASSUME offset \in Nat, NEW n \in Nat, NEW ref \in Nat, n - ref < Half, ref - n < Half
    PROVE  \/ Cycle(n) = Cycle(ref) /\ Header(n) - Header(ref) = n - ref
           \/ Cycle(n) = Cycle(ref) + 1 /\ Header(n) - Header(ref) = n - ref - Wrap
           \/ Cycle(n) = Cycle(ref) - 1 /\ Header(n) - Header(ref) = n - ref + Wrap
<1>1. /\ Header(n) \in 0 .. Wrap - 1 /\ Cycle(n) \in Int /\ offset + n = Wrap * Cycle(n) + Header(n)
      /\ Header(ref) \in 0 .. Wrap - 1 /\ Cycle(ref) \in Int
      /\ offset + ref = Wrap * Cycle(ref) + Header(ref)
    BY HeaderOf
<1>2. Wrap * Cycle(n) \in Int /\ Wrap * Cycle(ref) \in Int
    BY <1>1, WrapNat
<1>3. /\ Wrap * (Cycle(ref) + 1) = Wrap * Cycle(ref) + Wrap
      /\ Wrap * (Cycle(ref) - 1) = Wrap * Cycle(ref) - Wrap
      /\ Wrap * (Cycle(ref) + 2) = Wrap * Cycle(ref) + 2 * Wrap
      /\ Wrap * (Cycle(ref) - 2) = Wrap * Cycle(ref) - 2 * Wrap
    BY <1>1, WrapNat
<1>4. ~(Cycle(n) >= Cycle(ref) + 2)
    <2>1. SUFFICES ASSUME Cycle(ref) + 2 <= Cycle(n) PROVE FALSE
        BY <1>1
    <2>2. Wrap * (Cycle(ref) + 2) <= Wrap * Cycle(n)
        BY <1>1, <2>1, Multiples, WrapNat
    <2> QED
        BY <1>1, <1>2, <1>3, <2>2, WrapNat
<1>5. ~(Cycle(n) <= Cycle(ref) - 2)
    <2>1. SUFFICES ASSUME Cycle(n) <= Cycle(ref) - 2 PROVE FALSE
        BY <1>1
    <2>2. Wrap * Cycle(n) <= Wrap * (Cycle(ref) - 2)
        BY <1>1, <2>1, Multiples, WrapNat
    <2> QED
        BY <1>1, <1>2, <1>3, <2>2, WrapNat
<1>6. Cycle(n) = Cycle(ref) \/ Cycle(n) = Cycle(ref) + 1 \/ Cycle(n) = Cycle(ref) - 1
    BY <1>1, <1>4, <1>5
<1> DEFINE fullN == Wrap * Cycle(n)
           fullRef == Wrap * Cycle(ref)
<1>10. /\ Header(n) \in Int /\ offset + n = fullN + Header(n) /\ fullN \in Int
       /\ Header(ref) \in Int /\ offset + ref = fullRef + Header(ref) /\ fullRef \in Int
       /\ Wrap * (Cycle(ref) + 1) = fullRef + Wrap
       /\ Wrap * (Cycle(ref) - 1) = fullRef - Wrap
    BY <1>1, <1>2, <1>3
<1>7. CASE Cycle(n) = Cycle(ref)
    <2>1. fullN = fullRef
        BY <1>7
    <2> HIDE DEF fullN, fullRef
    <2> QED
        BY <1>7, <1>10, <2>1, WrapNat
<1>8. CASE Cycle(n) = Cycle(ref) + 1
    <2>1. fullN = fullRef + Wrap
        BY <1>8, <1>10
    <2> HIDE DEF fullN, fullRef
    <2> QED
        BY <1>8, <1>10, <2>1, WrapNat
<1>9. CASE Cycle(n) = Cycle(ref) - 1
    <2>1. fullN = fullRef - Wrap
        BY <1>9, <1>10
    <2> HIDE DEF fullN, fullRef
    <2> QED
        BY <1>9, <1>10, <2>1, WrapNat
<1> QED
    BY <1>6, <1>7, <1>8, <1>9

\* The distances by which the code tells a wrap from a late packet.
LEMMA Distances ==
    ASSUME NEW a \in 0 .. Wrap - 1, NEW b \in 0 .. Wrap - 1, a < b
    PROVE  (a - b) % Wrap = a - b + Wrap /\ (b - a) % Wrap = b - a
<1>1. a - b = Wrap * (-1) + (a - b + Wrap) /\ b - a = Wrap * 0 + (b - a)
    BY WrapNat
<1>2. a - b + Wrap \in Nat /\ a - b + Wrap < Wrap /\ b - a \in Nat /\ b - a < Wrap
    BY WrapNat
<1> QED
    BY <1>1, <1>2, DivModUnique, WrapNat

\* The header number of an extended one, if the cycles are whole ones.
LEMMA WholeCycles ==
    ASSUME NEW c \in Int, c % Wrap = 0, NEW r \in 0 .. Wrap - 1
    PROVE  (c + r) % Wrap = r /\ (c + Wrap) % Wrap = 0
<1>1. c = Wrap * (c \div Wrap) + (c % Wrap) /\ c \div Wrap \in Int
    BY DivMod, WrapNat
<1>2. Wrap * (c \div Wrap) \in Int
    BY <1>1, WrapNat
<1>7. c = Wrap * (c \div Wrap)
    BY <1>1, <1>2
<1>3. c + r = Wrap * (c \div Wrap) + r
    BY <1>7, Zenon
<1>4. Wrap * (c \div Wrap + 1) = Wrap * (c \div Wrap) + Wrap
    <2>1. \A q \in Int : Wrap * (q + 1) = Wrap * q + Wrap
        BY WrapNat
    <2> QED
        BY <1>1, <2>1, Zenon
<1>5. c + Wrap = Wrap * (c \div Wrap + 1) + 0
    <2>1. \A p \in Int : p + 0 = p
        OBVIOUS
    <2>2. Wrap * (c \div Wrap + 1) + 0 = Wrap * (c \div Wrap + 1)
        BY <1>1, WrapNat
    <2> QED
        BY <1>4, <1>7, <2>2, Zenon
<1>6. r \in Nat /\ r < Wrap /\ 0 < Wrap /\ c + r \in Int /\ c + Wrap \in Int /\ c \div Wrap + 1 \in Int
    BY <1>1, WrapNat
<1> QED
    <2>1. (c + r) % Wrap = r
        BY <1>1, <1>3, <1>6, DivModUnique, WrapNat
    <2>2. (c + Wrap) % Wrap = 0
        BY <1>5, <1>6, DivModUnique, WrapNat
    <2> QED
        BY <2>1, <2>2

(* What Extend makes of a packet, if the numbers follow packet ref.         *)
LEMMA Extended ==
    ASSUME offset \in Nat, NEW ref \in Nat, NEW n \in Nat, n - ref < Half, ref - n < Half,
           numcycles \in Int, numcycles % Wrap = 0, exthighseqnr = numcycles + Header(ref),
           Extend(Header(n))
    PROVE  /\ numcycles' \in Int /\ numcycles' % Wrap = 0
           /\ \/ /\ Cycle(n) >= Cycle(ref)
                 /\ numcycles' + Header(n) - exthighseqnr = n - ref
                 /\ n > ref => exthighseqnr' = numcycles' + Header(n)
                 /\ n <= ref => exthighseqnr' = exthighseqnr /\ numcycles' = numcycles
              \/ /\ Cycle(n) < Cycle(ref)
                 /\ numcycles' + Header(n) - exthighseqnr = n - ref + Wrap
                 /\ exthighseqnr' = numcycles' + Header(n)
<1>1. /\ Header(n) \in 0 .. Wrap - 1 /\ Cycle(n) \in Int
      /\ Header(ref) \in 0 .. Wrap - 1 /\ Cycle(ref) \in Int
    BY HeaderOf
<1>2. exthighseqnr % Wrap = Header(ref) /\ (numcycles + Wrap) % Wrap = 0
    BY <1>1, WholeCycles
<1>3. CASE Cycle(n) = Cycle(ref) /\ Header(n) - Header(ref) = n - ref
    <2>1. ASSUME Header(n) < Header(ref)
          PROVE  ~((Header(n) - Header(ref)) % Wrap < (Header(ref) - Header(n)) % Wrap)
        <3>1. /\ (Header(n) - Header(ref)) % Wrap = Header(n) - Header(ref) + Wrap
              /\ (Header(ref) - Header(n)) % Wrap = Header(ref) - Header(n)
            BY <1>1, <2>1, Distances
        <3>2. ~(Header(n) - Header(ref) + Wrap < Header(ref) - Header(n))
            BY <1>1, <1>3, WrapNat
        <3> QED
            BY <3>1, <3>2
    <2>2. numcycles' = numcycles /\ exthighseqnr' = IF Header(n) >= Header(ref) THEN numcycles' + Header(n)
                                                   ELSE exthighseqnr
        BY <1>1, <1>2, <2>1 DEF Extend
    <2> QED
        BY <1>1, <1>3, <2>2
<1>4. CASE Cycle(n) = Cycle(ref) + 1 /\ Header(n) - Header(ref) = n - ref - Wrap
    <2>1. Header(n) < Header(ref)
        BY <1>1, <1>4, WrapNat
    <2>2. (Header(n) - Header(ref)) % Wrap < (Header(ref) - Header(n)) % Wrap
        <3>1. /\ (Header(n) - Header(ref)) % Wrap = Header(n) - Header(ref) + Wrap
              /\ (Header(ref) - Header(n)) % Wrap = Header(ref) - Header(n)
            BY <1>1, <2>1, Distances
        <3>2. Header(n) - Header(ref) + Wrap < Header(ref) - Header(n)
            BY <1>1, <1>4, WrapNat
        <3> QED
            BY <3>1, <3>2
    <2>3. numcycles' = numcycles + Wrap /\ exthighseqnr' = numcycles' + Header(n)
        BY <1>2, <2>1, <2>2 DEF Extend
    <2>4. n > ref
        <3>1. SUFFICES ASSUME n <= ref PROVE FALSE
            OBVIOUS
        <3>2. Cycle(n) <= Cycle(ref)
            BY <3>1, CycleMonotonic
        <3> QED
            BY <1>1, <1>4, <3>2
    <2> QED
        BY <1>1, <1>2, <1>4, <2>3, <2>4, WrapNat
<1>5. CASE Cycle(n) = Cycle(ref) - 1 /\ Header(n) - Header(ref) = n - ref + Wrap
    <2>1. Header(n) > Header(ref)
        BY <1>1, <1>5, WrapNat
    <2>2. numcycles' = numcycles /\ exthighseqnr' = numcycles' + Header(n)
        BY <1>1, <1>2, <2>1 DEF Extend
    <2> QED
        BY <1>1, <1>2, <1>5, <2>2, WrapNat
<1> QED
    BY <1>3, <1>4, <1>5, NearPackets

\* A set of naturals has a least element.
LEMMA LeastOf ==
    ASSUME NEW T, T \subseteq Nat, T # {}
    PROVE  \E x \in T : \A y \in T : x <= y
<1>1. PICK x \in T : \A y \in T : ~(<<y, x>> \in OpToRel(<, Nat))
    BY WFMin, NatLessThanWellFounded
<1>2. \A y \in T : ~(y < x)
    BY <1>1 DEF OpToRel
<1> QED
    BY <1>2

\* The greatest element of a set of places in a list.
LEMMA GreatestOf ==
    ASSUME NEW k \in Nat, NEW S, S \subseteq 1 .. k, S # {}
    PROVE  Max(S) \in S /\ \A y \in S : Max(S) >= y
<1> DEFINE T == {k - i : i \in S}
<1>0. \A i \in S : i \in Nat /\ i <= k
    OBVIOUS
<1>1. T \subseteq Nat /\ T # {}
    <2>1. PICK i \in S : TRUE
        OBVIOUS
    <2>2. k - i \in T
        BY <2>1
    <2>3. \A j \in S : k - j \in Nat
        BY <1>0
    <2> QED
        BY <2>2, <2>3
<1>2. PICK x \in T : \A y \in T : x <= y
    BY <1>1, LeastOf
<1>3. PICK i \in S : x = k - i
    BY <1>2
<1>4. ASSUME NEW y \in S PROVE i >= y
    <2>1. k - i <= k - y
        BY <1>2, <1>3
    <2> QED
        BY <1>0, <2>1
<1> QED
    BY <1>4 DEF Max

\* What InsertAt makes of a sequence.
LEMMA InsertAtIs ==
    ASSUME NEW S, NEW list \in Seq(S), NEW k \in 1 .. Len(list) + 1, NEW e \in S
    PROVE  /\ InsertAt(list, k, e) \in Seq(S)
           /\ Len(InsertAt(list, k, e)) = Len(list) + 1
           /\ \A i \in 1 .. Len(list) + 1 :
                  InsertAt(list, k, e)[i] = IF i < k THEN list[i] ELSE IF i = k THEN e ELSE list[i - 1]
<1> DEFINE n == Len(list)
           head == SubSeq(list, 1, k - 1)
           tail == SubSeq(list, k, n)
<1>1. n \in Nat /\ k - 1 \in Int /\ k - 1 \in 0 .. n /\ \A i \in 1 .. n : list[i] \in S
    BY LenProperties, ElementOfSeq
<1>2. /\ head \in Seq(S) /\ Len(head) = k - 1
      /\ \A i \in 1 .. k - 1 : head[i] = list[i]
    BY <1>1, SubSeqProperties
<1>3. /\ tail \in Seq(S) /\ Len(tail) = n - k + 1
      /\ \A i \in 1 .. n - k + 1 : tail[i] = list[k + i - 1]
    BY <1>1, SubSeqProperties
<1>4. <<e>> \in Seq(S) /\ Len(<<e>>) = 1 /\ <<e>>[1] = e
    OBVIOUS
<1> DEFINE upto == head \o <<e>>
<1> HIDE DEF head, tail
<1>5. /\ upto \in Seq(S) /\ Len(upto) = k
      /\ \A i \in 1 .. k : upto[i] = IF i < k THEN list[i] ELSE e
    <2>1. /\ upto \in Seq(S) /\ Len(upto) = k
          /\ \A i \in 1 .. k : upto[i] = IF i <= k - 1 THEN head[i] ELSE <<e>>[i - (k - 1)]
        BY <1>2, <1>4, ConcatProperties
    <2>2. \A i \in 1 .. k : i < k => i \in 1 .. k - 1
        OBVIOUS
    <2>3. \A i \in 1 .. k : ~(i < k) => i - (k - 1) = 1
        OBVIOUS
    <2> QED
        BY <1>2, <1>4, <2>1, <2>2, <2>3
<1> HIDE DEF upto
<1>6. /\ upto \o tail \in Seq(S) /\ Len(upto \o tail) = n + 1
      /\ \A i \in 1 .. n + 1 : (upto \o tail)[i] = IF i <= k THEN upto[i] ELSE tail[i - k]
    <2>1. /\ upto \o tail \in Seq(S) /\ Len(upto \o tail) = Len(upto) + Len(tail)
          /\ \A i \in 1 .. Len(upto) + Len(tail) :
                 (upto \o tail)[i] = IF i <= Len(upto) THEN upto[i] ELSE tail[i - Len(upto)]
        BY <1>3, <1>5, ConcatProperties
    <2>2. Len(upto) = k /\ Len(upto) + Len(tail) = n + 1
        BY <1>1, <1>3, <1>5
    <2> QED
        BY <2>1, <2>2
<1>7. \A i \in 1 .. n + 1 : (upto \o tail)[i] =
          IF i < k THEN list[i] ELSE IF i = k THEN e ELSE list[i - 1]
    <2> TAKE i \in 1 .. n + 1
    <2>1. CASE i < k
        BY <1>5, <1>6, <2>1
    <2>2. CASE i = k
        BY <1>5, <1>6, <2>2
    <2>3. CASE i > k
        <3>1. i - k \in 1 .. n - k + 1 /\ k + (i - k) - 1 = i - 1
            BY <1>1, <2>3
        <3>2. tail[i - k] = list[i - 1]
            BY <1>3, <3>1
        <3> QED
            BY <1>6, <2>3, <3>2
    <2> QED
        <3>1. i < k \/ i = k \/ i > k
            BY <1>1
        <3>2. i > k => ~(i < k) /\ i # k
            BY <1>1
        <3> QED
            BY <2>1, <2>2, <2>3, <3>1, <3>2
<1>8. InsertAt(list, k, e) = upto \o tail
    BY DEF InsertAt, upto, head, tail
<1> QED
    BY <1>6, <1>7, <1>8

\* A packet in the list.
Datagram == [packet : Nat, ext : Int]

\* No two packets with the same extended number, and the least one first.
Sorted(list) == \A i, j \in 1 .. Len(list) : i < j => list[i].ext < list[j].ext

(* Insert keeps the list sorted, and adds the packet unless one with the    *)
(* same extended number is there.                                           *)
LEMMA Inserted ==
    ASSUME packetlist \in Seq(Datagram), Sorted(packetlist), NEW p \in Datagram, Insert(p)
    PROVE  /\ packetlist' \in Seq(Datagram) /\ Sorted(packetlist')
           /\ \/ packetlist' = packetlist /\ \E q \in ToSet(packetlist) : q.ext = p.ext
              \/ ToSet(packetlist') = ToSet(packetlist) \cup {p}
<1> DEFINE n == Len(packetlist)
           places == {i \in DOMAIN packetlist : packetlist[i].ext <= p.ext}
           place == IF places = {} THEN 0 ELSE Max(places)
<1>1. /\ n \in Nat /\ DOMAIN packetlist = 1 .. n
      /\ \A i \in 1 .. n : packetlist[i] \in Datagram
      /\ \A i \in 1 .. n : packetlist[i].ext \in Int
      /\ p.ext \in Int
    <2>1. \A i \in 1 .. n : packetlist[i] \in Datagram
        BY ElementOfSeq
    <2> QED
        BY <2>1, LenProperties DEF Datagram
<1>2. /\ place \in 0 .. n /\ (place # 0 => packetlist[place].ext <= p.ext)
      /\ \A i \in 1 .. n : packetlist[i].ext <= p.ext => i <= place
    <2>1. CASE places = {}
        BY <1>1, <2>1
    <2>2. CASE places # {}
        <3>1. places \subseteq 1 .. n
            BY <1>1
        <3>2. Max(places) \in places /\ \A y \in places : Max(places) >= y
            BY <1>1, <2>2, <3>1, GreatestOf
        <3> QED
            BY <1>1, <2>2, <3>1, <3>2
    <2> QED
        BY <2>1, <2>2
<1>3. packetlist' = IF place # 0 /\ packetlist[place].ext = p.ext THEN packetlist
                    ELSE InsertAt(packetlist, place + 1, p)
    BY DEF Insert
<1> HIDE DEF place
<1>4. CASE place # 0 /\ packetlist[place].ext = p.ext
    <2>1. packetlist' = packetlist
        BY <1>3, <1>4
    <2>2. packetlist[place] \in ToSet(packetlist)
        BY <1>1, <1>2, <1>4 DEF ToSet
    <2> QED
        BY <1>4, <2>1, <2>2
<1>5. CASE ~(place # 0 /\ packetlist[place].ext = p.ext)
    <2>1. packetlist' = InsertAt(packetlist, place + 1, p)
        BY <1>3, <1>5
    <2>2. place + 1 \in 1 .. n + 1
        BY <1>1, <1>2
    <2>3. /\ packetlist' \in Seq(Datagram) /\ Len(packetlist') = n + 1
          /\ \A i \in 1 .. n + 1 : packetlist'[i] = IF i < place + 1 THEN packetlist[i]
                                   ELSE IF i = place + 1 THEN p ELSE packetlist[i - 1]
        BY <2>1, <2>2, InsertAtIs
    <2>4. /\ \A i \in 1 .. place : packetlist'[i] = packetlist[i] /\ i \in 1 .. n
          /\ packetlist'[place + 1] = p
          /\ \A i \in place + 2 .. n + 1 : packetlist'[i] = packetlist[i - 1] /\ i - 1 \in 1 .. n
        BY <1>1, <1>2, <2>3
    <2>5. \A i \in 1 .. place : packetlist[i].ext < p.ext
        <3> TAKE i \in 1 .. place
        <3>1. packetlist[place].ext < p.ext /\ place \in 1 .. n /\ i \in 1 .. n
            BY <1>1, <1>2, <1>5
        <3>2. i = place \/ packetlist[i].ext < packetlist[place].ext
            BY <1>1, <1>2, <3>1 DEF Sorted
        <3> QED
            BY <1>1, <3>1, <3>2
    <2>6. \A i \in place + 1 .. n : packetlist[i].ext > p.ext
        BY <1>1, <1>2
    <2>7. Sorted(packetlist')
        <3> SUFFICES ASSUME NEW i \in 1 .. n + 1, NEW j \in 1 .. n + 1, i < j
                     PROVE  packetlist'[i].ext < packetlist'[j].ext
            BY <2>3 DEF Sorted
        <3>1. CASE j <= place
            <4>1. /\ packetlist'[i] = packetlist[i] /\ packetlist'[j] = packetlist[j]
                  /\ i \in 1 .. n /\ j \in 1 .. n
                BY <1>1, <1>2, <2>4, <3>1
            <4> QED
                BY <4>1 DEF Sorted
        <3>2. CASE j = place + 1
            <4>1. packetlist'[i] = packetlist[i] /\ packetlist'[j] = p /\ i \in 1 .. place
                BY <1>1, <1>2, <2>4, <3>2
            <4> QED
                BY <2>5, <4>1
        <3>3. CASE j > place + 1
            <4>1. packetlist'[j] = packetlist[j - 1] /\ j - 1 \in place + 1 .. n /\ j - 1 \in 1 .. n
                BY <1>1, <1>2, <2>4, <3>3
            <4>2. CASE i = place + 1
                BY <2>4, <2>6, <4>1, <4>2, <1>1
            <4>3. CASE i <= place
                <5>1. packetlist'[i] = packetlist[i] /\ i \in 1 .. n /\ i < j - 1
                    BY <1>1, <1>2, <2>4, <3>3, <4>3
                <5> QED
                    BY <4>1, <5>1 DEF Sorted
            <4>4. CASE i > place + 1
                <5>1. packetlist'[i] = packetlist[i - 1] /\ i - 1 \in 1 .. n /\ i - 1 < j - 1
                    BY <1>1, <1>2, <2>4, <4>4
                <5> QED
                    BY <4>1, <5>1 DEF Sorted
            <4> QED
                BY <1>1, <1>2, <4>2, <4>3, <4>4
        <3> QED
            BY <1>1, <1>2, <3>1, <3>2, <3>3
    <2>8. ToSet(packetlist') = ToSet(packetlist) \cup {p}
        <3>1. DOMAIN packetlist' = 1 .. n + 1
            BY <2>3, LenProperties
        <3>2. ASSUME NEW q \in ToSet(packetlist') PROVE q \in ToSet(packetlist) \cup {p}
            <4>1. PICK i \in 1 .. n + 1 : q = packetlist'[i]
                BY <3>1 DEF ToSet
            <4>2. CASE i <= place
                <5>1. q = packetlist[i] /\ i \in 1 .. n
                    BY <1>1, <1>2, <2>4, <4>1, <4>2
                <5> QED
                    BY <1>1, <5>1 DEF ToSet
            <4>3. CASE i = place + 1
                BY <2>4, <4>1, <4>3
            <4>4. CASE i > place + 1
                <5>1. q = packetlist[i - 1] /\ i - 1 \in 1 .. n
                    BY <1>1, <1>2, <2>4, <4>1, <4>4
                <5> QED
                    BY <1>1, <5>1 DEF ToSet
            <4> QED
                BY <1>1, <1>2, <4>2, <4>3, <4>4
        <3>3. p \in ToSet(packetlist')
            BY <1>1, <1>2, <2>2, <2>4, <3>1 DEF ToSet
        <3>4. ASSUME NEW q \in ToSet(packetlist) PROVE q \in ToSet(packetlist')
            <4>1. PICK i \in 1 .. n : q = packetlist[i]
                BY <1>1 DEF ToSet
            <4>2. CASE i <= place
                <5>1. q = packetlist'[i] /\ i \in 1 .. n + 1
                    BY <1>1, <1>2, <2>4, <4>1, <4>2
                <5> QED
                    BY <3>1, <5>1 DEF ToSet
            <4>3. CASE i > place
                <5>1. i + 1 \in place + 2 .. n + 1 /\ i + 1 \in 1 .. n + 1 /\ (i + 1) - 1 = i
                    BY <1>1, <1>2, <4>3
                <5>2. q = packetlist'[i + 1]
                    BY <2>4, <4>1, <5>1
                <5> QED
                    BY <3>1, <5>1, <5>2 DEF ToSet
            <4> QED
                BY <1>1, <1>2, <4>2, <4>3
        <3> QED
            BY <3>2, <3>3, <3>4
    <2> QED
        BY <2>3, <2>7, <2>8
<1> QED
    BY <1>4, <1>5

-----------------------------------------------------------------------------
(* The invariant.                                                           *)

\* The types.
STypes ==
    /\ offset \in Nat /\ sent \in Nat /\ sentdata \in BOOLEAN
    /\ baseseqnr \in Int /\ exthighseqnr \in Int /\ numcycles \in Int /\ savedextseqnr \in Int
    /\ packetlist \in Seq(Datagram) /\ round \in Seq(Nat)
    /\ first \in Nat /\ highest \in Nat /\ reported \in Nat
    /\ overtaken \in {"never", "once", "now"}

\* The extended number of a packet in the list is as far from the highest one as the
\* packet from ref; or it is whole cycles behind, one for each packet from before a
\* wrap that it has overtaken in this round.
Fits(p, ref) ==
    \E k \in Nat : /\ p.ext - exthighseqnr + Wrap * k = p.packet - ref
                   /\ overtaken # "now" => k = 0

(* The extended numbers follow packet ref: the latest one that came; or, if *)
(* packets were overtaken across a wrap, the latest since the last of them. *)
(* It came in this round, or one of its cycle or a later one did.           *)
Follows(ref) ==
    /\ exthighseqnr = numcycles + Header(ref)
    /\ ref <= highest /\ highest <= ref + MaxDelay /\ sent <= ref + Half
    /\ overtaken = "never" => ref = highest
    /\ round # <<>> => \E m \in ToSet(round) : Cycle(m) >= Cycle(ref)
    /\ \A p \in ToSet(packetlist) : Fits(p, ref)

\* There is such a packet; and a source that was forgotten is as at the start.
StatsInv ==
    /\ sentdata => /\ numcycles % Wrap = 0 /\ highest < sent
                   /\ \E ref \in Nat : Follows(ref)
    /\ ~sentdata => /\ highest = 0 /\ overtaken = "never"
                    /\ packetlist = <<>> /\ round = <<>>

\* The list is sorted and holds the packets of the round.
ListInv ==
    /\ Sorted(packetlist)
    /\ {p.packet : p \in ToSet(packetlist)} = ToSet(round)

\* No packet of the round is later than the latest one.
RoundInv == \A m \in ToSet(round) : m <= highest

\* Together they are inductive.
SInv == STypes /\ StatsInv /\ ListInv /\ RoundInv /\ CountedRight

\* The invariant holds at the start.
LEMMA SeqInit == SInit => SInv
<1> SUFFICES ASSUME SInit PROVE SInv
    OBVIOUS
<1>1. STypes
    <2>1. offset \in Nat
        BY FirstsAssumption, WrapNat DEF SInit
    <2>2. packetlist \in Seq(Datagram) /\ round \in Seq(Nat)
        BY DEF SInit
    <2>3. /\ sent = 0 /\ sentdata = FALSE /\ baseseqnr = 0 /\ exthighseqnr = 0 /\ numcycles = 0
          /\ savedextseqnr = 0 /\ first = 0 /\ highest = 0 /\ reported = 0 /\ overtaken = "never"
        BY DEF SInit
    <2>4. baseseqnr \in Int /\ exthighseqnr \in Int /\ numcycles \in Int /\ savedextseqnr \in Int
        BY <2>3
    <2>5. first \in Nat /\ highest \in Nat /\ reported \in Nat /\ sent \in Nat
        BY <2>3
    <2> QED
        BY <2>1, <2>2, <2>3, <2>4, <2>5, Zenon DEF STypes
<1>2. StatsInv
    BY DEF SInit, StatsInv
<1>3. ListInv
    BY DEF SInit, ListInv, Sorted, ToSet
<1>4. RoundInv
    BY DEF SInit, RoundInv, ToSet
<1>5. CountedRight
    BY DEF SInit, CountedRight
<1> QED
    BY <1>1, <1>2, <1>3, <1>4, <1>5 DEF SInv

\* What is in a list or a round.
LEMMA InToSet ==
    ASSUME NEW S, NEW list \in Seq(S)
    PROVE  ToSet(list) \subseteq S /\ (ToSet(list) = {} <=> list = <<>>)
<1>1. DOMAIN list = 1 .. Len(list) /\ Len(list) \in Nat /\ \A i \in 1 .. Len(list) : list[i] \in S
    BY LenProperties, ElementOfSeq
<1>2. list # <<>> => Len(list) \in Nat \ {0}
    BY EmptySeq
<1>3. list # <<>> => list[1] \in ToSet(list)
    BY <1>1, <1>2 DEF ToSet
<1>4. ToSet(<<>>) = {}
    BY DEF ToSet
<1> QED
    BY <1>1, <1>3, <1>4 DEF ToSet

\* The datagrams of the round, when one more has come.
LEMMA RoundNoted ==
    ASSUME round \in Seq(Nat), NEW n \in Nat, Note(n)
    PROVE  round' \in Seq(Nat) /\ ToSet(round') = ToSet(round) \cup {n} /\ round' # <<>>
<1>1. round' = Append(round, n)
    BY DEF Note
<1>2. /\ round' \in Seq(Nat) /\ Len(round') = Len(round) + 1
      /\ \A i \in 1 .. Len(round) : round'[i] = round[i]
      /\ round'[Len(round) + 1] = n
    BY <1>1
<1>3. DOMAIN round' = 1 .. Len(round) + 1 /\ DOMAIN round = 1 .. Len(round) /\ Len(round) \in Nat
    BY <1>2, LenProperties
<1>4. ToSet(round') = ToSet(round) \cup {n}
    <2>1. ASSUME NEW m \in ToSet(round') PROVE m \in ToSet(round) \cup {n}
        <3>1. PICK i \in 1 .. Len(round) + 1 : m = round'[i]
            BY <1>3 DEF ToSet
        <3>2. CASE i = Len(round) + 1
            BY <1>2, <3>1, <3>2
        <3>3. CASE i \in 1 .. Len(round)
            BY <1>2, <1>3, <3>1, <3>3 DEF ToSet
        <3> QED
            BY <1>3, <3>2, <3>3
    <2>2. ASSUME NEW m \in ToSet(round) PROVE m \in ToSet(round')
        <3>1. PICK i \in 1 .. Len(round) : m = round[i]
            BY <1>3 DEF ToSet
        <3>2. i \in 1 .. Len(round) + 1 /\ m = round'[i]
            BY <1>2, <1>3, <3>1
        <3> QED
            BY <1>3, <3>2 DEF ToSet
    <2>3. n \in ToSet(round')
        <3>1. Len(round) + 1 \in 1 .. Len(round) + 1
            BY <1>3
        <3> QED
            BY <1>2, <1>3, <3>1 DEF ToSet
    <2> QED
        BY <2>1, <2>2, <2>3
<1>5. round' # <<>>
    BY <1>2, <1>3
<1> QED
    BY <1>2, <1>4, <1>5

(* The first packet of a source.                                            *)
LEMMA ReceiveFirst ==
    ASSUME SInv, ~sentdata, NEW n \in Nat, n >= sent - MaxDelay - 1, n <= sent - 1, Receive(n)
    PROVE  SInv'
<1> DEFINE p == [packet |-> n, ext |-> exthighseqnr']
<1>1. AcceptFirst(Header(n)) /\ Insert(p) /\ Note(n) /\ UNCHANGED <<offset, sent, reported>>
    BY DEF Receive
<1>2. offset \in Nat /\ sent \in Nat /\ packetlist = <<>> /\ round = <<>> /\ overtaken = "never"
    BY DEF SInv, STypes, StatsInv
<1>3. Header(n) \in 0 .. Wrap - 1
    BY <1>2, HeaderOf
<1>4. /\ sentdata' /\ numcycles' \in {0, Wrap}
      /\ baseseqnr' \in Int /\ exthighseqnr' = baseseqnr' + 1 /\ savedextseqnr' = baseseqnr'
      /\ exthighseqnr' = numcycles' + Header(n)
    BY <1>1, <1>3, WrapNat DEF AcceptFirst
<1>16. /\ baseseqnr' \in Int /\ exthighseqnr' = baseseqnr' + 1 /\ exthighseqnr' \in Int
       /\ savedextseqnr' = baseseqnr'
    BY <1>4
<1>5. 0 % Wrap = 0 /\ Wrap % Wrap = 0
    <2>1. 0 = Wrap * 0 + 0 /\ Wrap = Wrap * 1 + 0
        BY WrapNat
    <2> QED
        BY <2>1, DivModUnique, WrapNat
<1>6. first' = n /\ highest' = n
    BY <1>1 DEF Note
<1>7. overtaken' = "never"
    BY <1>1, <1>2 DEF Note, Overtaken, ToSet
<1>8. /\ packetlist' \in Seq(Datagram) /\ Sorted(packetlist') /\ ToSet(packetlist') = {p}
    <2>1. p \in Datagram
        BY <1>4 DEF Datagram
    <2>2. packetlist \in Seq(Datagram) /\ Sorted(packetlist) /\ ToSet(packetlist) = {}
        BY <1>2 DEF SInv, STypes, ListInv, ToSet
    <2> HIDE DEF p
    <2> QED
        BY <1>1, <2>1, <2>2, Inserted
<1>9. round' \in Seq(Nat) /\ ToSet(round') = {n} /\ round' # <<>>
    <2>1. ToSet(round) = {} /\ round \in Seq(Nat)
        BY <1>2 DEF ToSet, SInv, STypes
    <2> QED
        BY <1>1, <2>1, RoundNoted
<1>10. STypes'
    BY <1>1, <1>2, <1>4, <1>6, <1>7, <1>8, <1>9, WrapNat DEF STypes, SInv
<1>11. Follows(n)'
    <2>1. exthighseqnr' = numcycles' + Header(n)'
        BY <1>1, <1>4 DEF Header
    <2>2. n <= highest' /\ highest' <= n + MaxDelay /\ sent' <= n + Half /\ n = highest'
        BY <1>1, <1>2, <1>6, WrapNat
    <2>4. \E m \in ToSet(round)' : Cycle(m)' >= Cycle(n)'
        <3>1. n \in ToSet(round)'
            BY <1>9
        <3>2. Cycle(n)' = Cycle(n) /\ Cycle(n) \in Int
            BY <1>1, <1>2, HeaderOf DEF Cycle
        <3> QED
            BY <3>1, <3>2
    <2>3. \A q \in ToSet(packetlist)' : Fits(q, n)'
        <3>3. \A q \in ToSet(packetlist') : q.ext = exthighseqnr' /\ q.packet = n
            BY <1>8
        <3>4. exthighseqnr' - exthighseqnr' + Wrap * 0 = n - n
            <4>1. PICK x \in Int : x = exthighseqnr'
                BY <1>16
            <4>2. PICK w \in Nat : w = Wrap
                BY WrapNat
            <4>3. x - x + w * 0 = n - n
                OBVIOUS
            <4> QED
                BY <4>1, <4>2, <4>3
        <3> QED
            BY <3>3, <3>4 DEF Fits
    <2> QED
        BY <2>1, <2>2, <2>3, <2>4 DEF Follows
<1>12. StatsInv'
    BY <1>1, <1>2, <1>4, <1>5, <1>6, <1>11 DEF StatsInv
<1>13. ListInv'
    BY <1>8, <1>9 DEF ListInv
<1>14. RoundInv'
    BY <1>6, <1>9 DEF RoundInv
<1>15. CountedRight'
    <2>1. \A x, y \in Int : x = y + 1 => x - y = n - n + 1
        OBVIOUS
    <2>2. exthighseqnr' - baseseqnr' = n - n + 1
        BY <1>16, <2>1, Zenon
    <2> QED
        BY <1>6, <1>16, <2>2 DEF CountedRight
<1> QED
    BY <1>10, <1>12, <1>13, <1>14, <1>15 DEF SInv
\* The packets in the list.
LEMMA InList ==
    ASSUME SInv
    PROVE  \A p \in ToSet(packetlist) : p \in Datagram /\ p.ext \in Int /\ p.packet \in Nat
<1>1. packetlist \in Seq(Datagram)
    BY DEF SInv, STypes
<1>2. ToSet(packetlist) \subseteq Datagram
    BY <1>1, InToSet
<1> QED
    BY <1>2 DEF Datagram

\* Distances from a point, when it moves.
LEMMA Shifted ==
    \A x, y, c, f, g, r, s \in Int :
        x - f + c = y - r /\ g - f = s - r => x - g + c = y - s
OBVIOUS

(* A later packet: what becomes of the numbers.                             *)
LEMMA ReceiveNumbers ==
    ASSUME SInv, sentdata, NEW n \in Nat, n >= sent - MaxDelay - 1, n <= sent - 1, Receive(n)
    PROVE  /\ numcycles' \in Int /\ exthighseqnr' \in Int /\ numcycles' % Wrap = 0
           /\ highest' \in Nat /\ highest' < sent /\ n <= highest' /\ highest <= highest'
           /\ highest' = n \/ highest' = highest
           /\ overtaken' \in {"never", "once", "now"}
           /\ overtaken' = "never" => /\ overtaken = "never" /\ Cycle(highest) <= Cycle(n)
                                      /\ exthighseqnr' - exthighseqnr = highest' - highest
           /\ \E ref \in Nat :
                 /\ exthighseqnr' = numcycles' + Header(ref)
                 /\ ref <= highest' /\ highest' <= ref + MaxDelay /\ sent <= ref + Half
                 /\ overtaken' = "never" => ref = highest'
                 /\ numcycles' + Header(n) - exthighseqnr' = n - ref
                 /\ Cycle(n) >= Cycle(ref) \/ \E m \in ToSet(round) : Cycle(m) >= Cycle(ref)
                 /\ \A p \in ToSet(packetlist) : Fits(p, ref)'
<1>1. Extend(Header(n)) /\ Note(n) /\ UNCHANGED <<offset, sent>>
    BY DEF Receive
<1>2. PICK ref \in Nat : Follows(ref)
    BY DEF SInv, StatsInv
<1>3. /\ offset \in Nat /\ sent \in Nat /\ highest \in Nat /\ highest < sent
      /\ numcycles \in Int /\ exthighseqnr \in Int /\ numcycles % Wrap = 0
      /\ overtaken \in {"never", "once", "now"}
    BY DEF SInv, STypes, StatsInv
<1>15. ref \in Nat
    BY <1>2
<1>4. /\ exthighseqnr = numcycles + Header(ref)
      /\ ref <= highest /\ highest <= ref + MaxDelay /\ sent <= ref + Half
      /\ overtaken = "never" => ref = highest
    BY <1>2 DEF Follows
<1>5. n - ref < Half /\ ref - n < Half
    BY <1>3, <1>4, WrapNat
<1>6. /\ Header(n) \in Int /\ Header(ref) \in Int /\ Cycle(n) \in Int /\ Cycle(ref) \in Int
      /\ Cycle(highest) \in Int
    BY <1>3, HeaderOf, WrapNat
<1>7. highest' = IF n < highest THEN highest ELSE n
    BY <1>1 DEF Note
<1>8. /\ highest' \in Nat /\ highest' < sent /\ n <= highest' /\ highest <= highest'
      /\ highest' = n \/ highest' = highest
    BY <1>3, <1>7
<1>9. \A m \in ToSet(round) : m \in Nat /\ m <= highest
    BY InToSet DEF SInv, STypes, RoundInv
<1>10. \A p \in ToSet(packetlist) : p.ext \in Int /\ p.packet \in Nat
    BY InList
<1>11. /\ numcycles' \in Int /\ numcycles' % Wrap = 0
       /\ \/ /\ Cycle(n) >= Cycle(ref)
             /\ numcycles' + Header(n) - exthighseqnr = n - ref
             /\ n > ref => exthighseqnr' = numcycles' + Header(n)
             /\ n <= ref => exthighseqnr' = exthighseqnr /\ numcycles' = numcycles
          \/ /\ Cycle(n) < Cycle(ref)
             /\ numcycles' + Header(n) - exthighseqnr = n - ref + Wrap
             /\ exthighseqnr' = numcycles' + Header(n)
    BY <1>1, <1>3, <1>4, <1>5, Extended
<1>12. Overtaken(n) <=> Cycle(highest) > Cycle(n)
    BY DEF Overtaken
<1>13. CASE /\ Cycle(n) >= Cycle(ref)
            /\ numcycles' + Header(n) - exthighseqnr = n - ref
            /\ n > ref => exthighseqnr' = numcycles' + Header(n)
            /\ n <= ref => exthighseqnr' = exthighseqnr /\ numcycles' = numcycles
    <2>1. ASSUME overtaken' = "never" PROVE overtaken = "never" /\ Cycle(highest) <= Cycle(n)
        BY <1>1, <1>6, <1>12, <2>1 DEF Note
    <2>2. /\ overtaken' \in {"never", "once", "now"}
          /\ overtaken' # "now" => overtaken # "now"
        BY <1>1, <1>3 DEF Note
    <2> DEFINE next == IF n > ref THEN n ELSE ref
    <2>4. /\ next \in Nat /\ exthighseqnr' = numcycles' + Header(next)
          /\ exthighseqnr' \in Int
          /\ exthighseqnr' - exthighseqnr = next - ref
          /\ numcycles' + Header(n) - exthighseqnr' = n - next
          /\ Cycle(n) >= Cycle(next)
        BY <1>3, <1>4, <1>6, <1>11, <1>13
    <2>5. /\ next <= highest' /\ highest' <= next + MaxDelay /\ sent <= next + Half
          /\ overtaken' = "never" => next = highest'
        BY <1>3, <1>4, <1>7, <2>1, WrapNat
    <2>6. \A p \in ToSet(packetlist) : Fits(p, next)'
        <3> TAKE p \in ToSet(packetlist)
        <3>1. PICK k \in Nat : /\ p.ext - exthighseqnr + Wrap * k = p.packet - ref
                               /\ overtaken # "now" => k = 0
            BY <1>2 DEF Follows, Fits
        <3> HIDE DEF next
        <3>2. /\ p.ext \in Int /\ p.packet \in Int /\ Wrap * k \in Int
              /\ exthighseqnr' \in Int /\ exthighseqnr \in Int /\ next \in Int
            BY <1>3, <1>10, <2>4, WrapNat
        <3>3. p.ext - exthighseqnr' + Wrap * k = p.packet - next
            BY <1>15, <2>4, <3>1, <3>2, Shifted
        <3>4. overtaken' # "now" => k = 0
            BY <2>2, <3>1
        <3> QED
            BY <3>3, <3>4 DEF Fits
    <2>7. overtaken' = "never" => exthighseqnr' - exthighseqnr = highest' - highest
        BY <1>4, <2>1, <2>4, <2>5
    <2> HIDE DEF next
    <2> QED
        BY <1>3, <1>8, <1>11, <2>1, <2>2, <2>4, <2>5, <2>6, <2>7
<1>14. CASE /\ Cycle(n) < Cycle(ref)
            /\ numcycles' + Header(n) - exthighseqnr = n - ref + Wrap
            /\ exthighseqnr' = numcycles' + Header(n)
    <2>1. Cycle(ref) <= Cycle(highest)
        BY <1>3, <1>4, CycleMonotonic
    <2>2. Cycle(highest) > Cycle(n)
        BY <1>6, <1>14, <2>1
    <2>3. n < highest
        <3>1. SUFFICES ASSUME highest <= n PROVE FALSE
            BY <1>3
        <3>2. Cycle(highest) <= Cycle(n)
            BY <1>3, <3>1, CycleMonotonic
        <3> QED
            BY <1>6, <2>2, <3>2
    <2>4. overtaken' \in {"now", "once"}
        BY <1>1, <1>3, <1>12, <2>2 DEF Note
    <2>5. highest' = highest /\ highest' <= n + MaxDelay /\ sent <= n + Half
        BY <1>3, <1>7, <2>3, WrapNat
    <2>6. \A p \in ToSet(packetlist) : Fits(p, n)'
        <3> TAKE p \in ToSet(packetlist)
        <3>1. PICK k \in Nat : p.ext - exthighseqnr + Wrap * k = p.packet - ref
            BY <1>2 DEF Follows, Fits
        <3>2. round # <<>>
            <4>1. p.packet \in ToSet(round)
                BY DEF SInv, ListInv
            <4> QED
                BY <4>1 DEF ToSet
        <3>3. PICK m \in ToSet(round) : Cycle(m) >= Cycle(ref)
            BY <1>2, <3>2 DEF Follows
        <3>4. overtaken' = "now"
            <4>1. Cycle(m) \in Int
                BY <1>3, <1>9, HeaderOf
            <4>2. Cycle(m) > Cycle(n)
                BY <1>6, <1>14, <3>3, <4>1
            <4> QED
                BY <1>1, <4>2 DEF Note
        <3>5. exthighseqnr' - exthighseqnr = n - ref + Wrap /\ exthighseqnr' \in Int
            <4>1. numcycles' \in Int /\ Header(n) \in Int
                BY <1>6, <1>11
            <4>2. exthighseqnr' \in Int
                BY <1>14, <4>1
            <4>3. exthighseqnr' - exthighseqnr = n - ref + Wrap
                BY <1>3, <1>14, <1>15, <4>1, WrapNat
            <4> QED
                BY <4>2, <4>3
        <3>6. /\ k + 1 \in Nat /\ Wrap * (k + 1) = Wrap * k + Wrap
              /\ Wrap * k \in Int /\ Wrap \in Int
            BY WrapNat
        <3>7. p.ext \in Int /\ p.packet \in Int
            BY <1>10
        <3>8. p.ext - exthighseqnr' + (Wrap * k + Wrap) = p.packet - n
            <4>1. PICK c \in Int : c = Wrap * k
                BY <3>6
            <4>2. PICK x \in Int : x = p.ext
                BY <3>7
            <4>3. PICK y \in Int : y = p.packet
                BY <3>7
            <4>4. PICK f \in Int : f = exthighseqnr
                BY <1>3
            <4>5. PICK g \in Int : g = exthighseqnr'
                BY <3>5
            <4>6. PICK w \in Int : w = Wrap
                BY <3>6
            <4>7. x - f + c = y - ref /\ g - f = n - ref + w
                BY <3>1, <3>5, <4>1, <4>2, <4>3, <4>4, <4>5, <4>6
            <4>8. x - g + (c + w) = y - n
                BY <1>15, <4>7
            <4> QED
                BY <4>1, <4>2, <4>3, <4>5, <4>6, <4>8
        <3>9. p.ext - exthighseqnr' + Wrap * (k + 1) = p.packet - n
            BY <3>6, <3>8, Zenon
        <3> QED
            BY <3>4, <3>6, <3>9 DEF Fits
    <2>7. exthighseqnr' \in Int /\ numcycles' + Header(n) - exthighseqnr' = n - n
        BY <1>6, <1>11, <1>14
    <2> QED
        <3>1. Cycle(n) >= Cycle(n)
            BY <1>6
        <3> QED
            BY <1>3, <1>8, <1>11, <1>14, <2>3, <2>4, <2>5, <2>6, <2>7, <3>1
<1> QED
    BY <1>11, <1>13, <1>14

(* A later packet: what becomes of the list and of the round.               *)
LEMMA ReceiveLater ==
    ASSUME SInv, sentdata, NEW n \in Nat, n >= sent - MaxDelay - 1, n <= sent - 1, Receive(n)
    PROVE  SInv'
<1> DEFINE e == numcycles' + Header(n)
           p == [packet |-> n, ext |-> e]
<1>1. /\ Insert(p) /\ Note(n)
      /\ UNCHANGED <<sentdata, baseseqnr, savedextseqnr, offset, sent, reported>>
    BY DEF Receive
<1>2. first' = first
    BY <1>1 DEF Note
<1>3. offset \in Nat /\ sent \in Nat /\ highest \in Nat
    BY DEF SInv, STypes
<1>4. Header(n) \in Int /\ Cycle(n) \in Int /\ Cycle(highest) \in Int
    BY <1>3, HeaderOf
<1>5. /\ numcycles' \in Int /\ exthighseqnr' \in Int /\ numcycles' % Wrap = 0
      /\ highest' \in Nat /\ highest' < sent /\ n <= highest' /\ highest <= highest'
      /\ highest' = n \/ highest' = highest
      /\ overtaken' \in {"never", "once", "now"}
      /\ overtaken' = "never" => /\ overtaken = "never" /\ Cycle(highest) <= Cycle(n)
                                 /\ exthighseqnr' - exthighseqnr = highest' - highest
    BY ReceiveNumbers
<1>6. PICK ref \in Nat :
          /\ exthighseqnr' = numcycles' + Header(ref)
          /\ ref <= highest' /\ highest' <= ref + MaxDelay /\ sent <= ref + Half
          /\ overtaken' = "never" => ref = highest'
          /\ numcycles' + Header(n) - exthighseqnr' = n - ref
          /\ Cycle(n) >= Cycle(ref) \/ \E m \in ToSet(round) : Cycle(m) >= Cycle(ref)
          /\ \A q \in ToSet(packetlist) : Fits(q, ref)'
    BY ReceiveNumbers
<1>7. /\ round' \in Seq(Nat) /\ ToSet(round') = ToSet(round) \cup {n} /\ round' # <<>>
    BY <1>1, RoundNoted DEF SInv, STypes
<1>8. e \in Int /\ e - exthighseqnr' = n - ref
    BY <1>4, <1>5, <1>6
<1>9. /\ packetlist' \in Seq(Datagram) /\ Sorted(packetlist')
      /\ \/ packetlist' = packetlist /\ \E q \in ToSet(packetlist) : q.ext = e
         \/ ToSet(packetlist') = ToSet(packetlist) \cup {p}
    <2>1. p \in Datagram /\ p.ext = e
        BY <1>8 DEF Datagram
    <2>2. packetlist \in Seq(Datagram) /\ Sorted(packetlist)
        BY DEF SInv, STypes, ListInv
    <2> HIDE DEF p, e
    <2>3. /\ packetlist' \in Seq(Datagram) /\ Sorted(packetlist')
          /\ \/ packetlist' = packetlist /\ \E q \in ToSet(packetlist) : q.ext = p.ext
             \/ ToSet(packetlist') = ToSet(packetlist) \cup {p}
        BY <1>1, <2>1, <2>2, Inserted
    <2> QED
        BY <2>1, <2>3
<1>10. \A q \in ToSet(packetlist) : q \in Datagram /\ q.ext \in Int /\ q.packet \in Nat
    BY InList
<1>11. \A m \in ToSet(round) : m \in Nat /\ m <= highest
    BY InToSet DEF SInv, STypes, RoundInv
<1>12. {q.packet : q \in ToSet(packetlist)} = ToSet(round)
    BY DEF SInv, ListInv
<1>13. ASSUME NEW q \in ToSet(packetlist), q.ext = e PROVE q.packet = n
    <2>1. PICK k \in Nat : q.ext - exthighseqnr' + Wrap * k = q.packet - ref
        BY <1>6 DEF Fits
    <2>2. Wrap * k \in Int /\ q.packet = n + Wrap * k
        BY <1>5, <1>8, <1>10, <1>13, <2>1, WrapNat
    <2>3. q.packet <= highest /\ q.packet \in Nat
        BY <1>11, <1>12
    <2>4. CASE k >= 1
        <3>1. Wrap * 1 <= Wrap * k
            BY <2>4, Multiples, WrapNat
        <3> QED
            BY <1>3, <1>5, <2>2, <2>3, <3>1, WrapNat
    <2>5. CASE k = 0
        BY <2>2, <2>5, WrapNat
    <2> QED
        BY <2>4, <2>5
<1>14. {q.packet : q \in ToSet(packetlist')} = ToSet(round')
    <2>1. CASE packetlist' = packetlist /\ \E q \in ToSet(packetlist) : q.ext = e
        BY <1>7, <1>12, <1>13, <2>1
    <2>2. CASE ToSet(packetlist') = ToSet(packetlist) \cup {p}
        <3>1. {q.packet : q \in ToSet(packetlist')} = {q.packet : q \in ToSet(packetlist)} \cup {p.packet}
            BY <2>2
        <3>2. p.packet = n
            OBVIOUS
        <3> QED
            BY <1>7, <1>12, <3>1, <3>2
    <2> QED
        BY <1>9, <2>1, <2>2
<1>15. \A q \in ToSet(packetlist') : Fits(q, ref)'
    <2>1. ASSUME NEW q, q.ext = e, q.packet = n PROVE Fits(q, ref)'
        <3>1. e - exthighseqnr' + Wrap * 0 = n - ref
            BY <1>5, <1>8, WrapNat
        <3> QED
            BY <2>1, <3>1 DEF Fits
    <2>2. \A q \in ToSet(packetlist') : q \in ToSet(packetlist) \/ (q.ext = e /\ q.packet = n)
        BY <1>9
    <2> QED
        BY <1>6, <2>1, <2>2
<1> HIDE DEF e, p
<1>16. Follows(ref)'
    <2>1. Header(ref)' = Header(ref) /\ \A m : Cycle(m)' = Cycle(m)
        BY <1>1 DEF Header, Cycle
    <2>2. \E m \in ToSet(round') : Cycle(m) >= Cycle(ref)
        BY <1>6, <1>7
    <2> QED
        BY <1>1, <1>6, <1>15, <2>1, <2>2 DEF Follows
<1>17. StatsInv'
    BY <1>1, <1>5, <1>16 DEF StatsInv
<1>18. STypes'
    BY <1>1, <1>2, <1>5, <1>7, <1>9 DEF SInv, STypes
<1>19. ListInv'
    BY <1>9, <1>14 DEF ListInv
<1>20. RoundInv'
    BY <1>3, <1>5, <1>7, <1>11 DEF RoundInv
<1>21. CountedRight'
    <2>1. SUFFICES ASSUME overtaken' = "never"
                   PROVE  /\ exthighseqnr' - baseseqnr' = highest' - first' + 1
                          /\ savedextseqnr' # baseseqnr' =>
                                 exthighseqnr' - savedextseqnr' = highest' - reported'
        BY DEF CountedRight
    <2>2. /\ exthighseqnr - baseseqnr = highest - first + 1
          /\ savedextseqnr # baseseqnr => exthighseqnr - savedextseqnr = highest - reported
        BY <1>5, <2>1 DEF SInv, CountedRight
    <2>3. /\ exthighseqnr \in Int /\ baseseqnr \in Int /\ savedextseqnr \in Int
          /\ first \in Int /\ reported \in Int /\ highest \in Int /\ highest' \in Int
        BY <1>5 DEF SInv, STypes
    <2>4. exthighseqnr' - exthighseqnr = highest' - highest /\ exthighseqnr' \in Int
        BY <1>5, <2>1
    <2> QED
        BY <1>1, <1>2, <2>2, <2>3, <2>4
<1> QED
    BY <1>17, <1>18, <1>19, <1>20, <1>21 DEF SInv

\* The steps that bring no packet.
LEMMA OtherSeqStep ==
    ASSUME SInv, Send \/ DeliverRound \/ Report \/ Forget \/ UNCHANGED svars
    PROVE  SInv'
<1> USE DEF stats, history, svars
<1>1. CASE Send
    <2>1. /\ sent' = sent + 1 /\ sent < highest + Half - MaxDelay
          /\ UNCHANGED <<offset, stats, packetlist, history>>
        BY <1>1 DEF Send
    <2>2. sent \in Nat /\ highest \in Nat
        BY DEF SInv, STypes
    <2>3. STypes'
        BY <2>1, <2>2 DEF SInv, STypes
    <2>4. ASSUME NEW ref \in Nat, Follows(ref) PROVE Follows(ref)'
        <3>1. ref <= highest /\ highest <= ref + MaxDelay
            BY <2>4 DEF Follows
        <3>2. sent' <= ref + Half
            BY <2>1, <2>2, <3>1, WrapNat
        <3> QED
            BY <2>1, <2>4, <3>2 DEF Follows, Fits, Header, Cycle
    <2>5. StatsInv'
        BY <2>1, <2>2, <2>4 DEF SInv, StatsInv
    <2> QED
        BY <2>1, <2>3, <2>5 DEF SInv, ListInv, RoundInv, Cycle, CountedRight
<1>2. CASE DeliverRound
    <2>1. /\ packetlist # <<>> /\ packetlist' = <<>> /\ round' = <<>>
          /\ overtaken' = IF overtaken = "now" THEN "once" ELSE overtaken
          /\ UNCHANGED <<offset, sent, stats, first, highest, reported>>
        BY <1>2 DEF DeliverRound
    <2>2. overtaken' \in {"never", "once", "now"} /\ (overtaken' = "never" => overtaken = "never")
        BY <2>1 DEF SInv, STypes
    <2>3. STypes'
        BY <2>1, <2>2 DEF SInv, STypes
    <2>4. ToSet(<<>>) = {}
        BY DEF ToSet
    <2>5. ASSUME NEW ref \in Nat, Follows(ref) PROVE Follows(ref)'
        BY <2>1, <2>2, <2>4, <2>5 DEF Follows, Header
    <2>6. StatsInv'
        BY <2>1, <2>5 DEF SInv, StatsInv
    <2> QED
        BY <2>1, <2>2, <2>3, <2>4, <2>6 DEF SInv, ListInv, RoundInv, CountedRight, Sorted
<1>3. CASE Report
    <2>1. /\ sentdata /\ savedextseqnr' = exthighseqnr /\ reported' = highest
          /\ UNCHANGED <<offset, sent, sentdata, baseseqnr, exthighseqnr, numcycles, packetlist,
                   round, first, highest, overtaken>>
        BY <1>3 DEF Report
    <2>2. STypes'
        BY <2>1 DEF SInv, STypes
    <2>3. StatsInv' /\ ListInv' /\ RoundInv'
        BY <2>1 DEF SInv, StatsInv, Follows, Fits, Header, ListInv, RoundInv, Cycle
    <2>4. exthighseqnr' - savedextseqnr' = highest' - reported'
        <3>1. exthighseqnr \in Int /\ highest \in Int
            BY DEF SInv, STypes
        <3>2. \A x, y \in Int : x - x = y - y
            OBVIOUS
        <3> QED
            BY <2>1, <3>1, <3>2
    <2>5. CountedRight'
        BY <2>1, <2>4 DEF SInv, CountedRight
    <2> QED
        BY <2>2, <2>3, <2>5 DEF SInv
<1>4. CASE Forget
    <2>1. /\ ~sentdata' /\ packetlist' = <<>> /\ round' = <<>> /\ overtaken' = "never"
          /\ baseseqnr' = 0 /\ exthighseqnr' = 0 /\ numcycles' = 0 /\ savedextseqnr' = 0
          /\ first' = 0 /\ highest' = 0 /\ reported' = 0 /\ sentdata' = FALSE
          /\ UNCHANGED <<offset, sent>>
        BY <1>4 DEF Forget
    <2>2. STypes'
        <3>1. offset \in Nat /\ sent \in Nat
            BY DEF SInv, STypes
        <3>2. packetlist' \in Seq(Datagram) /\ round' \in Seq(Nat)
            BY <2>1
        <3>3. /\ baseseqnr' \in Int /\ exthighseqnr' \in Int /\ numcycles' \in Int
              /\ savedextseqnr' \in Int /\ first' \in Nat /\ highest' \in Nat /\ reported' \in Nat
            BY <2>1
        <3> QED
            BY <2>1, <3>1, <3>2, <3>3, Zenon DEF STypes
    <2>3. ToSet(<<>>) = {}
        BY DEF ToSet
    <2> QED
        BY <2>1, <2>2, <2>3 DEF SInv, StatsInv, ListInv, RoundInv, CountedRight, Sorted
<1>5. CASE UNCHANGED svars
    BY <1>5 DEF SInv, STypes, StatsInv, Follows, Fits, Header, ListInv, RoundInv, Cycle, CountedRight
<1> QED
    BY <1>1, <1>2, <1>3, <1>4, <1>5

\* Every step keeps the invariant.
LEMMA SeqStep == SInv /\ [SNext]_svars => SInv'
<1> SUFFICES ASSUME SInv, [SNext]_svars PROVE SInv'
    OBVIOUS
<1>1. ASSUME NEW n \in sent - MaxDelay - 1 .. sent - 1, n >= 0, Receive(n) PROVE SInv'
    <2>1. n \in Nat /\ n >= sent - MaxDelay - 1 /\ n <= sent - 1
        BY <1>1, WrapNat DEF SInv, STypes
    <2> QED
        BY <1>1, <2>1, ReceiveFirst, ReceiveLater
<1> QED
    BY <1>1, OtherSeqStep DEF SNext

\* The invariant holds.
LEMMA SeqInvariant == SSpec => []SInv
BY SeqInit, SeqStep, PTL DEF SSpec

\* What reports say of the packets that were expected is right (CountedRight): for
\* numbers of any width, from any first one, across any number of wraps, as long
\* as no packet is overtaken across one.
THEOREM NumbersRight == SSpec => []CountedRight
<1>1. SInv => CountedRight
    BY DEF SInv
<1> QED
    BY <1>1, SeqInvariant, PTL

\* Every packet of a round is played in it, once, and in the order of sending unless
\* one was overtaken across a wrap in it (RoundPlays).
THEOREM PlayedInOrder == SSpec => []RoundPlays
<1>1. SInv => RoundPlays
    <2> SUFFICES ASSUME SInv PROVE RoundPlays
        OBVIOUS
    <2>1. {q.packet : q \in ToSet(packetlist)} = ToSet(round)
        BY DEF SInv, ListInv
    <2>2. ASSUME overtaken # "now", NEW i \in DOMAIN packetlist, NEW j \in DOMAIN packetlist, i < j
          PROVE  packetlist[i].packet < packetlist[j].packet
        <3>1. DOMAIN packetlist = 1 .. Len(packetlist) /\ exthighseqnr \in Int
            BY LenProperties DEF SInv, STypes
        <3>2. /\ packetlist[i] \in Datagram /\ packetlist[i] \in ToSet(packetlist)
              /\ packetlist[j] \in Datagram /\ packetlist[j] \in ToSet(packetlist)
            BY <3>1, ElementOfSeq DEF ToSet, SInv, STypes
        <3>3. packetlist[i].ext < packetlist[j].ext
            BY <2>2, <3>1 DEF SInv, ListInv, Sorted
        <3>4. packetlist # <<>>
            BY <2>2
        <3>5. PICK ref \in Nat : Follows(ref)
            BY <3>4 DEF SInv, StatsInv, STypes
        <3>6. /\ packetlist[i].ext - exthighseqnr = packetlist[i].packet - ref
              /\ packetlist[j].ext - exthighseqnr = packetlist[j].packet - ref
            <4>1. ASSUME NEW p \in ToSet(packetlist)
                  PROVE  p.ext - exthighseqnr = p.packet - ref
                <5>1. p.ext - exthighseqnr + Wrap * 0 = p.packet - ref
                    BY <2>2, <3>5 DEF Follows, Fits
                <5>2. p.ext \in Int
                    BY <4>1, InList
                <5> QED
                    BY <3>1, <5>1, <5>2, WrapNat
            <4> QED
                BY <3>2, <4>1
        <3>7. /\ packetlist[i].ext \in Int /\ packetlist[i].packet \in Nat
              /\ packetlist[j].ext \in Int /\ packetlist[j].packet \in Nat
            BY <3>2 DEF Datagram
        <3>8. \A a, b, x, y, e, f \in Int :
                  a < b /\ a - e = x - f /\ b - e = y - f => x < y
            OBVIOUS
        <3>9. ref \in Int /\ exthighseqnr \in Int
            BY <3>1, <3>5
        <3> QED
            BY <3>3, <3>6, <3>7, <3>8, <3>9
    <2> QED
        BY <2>1, <2>2 DEF RoundPlays
<1> QED
    BY <1>1, SeqInvariant, PTL
=============================================================================
