--------------------------- MODULE NeighbourProofs ---------------------------
(***************************************************************************)
(* Proofs about Neighbour, for any set of hosts, addresses and threads.    *)
(***************************************************************************)
EXTENDS Neighbour, TLAPS

(* Whatever ip_output finds in the header, the route is the last one: the  *)
(* entries for 127.0.0.1 and 10.0.1.4 have host bits, so no masked address *)
(* equals them.                                                            *)
LEMMA RouteIsLast ==
    ASSUME NEW a
    PROVE  route_lookup(a) = routes[3]
<1>1. Masked(1, a) # Loop
  <2>1. Masked(1, a)[4] = 0
    BY DEF Masked
  <2> QED BY <2>1, NeighbourAssumption
<1>2. Masked(3, a) # Us
  <2>1. Masked(3, a)[4] = 0
    BY DEF Masked
  <2> QED BY <2>1, NeighbourAssumption
<1>3. /\ routes[1].mask = 1 /\ routes[1].dst = Loop
      /\ routes[2].mask = 3 /\ routes[2].dst = Us
  BY DEF routes
<1>4. ~Chosen(1, a) /\ ~Chosen(2, a)
  BY <1>1, <1>2, <1>3 DEF Chosen
<1>5. Chosen(3, a)
  <2>1. \A j \in 1..(3 - 1) : j = 1 \/ j = 2
    OBVIOUS
  <2> QED BY <2>1, <1>1, <1>2, <1>3 DEF Chosen
<1>6. \A i \in 1..3 : Chosen(i, a) => i = 3
  BY <1>4
<1>7. (CHOOSE i \in 1..3 : Chosen(i, a)) = 3
  BY <1>5, <1>6
<1> QED BY <1>7 DEF route_lookup

LEMMA HopIsGateway ==
    ASSUME NEW a, NEW d
    PROVE  NextHop(a, d) = Tap
<1>1. routes[3].flags \cap RT_GATEWAY # {} /\ routes[3].gateway = Tap
  BY DEF routes, RT_GATEWAY
<1> QED BY <1>1, RouteIsLast DEF NextHop

-----------------------------------------------------------------------------
(* The strengthening: the entry a thread copies from is there and is the   *)
(* entry of its next hop, which is the gateway.                            *)
SlotInv ==
    \A t \in Threads :
        /\ pc[t] \in {"lookup", "hi", "lo"} => hop[t] = Tap
        /\ pc[t] \in {"hi", "lo"} =>
               /\ slot[t] \in 1..Len(arp_cache)
               /\ arp_cache[slot[t]].sip = Tap

TypeInv == TypeOK /\ SlotInv

LEMMA Constants ==
    /\ NoHalf \in Halves
    /\ NoPacket \in ArpPacket
    /\ AnyAddr \in Address /\ Tap \in Address
    /\ Pairs \subseteq Entry
    /\ \A a \in Pairs : a.sip \in Hosts
    /\ \A p \in ArpPacket : p.src \in Pairs
<1>1. PICK a \in Pairs : TRUE
  BY NeighbourAssumption
<1>2. NoHalf \in Halves
  BY <1>1, NeighbourAssumption DEF NoHalf, Entry
<1>3. [op |-> "REPLY", src |-> a, dip |-> Us] \in ArpPacket
  BY <1>1 DEF ArpPacket
<1>4. NoPacket \in ArpPacket
  BY <1>3 DEF NoPacket
<1>5. AnyAddr \in Address
  BY DEF AnyAddr, Address
<1>6. \A p \in ArpPacket : p.src \in Pairs
  BY DEF ArpPacket
<1>7. \A b \in Pairs : b.sip \in Hosts
  BY DEF Hosts
<1> QED BY <1>2, <1>4, <1>5, <1>6, <1>7, NeighbourAssumption

(* Entries are added at the end and overwritten, never moved or removed,   *)
(* and an entry stays the entry of its host.                               *)
CacheKept ==
    /\ arp_cache' \in Seq(Entry)
    /\ Len(arp_cache') >= Len(arp_cache)
    /\ \A i \in 1..Len(arp_cache) : arp_cache'[i].sip = arp_cache[i].sip

LEMMA UnchangedKept ==
    ASSUME TypeOK, UNCHANGED arp_cache
    PROVE  CacheKept
  BY DEF TypeOK, CacheKept

LEMMA AppendKept ==
    ASSUME TypeOK, NEW a \in Entry, arp_cache' = Append(arp_cache, a)
    PROVE  CacheKept /\ Len(arp_cache') = Len(arp_cache) + 1
               /\ arp_cache'[Len(arp_cache) + 1] = a
               /\ \A i \in 1..Len(arp_cache) : arp_cache'[i] = arp_cache[i]
  BY DEF TypeOK, CacheKept

LEMMA WriteKept ==
    ASSUME TypeOK, NEW i \in 1..Len(arp_cache),
           NEW h \in Halves, NEW l \in Halves,
           arp_cache' = [arp_cache EXCEPT ![i] = Written(i, h, l)]
    PROVE  /\ CacheKept /\ Len(arp_cache') = Len(arp_cache)
           /\ arp_cache'[i].hi = h /\ arp_cache'[i].lo = l
           /\ \A j \in 1..Len(arp_cache) :
                  j # i => arp_cache'[j] = arp_cache[j]
<1>1. arp_cache \in Seq(Entry) /\ arp_cache[i] \in Entry
  BY DEF TypeOK
<1>2. Written(i, h, l) \in Entry /\ Written(i, h, l).sip = arp_cache[i].sip
      /\ Written(i, h, l).hi = h /\ Written(i, h, l).lo = l
  BY <1>1 DEF Written, Entry
<1> HIDE DEF Written
<1>3. arp_cache' \in Seq(Entry) /\ Len(arp_cache') = Len(arp_cache)
      /\ arp_cache'[i] = Written(i, h, l)
      /\ \A j \in 1..Len(arp_cache) : j # i => arp_cache'[j] = arp_cache[j]
  BY <1>1, <1>2
<1> QED BY <1>1, <1>2, <1>3 DEF CacheKept

-----------------------------------------------------------------------------
LEMMA InitType == Init => TypeInv
  BY Constants DEF Init, TypeInv, TypeOK, SlotInv, Threads

LEMMA OutputStartType ==
    ASSUME TypeInv, NEW t \in Threads, NEW a, NEW d, ip_output(t, a, d)
    PROVE  TypeInv'
<1>1. NextHop(a, d) = Tap /\ Tap \in Address
  BY HopIsGateway, Constants
<1> HIDE DEF NextHop
<1>2. TypeOK'
  BY <1>1 DEF TypeInv, TypeOK, ip_output, histVars
<1>3. SlotInv'
  BY <1>1 DEF TypeInv, TypeOK, SlotInv, ip_output
<1> QED BY <1>2, <1>3 DEF TypeInv

LEMMA NeighOutputType ==
    ASSUME TypeInv, NEW t \in Threads, dst_neigh_output(t)
    PROVE  TypeInv'
<1> USE DEF TypeInv
<1>1. CASE LookupHit(t)
  <2>1. PICK i \in 1..Len(arp_cache) :
           Finds(i, hop[t]) /\ slot' = [slot EXCEPT ![t] = i]
    BY <1>1 DEF LookupHit
  <2>2. TypeOK'
    BY <1>1, <2>1 DEF LookupHit, TypeOK, histVars
  <2>3. SlotInv'
    BY <1>1, <2>1 DEF LookupHit, TypeOK, SlotInv, Finds
  <2> QED BY <2>2, <2>3
<1>2. CASE LookupMiss(t)
  <2>1. hop[t] \in Address
    BY DEF TypeOK
  <2>2. count' \in [Threads -> 0..2]
        /\ pc' \in [Threads -> {"idle", "lookup", "hi", "lo", "update"}]
    <3>1. CASE TryAgain(t)
      BY <1>2, <3>1 DEF LookupMiss, TypeOK, Tried, TryAgain
    <3>2. CASE ~TryAgain(t)
      <4>1. count' = [count EXCEPT ![t] = 0] /\ pc' = [pc EXCEPT ![t] = "idle"]
        BY <1>2, <3>2 DEF LookupMiss
      <4>2. count' \in [Threads -> 0..2]
        BY <4>1 DEF TypeOK
      <4>3. pc' \in [Threads -> {"idle", "lookup", "hi", "lo", "update"}]
        BY <4>1 DEF TypeOK
      <4> QED BY <4>2, <4>3
    <3> QED BY <3>1, <3>2
  <2>4. TypeOK'
    BY <1>2, <2>1, <2>2 DEF LookupMiss, TypeOK, histVars
  <2>3. SlotInv'
    BY <1>2 DEF LookupMiss, TypeOK, SlotInv
  <2> QED BY <2>3, <2>4
<1>3. CASE CopyHi(t)
  <2>1. slot[t] \in 1..Len(arp_cache) /\ arp_cache[slot[t]] \in Entry
    BY <1>3 DEF CopyHi, SlotInv, TypeOK
  <2>2. arp_cache[slot[t]].hi \in Halves
    BY <2>1 DEF Entry
  <2>3. TypeOK'
    BY <1>3, <2>2 DEF CopyHi, TypeOK, histVars
  <2>4. SlotInv'
    BY <1>3 DEF CopyHi, TypeOK, SlotInv
  <2> QED BY <2>3, <2>4
<1>4. CASE CopyLo(t)
  <2>1. slot[t] \in 1..Len(arp_cache) /\ arp_cache[slot[t]] \in Entry
    BY <1>4 DEF CopyLo, SlotInv, TypeOK
  <2>2. arp_cache[slot[t]].lo \in Halves /\ hop[t] \in Address
        /\ hi[t] \in Halves /\ NoHalf \in Halves
    BY <2>1, Constants DEF Entry, TypeOK
  <2> HIDE DEF NoHalf
  <2>3. TypeOK'
    BY <1>4, <2>2 DEF CopyLo, TypeOK, histVars
  <2>4. SlotInv'
    BY <1>4 DEF CopyLo, TypeOK, SlotInv
  <2> QED BY <2>3, <2>4
<1> QED BY <1>1, <1>2, <1>3, <1>4 DEF dst_neigh_output

(* A step of the receive thread that keeps the entries in place keeps what *)
(* the other threads point to.                                             *)
LEMMA SlotKept ==
    ASSUME TypeInv, CacheKept, UNCHANGED <<hop, slot>>,
           \A t \in Threads : pc'[t] \in {"lookup", "hi", "lo"} => pc'[t] = pc[t]
    PROVE  SlotInv'
<1> SUFFICES ASSUME NEW t \in Threads
             PROVE  /\ pc'[t] \in {"lookup", "hi", "lo"} => hop'[t] = Tap
                    /\ pc'[t] \in {"hi", "lo"} =>
                           /\ slot'[t] \in 1..Len(arp_cache')
                           /\ arp_cache'[slot'[t]].sip = Tap
  BY DEF SlotInv
<1>1. pc'[t] \in {"lookup", "hi", "lo"} => hop'[t] = Tap
  BY DEF TypeInv, SlotInv
<1>2. ASSUME pc'[t] \in {"hi", "lo"}
      PROVE  slot'[t] \in 1..Len(arp_cache') /\ arp_cache'[slot'[t]].sip = Tap
  <2>1. slot[t] \in 1..Len(arp_cache) /\ arp_cache[slot[t]].sip = Tap
    BY <1>2 DEF TypeInv, SlotInv
  <2>2. Len(arp_cache) \in Nat /\ Len(arp_cache') \in Nat
    BY DEF CacheKept, TypeInv, TypeOK
  <2> QED BY <2>1, <2>2 DEF CacheKept
<1> QED BY <1>1, <1>2

LEMMA ArpNewKept ==
    ASSUME TypeInv, NEW p \in ArpPacket, ArpNew(p)
    PROVE  CacheKept
<1>1. p.src \in Entry
  BY Constants
<1>2. CASE p.dip = Us
  BY <1>1, <1>2, AppendKept DEF ArpNew, insert_arp_translation_table, TypeInv
<1>3. CASE p.dip # Us
  BY <1>3, UnchangedKept DEF ArpNew, insert_arp_translation_table, TypeInv
<1> QED BY <1>2, <1>3

LEMMA WriteHiKept ==
    ASSUME TypeInv, NEW p \in ArpPacket, WriteHi(p)
    PROVE  CacheKept
<1>1. PICK i \in 1..Len(arp_cache) :
         arp_cache' = [arp_cache EXCEPT ![i] = Written(i, p.src.hi, arp_cache[i].lo)]
  BY DEF WriteHi
<1>2. p.src \in Entry /\ arp_cache[i] \in Entry
  BY Constants DEF TypeInv, TypeOK
<1>3. p.src.hi \in Halves /\ arp_cache[i].lo \in Halves
  BY <1>2 DEF Entry
<1> QED BY <1>1, <1>3, WriteKept DEF TypeInv

LEMMA WriteLoKept ==
    ASSUME TypeInv, WriteLo
    PROVE  CacheKept
<1>1. PICK i \in 1..Len(arp_cache) :
         arp_cache' = [arp_cache EXCEPT ![i] = Written(i, arp_cache[i].hi, packet.src.lo)]
  BY DEF WriteLo
<1>2. packet.src \in Entry /\ arp_cache[i] \in Entry
  BY Constants DEF TypeInv, TypeOK
<1>3. packet.src.lo \in Halves /\ arp_cache[i].hi \in Halves
  BY <1>2 DEF Entry
<1> QED BY <1>1, <1>3, WriteKept DEF TypeInv

LEMMA ArpRcvType ==
    ASSUME TypeInv, NEW p \in ArpPacket, arp_rcv(p)
    PROVE  TypeInv'
<1>1. p.src \in Pairs /\ p.src.sip \in Hosts /\ "rx" \in Threads
  BY Constants DEF Threads
<1>2. CacheKept
  BY ArpNewKept, WriteHiKept DEF arp_rcv
<1>3. arp_reply(p) \subseteq Pairs
  BY <1>1 DEF arp_reply, TypeInv, TypeOK
<1> HIDE DEF arp_reply, ArpPacket
<1>4. announced' \subseteq Pairs /\ met' \subseteq Hosts
  BY <1>1 DEF arp_rcv, TypeInv, TypeOK
<1>5. CASE ArpNew(p)
  <2>1. TypeOK'
    BY <1>2, <1>3, <1>4, <1>5 DEF arp_rcv, ArpNew, TypeInv, TypeOK, CacheKept
  <2>2. SlotInv'
    BY <1>2, <1>5, SlotKept DEF arp_rcv, ArpNew
  <2> QED BY <2>1, <2>2 DEF TypeInv
<1>6. CASE WriteHi(p)
  <2>1. TypeOK'
    BY <1>1, <1>2, <1>4, <1>6 DEF arp_rcv, WriteHi, TypeInv, TypeOK, CacheKept
  <2>2. \A t \in Threads : pc'[t] \in {"lookup", "hi", "lo"} => pc'[t] = pc[t]
    BY <1>1, <1>6 DEF WriteHi, TypeInv, TypeOK
  <2>3. SlotInv'
    BY <1>2, <2>2, SlotKept DEF arp_rcv
  <2> QED BY <2>1, <2>3 DEF TypeInv
<1> QED BY <1>5, <1>6 DEF arp_rcv

LEMMA WriteLoType ==
    ASSUME TypeInv, WriteLo
    PROVE  TypeInv'
<1>1. "rx" \in Threads /\ NoPacket \in ArpPacket
  BY Constants DEF Threads
<1>2. CacheKept
  BY WriteLoKept
<1>3. arp_reply(packet) \subseteq Pairs
  BY Constants DEF arp_reply, TypeInv, TypeOK
<1> HIDE DEF arp_reply, ArpPacket, NoPacket
<1>4. TypeOK'
  BY <1>1, <1>2, <1>3 DEF WriteLo, TypeInv, TypeOK, CacheKept, histVars
<1>5. \A t \in Threads : pc'[t] \in {"lookup", "hi", "lo"} => pc'[t] = pc[t]
  BY <1>1 DEF WriteLo, TypeInv, TypeOK
<1>6. SlotInv'
  BY <1>2, <1>5, SlotKept DEF WriteLo
<1> QED BY <1>4, <1>6 DEF TypeInv

LEMMA TypeStep == TypeInv /\ [Next]_vars => TypeInv'
<1> SUFFICES ASSUME TypeInv, [Next]_vars
             PROVE  TypeInv'
  OBVIOUS
<1>1. ASSUME NEW t \in Senders, Send(t) PROVE TypeInv'
  BY <1>1, OutputStartType DEF Send, Threads
<1>2. ASSUME NEW d \in Datagram, ip_rcv(d) PROVE TypeInv'
  BY <1>2, OutputStartType DEF ip_rcv, icmpv4_incoming, tcp_in, Threads
<1>3. ASSUME NEW t \in Threads, dst_neigh_output(t) PROVE TypeInv'
  BY <1>3, NeighOutputType
<1>4. ASSUME NEW p \in ArpPacket, arp_rcv(p) PROVE TypeInv'
  BY <1>4, ArpRcvType
<1>5. CASE WriteLo
  BY <1>5, WriteLoType
<1>6. CASE UNCHANGED vars
  BY <1>6 DEF vars, outVars, histVars, TypeInv, TypeOK, SlotInv
<1> QED BY <1>1, <1>2, <1>3, <1>4, <1>5, <1>6 DEF Next

LEMMA TypeInvariant == Spec => []TypeInv
  BY InitType, TypeStep, PTL DEF Spec

(* The type invariant holds in every reachable state.                      *)
THEOREM NeighbourTypeCorrect == Spec => []TypeOK
  BY TypeInvariant, PTL DEF TypeInv

-----------------------------------------------------------------------------
(* While an entry is overwritten, the packet it is overwritten from has    *)
(* been received; every half of every entry comes from some packet.        *)
PacketInv ==
    pc["rx"] = "update" =>
        packet.src \in announced /\ (packet.dip = Us => packet.src.sip \in met)

Announced(addr, h, l) ==
    \E a \in announced, b \in announced :
        a.sip = addr /\ b.sip = addr /\ h = a.hi /\ l = b.lo

Honest ==
    \A i \in 1..Len(arp_cache) :
        Announced(arp_cache[i].sip, arp_cache[i].hi, arp_cache[i].lo)

(* The half a thread has copied, before it copies the other one.           *)
HalfHonest ==
    \A t \in Threads :
        pc[t] = "lo" => \E a \in announced : a.sip = Tap /\ a.hi = hi[t]

(* A receive thread that has asked still does not know its next hop.       *)
StillUnknown ==
    pc["rx"] = "lookup" /\ count["rx"] > 0 => ~Known(hop["rx"])

CacheInv == CacheSound /\ RepliesSound /\ PacketInv /\ Honest

OutInv == HalfHonest /\ FramesReachGateway /\ StillUnknown

NeighInv == TypeInv /\ CacheInv /\ OutInv

LEMMA InitNeigh == Init => NeighInv
<1> SUFFICES ASSUME Init PROVE NeighInv
  OBVIOUS
<1>1. TypeInv
  BY InitType
<1>2. \A t \in Threads : pc[t] = "idle"
  BY DEF Init
<1>3. pc["rx"] = "idle"
  BY <1>2 DEF Threads
<1>4. CacheInv
  BY <1>3 DEF Init, CacheInv, CacheSound, RepliesSound, PacketInv, Honest
<1>5. OutInv
  BY <1>2, <1>3 DEF Init, OutInv, HalfHonest, FramesReachGateway, StillUnknown
<1> QED BY <1>1, <1>4, <1>5 DEF NeighInv

(* The threads that send do not touch the cache and its history.           *)
LEMMA CacheUntouched ==
    ASSUME CacheInv, UNCHANGED <<arp_cache, replies, packet, announced, met>>,
           pc'["rx"] = "update" => pc["rx"] = "update"
    PROVE  CacheInv'
  BY DEF CacheInv, CacheSound, RepliesSound, PacketInv, Honest, Announced

LEMMA OutputCache ==
    ASSUME NeighInv, NEW t \in Threads, NEW a, NEW d,
           ip_output(t, a, d) \/ dst_neigh_output(t)
    PROVE  CacheInv'
<1>1. pc \in [Threads -> {"idle", "lookup", "hi", "lo", "update"}]
      /\ "rx" \in Threads
  BY DEF NeighInv, TypeInv, TypeOK, Threads
<1>2. UNCHANGED <<arp_cache, replies, packet, announced, met>>
  BY DEF ip_output, dst_neigh_output, LookupHit, LookupMiss, CopyHi, CopyLo,
         histVars
<1>3. \E v \in {"idle", "lookup", "hi", "lo"} :
         pc' = [pc EXCEPT ![t] = v] \/ pc' = pc
  BY DEF ip_output, dst_neigh_output, LookupHit, LookupMiss, CopyHi, CopyLo
<1>4. pc'["rx"] = "update" => pc["rx"] = "update"
  BY <1>1, <1>3
<1> QED BY <1>2, <1>4, CacheUntouched DEF NeighInv

LEMMA ArpNewCache ==
    ASSUME NeighInv, NEW p \in ArpPacket, arp_rcv(p), ArpNew(p)
    PROVE  CacheInv'
<1> USE DEF NeighInv, CacheInv
<1>1. /\ p.src \in announced' /\ announced \subseteq announced'
      /\ met \subseteq met' /\ (p.dip = Us => p.src.sip \in met')
      /\ p.src \in Entry
  BY Constants DEF arp_rcv
<1>2. RepliesSound'
  BY <1>1 DEF RepliesSound, ArpNew, arp_reply
<1>3. PacketInv'
  BY <1>1 DEF PacketInv, ArpNew
<1>4. CASE p.dip # Us
  <2>1. UNCHANGED arp_cache
    BY <1>4 DEF ArpNew, insert_arp_translation_table
  <2>2. CacheSound' /\ Honest'
    BY <1>1, <2>1 DEF CacheSound, Honest, Announced
  <2> QED BY <1>2, <1>3, <2>2
<1>5. CASE p.dip = Us
  <2>1. arp_cache' = Append(arp_cache, p.src)
    BY <1>5 DEF ArpNew, insert_arp_translation_table
  <2>2. /\ Len(arp_cache) \in Nat /\ Len(arp_cache') = Len(arp_cache) + 1
        /\ arp_cache'[Len(arp_cache) + 1] = p.src
        /\ \A i \in 1..Len(arp_cache) : arp_cache'[i] = arp_cache[i]
    BY <1>1, <2>1, AppendKept DEF TypeInv, TypeOK
  <2>3. \A i \in 1..Len(arp_cache') :
           i \in 1..Len(arp_cache) \/ i = Len(arp_cache) + 1
    BY <2>2
  <2>4. \A i \in 1..Len(arp_cache) : arp_cache[i].sip # p.src.sip
    BY DEF ArpNew, Known
  <2>5. CacheSound'
    <3>1. \A i \in 1..Len(arp_cache') : arp_cache'[i].sip \in met'
      BY <1>1, <1>5, <2>2, <2>3 DEF CacheSound
    <3>2. ASSUME NEW i \in 1..Len(arp_cache'), NEW j \in 1..Len(arp_cache'),
                 arp_cache'[i].sip = arp_cache'[j].sip
          PROVE  i = j
      BY <2>2, <2>3, <2>4, <3>2 DEF CacheSound
    <3> QED BY <3>1, <3>2 DEF CacheSound
  <2>6. Honest'
    BY <1>1, <2>2, <2>3 DEF Honest, Announced
  <2> QED BY <1>2, <1>3, <2>5, <2>6
<1> QED BY <1>4, <1>5

(* Overwriting one entry with halves that were announced for its host.     *)
LEMMA WriteHonest ==
    ASSUME NeighInv, NEW i \in 1..Len(arp_cache),
           NEW h \in Halves, NEW l \in Halves,
           arp_cache' = [arp_cache EXCEPT ![i] = Written(i, h, l)],
           announced \subseteq announced', met \subseteq met',
           \E a \in announced' : a.sip = arp_cache[i].sip /\ a.hi = h,
           \E b \in announced' : b.sip = arp_cache[i].sip /\ b.lo = l
    PROVE  CacheSound' /\ Honest'
<1> USE DEF NeighInv, CacheInv
<1>1. /\ CacheKept /\ Len(arp_cache') = Len(arp_cache)
      /\ arp_cache'[i].hi = h /\ arp_cache'[i].lo = l
      /\ \A j \in 1..Len(arp_cache) : j # i => arp_cache'[j] = arp_cache[j]
  BY WriteKept DEF TypeInv
<1>2. CacheSound'
  BY <1>1 DEF CacheSound, CacheKept
<1>3. ASSUME NEW j \in 1..Len(arp_cache')
      PROVE  \E a \in announced', b \in announced' :
                /\ a.sip = arp_cache'[j].sip /\ b.sip = arp_cache'[j].sip
                /\ arp_cache'[j].hi = a.hi /\ arp_cache'[j].lo = b.lo
  <2>1. CASE j = i
    BY <1>1, <2>1 DEF CacheKept
  <2>2. CASE j # i
    BY <1>1, <2>2 DEF Announced, Honest
  <2> QED BY <2>1, <2>2
<1>4. Honest'
  BY <1>1, <1>3 DEF Honest, Announced, CacheKept
<1> QED BY <1>2, <1>4

LEMMA WriteHiCache ==
    ASSUME NeighInv, NEW p \in ArpPacket, arp_rcv(p), WriteHi(p)
    PROVE  CacheInv'
<1> USE DEF NeighInv, CacheInv
<1>1. /\ p.src \in announced' /\ announced \subseteq announced'
      /\ met \subseteq met' /\ (p.dip = Us => p.src.sip \in met')
      /\ p.src \in Entry
  BY Constants DEF arp_rcv
<1>2. PICK i \in 1..Len(arp_cache) :
         /\ arp_cache[i].sip = p.src.sip
         /\ arp_cache' =
              [arp_cache EXCEPT ![i] = Written(i, p.src.hi, arp_cache[i].lo)]
  BY DEF WriteHi, Finds
<1>3. arp_cache[i] \in Entry
  BY DEF TypeInv, TypeOK
<1>4. p.src.hi \in Halves /\ arp_cache[i].lo \in Halves
  BY <1>1, <1>3 DEF Entry
<1>5. \E b \in announced' : b.sip = arp_cache[i].sip /\ b.lo = arp_cache[i].lo
  BY <1>1 DEF Honest, Announced
<1>6. CacheSound' /\ Honest'
  BY <1>1, <1>2, <1>4, <1>5, WriteHonest
<1>7. RepliesSound'
  BY <1>1 DEF RepliesSound, WriteHi
<1>8. PacketInv'
  BY <1>1 DEF PacketInv, WriteHi
<1> QED BY <1>6, <1>7, <1>8

LEMMA WriteLoCache ==
    ASSUME NeighInv, WriteLo
    PROVE  CacheInv'
<1> USE DEF NeighInv, CacheInv
<1>1. /\ packet.src \in announced /\ (packet.dip = Us => packet.src.sip \in met)
      /\ packet.src \in Entry /\ UNCHANGED <<announced, met>>
  BY Constants DEF WriteLo, PacketInv, histVars, TypeInv, TypeOK
<1>2. PICK i \in 1..Len(arp_cache) :
         /\ arp_cache[i].sip = packet.src.sip
         /\ arp_cache' =
              [arp_cache EXCEPT ![i] = Written(i, arp_cache[i].hi, packet.src.lo)]
  BY DEF WriteLo, Finds
<1>3. arp_cache[i] \in Entry
  BY DEF TypeInv, TypeOK
<1>4. packet.src.lo \in Halves /\ arp_cache[i].hi \in Halves
  BY <1>1, <1>3 DEF Entry
<1>5. \E a \in announced : a.sip = arp_cache[i].sip /\ a.hi = arp_cache[i].hi
  BY DEF Honest, Announced
<1>6. CacheSound' /\ Honest'
  BY <1>1, <1>2, <1>4, <1>5, WriteHonest
<1>7. RepliesSound'
  BY <1>1 DEF RepliesSound, WriteLo, arp_reply
<1>8. PacketInv'
  <2>1. pc'["rx"] = "idle"
    BY DEF WriteLo, TypeInv, TypeOK, Threads
  <2> QED BY <2>1 DEF PacketInv
<1> QED BY <1>6, <1>7, <1>8

-----------------------------------------------------------------------------
(* A step of the receive thread in the cache leaves the outputs alone: no  *)
(* other thread is moved, and the receive thread itself sends nothing.     *)
LEMMA OutUntouched ==
    ASSUME NeighInv, UNCHANGED <<hi, frames>>, announced \subseteq announced',
           pc'["rx"] \in {"idle", "update"},
           \A t \in Threads : pc'[t] = "lo" => pc[t] = "lo"
    PROVE  OutInv'
<1>1. HalfHonest'
  BY DEF NeighInv, OutInv, HalfHonest
<1>2. FramesReachGateway'
  BY DEF NeighInv, OutInv, FramesReachGateway
<1>3. StillUnknown'
  BY DEF StillUnknown
<1> QED BY <1>1, <1>2, <1>3 DEF OutInv

LEMMA ArpOut ==
    ASSUME NeighInv, (\E p \in ArpPacket : arp_rcv(p)) \/ WriteLo
    PROVE  OutInv'
<1>1. pc \in [Threads -> {"idle", "lookup", "hi", "lo", "update"}]
      /\ "rx" \in Threads
  BY DEF NeighInv, TypeInv, TypeOK, Threads
<1>2. CASE \E p \in ArpPacket : arp_rcv(p)
  BY <1>1, <1>2, OutUntouched
     DEF arp_rcv, netdev_rx_loop, ArpNew, WriteHi
<1>3. CASE WriteLo
  BY <1>1, <1>3, OutUntouched DEF WriteLo, histVars
<1> QED BY <1>2, <1>3

LEMMA StartOut ==
    ASSUME NeighInv, NEW t \in Threads, NEW a, NEW d, ip_output(t, a, d)
    PROVE  OutInv'
<1> USE DEF NeighInv, OutInv
<1>1. /\ pc' = [pc EXCEPT ![t] = "lookup"] /\ count' = [count EXCEPT ![t] = 0]
      /\ hop' = [hop EXCEPT ![t] = NextHop(a, d)]
      /\ UNCHANGED <<arp_cache, hi, frames, announced>>
  BY DEF ip_output, histVars
<1>2. /\ pc \in [Threads -> {"idle", "lookup", "hi", "lo", "update"}]
      /\ count \in [Threads -> 0..2] /\ "rx" \in Threads
      /\ hop \in [Threads -> Address]
  BY DEF TypeInv, TypeOK, Threads
<1> HIDE DEF NextHop
<1>3. HalfHonest'
  BY <1>1, <1>2 DEF HalfHonest
<1>4. FramesReachGateway'
  BY <1>1 DEF FramesReachGateway
<1>5. StillUnknown'
  BY <1>1, <1>2 DEF StillUnknown, Known
<1> QED BY <1>3, <1>4, <1>5

LEMMA NeighOut ==
    ASSUME NeighInv, NEW t \in Threads, dst_neigh_output(t)
    PROVE  OutInv'
<1> USE DEF NeighInv, OutInv
<1>1. /\ pc \in [Threads -> {"idle", "lookup", "hi", "lo", "update"}]
      /\ count \in [Threads -> 0..2] /\ "rx" \in Threads
      /\ hi \in [Threads -> Halves] /\ hop \in [Threads -> Address]
  BY DEF TypeInv, TypeOK, Threads
<1>2. CASE LookupHit(t)
  <2>1. HalfHonest' /\ FramesReachGateway'
    BY <1>1, <1>2 DEF LookupHit, HalfHonest, FramesReachGateway, histVars
  <2>2. StillUnknown'
    BY <1>1, <1>2 DEF LookupHit, StillUnknown, Known
  <2> QED BY <2>1, <2>2
<1>3. CASE LookupMiss(t)
  <2>1. pc' = pc \/ pc' = [pc EXCEPT ![t] = "idle"]
    BY <1>3 DEF LookupMiss
  <2>2. HalfHonest' /\ FramesReachGateway'
    BY <1>1, <1>3, <2>1 DEF LookupMiss, HalfHonest, FramesReachGateway, histVars
  <2>3. CASE t = "rx"
    BY <1>1, <1>3, <2>2, <2>3 DEF LookupMiss, StillUnknown, Known
  <2>4. CASE t # "rx"
    <3>1. pc'["rx"] = pc["rx"] /\ count'["rx"] = count["rx"]
      BY <1>1, <1>3, <2>1, <2>4 DEF LookupMiss
    <3> QED BY <1>3, <2>2, <3>1 DEF LookupMiss, StillUnknown, Known
  <2> QED BY <2>3, <2>4
<1>4. CASE CopyHi(t)
  <2>1. slot[t] \in 1..Len(arp_cache) /\ arp_cache[slot[t]].sip = Tap
    BY <1>4 DEF CopyHi, TypeInv, SlotInv
  <2>2. \E a \in announced : a.sip = Tap /\ a.hi = arp_cache[slot[t]].hi
    BY <2>1 DEF CacheInv, Honest, Announced
  <2>3. HalfHonest' /\ FramesReachGateway'
    BY <1>1, <1>4, <2>2 DEF CopyHi, HalfHonest, FramesReachGateway, histVars
  <2>4. StillUnknown'
    BY <1>1, <1>4 DEF CopyHi, StillUnknown, Known
  <2> QED BY <2>3, <2>4
<1>5. CASE CopyLo(t)
  <2>1. slot[t] \in 1..Len(arp_cache) /\ arp_cache[slot[t]].sip = Tap
    BY <1>5 DEF CopyLo, TypeInv, SlotInv
  <2>2. PICK b \in announced : b.sip = Tap /\ b.lo = arp_cache[slot[t]].lo
    BY <2>1 DEF CacheInv, Honest, Announced
  <2>3. PICK a \in announced : a.sip = Tap /\ a.hi = hi[t]
    BY <1>5 DEF CopyLo, HalfHonest
  <2>4. FramesReachGateway'
    BY <1>5, <2>2, <2>3 DEF CopyLo, FramesReachGateway, histVars
  <2>5. HalfHonest'
    BY <1>1, <1>5 DEF CopyLo, HalfHonest, histVars
  <2>6. StillUnknown'
    BY <1>1, <1>5 DEF CopyLo, StillUnknown, Known
  <2> QED BY <2>4, <2>5, <2>6
<1> QED BY <1>2, <1>3, <1>4, <1>5 DEF dst_neigh_output

LEMMA NeighStep == NeighInv /\ [Next]_vars => NeighInv'
<1> SUFFICES ASSUME NeighInv, [Next]_vars
             PROVE  NeighInv'
  OBVIOUS
<1>0. TypeInv'
  BY TypeStep DEF NeighInv
<1>1. ASSUME NEW t \in Threads, NEW a, NEW d, ip_output(t, a, d)
      PROVE  CacheInv' /\ OutInv'
  BY <1>1, OutputCache, StartOut
<1>2. ASSUME NEW t \in Senders, Send(t) PROVE CacheInv' /\ OutInv'
  BY <1>1, <1>2 DEF Send, Threads
<1>3. ASSUME NEW d \in Datagram, ip_rcv(d) PROVE CacheInv' /\ OutInv'
  BY <1>1, <1>3 DEF ip_rcv, icmpv4_incoming, tcp_in, Threads
<1>4. ASSUME NEW t \in Threads, dst_neigh_output(t) PROVE CacheInv' /\ OutInv'
  BY <1>4, OutputCache, NeighOut
<1>5. ASSUME NEW p \in ArpPacket, arp_rcv(p) PROVE CacheInv' /\ OutInv'
  BY <1>5, ArpNewCache, WriteHiCache, ArpOut DEF arp_rcv
<1>6. ASSUME WriteLo PROVE CacheInv' /\ OutInv'
  <2>1. CacheInv'
    BY <1>6, WriteLoCache
  <2>2. OutInv'
    BY <1>6, ArpOut
  <2> QED BY <2>1, <2>2
<1>7. ASSUME UNCHANGED vars PROVE CacheInv' /\ OutInv'
  <2>1. UNCHANGED <<arp_cache, replies, packet, announced, met>> /\ pc' = pc
    BY <1>7 DEF vars, outVars, histVars
  <2>2. CacheInv'
    BY <2>1, CacheUntouched DEF NeighInv
  <2>3. OutInv'
    BY <1>7 DEF vars, outVars, histVars, NeighInv, OutInv, HalfHonest,
       FramesReachGateway, StillUnknown, Known
  <2> QED BY <2>2, <2>3
<1>8. CacheInv' /\ OutInv'
  BY <1>2, <1>3, <1>4, <1>5, <1>6, <1>7 DEF Next
<1> QED BY <1>0, <1>8 DEF NeighInv

LEMMA NeighInvariant == Spec => []NeighInv
  BY InitNeigh, NeighStep, PTL DEF Spec

(* The cache has one entry per host, and only hosts that addressed us.     *)
THEOREM CacheSoundHolds == Spec => []CacheSound
  BY NeighInvariant, PTL DEF NeighInv, CacheInv

(* ARP replies go to those who asked for our address.                      *)
THEOREM RepliesSoundHolds == Spec => []RepliesSound
  BY NeighInvariant, PTL DEF NeighInv, CacheInv

(* Every IP frame goes to the gateway, at an address made of halves it     *)
(* announced.                                                              *)
THEOREM FramesReach == Spec => []FramesReachGateway
  BY NeighInvariant, PTL DEF NeighInv, OutInv

(* The receive thread never resolves an address it had to ask for.         *)
THEOREM ReceiverStaysBlind == Spec => ReceiverNeverLearns
<1>1. NeighInv /\ [Next]_vars =>
         [pc["rx"] = "lookup" /\ count["rx"] > 0 => pc'["rx"] # "hi"]_vars
  <2> SUFFICES ASSUME NeighInv, Next, pc["rx"] = "lookup", count["rx"] > 0
               PROVE  pc'["rx"] # "hi"
    OBVIOUS
  <2>1. ~Known(hop["rx"]) /\ "rx" \in Threads
        /\ pc \in [Threads -> {"idle", "lookup", "hi", "lo", "update"}]
    BY DEF NeighInv, OutInv, StillUnknown, TypeInv, TypeOK, Threads
  <2>2. ASSUME NEW t \in Threads, dst_neigh_output(t) PROVE pc'["rx"] # "hi"
    <3>1. CASE t = "rx"
      BY <2>1, <2>2, <3>1 DEF dst_neigh_output, LookupHit, LookupMiss, CopyHi,
         CopyLo, Finds, Known
    <3>2. CASE t # "rx"
      BY <2>1, <2>2, <3>2 DEF dst_neigh_output, LookupHit, LookupMiss, CopyHi,
         CopyLo
    <3> QED BY <3>1, <3>2
  <2>3. ASSUME NEW t \in Threads, NEW a, NEW d, ip_output(t, a, d)
        PROVE  pc'["rx"] # "hi"
    BY <2>1, <2>3 DEF ip_output
  <2>4. ASSUME NEW p \in ArpPacket, arp_rcv(p) PROVE pc'["rx"] # "hi"
    BY <2>4 DEF arp_rcv, netdev_rx_loop
  <2>5. CASE WriteLo
    BY <2>5 DEF WriteLo
  <2> QED BY <2>2, <2>3, <2>4, <2>5 DEF Next, Send, ip_rcv,
       icmpv4_incoming, tcp_in, Threads
<1> QED BY <1>1, NeighInvariant, PTL DEF Spec, ReceiverNeverLearns
=============================================================================
