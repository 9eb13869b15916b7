------------------------------ MODULE Neighbour ------------------------------
(***************************************************************************)
(* Sending an IP datagram: ip_output, the routing table, dst_neigh_output  *)
(* and the ARP cache, with the part of the receive thread that fills the   *)
(* cache (arp_rcv) or sends from within it (icmpv4_reply, tcp_in).         *)
(*                                                                         *)
(* The cache has no lock.  Only the receive thread changes it, and an      *)
(* entry is never removed; but a hardware address is copied in two parts   *)
(* (4 and 2 bytes), into the entry by the receive thread and out of it, at *)
(* the same time, by any thread that sends.  list_add_tail links a new     *)
(* entry, whose fields are set, with its first store: one step.            *)
(*                                                                         *)
(* A datagram or ARP packet that is only dropped has no step.  What is put *)
(* on the wire may be lost, and the hosts of the network (external) send   *)
(* whatever requests they like, and replies when they are asked.           *)
(***************************************************************************)
EXTENDS Integers, Sequences

CONSTANTS
    Us,            \* netdev->addr and stackaddr, "10.0.1.4"
    Loop,          \* loop->addr, "127.0.0.1"
    Tap,           \* tapaddr, "10.0.1.5": the default gateway
    Pairs,         \* the hosts that use ARP, with hardware addresses of theirs
    Destinations,  \* addresses we send to
    Senders,       \* the threads that send, beside the receive thread
    Halves         \* values of one part of a hardware address

Address == [1..4 -> 0..255]
Entry   == [sip : Address, hi : Halves, lo : Halves]
Hosts   == {a.sip : a \in Pairs}
Threads == Senders \cup {"rx"}

(* Neither of our addresses is the address of a network.                   *)
ASSUME NeighbourAssumption ==
    /\ Us \in Address /\ Loop \in Address /\ Tap \in Address
    /\ Us[4] # 0 /\ Loop[4] # 0
    /\ Destinations \subseteq Address
    /\ "rx" \notin Senders
    /\ Pairs \subseteq Entry /\ Pairs # {}

VARIABLES
    arp_cache,  \* the entries, oldest first
    pc,         \* of every thread: "idle", "lookup", "hi", "lo", and, for
                \* the receive thread, "update"
    count,      \* count of dst_neigh_output: requests sent so far
    hop,        \* daddr of dst_neigh_output: the next hop
    slot,       \* the entry whose smac arp_get_hwaddr returned
    hi,         \* the part of it that netdev_transmit has copied
    packet,     \* the ARP packet arp_rcv is at
    asked,      \* hosts we sent an ARP request for
    frames,     \* IP frames sent: the next hop and the hardware address
    replies,    \* ARP replies sent: to whom, and to which hardware address
    announced,  \* the pairs of addresses of the ARP packets received
    met         \* hosts that sent an ARP packet to us

outVars  == <<pc, count, hop, slot, hi>>
histVars == <<announced, met>>
vars == <<arp_cache, outVars, packet, asked, frames, replies, histVars>>

NoHalf == CHOOSE h \in Halves : TRUE

AnyAddr == [i \in 1..4 |-> 0]

ArpPacket == [op : {"REQUEST", "REPLY"}, src : Pairs, dip : Hosts \cup {Us}]

NoPacket == CHOOSE p \in ArpPacket : TRUE

Init ==
    /\ arp_cache = <<>>
    /\ pc = [t \in Threads |-> "idle"]
    /\ count = [t \in Threads |-> 0]
    /\ hop = [t \in Threads |-> AnyAddr]
    /\ slot = [t \in Threads |-> 0]
    /\ hi = [t \in Threads |-> NoHalf]
    /\ packet = NoPacket
    /\ asked = {} /\ frames = {} /\ replies = {}
    /\ announced = {} /\ met = {}

-----------------------------------------------------------------------------
(* Routing.                                                                *)

Masked(k, a) == [i \in 1..4 |-> IF i <= k THEN a[i] ELSE 0]

(* The flags of a route are numbers whose bits are tested: each is the set *)
(* of the values of its bits.  That of a host has the one of a gateway.    *)
RT_LOOPBACK == {1}
RT_GATEWAY  == {2}
RT_HOST     == {1, 2}

(* route_init.                                                             *)
routes ==
    <<[dst |-> Loop,    mask |-> 1, gateway |-> AnyAddr, flags |-> RT_LOOPBACK],
      [dst |-> Us,      mask |-> 3, gateway |-> AnyAddr, flags |-> RT_HOST],
      [dst |-> AnyAddr, mask |-> 0, gateway |-> Tap,     flags |-> RT_GATEWAY]>>

(* The first entry that matches, or the last entry of all.                 *)
Chosen(i, daddr) ==
    /\ \A j \in 1..(i - 1) : Masked(routes[j].mask, daddr) # routes[j].dst
    /\ i < 3 => Masked(routes[i].mask, daddr) = routes[i].dst

route_lookup(daddr) == routes[CHOOSE i \in 1..3 : Chosen(i, daddr)]

(* An address as ip_output leaves it in the header.                        *)
htonl(a) == [i \in 1..4 |-> a[5 - i]]

(* ip_output looks up the address it finds in the header, before it writes *)
(* the destination there.                                                  *)
DirectHop(inHeader, daddr) == daddr

NextHop(inHeader, daddr) ==
    LET rt == route_lookup(inHeader) IN
    IF rt.flags \cap RT_GATEWAY # {} THEN rt.gateway ELSE daddr

ip_output(t, inHeader, daddr) ==
    /\ pc[t] = "idle"
    /\ pc' = [pc EXCEPT ![t] = "lookup"]
    /\ count' = [count EXCEPT ![t] = 0]
    /\ hop' = [hop EXCEPT ![t] = NextHop(inHeader, daddr)]
    /\ UNCHANGED <<arp_cache, slot, hi, packet, asked, frames, replies,
                   histVars>>

(* A new skb is zeroed, and one that is sent again holds the address in    *)
(* network order.                                                          *)
Send(t) == \E d \in Destinations :
               ip_output(t, AnyAddr, d) \/ ip_output(t, htonl(d), d)

(* What the receive thread answers in the same call: an ICMP request, in   *)
(* the skb of the request, whose header holds our address; or a segment,   *)
(* with a new skb.  ip_rcv drops what is damaged or not for us.            *)
Datagram == [intact : BOOLEAN, saddr : Destinations, daddr : Hosts \cup {Us},
             proto : {"ECHO", "TSTAMP", "TCP"}]

icmpv4_incoming(d) ==
    d.proto \in {"ECHO", "TSTAMP"} /\ ip_output("rx", Us, d.saddr)

tcp_in(d) == d.proto = "TCP" /\ ip_output("rx", AnyAddr, d.saddr)

ip_rcv(d) ==
    /\ d.intact /\ d.daddr = Us
    /\ icmpv4_incoming(d) \/ tcp_in(d)

-----------------------------------------------------------------------------
(* dst_neigh_output.                                                       *)

(* arp_get_hwaddr finds the oldest entry.                                  *)
Finds(i, addr) ==
    /\ i \in 1..Len(arp_cache)
    /\ arp_cache[i].sip = addr
    /\ \A j \in 1..(i - 1) : arp_cache[j].sip # addr

Known(addr) == \E i \in 1..Len(arp_cache) : arp_cache[i].sip = addr

LookupHit(t) ==
    /\ pc[t] = "lookup"
    /\ \E i \in 1..Len(arp_cache) :
         /\ Finds(i, hop[t])
         /\ slot' = [slot EXCEPT ![t] = i]
    /\ pc' = [pc EXCEPT ![t] = "hi"]
    /\ UNCHANGED <<arp_cache, count, hop, hi, packet, asked, frames, replies,
                   histVars>>

(* Ask, sleep 10 ms and look again; after the third request give up.       *)
NotCounted(t) == count[t]

Tried(t) == count[t] + 1

TryAgain(t) == Tried(t) < 3

LookupMiss(t) ==
    /\ pc[t] = "lookup"
    /\ ~Known(hop[t])
    /\ asked' = asked \cup {hop[t]}
    /\ IF TryAgain(t)
       THEN count' = [count EXCEPT ![t] = Tried(t)] /\ UNCHANGED pc
       ELSE count' = [count EXCEPT ![t] = 0] /\ pc' = [pc EXCEPT ![t] = "idle"]
    /\ UNCHANGED <<arp_cache, hop, slot, hi, packet, frames, replies,
                   histVars>>

(* netdev_transmit copies the address out of the entry.                    *)
CopyHi(t) ==
    /\ pc[t] = "hi"
    /\ hi' = [hi EXCEPT ![t] = arp_cache[slot[t]].hi]
    /\ pc' = [pc EXCEPT ![t] = "lo"]
    /\ UNCHANGED <<arp_cache, count, hop, slot, packet, asked, frames,
                   replies, histVars>>

CopyLo(t) ==
    /\ pc[t] = "lo"
    /\ frames' = frames \cup
         {[hop |-> hop[t], hi |-> hi[t], lo |-> arp_cache[slot[t]].lo]}
    /\ pc' = [pc EXCEPT ![t] = "idle"]
    /\ count' = [count EXCEPT ![t] = 0]
    /\ slot' = [slot EXCEPT ![t] = 0] /\ hi' = [hi EXCEPT ![t] = NoHalf]
    /\ UNCHANGED <<arp_cache, hop, packet, asked, replies, histVars>>

dst_neigh_output(t) ==
    LookupHit(t) \/ LookupMiss(t) \/ CopyHi(t) \/ CopyLo(t)

-----------------------------------------------------------------------------
(* arp_rcv, in the receive thread.                                         *)

(* The packet was for us: learn the address, if update did not find it.    *)
UpdateOnly(p) == arp_cache

InsertAnyway(p) == Append(arp_cache, p.src)

insert_arp_translation_table(p) ==
    IF p.dip = Us THEN Append(arp_cache, p.src) ELSE arp_cache

AnswerAll(p) == replies \cup {p.src}

arp_reply(p) ==
    IF p.dip = Us /\ p.op = "REQUEST" THEN replies \cup {p.src} ELSE replies

(* update_arp_translation_table finds no entry: insert, and answer.        *)
ArpNew(p) ==
    /\ ~Known(p.src.sip)
    /\ arp_cache' = insert_arp_translation_table(p)
    /\ replies' = arp_reply(p)
    /\ UNCHANGED <<pc, packet>>

Written(i, h, l) == [sip |-> arp_cache[i].sip, hi |-> h, lo |-> l]

(* It finds one and begins to overwrite the address.                       *)
WriteHi(p) ==
    /\ \E i \in 1..Len(arp_cache) :
         /\ Finds(i, p.src.sip)
         /\ arp_cache' =
              [arp_cache EXCEPT ![i] = Written(i, p.src.hi, arp_cache[i].lo)]
    /\ pc' = [pc EXCEPT !["rx"] = "update"]
    /\ packet' = p
    /\ UNCHANGED replies

(* A host replies only when it was asked, and only to us.                  *)
Plausible(p) == p.op = "REPLY" => p.dip = Us /\ p.src.sip \in asked

(* netdev_rx_loop takes the next frame when it is done with the last one.  *)
TakenMeanwhile == pc["rx"] # "update"

netdev_rx_loop == pc["rx"] = "idle"

arp_rcv(p) ==
    /\ netdev_rx_loop /\ Plausible(p)
    /\ announced' = announced \cup {p.src}
    /\ met' = IF p.dip = Us THEN met \cup {p.src.sip} ELSE met
    /\ ArpNew(p) \/ WriteHi(p)
    /\ UNCHANGED <<count, hop, slot, hi, asked, frames>>

WriteLo ==
    /\ pc["rx"] = "update"
    /\ \E i \in 1..Len(arp_cache) :
         /\ Finds(i, packet.src.sip)
         /\ arp_cache' =
              [arp_cache EXCEPT ![i] = Written(i, arp_cache[i].hi, packet.src.lo)]
    /\ replies' = arp_reply(packet)
    /\ pc' = [pc EXCEPT !["rx"] = "idle"]
    /\ packet' = NoPacket
    /\ UNCHANGED <<count, hop, slot, hi, asked, frames, histVars>>

-----------------------------------------------------------------------------

Next ==
    \/ \E t \in Senders : Send(t)
    \/ \E d \in Datagram : ip_rcv(d)
    \/ \E t \in Threads : dst_neigh_output(t)
    \/ \E p \in ArpPacket : arp_rcv(p)
    \/ WriteLo

Spec == Init /\ [][Next]_vars

(* Every thread goes on with what it has begun.                            *)
FairSpec ==
    /\ Spec
    /\ \A t \in Threads : WF_vars(dst_neigh_output(t))
    /\ WF_vars(WriteLo)

-----------------------------------------------------------------------------
(* Type invariant: the cache, the locals of the threads and the history.   *)
TypeOK ==
    /\ arp_cache \in Seq(Entry)
    /\ pc \in [Threads -> {"idle", "lookup", "hi", "lo", "update"}]
    /\ count \in [Threads -> 0..2]
    /\ hop \in [Threads -> Address]
    /\ slot \in [Threads -> Nat]
    /\ hi \in [Threads -> Halves]
    /\ packet \in ArpPacket
    /\ asked \subseteq Address
    /\ frames \subseteq [hop : Address, hi : Halves, lo : Halves]
    /\ replies \subseteq Pairs
    /\ announced \subseteq Pairs
    /\ met \subseteq Hosts

(* The cache holds one entry per host and only hosts that sent an ARP      *)
(* packet to us ("ARP was not for us", arp.c:97): a request overheard      *)
(* updates an entry but never adds one.                                    *)
CacheSound ==
    \A i \in 1..Len(arp_cache) :
        /\ arp_cache[i].sip \in met
        /\ \A j \in 1..Len(arp_cache) :
               arp_cache[i].sip = arp_cache[j].sip => i = j

(* Every IP frame goes to the gateway: to a hardware address the gateway   *)
(* has announced, or, when it announced two, to one torn from both by the  *)
(* unlocked copies of arp.c:52 and netdev.c:62.                            *)
FramesReachGateway ==
    \A f \in frames : \E a \in announced, b \in announced :
        /\ a.sip = Tap /\ b.sip = Tap
        /\ f.hi = a.hi /\ f.lo = b.lo

(* An ARP reply goes to a host that addressed us, at an address of its own.*)
RepliesSound == \A r \in replies : r \in announced /\ r.sip \in met

(* The receive thread cannot hear the answer to its own ARP request: once  *)
(* it has asked, its datagram is lost, however fast the reply (dst.c:32).  *)
ReceiverNeverLearns ==
    [][pc["rx"] = "lookup" /\ count["rx"] > 0 => pc'["rx"] # "hi"]_vars

(* Sending ends: with a frame, or with -1 after three requests.            *)
OutputEnds ==
    \A t \in Threads : pc[t] = "lookup" ~> pc[t] = "idle"

(* If some thread goes on sending and the gateway goes on answering, a     *)
(* frame is sent at last, although the receive thread may be asleep in     *)
(* dst_neigh_output whenever an answer comes.                              *)
GatewayAnswers == \E p \in ArpPacket :
                      p.op = "REPLY" /\ p.src.sip = Tap /\ arp_rcv(p)

FrameSent ==
    (\E t \in Senders : WF_vars(Send(t))) /\ SF_vars(GatewayAnswers)
        => <>(frames # {})
=============================================================================
