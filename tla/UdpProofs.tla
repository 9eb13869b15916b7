------------------------------ MODULE UdpProofs ------------------------------
(***************************************************************************)
(* Proofs about Udp, for every set of socks, ports and arrivals: the       *)
(* types, that a queue the receive thread did not disturb loses, repeats   *)
(* and reorders nothing, that a connected sock keeps its addresses, and    *)
(* that the links of the list of socks lead where udp_lookup_sock looks.   *)
(***************************************************************************)
EXTENDS Udp, SequenceTheorems, FiniteSetTheorems,
        WellFoundedInduction, TLAPS

Delivering == {"found", "link", "load", "store", "notify"}

(* What the reader relies on between the steps of a removal.               *)
Reader(s) ==
    /\ app_pc[s] = "unlink" => queue[s] # << >>
    /\ app_pc[s] \in {"unlink", "load"} => qlen[s] >= 1
    /\ app_pc[s] = "store" => app_qlen[s] >= 1

Ordered(s) ==
    state[s] # "freed" /\ ~clash[s] =>
        /\ queued[s] = taken[s] \o queue[s]
        /\ qlen[s] = Len(queue[s]) - Counting(s) + Uncounting(s)

UdpInv ==
    /\ TypeOK
    /\ rx_pc \in Delivering => rx_sk \in Socks /\ rx_dg \in Datagram
    /\ \A s \in Socks : Reader(s) /\ Ordered(s)

-----------------------------------------------------------------------------
LEMMA NodeFacts == /\ Socks \subseteq Nodes /\ LinkHead \in Nodes
                   /\ LinkHead \notin Socks /\ Null \notin Nodes
BY NotSocks DEF Nodes

LEMMA NatMinimum ==
    ASSUME NEW T, T \subseteq Nat, T # {}
    PROVE  \E k \in T : \A j \in T : k <= j
<1>1. PICK k \in T : \A j \in T : ~(<<j, k>> \in OpToRel(<, Nat))
  BY NatLessThanWellFounded, WFMin
<1>2. \A j \in T : ~(j < k)
  BY <1>1 DEF OpToRel
<1> QED BY <1>2

(* The walk over the list finds a sock, or nothing.                        *)
LEMMA Found == ASSUME NEW p PROVE udp_lookup_sock(p) \in Socks \cup {LinkHead}
<1> DEFINE hits == {k \in Steps : Walk[k] \in Socks /\ sport[Walk[k]] = p}
           first == CHOOSE k \in hits : \A j \in hits : k <= j
<1>1. CASE hits = {}
  BY <1>1 DEF udp_lookup_sock
<1>2. CASE hits # {}
  <2>1. Cardinality(Socks) \in Nat
    BY FiniteSocks, FS_CardinalityType
  <2>2. hits \subseteq Nat
    <3>1. Steps \subseteq Nat
      BY <2>1 DEF Steps
    <3> QED BY <3>1
  <2>3. \E k \in hits : \A j \in hits : k <= j
    <3> HIDE DEF hits
    <3> QED BY <1>2, <2>2, NatMinimum
  <2>4. first \in hits
    <3> HIDE DEF hits
    <3> QED BY <2>3
  <2>5. udp_lookup_sock(p) = Walk[first]
    BY <1>2 DEF udp_lookup_sock
  <2> QED BY <2>4, <2>5
<1> QED BY <1>1, <1>2

LEMMA QueueGrows ==
    ASSUME NEW t \in Seq(Datagram), NEW q \in Seq(Datagram),
           NEW d \in Datagram
    PROVE  t \o Append(q, d) = Append(t \o q, d)
<1> DEFINE S == Datagram
<1>1. /\ t \in Seq(S) /\ q \in Seq(S) /\ d \in S /\ <<d>> \in Seq(S)
  OBVIOUS
<1> HIDE DEF S
<1>2. /\ Append(t \o q, d) = (t \o q) \o <<d>>
      /\ Append(q, d) = q \o <<d>>
  BY <1>1, ConcatProperties, AppendIsConcat
<1> QED BY <1>1, <1>2, ConcatAssociative

LEMMA Appended ==
    ASSUME NEW S, NEW q \in Seq(S), NEW d \in S
    PROVE  /\ Append(q, d) \in Seq(S) /\ Append(q, d) # << >>
           /\ Len(Append(q, d)) = Len(q) + 1
BY AppendProperties

LEMMA QueueShrinks ==
    ASSUME NEW S, NEW t \in Seq(S), NEW q \in Seq(S), q # << >>
    PROVE  /\ Append(t, Head(q)) \o Tail(q) = t \o q
           /\ Append(t, Head(q)) \in Seq(S) /\ Tail(q) \in Seq(S)
           /\ Len(Tail(q)) = Len(q) - 1
<1>1. Head(q) \in S /\ Tail(q) \in Seq(S) /\ Len(Tail(q)) = Len(q) - 1
  BY HeadTailProperties
<1>2. Append(t, Head(q)) = t \o <<Head(q)>> /\ <<Head(q)>> \in Seq(S)
  BY <1>1, AppendIsConcat
<1>3. q = <<Head(q)>> \o Tail(q)
  BY <1>1
<1>4. Append(t, Head(q)) \o Tail(q) = t \o (<<Head(q)>> \o Tail(q))
  BY <1>1, <1>2, ConcatAssociative
<1>5. Append(t, Head(q)) \in Seq(S)
  BY <1>1, AppendProperties
<1> QED BY <1>1, <1>3, <1>4, <1>5

-----------------------------------------------------------------------------
LEMMA UdpInit == Init => UdpInv
<1> SUFFICES ASSUME Init PROVE UdpInv
  OBVIOUS
<1>1. Socks \subseteq Nodes /\ LinkHead \in Nodes /\ LinkHead \notin Socks
  BY NodeFacts
<1>2. AddressTypeOK
  <2>1. 0 \in PortNumber
    BY DEF PortNumber
  <2> QED BY <1>1, <2>1 DEF Init, AddressTypeOK
<1>3. Arrivals \in Seq(Nat)
  BY UdpAssumption
<1>4. QueueTypeOK /\ ThreadTypeOK
  BY DEF Init, QueueTypeOK, ThreadTypeOK
<1>5. ReceiveTypeOK
  BY <1>1, <1>3 DEF Init, ReceiveTypeOK
<1>6. \A s \in Socks : Reader(s) /\ Ordered(s)
  <2> TAKE s \in Socks
  <2>1. /\ app_pc[s] = "ready" /\ rx_pc = "idle" /\ queue[s] = << >>
        /\ queued[s] = << >> /\ taken[s] = << >> /\ qlen[s] = 0
    BY DEF Init
  <2>2. << >> = << >> \o << >>
    BY ConcatEmptySeq, EmptySeq
  <2>3. Counting(s) = 0 /\ Uncounting(s) = 0 /\ Len(queue[s]) = 0
    BY <2>1 DEF Counting, Uncounting
  <2> QED BY <2>1, <2>2, <2>3 DEF Reader, Ordered
<1> QED BY <1>2, <1>4, <1>5, <1>6 DEF Init, UdpInv, TypeOK, Delivering

(* A step that leaves the queues, and the pcs that matter to them, alone.  *)
LEMMA QueuesUntouched ==
    ASSUME UdpInv, UNCHANGED queueVars,
           NEW s \in Socks,
           state'[s] = "freed" <=> state[s] = "freed",
           app_pc'[s] = app_pc[s]
           \/ {app_pc[s], app_pc'[s]} \cap {"unlink", "load", "store"} = {},
           app_qlen'[s] = app_qlen[s],
           Counting(s)' = Counting(s)
    PROVE  Reader(s)' /\ Ordered(s)'
<1>1. Uncounting(s)' = Uncounting(s)
  BY DEF Uncounting
<1>2. /\ queue' = queue /\ qlen' = qlen /\ clash' = clash /\ taken' = taken
      /\ queued' = queued
  BY DEF queueVars
<1>3. Reader(s) /\ Ordered(s)
  BY DEF UdpInv
<1> QED BY <1>1, <1>2, <1>3 DEF Reader, Ordered

LEMMA Untouched ==
    /\ UNCHANGED <<state, sport, peer, saddr, nxt, prv, list>> /\ AddressTypeOK
           => AddressTypeOK'
    /\ UNCHANGED queueVars /\ QueueTypeOK => QueueTypeOK'
    /\ UNCHANGED <<sleeping, app_pc, app_qlen>> /\ ThreadTypeOK => ThreadTypeOK'
    /\ UNCHANGED rxVars /\ ReceiveTypeOK => ReceiveTypeOK'
<1>1. UNCHANGED <<state, sport, peer, saddr, nxt, prv, list>> /\ AddressTypeOK
      => AddressTypeOK'
  BY DEF AddressTypeOK
<1>2. UNCHANGED queueVars /\ QueueTypeOK => QueueTypeOK'
  BY DEF QueueTypeOK, queueVars
<1>3. UNCHANGED <<sleeping, app_pc, app_qlen>> /\ ThreadTypeOK => ThreadTypeOK'
  BY DEF ThreadTypeOK
<1>4. UNCHANGED rxVars /\ ReceiveTypeOK => ReceiveTypeOK'
  BY DEF ReceiveTypeOK, rxVars
<1> QED BY <1>1, <1>2, <1>3, <1>4

LEMMA Types ==
    UdpInv => /\ AddressTypeOK /\ QueueTypeOK /\ ThreadTypeOK /\ ReceiveTypeOK
              /\ race \in BOOLEAN /\ up \in BOOLEAN
BY DEF UdpInv, TypeOK

(* The calls that change addresses and links.                              *)
LEMMA AddressKept ==
    ASSUME UdpInv, NEW s \in Socks, NEW r \in Peers,
           SetAddress(s, r), state' \in [Socks -> {"none", "UNCONNECTED",
                                                   "CONNECTED", "freed"}],
           UNCHANGED listVars \/ list_add_tail(s)
    PROVE  AddressTypeOK'
<1>1. AddressTypeOK
  BY Types
<1>2. PICK p \in Ports : sport' = [sport EXCEPT ![s] = p]
  BY DEF SetAddress
<1>3. p \in PortNumber
  BY <1>2, UdpAssumption
<1>4. sport' \in [Socks -> PortNumber]
  BY <1>1, <1>2, <1>3 DEF AddressTypeOK
<1>5. peer' \in [Socks -> Peers \cup {NoPeer}] /\ saddr' \in [Socks -> BOOLEAN]
  BY <1>1 DEF AddressTypeOK, SetAddress
<1>6. /\ nxt' \in [Nodes -> Nodes \cup {Null}]
      /\ prv' \in [Nodes -> Nodes \cup {Null}]
      /\ list' \in {"whole", "relinked", "broken"}
  <2>1. CASE UNCHANGED listVars
    BY <1>1, <2>1 DEF AddressTypeOK, listVars
  <2>2. CASE list_add_tail(s)
    BY <1>1, <2>2, NodeFacts DEF AddressTypeOK, list_add_tail
  <2> QED BY <2>1, <2>2
<1> QED BY <1>4, <1>5, <1>6 DEF AddressTypeOK

LEMMA CreateStep ==
    ASSUME UdpInv, NEW s \in Socks,
           inet_create(s) \/ udp_recvfrom(s) \/ (\E p \in Ports : udp_bind(s, p))
    PROVE  UdpInv'
<1>1. /\ UNCHANGED <<queueVars, sleeping, app_qlen, rxVars, race, up>>
      /\ AddressTypeOK' /\ ThreadTypeOK'
      /\ \A t \in Socks : /\ state'[t] = "freed" <=> state[t] = "freed"
                          /\ \/ app_pc'[t] = app_pc[t]
                             \/ app_pc[t] = "ready" /\ app_pc'[t] = "test"
  <2>1. CASE inet_create(s)
    BY <2>1, Types, Untouched
    DEF inet_create, appVars, AddressTypeOK, ThreadTypeOK, listVars
  <2>2. CASE udp_recvfrom(s)
    BY <2>2, Types, Untouched
    DEF udp_recvfrom, Open, appVars, ThreadTypeOK, addrVars, listVars
  <2>3. ASSUME NEW p \in Ports, udp_bind(s, p)
        PROVE  /\ UNCHANGED <<queueVars, sleeping, app_qlen, rxVars, race, up>>
               /\ AddressTypeOK' /\ ThreadTypeOK' /\ UNCHANGED <<state, app_pc>>
    <3>1. p \in PortNumber
      BY UdpAssumption
    <3>2. AddressTypeOK'
      BY <2>3, <3>1, Types
      DEF udp_bind, udp_set_sport, AddressTypeOK, listVars
    <3> QED BY <2>3, <3>2, Types, Untouched DEF udp_bind, appVars
  <2> QED BY <2>1, <2>2, <2>3
<1>2. QueueTypeOK' /\ ReceiveTypeOK' /\ UNCHANGED <<rx_pc, rx_sk, rx_dg>>
  BY <1>1, Types, Untouched DEF rxVars
<1>3. ASSUME NEW t \in Socks PROVE Reader(t)' /\ Ordered(t)'
  <2>1. Counting(t)' = Counting(t)
    BY <1>2 DEF Counting
  <2>2. {"ready", "test"} \cap {"unlink", "load", "store"} = {}
    OBVIOUS
  <2> QED BY <1>1, <2>1, <2>2, QueuesUntouched
<1> QED BY <1>1, <1>2, <1>3, Types DEF UdpInv, TypeOK

(* A sock that connects again loses what was queued for it.                *)
LEMMA CleanUpKept ==
    ASSUME UdpInv, NEW s \in Socks, udp_clean_up_receive_queue(s),
           app_pc[s] = "ready", UNCHANGED <<appVars, rxVars>>,
           \A t \in Socks : state'[t] = "freed" <=> state[t] = "freed"
    PROVE  QueueTypeOK' /\ \A t \in Socks : Reader(t)' /\ Ordered(t)'
<1>1. /\ queue' = [queue EXCEPT ![s] = << >>] /\ qlen' = [qlen EXCEPT ![s] = 0]
      /\ taken' = [taken EXCEPT ![s] = taken[s] \o queue[s]]
      /\ clash' = [clash EXCEPT ![s] = clash[s] \/ (rx_pc # "idle" /\ rx_sk = s)]
      /\ queued' = queued
  BY DEF udp_clean_up_receive_queue
<1>2. /\ queue \in [Socks -> Seq(Datagram)] /\ qlen \in [Socks -> Nat]
      /\ taken \in [Socks -> Seq(Datagram)] /\ clash \in [Socks -> BOOLEAN]
      /\ queued \in [Socks -> Seq(Datagram)]
  BY Types DEF QueueTypeOK
<1>3. taken[s] \o queue[s] \in Seq(Datagram)
  BY <1>2, ConcatProperties
<1>4. QueueTypeOK'
  BY <1>1, <1>2, <1>3 DEF QueueTypeOK
<1>5. /\ app_pc' = app_pc /\ app_qlen' = app_qlen /\ rx_pc' = rx_pc
      /\ rx_sk' = rx_sk
  BY DEF appVars, rxVars
<1>6. ASSUME NEW t \in Socks PROVE Reader(t)' /\ Ordered(t)'
  <2>1. /\ Counting(t)' = Counting(t) /\ Uncounting(t)' = Uncounting(t)
        /\ Reader(t) /\ Ordered(t)
    BY <1>5 DEF Counting, Uncounting, UdpInv
  <2>2. CASE t = s
    <3>1. /\ queue'[s] = << >> /\ qlen'[s] = 0 /\ queued'[s] = queued[s]
          /\ taken'[s] = taken[s] \o queue[s]
      BY <1>1, <1>2
    <3>2. taken'[s] \o << >> = taken'[s]
      BY <1>3, <3>1, ConcatEmptySeq
    <3>3. ~clash'[s] => ~clash[s] /\ Counting(s) = 0 /\ Uncounting(s) = 0
      BY <1>1, <1>2 DEF Counting, Uncounting
    <3>4. Len(<< >>) = 0
      OBVIOUS
    <3>5. Reader(s)'
      BY <1>5 DEF Reader
    <3>6. ASSUME state'[s] # "freed", ~clash'[s]
          PROVE  /\ queued'[s] = taken'[s] \o queue'[s]
                 /\ qlen'[s] = Len(queue'[s]) - Counting(s)' + Uncounting(s)'
      <4>1. queued[s] = taken[s] \o queue[s]
        BY <2>1, <2>2, <3>3, <3>6 DEF Ordered
      <4>2. Counting(s)' = 0 /\ Uncounting(s)' = 0
        BY <2>1, <2>2, <3>3, <3>6
      <4> QED BY <3>1, <3>2, <3>4, <4>1, <4>2
    <3>7. Ordered(s)'
      BY <3>6 DEF Ordered
    <3> QED BY <2>2, <3>5, <3>7
  <2>3. CASE t # s
    <3>1. /\ queue'[t] = queue[t] /\ qlen'[t] = qlen[t] /\ taken'[t] = taken[t]
          /\ clash'[t] = clash[t] /\ queued'[t] = queued[t]
      BY <1>1, <1>2, <2>3
    <3> QED BY <1>5, <2>1, <3>1 DEF Reader, Ordered
  <2> QED BY <2>2, <2>3
<1> QED BY <1>4, <1>6

LEMMA AddressStep ==
    ASSUME UdpInv, NEW s \in Socks, NEW r \in Peers,
           udp_connect(s, r) \/ udp_sendto(s, r)
    PROVE  UdpInv'
<1>1. /\ app_pc[s] = "ready" /\ SetAddress(s, r)
      /\ UNCHANGED listVars \/ list_add_tail(s)
      /\ UNCHANGED queueVars \/ udp_clean_up_receive_queue(s)
      /\ UNCHANGED <<sleeping, appVars, rxVars, race, up>>
      /\ state' = [state EXCEPT ![s] = "CONNECTED"] \/ state' = state
      /\ state[s] # "freed"
  BY DEF udp_connect, udp_sendto, Open
<1>2. /\ \A t \in Socks : state'[t] = "freed" <=> state[t] = "freed"
      /\ state' \in [Socks -> {"none", "UNCONNECTED", "CONNECTED", "freed"}]
  BY <1>1, Types DEF AddressTypeOK
<1>3. AddressTypeOK'
  BY <1>1, <1>2, AddressKept
<1>4. QueueTypeOK' /\ \A t \in Socks : Reader(t)' /\ Ordered(t)'
  <2>1. CASE udp_clean_up_receive_queue(s)
    BY <1>1, <1>2, <2>1, CleanUpKept
  <2>2. CASE UNCHANGED queueVars
    <3>1. ASSUME NEW t \in Socks PROVE Reader(t)' /\ Ordered(t)'
      <4>1. Counting(t)' = Counting(t)
        BY <1>1 DEF Counting, rxVars
      <4> QED BY <1>1, <1>2, <2>2, <4>1, QueuesUntouched DEF appVars
    <3> QED BY <2>2, <3>1, Types, Untouched
  <2> QED BY <1>1, <2>1, <2>2
<1>5. ThreadTypeOK' /\ ReceiveTypeOK'
  BY <1>1, Types, Untouched DEF appVars
<1> QED BY <1>1, <1>3, <1>4, <1>5, Types DEF UdpInv, TypeOK, rxVars

(* The steps of a reader that leave the queue alone.                       *)
LEMMA ReaderStep ==
    ASSUME UdpInv, NEW s \in Socks,
           DequeueTest(s) \/ DequeueLoad(s) \/ wait_sleep(s) \/ WakeUp(s)
    PROVE  UdpInv'
<1>1. /\ UNCHANGED <<addrVars, listVars, queueVars, rxVars>>
      /\ race' \in BOOLEAN /\ up' \in BOOLEAN
  BY Types DEF DequeueTest, DequeueLoad, wait_sleep, WakeUp
<1>2. /\ app_qlen \in [Socks -> Nat] /\ qlen \in [Socks -> Nat]
      /\ sleeping \in [Socks -> BOOLEAN]
      /\ app_pc \in [Socks -> {"ready", "test", "unlink", "load", "store",
                               "sleep", "asleep", "free"}]
  BY Types DEF ThreadTypeOK, QueueTypeOK
<1>3. AddressTypeOK' /\ QueueTypeOK' /\ ReceiveTypeOK'
  BY <1>1, Types, Untouched DEF addrVars, listVars
<1>4. ThreadTypeOK'
  BY <1>2 DEF DequeueTest, DequeueLoad, wait_sleep, WakeUp, ThreadTypeOK
<1>5. /\ state' = state /\ queue' = queue /\ qlen' = qlen /\ clash' = clash
      /\ taken' = taken /\ queued' = queued
      /\ \A t \in Socks : Counting(t)' = Counting(t)
  BY <1>1 DEF addrVars, queueVars, rxVars, Counting
<1>6. ASSUME NEW t \in Socks PROVE Reader(t)' /\ Ordered(t)'
  <2>1. Reader(t) /\ Ordered(t)
    BY DEF UdpInv
  <2>2. Reader(t)' /\ Uncounting(t)' = Uncounting(t)
    <3>1. CASE t = s
      BY <1>2, <1>5, <2>1, <3>1
      DEF DequeueTest, DequeueLoad, wait_sleep, WakeUp, Reader, Uncounting
    <3>2. CASE t # s
      <4>1. app_pc'[t] = app_pc[t] /\ app_qlen'[t] = app_qlen[t]
        BY <1>2, <3>2 DEF DequeueTest, DequeueLoad, wait_sleep, WakeUp
      <4> QED BY <1>5, <2>1, <4>1 DEF Reader, Uncounting
    <3> QED BY <3>1, <3>2
  <2> QED BY <1>5, <2>1, <2>2 DEF Ordered
<1> QED BY <1>1, <1>3, <1>4, <1>6 DEF UdpInv, TypeOK, rxVars

(* The reader takes the first datagram.                                    *)
LEMMA UnlinkStep ==
    ASSUME UdpInv, NEW s \in Socks, DequeueUnlink(s)
    PROVE  UdpInv'
<1>1. /\ app_pc[s] = "unlink" /\ app_pc' = [app_pc EXCEPT ![s] = "load"]
      /\ queue' = [queue EXCEPT ![s] = Tail(queue[s])]
      /\ taken' = [taken EXCEPT ![s] = Append(taken[s], Head(queue[s]))]
      /\ UNCHANGED <<addrVars, listVars, qlen, clash, queued, sleeping,
                     app_qlen, rxVars, race, up>>
  BY DEF DequeueUnlink
<1>2. /\ queue \in [Socks -> Seq(Datagram)] /\ qlen \in [Socks -> Nat]
      /\ taken \in [Socks -> Seq(Datagram)]
      /\ app_pc \in [Socks -> {"ready", "test", "unlink", "load", "store",
                               "sleep", "asleep", "free"}]
  BY Types DEF QueueTypeOK, ThreadTypeOK
<1>3. queue[s] # << >> /\ qlen[s] >= 1
  BY <1>1 DEF UdpInv, Reader
<1>4. /\ Append(taken[s], Head(queue[s])) \o Tail(queue[s])
         = taken[s] \o queue[s]
      /\ Append(taken[s], Head(queue[s])) \in Seq(Datagram)
      /\ Tail(queue[s]) \in Seq(Datagram)
      /\ Len(Tail(queue[s])) = Len(queue[s]) - 1
  BY <1>2, <1>3, QueueShrinks
<1>5. AddressTypeOK' /\ ReceiveTypeOK'
  BY <1>1, Types, Untouched DEF addrVars, listVars
<1>6. QueueTypeOK'
  <2>1. queue' \in [Socks -> Seq(Datagram)] /\ taken' \in [Socks -> Seq(Datagram)]
    BY <1>1, <1>2, <1>4
  <2> QED BY <1>1, <2>1, Types DEF QueueTypeOK
<1>7. ThreadTypeOK'
  BY <1>1, Types DEF ThreadTypeOK
<1>8. ASSUME NEW t \in Socks PROVE Reader(t)' /\ Ordered(t)'
  <2>1. /\ Reader(t) /\ Ordered(t) /\ Counting(t)' = Counting(t)
        /\ state' = state
    BY <1>1 DEF UdpInv, Counting, rxVars, addrVars
  <2>2. CASE t = s
    <3>1. /\ queue'[s] = Tail(queue[s]) /\ qlen'[s] = qlen[s]
          /\ taken'[s] = Append(taken[s], Head(queue[s]))
          /\ app_pc'[s] = "load" /\ clash' = clash /\ queued' = queued
      BY <1>1, <1>2
    <3>2. Uncounting(s) = 0 /\ Uncounting(s)' = 1 /\ Reader(s)'
      BY <1>1, <1>3, <3>1 DEF Uncounting, Reader
    <3>3. Counting(s) \in Int /\ Len(queue[s]) \in Int
      BY <1>2 DEF Counting
    <3>4. taken'[s] \o queue'[s] = taken[s] \o queue[s]
      BY <1>4, <3>1
    <3>5. Len(queue'[s]) - Counting(s)' + Uncounting(s)'
          = Len(queue[s]) - Counting(s) + Uncounting(s)
      BY <1>4, <2>1, <2>2, <3>1, <3>2, <3>3
    <3>6. Ordered(s)'
      BY <2>1, <2>2, <3>1, <3>4, <3>5 DEF Ordered
    <3> QED BY <2>2, <3>2, <3>6
  <2>3. CASE t # s
    <3>1. /\ queue'[t] = queue[t] /\ taken'[t] = taken[t] /\ qlen' = qlen
          /\ app_pc'[t] = app_pc[t] /\ clash' = clash /\ queued' = queued
          /\ app_qlen' = app_qlen
      BY <1>1, <1>2, <2>3
    <3> QED BY <2>1, <3>1 DEF Reader, Ordered, Uncounting
  <2> QED BY <2>2, <2>3
<1> QED BY <1>1, <1>5, <1>6, <1>7, <1>8, Types DEF UdpInv, TypeOK, rxVars

LEMMA StoreStep ==
    ASSUME UdpInv, NEW s \in Socks, DequeueStore(s)
    PROVE  UdpInv'
<1>1. /\ app_pc[s] = "store" /\ qlen' = [qlen EXCEPT ![s] = app_qlen[s] - 1]
      /\ clash' = [clash EXCEPT ![s] = clash[s] \/ qlen[s] # app_qlen[s]
                                       \/ (rx_pc = "store" /\ rx_sk = s)]
      /\ app_qlen' = [app_qlen EXCEPT ![s] = 0]
      /\ UNCHANGED <<addrVars, listVars, queue, queued, taken, sleeping,
                     rxVars, race, up>>
  BY DEF DequeueStore, OneLess
<1>2. PICK pc \in {"sleep", "ready"} : app_pc' = [app_pc EXCEPT ![s] = pc]
  BY DEF DequeueStore
<1>3. /\ queue \in [Socks -> Seq(Datagram)] /\ qlen \in [Socks -> Nat]
      /\ clash \in [Socks -> BOOLEAN] /\ app_qlen \in [Socks -> Nat]
      /\ app_pc \in [Socks -> {"ready", "test", "unlink", "load", "store",
                               "sleep", "asleep", "free"}]
  BY Types DEF QueueTypeOK, ThreadTypeOK
<1>4. app_qlen[s] \in Nat /\ app_qlen[s] >= 1
  BY <1>1, <1>3 DEF UdpInv, Reader
<1>5. AddressTypeOK' /\ ReceiveTypeOK'
  BY <1>1, Types, Untouched DEF addrVars, listVars
<1>6. QueueTypeOK'
  <2>1. qlen' \in [Socks -> Nat]
    BY <1>1, <1>3, <1>4
  <2>2. clash' \in [Socks -> BOOLEAN]
    BY <1>1, <1>3
  <2> QED BY <1>1, <2>1, <2>2, Types DEF QueueTypeOK
<1>7. ThreadTypeOK'
  BY <1>1, <1>2, <1>3, Types DEF ThreadTypeOK
<1>8. ASSUME NEW t \in Socks PROVE Reader(t)' /\ Ordered(t)'
  <2>1. /\ Reader(t) /\ Ordered(t) /\ Counting(t)' = Counting(t)
        /\ state' = state /\ queue' = queue /\ queued' = queued
        /\ taken' = taken
    BY <1>1 DEF UdpInv, Counting, rxVars, addrVars
  <2>2. CASE t = s
    <3>1. /\ qlen'[s] = app_qlen[s] - 1 /\ app_pc'[s] \in {"sleep", "ready"}
          /\ ~clash'[s] => ~clash[s] /\ qlen[s] = app_qlen[s]
      BY <1>1, <1>2, <1>3
    <3>2. Uncounting(s) = 1 /\ Uncounting(s)' = 0 /\ Reader(s)'
      BY <1>1, <3>1 DEF Uncounting, Reader
    <3>3. Counting(s) \in Int /\ Len(queue[s]) \in Int
      BY <1>3 DEF Counting
    <3>4. ASSUME state'[s] # "freed", ~clash'[s]
          PROVE  /\ queued'[s] = taken'[s] \o queue'[s]
                 /\ qlen'[s] = Len(queue'[s]) - Counting(s)' + Uncounting(s)'
      <4>1. /\ queued[s] = taken[s] \o queue[s]
            /\ qlen[s] = Len(queue[s]) - Counting(s) + Uncounting(s)
        BY <2>1, <2>2, <3>1, <3>4 DEF Ordered
      <4> QED BY <2>1, <2>2, <3>1, <3>2, <3>3, <3>4, <4>1
    <3> QED BY <2>2, <3>2, <3>4 DEF Ordered
  <2>3. CASE t # s
    <3>1. /\ qlen'[t] = qlen[t] /\ app_pc'[t] = app_pc[t]
          /\ clash'[t] = clash[t] /\ app_qlen'[t] = app_qlen[t]
      BY <1>1, <1>2, <1>3, <2>3
    <3> QED BY <2>1, <3>1 DEF Reader, Ordered, Uncounting
  <2> QED BY <2>2, <2>3
<1> QED BY <1>1, <1>5, <1>6, <1>7, <1>8, Types DEF UdpInv, TypeOK, rxVars

LEMMA CloseStep ==
    ASSUME UdpInv, NEW s \in Socks, udp_close(s)
    PROVE  UdpInv'
<1>1. /\ app_pc[s] = "ready"
      /\ app_pc' = app_pc \/ app_pc' = [app_pc EXCEPT ![s] = "free"]
      /\ UNCHANGED listVars \/ list_del_init(s)
      /\ UNCHANGED <<addrVars, queueVars, sleeping, app_qlen, rxVars, race>>
      /\ up' = FALSE \/ up' = up
  BY DEF udp_close, Open
<1>2. AddressTypeOK'
  <2>1. /\ nxt' \in [Nodes -> Nodes \cup {Null}]
        /\ prv' \in [Nodes -> Nodes \cup {Null}]
        /\ list' \in {"whole", "relinked", "broken"}
    <3>1. CASE UNCHANGED listVars
      BY <3>1, Types DEF AddressTypeOK, listVars
    <3>2. CASE list_del_init(s)
      BY <3>2, Types, NodeFacts DEF AddressTypeOK, list_del_init
    <3> QED BY <1>1, <3>1, <3>2
  <2> QED BY <1>1, <2>1, Types DEF AddressTypeOK, addrVars
<1>3. QueueTypeOK' /\ ReceiveTypeOK'
  BY <1>1, Types, Untouched
<1>4. ThreadTypeOK'
  BY <1>1, Types DEF ThreadTypeOK
<1>5. ASSUME NEW t \in Socks PROVE Reader(t)' /\ Ordered(t)'
  <2>1. \/ app_pc'[t] = app_pc[t]
        \/ app_pc[t] = "ready" /\ app_pc'[t] = "free"
    BY <1>1, Types DEF ThreadTypeOK
  <2>2. Counting(t)' = Counting(t) /\ state' = state /\ app_qlen' = app_qlen
    BY <1>1 DEF Counting, rxVars, addrVars
  <2>3. {"ready", "free"} \cap {"unlink", "load", "store"} = {}
    OBVIOUS
  <2> QED BY <1>1, <2>1, <2>2, <2>3, QueuesUntouched
<1> QED BY <1>1, <1>2, <1>3, <1>4, <1>5, Types DEF UdpInv, TypeOK, rxVars

LEMMA FreeStep ==
    ASSUME UdpInv, NEW s \in Socks, FreeTwice(s)
    PROVE  UdpInv'
<1>1. /\ app_pc[s] = "free" /\ state' = [state EXCEPT ![s] = "freed"]
      /\ queue' = [queue EXCEPT ![s] = << >>]
      /\ qlen' = [qlen EXCEPT ![s] = 0]
      /\ taken' = [taken EXCEPT ![s] = << >>]
      /\ queued' = [queued EXCEPT ![s] = << >>]
      /\ app_pc' = [app_pc EXCEPT ![s] = "ready"]
      /\ UNCHANGED <<sport, peer, saddr, listVars, clash, sleeping, app_qlen,
                     rxVars, race, up>>
  BY DEF FreeTwice
<1>2. AddressTypeOK'
  BY <1>1, Types DEF AddressTypeOK, listVars
<1>3. << >> \in Seq(Datagram)
  OBVIOUS
<1>4. QueueTypeOK'
  BY <1>1, <1>3, Types DEF QueueTypeOK
<1>5. ThreadTypeOK' /\ ReceiveTypeOK'
  BY <1>1, Types, Untouched DEF ThreadTypeOK
<1>6. ASSUME NEW t \in Socks PROVE Reader(t)' /\ Ordered(t)'
  <2>1. Reader(t) /\ Ordered(t) /\ Counting(t)' = Counting(t)
    BY <1>1 DEF UdpInv, Counting, rxVars
  <2>2. CASE t = s
    <3>1. state'[s] = "freed" /\ app_pc'[s] = "ready"
      BY <1>1, Types DEF AddressTypeOK, ThreadTypeOK
    <3> QED BY <2>2, <3>1 DEF Reader, Ordered
  <2>3. CASE t # s
    <3>1. /\ queue'[t] = queue[t] /\ qlen'[t] = qlen[t] /\ taken'[t] = taken[t]
          /\ queued'[t] = queued[t] /\ app_pc'[t] = app_pc[t]
          /\ state'[t] = state[t] /\ clash' = clash /\ app_qlen' = app_qlen
      BY <1>1, <2>3, Types DEF AddressTypeOK, QueueTypeOK, ThreadTypeOK
    <3> QED BY <2>1, <3>1 DEF Reader, Ordered, Uncounting
  <2> QED BY <2>2, <2>3
<1> QED BY <1>1, <1>2, <1>4, <1>5, <1>6, Types DEF UdpInv, TypeOK, rxVars

-----------------------------------------------------------------------------
(* The receive thread.  A step of it leaves the threads of the sockets     *)
(* where they are, so only the sock it holds has to be looked at.          *)
LEMMA OtherSocks ==
    ASSUME UdpInv, UNCHANGED appVars, UNCHANGED addrVars,
           NEW s \in Socks,
           queue'[s] = queue[s], qlen'[s] = qlen[s], clash'[s] = clash[s],
           queued'[s] = queued[s], taken'[s] = taken[s],
           Counting(s)' = Counting(s)
    PROVE  Reader(s)' /\ Ordered(s)'
<1>1. /\ Reader(s) /\ Ordered(s) /\ app_pc' = app_pc /\ app_qlen' = app_qlen
      /\ state' = state
  BY DEF UdpInv, appVars, addrVars
<1> QED BY <1>1 DEF Reader, Ordered, Uncounting

LEMMA LookupStep ==
    ASSUME UdpInv, NEW p \in Ports, Lookup(p)
    PROVE  UdpInv'
<1>1. /\ rx_pc = "idle" /\ arrived < Len(Arrivals)
      /\ UNCHANGED <<appSide, queueVars, rx_qlen, race, up>>
      /\ \/ /\ rx_pc' = "found" /\ rx_sk' \in Socks
            /\ rx_dg' = arrived + 1 /\ arrived' = arrived + 1
         \/ rx_pc' = "spin" /\ UNCHANGED <<rx_sk, rx_dg, arrived>>
  BY Found DEF Lookup
<1>2. Len(Arrivals) \in Nat
  BY UdpAssumption
<1>3. ReceiveTypeOK' /\ (rx_pc' \in Delivering => rx_sk' \in Socks
                                                  /\ rx_dg' \in Datagram)
  BY <1>1, <1>2, NodeFacts, Types DEF ReceiveTypeOK, Datagram, Delivering
<1>4. AddressTypeOK' /\ QueueTypeOK' /\ ThreadTypeOK'
  BY <1>1, Types, Untouched DEF appSide, addrVars, listVars, appVars
<1>5. ASSUME NEW t \in Socks PROVE Reader(t)' /\ Ordered(t)'
  <2>1. Counting(t)' = Counting(t)
    BY <1>1 DEF Counting
  <2> QED BY <1>1, <2>1, OtherSocks DEF appSide, queueVars
<1> QED BY <1>1, <1>3, <1>4, <1>5, Types DEF UdpInv, TypeOK

LEMMA HandOverStep ==
    ASSUME UdpInv, EnqueueBegin \/ udp_recv_notify \/ UseAfterFree
    PROVE  UdpInv'
<1>1. /\ rx_pc \in Delivering /\ up' = up
      /\ UNCHANGED <<addrVars, listVars, appVars, queueVars, arrived>>
      /\ race' \in BOOLEAN
      /\ sleeping' = sleeping \/ sleeping' = [sleeping EXCEPT ![rx_sk] = FALSE]
      /\ rx_qlen' \in {rx_qlen, 0}
      /\ \/ rx_pc = "found" /\ rx_pc' = "link" /\ UNCHANGED <<rx_sk, rx_dg>>
         \/ /\ rx_pc' = "idle" /\ rx_sk' = LinkHead /\ rx_dg' = 0
            /\ rx_pc = "notify" \/ state[rx_sk] = "freed"
  BY Types DEF EnqueueBegin, udp_recv_notify, UseAfterFree, wait_wakeup, appSide,
               Delivering, Alive
<1>2. rx_sk \in Socks /\ rx_dg \in Datagram
  BY <1>1 DEF UdpInv
<1>3. ReceiveTypeOK' /\ (rx_pc' \in Delivering => rx_sk' \in Socks
                                                  /\ rx_dg' \in Datagram)
  BY <1>1, <1>2, NodeFacts, Types DEF ReceiveTypeOK, Delivering
<1>4. AddressTypeOK' /\ QueueTypeOK'
  BY <1>1, Types, Untouched DEF addrVars, listVars
<1>5. ThreadTypeOK'
  BY <1>1, Types DEF ThreadTypeOK, appVars
<1>6. ASSUME NEW t \in Socks PROVE Reader(t)' /\ Ordered(t)'
  <2>1. CASE state[t] = "freed" /\ t = rx_sk
    <3>1. Reader(t)
      BY DEF UdpInv
    <3> QED BY <1>1, <2>1, <3>1 DEF Reader, Ordered, addrVars, appVars, queueVars
  <2>2. CASE ~(state[t] = "freed" /\ t = rx_sk)
    <3>1. Counting(t)' = Counting(t)
      BY <1>1, <1>2, <2>2, NodeFacts DEF Counting
    <3> QED BY <1>1, <3>1, OtherSocks DEF queueVars
  <2> QED BY <2>1, <2>2
<1> QED BY <1>1, <1>3, <1>4, <1>5, <1>6, Types DEF UdpInv, TypeOK

(* The new datagram is linked, whole or disturbed by a removal.            *)
LEMMA LinkStep ==
    ASSUME UdpInv, EnqueueLink, NEW s \in Socks, s = rx_sk,
           NEW d \in Datagram, d = rx_dg
    PROVE  UdpInv'
<1>1. /\ rx_pc = "link" /\ rx_pc' = "load" /\ race' = FALSE
      /\ queued' = [queued EXCEPT ![s] = Append(queued[s], d)]
      /\ clash' = [clash EXCEPT ![s] = clash[s] \/ race]
      /\ UNCHANGED <<appSide, qlen, taken, rx_sk, rx_dg, rx_qlen, arrived, up>>
  BY DEF EnqueueLink
<1>2. PICK q \in Inserted(queue[s], d) : queue' = [queue EXCEPT ![s] = q]
  BY DEF EnqueueLink
<1>3. /\ queue \in [Socks -> Seq(Datagram)] /\ qlen \in [Socks -> Nat]
      /\ taken \in [Socks -> Seq(Datagram)] /\ clash \in [Socks -> BOOLEAN]
      /\ queued \in [Socks -> Seq(Datagram)] /\ race \in BOOLEAN
  BY Types DEF QueueTypeOK
<1>4. queue[s] \in Seq(Datagram) /\ queued[s] \in Seq(Datagram)
      /\ taken[s] \in Seq(Datagram)
  BY <1>3
<1>5. /\ Append(queue[s], d) \in Seq(Datagram)
      /\ Append(queue[s], d) # << >>
      /\ Len(Append(queue[s], d)) = Len(queue[s]) + 1
      /\ Append(queued[s], d) \in Seq(Datagram)
  BY <1>4, Appended
<1>6. /\ q \in Seq(Datagram)
      /\ queue[s] # << >> => q # << >>
      /\ ~race => q = Append(queue[s], d)
  <2>1. /\ Append(Append(queue[s], d), d) \in Seq(Datagram)
        /\ Append(Append(queue[s], d), d) # << >>
    BY <1>5, Appended
  <2> QED BY <1>2, <1>3, <1>4, <1>5, <2>1 DEF Inserted
<1>7. AddressTypeOK' /\ ThreadTypeOK'
  BY <1>1, Types, Untouched DEF appSide, addrVars, listVars, appVars
<1>8. QueueTypeOK'
  <2>1. queue' \in [Socks -> Seq(Datagram)]
    BY <1>2, <1>3, <1>6
  <2>2. queued' \in [Socks -> Seq(Datagram)]
    BY <1>1, <1>3, <1>5
  <2>3. clash' \in [Socks -> BOOLEAN]
    BY <1>1, <1>3
  <2> QED BY <1>1, <1>3, <2>1, <2>2, <2>3 DEF QueueTypeOK
<1>9. ReceiveTypeOK'
  BY <1>1, Types DEF ReceiveTypeOK
<1>10. ASSUME NEW t \in Socks PROVE Reader(t)' /\ Ordered(t)'
  <2>1. /\ Reader(t) /\ Ordered(t) /\ state' = state /\ app_pc' = app_pc
        /\ app_qlen' = app_qlen
    BY <1>1 DEF UdpInv, appSide, addrVars, appVars
  <2>2. CASE t = s
    <3>1. /\ queue'[s] = q /\ qlen' = qlen /\ taken' = taken
          /\ ~clash'[s] => ~clash[s] /\ ~race
          /\ queued'[s] = Append(queued[s], d)
      BY <1>1, <1>2, <1>3, <1>4
    <3>2. Reader(s)'
      <4>1. queue[s] # << >> => queue'[s] # << >>
        BY <1>6, <3>1
      <4>2. Reader(s)
        BY <2>1, <2>2
      <4>3. qlen'[s] = qlen[s] /\ app_pc'[s] = app_pc[s]
            /\ app_qlen'[s] = app_qlen[s]
        BY <2>1, <3>1
      <4> QED BY <4>1, <4>2, <4>3 DEF Reader
    <3>3. Counting(s) = 0 /\ Counting(s)' = 1 /\ Uncounting(s)' = Uncounting(s)
      BY <1>1, <2>1 DEF Counting, Uncounting
    <3>4. Uncounting(s) \in Int /\ Len(queue[s]) \in Int
      BY <1>3, <1>4 DEF Uncounting
    <3>5. ASSUME state'[s] # "freed", ~clash'[s]
          PROVE  /\ queued'[s] = taken'[s] \o queue'[s]
                 /\ qlen'[s] = Len(queue'[s]) - Counting(s)' + Uncounting(s)'
      <4>1. /\ queued[s] = taken[s] \o queue[s]
            /\ qlen[s] = Len(queue[s]) - Counting(s) + Uncounting(s)
            /\ q = Append(queue[s], d)
        BY <1>6, <2>1, <2>2, <3>1, <3>5 DEF Ordered
      <4>2. Append(taken[s] \o queue[s], d)
            = taken[s] \o Append(queue[s], d)
        BY <1>4, QueueGrows, Zenon
      <4>3. queued'[s] = taken'[s] \o queue'[s]
        BY <3>1, <4>1, <4>2
      <4>4. Len(queue'[s]) = Len(queue[s]) + 1
        BY <1>5, <3>1, <4>1
      <4>5. qlen'[s] = Len(queue'[s]) - Counting(s)' + Uncounting(s)'
        BY <3>1, <3>3, <3>4, <4>1, <4>4
      <4> QED BY <4>3, <4>5
    <3> QED BY <2>2, <3>2, <3>5 DEF Ordered
  <2>3. CASE t # s
    <3>1. /\ queue'[t] = queue[t] /\ qlen'[t] = qlen[t] /\ taken'[t] = taken[t]
          /\ clash'[t] = clash[t] /\ queued'[t] = queued[t]
      BY <1>1, <1>2, <1>3, <2>3
    <3>2. Counting(t)' = Counting(t)
      BY <1>1, <2>3 DEF Counting
    <3> QED BY <1>1, <3>1, <3>2, OtherSocks DEF appSide
  <2> QED BY <2>2, <2>3
<1> QED BY <1>1, <1>4, <1>7, <1>8, <1>9, <1>10, Types DEF UdpInv, TypeOK

LEMMA CountStep ==
    ASSUME UdpInv, EnqueueLoad \/ EnqueueStore, NEW s \in Socks, s = rx_sk
    PROVE  UdpInv'
<1>1. /\ UNCHANGED <<appSide, queue, queued, taken, rx_sk, rx_dg, arrived,
                     race, up>>
      /\ rx_pc \in Delivering /\ rx_pc' \in {"store", "notify"}
      /\ rx_qlen' \in {qlen[s], 0}
      /\ \/ /\ rx_pc = "load" /\ rx_pc' = "store" /\ qlen' = qlen
            /\ clash' = clash
         \/ /\ rx_pc = "store" /\ rx_pc' = "notify"
            /\ qlen' = [qlen EXCEPT ![s] = rx_qlen + 1]
            /\ clash' = [clash EXCEPT ![s] = clash[s] \/ qlen[s] # rx_qlen
                                                      \/ app_pc[s] = "store"]
  BY DEF EnqueueLoad, EnqueueStore, queueVars, Delivering
<1>2. /\ queue \in [Socks -> Seq(Datagram)] /\ qlen \in [Socks -> Nat]
      /\ clash \in [Socks -> BOOLEAN] /\ rx_qlen \in Nat
  BY Types DEF QueueTypeOK, ReceiveTypeOK
<1>3. AddressTypeOK' /\ ThreadTypeOK'
  BY <1>1, Types, Untouched DEF appSide, addrVars, listVars, appVars
<1>4. QueueTypeOK'
  <2>1. qlen' \in [Socks -> Nat]
    BY <1>1, <1>2
  <2>2. clash' \in [Socks -> BOOLEAN]
    BY <1>1, <1>2
  <2> QED BY <1>1, <2>1, <2>2, Types DEF QueueTypeOK
<1>5. ReceiveTypeOK'
  <2>1. rx_qlen' \in Nat
    BY <1>1, <1>2
  <2> QED BY <1>1, <2>1, Types DEF ReceiveTypeOK
<1>6. ASSUME NEW t \in Socks PROVE Reader(t)' /\ Ordered(t)'
  <2>1. /\ Reader(t) /\ Ordered(t) /\ Uncounting(t)' = Uncounting(t)
        /\ state' = state /\ queue' = queue /\ queued' = queued
        /\ taken' = taken /\ app_pc' = app_pc /\ app_qlen' = app_qlen
    BY <1>1 DEF UdpInv, Uncounting, appSide, addrVars, appVars
  <2>2. CASE t = s
    <3>1. Counting(s) = 1 /\ rx_sk' = s
      BY <1>1 DEF Counting
    <3>2. Uncounting(s) \in Int /\ Len(queue[s]) \in Int
      BY <1>2 DEF Uncounting
    <3>3. CASE rx_pc = "load"
      <4>1. qlen' = qlen /\ clash' = clash /\ Counting(s)' = Counting(s)
        BY <1>1, <3>1, <3>3 DEF Counting
      <4> QED BY <2>1, <2>2, <4>1 DEF Reader, Ordered
    <3>4. CASE rx_pc = "store"
      <4>1. /\ qlen'[s] = rx_qlen + 1 /\ Counting(s)' = 0
            /\ ~clash'[s] => ~clash[s] /\ qlen[s] = rx_qlen
        BY <1>1, <1>2, <3>1, <3>4 DEF Counting
      <4>2. Reader(s)'
        BY <1>2, <2>1, <2>2, <4>1 DEF Reader
      <4>3. ASSUME state'[s] # "freed", ~clash'[s]
            PROVE  /\ queued'[s] = taken'[s] \o queue'[s]
                   /\ qlen'[s] = Len(queue'[s]) - Counting(s)' + Uncounting(s)'
        <5>1. /\ queued[s] = taken[s] \o queue[s]
              /\ qlen[s] = Len(queue[s]) - Counting(s) + Uncounting(s)
          BY <2>1, <2>2, <4>1, <4>3 DEF Ordered
        <5>2. qlen'[s] = Len(queue[s]) + Uncounting(s)
          BY <3>1, <3>2, <4>1, <4>3, <5>1
        <5> QED BY <2>1, <2>2, <3>2, <4>1, <5>1, <5>2
      <4> QED BY <2>2, <4>2, <4>3 DEF Ordered
    <3> QED BY <1>1, <3>3, <3>4
  <2>3. CASE t # s
    <3>1. qlen'[t] = qlen[t] /\ clash'[t] = clash[t]
      BY <1>1, <1>2, <2>3
    <3>2. Counting(t)' = Counting(t)
      BY <1>1, <2>3 DEF Counting
    <3> QED BY <2>1, <3>1, <3>2 DEF Reader, Ordered
  <2> QED BY <2>2, <2>3
<1> QED BY <1>1, <1>3, <1>4, <1>5, <1>6, Types DEF UdpInv, TypeOK, Delivering

LEMMA UdpStep == UdpInv /\ [Next]_vars => UdpInv'
<1> SUFFICES ASSUME UdpInv, [Next]_vars PROVE UdpInv'
  OBVIOUS
<1>1. ASSUME NEW s \in Socks, App(s) PROVE UdpInv'
  <2>1. CASE \/ inet_create(s) \/ udp_recvfrom(s)
             \/ \E p \in Ports : udp_bind(s, p)
    BY <2>1, CreateStep
  <2>2. CASE \E r \in Peers : udp_connect(s, r) \/ udp_sendto(s, r)
    BY <2>2, AddressStep
  <2>3. CASE Reading(s)
    BY <2>3, ReaderStep, UnlinkStep, StoreStep DEF Reading, udp_data_dequeue
  <2>4. CASE udp_close(s)
    BY <2>4, CloseStep
  <2>5. CASE FreeTwice(s)
    BY <2>5, FreeStep
  <2> QED BY <1>1, <2>1, <2>2, <2>3, <2>4, <2>5 DEF App
<1>2. CASE \E p \in Ports : Lookup(p)
  BY <1>2, LookupStep
<1>3. CASE Enqueue
  <2>1. CASE EnqueueBegin \/ udp_recv_notify \/ UseAfterFree
    BY <2>1, HandOverStep
  <2>2. CASE EnqueueLink \/ EnqueueLoad \/ EnqueueStore
    <3>1. rx_pc \in Delivering
      BY <2>2 DEF EnqueueLink, EnqueueLoad, EnqueueStore, Delivering
    <3>2. rx_sk \in Socks /\ rx_dg \in Datagram
      BY <3>1 DEF UdpInv
    <3> QED BY <2>2, <3>2, LinkStep, CountStep
  <2> QED BY <1>3, <2>1, <2>2 DEF Enqueue
<1>4. CASE UNCHANGED vars
  <2>1. /\ UNCHANGED <<addrVars, listVars, queueVars, sleeping, appVars,
                       rxVars, race, up>>
    BY <1>4 DEF vars
  <2>2. AddressTypeOK' /\ QueueTypeOK' /\ ThreadTypeOK' /\ ReceiveTypeOK'
    BY <2>1, Types, Untouched DEF addrVars, listVars, appVars
  <2>3. ASSUME NEW t \in Socks PROVE Reader(t)' /\ Ordered(t)'
    <3>1. Counting(t)' = Counting(t)
      BY <2>1 DEF Counting, rxVars
    <3> QED BY <2>1, <3>1, OtherSocks DEF queueVars
  <2> QED BY <2>1, <2>2, <2>3, Types DEF UdpInv, TypeOK, rxVars
<1> QED BY <1>1, <1>2, <1>3, <1>4 DEF Next, udp_in

LEMMA UdpAlways == Spec => []UdpInv
BY UdpInit, UdpStep, PTL DEF Spec

-----------------------------------------------------------------------------
(* The types of the socks, the list, the queues and the threads            *)
(* (udp_sock.c, udp.c).                                                    *)
THEOREM UdpTypeCorrect == Spec => []TypeOK
<1>1. UdpInv => TypeOK
  BY DEF UdpInv
<1> QED BY <1>1, UdpAlways, PTL

(* What is queued for a sock is taken once and in the order of arrival,    *)
(* and qlen counts it, unless the receive thread, which takes no lock,     *)
(* disturbed the reader (skb_queue_tail in udp.c:52, udp_data_dequeue).    *)
THEOREM TakenInOrderHolds == Spec => []TakenInOrder
<1>1. UdpInv => TakenInOrder
  BY DEF UdpInv, Ordered, TakenInOrder
<1> QED BY <1>1, UdpAlways, PTL

(* No call changes the port or the peer of a connected sock, unless the    *)
(* port drawn was 0 (udp_connect, udp_sendto, udp_set_sport).              *)
THEOREM ConnectedFixedHolds == Spec => ConnectedFixed
<1> DEFINE Fixed == \A s \in Socks : state[s] = "CONNECTED" /\ sport[s] # 0
                        => sport'[s] = sport[s] /\ peer'[s] = peer[s]
<1>1. UdpInv /\ [Next]_vars => Fixed
  <2> SUFFICES ASSUME UdpInv, [Next]_vars, NEW s \in Socks,
                      state[s] = "CONNECTED", sport[s] # 0
               PROVE  sport'[s] = sport[s] /\ peer'[s] = peer[s]
    OBVIOUS
  <2>1. /\ sport \in [Socks -> PortNumber] /\ peer \in [Socks -> Peers \cup {NoPeer}]
    BY Types DEF AddressTypeOK
  <2>2. ASSUME NEW t \in Socks, App(t)
        PROVE  sport'[s] = sport[s] /\ peer'[s] = peer[s]
    <3>1. ASSUME NEW p \in Ports, udp_bind(t, p)
          PROVE  sport'[s] = sport[s] /\ peer'[s] = peer[s]
      BY <2>1, <3>1 DEF udp_bind, udp_set_sport
    <3>2. ASSUME NEW r \in Peers, udp_connect(t, r) \/ udp_sendto(t, r)
          PROVE  sport'[s] = sport[s] /\ peer'[s] = peer[s]
      <4>1. t # s
        BY <3>2 DEF udp_connect, udp_sendto, NotConnected
      <4>2. SetAddress(t, r)
        BY <3>2 DEF udp_connect, udp_sendto
      <4> QED BY <2>1, <4>1, <4>2 DEF SetAddress
    <3>3. CASE \/ inet_create(t) \/ udp_recvfrom(t) \/ Reading(t)
               \/ udp_close(t) \/ FreeTwice(t)
      BY <3>3 DEF inet_create, udp_recvfrom, Reading, udp_data_dequeue,
                  DequeueTest, DequeueUnlink, DequeueLoad, DequeueStore,
                  wait_sleep, WakeUp, udp_close, FreeTwice, addrVars
    <3> QED BY <2>2, <3>1, <3>2, <3>3 DEF App
  <2>3. CASE udp_in
    BY <2>3 DEF udp_in, Lookup, Enqueue, EnqueueBegin, EnqueueLink,
                EnqueueLoad, EnqueueStore, udp_recv_notify, UseAfterFree,
                appSide, addrVars
  <2>4. CASE UNCHANGED vars
    BY <2>4 DEF vars, addrVars
  <2> QED BY <2>2, <2>3, <2>4 DEF Next
<1>2. [Next]_vars /\ UdpInv => [Fixed]_vars
  BY <1>1
<1> QED BY <1>2, UdpAlways, PTL DEF Spec, ConnectedFixed

-----------------------------------------------------------------------------
(* A list of socks as it hangs at its head: the i-th sock, and the head    *)
(* before the first and after the last.                                    *)
At(L, i) == IF i \in 1..Len(L) THEN L[i] ELSE LinkHead

Distinct(L) == \A i, j \in 1..Len(L) : L[i] = L[j] => i = j

Forth(nx, L) == \A i \in 0..Len(L) : nx[At(L, i)] = At(L, i + 1)

Back(pv, L) == \A i \in 1..(Len(L) + 1) : pv[At(L, i)] = At(L, i - 1)

In(s, L) == \E i \in 1..Len(L) : L[i] = s

-----------------------------------------------------------------------------
(* Facts about such lists.                                                 *)

LEMMA AtFacts ==
    ASSUME NEW L \in Seq(Socks)
    PROVE  /\ Len(L) \in Nat
           /\ \A i \in 1..Len(L) : At(L, i) = L[i] /\ L[i] \in Socks
           /\ \A i \in Int : At(L, i) \in Nodes
           /\ At(L, 0) = LinkHead /\ At(L, Len(L) + 1) = LinkHead
           /\ \A i \in 0..Len(L) : At(L, i) = LinkHead => i = 0
           /\ LinkHead \notin Socks /\ LinkHead \in Nodes
<1>1. Len(L) \in Nat /\ \A i \in 1..Len(L) : L[i] \in Socks
  OBVIOUS
<1> QED BY <1>1, NodeFacts DEF At

(* A sock that is not in the list is linked at its end.                    *)
LEMMA ForthAppend ==
    ASSUME NEW L \in Seq(Socks), NEW nx \in [Nodes -> Nodes \cup {Null}],
           NEW s \in Socks, Distinct(L), Forth(nx, L), ~In(s, L)
    PROVE  /\ Append(L, s) \in Seq(Socks) /\ Distinct(Append(L, s))
           /\ Forth([nx EXCEPT ![At(L, Len(L))] = s, ![s] = LinkHead],
                    Append(L, s))
<1> DEFINE M == Append(L, s)
           n == Len(L)
           ny == [nx EXCEPT ![At(L, n)] = s, ![s] = LinkHead]
<1>1. /\ n \in Nat /\ Len(M) = n + 1 /\ M \in Seq(Socks)
      /\ \A i \in 1..n : M[i] = L[i]
      /\ M[n + 1] = s
  OBVIOUS
<1>2. Distinct(M)
  BY <1>1 DEF Distinct, In
<1>3. /\ \A i \in 0..n : At(M, i) = At(L, i)
      /\ At(M, n + 1) = s /\ At(M, n + 2) = LinkHead
  BY <1>1 DEF At
<1>4. ASSUME NEW i \in 0..(n + 1) PROVE ny[At(M, i)] = At(M, i + 1)
  <2>1. At(M, i) \in Nodes
    <3>1. i \in Int
      BY <1>1
    <3> HIDE DEF M
    <3> QED BY <1>1, <3>1, AtFacts
  <2>2. CASE i = n + 1
    BY <1>1, <1>3, <2>1, <2>2
  <2>3. CASE i = n
    <3>1. At(L, n) # s
      BY <1>1, AtFacts, NodeFacts DEF At, In
    <3> QED BY <1>1, <1>3, <2>1, <2>3, <3>1
  <2>4. CASE i < n
    <3>1. At(L, i) # s /\ At(L, i) # At(L, n)
      BY <1>1, <2>4, AtFacts, NodeFacts DEF At, In, Distinct
    <3>2. ny[At(L, i)] = nx[At(L, i)]
      BY <1>1, <1>3, <2>1, <2>4, <3>1
    <3> QED BY <1>1, <1>3, <2>4, <3>2 DEF Forth
  <2> QED BY <1>1, <2>2, <2>3, <2>4
<1> QED BY <1>1, <1>2, <1>4 DEF Forth

LEMMA BackAppend ==
    ASSUME NEW L \in Seq(Socks), NEW pv \in [Nodes -> Nodes \cup {Null}],
           NEW s \in Socks, Distinct(L), Back(pv, L), ~In(s, L)
    PROVE  Back([pv EXCEPT ![s] = At(L, Len(L)), ![LinkHead] = s], Append(L, s))
<1> DEFINE M == Append(L, s)
           n == Len(L)
           pw == [pv EXCEPT ![s] = At(L, n), ![LinkHead] = s]
<1>1. /\ n \in Nat /\ Len(M) = n + 1 /\ M \in Seq(Socks)
      /\ \A i \in 1..n : M[i] = L[i]
      /\ M[n + 1] = s
  OBVIOUS
<1>3. /\ \A i \in 0..n : At(M, i) = At(L, i)
      /\ At(M, n + 1) = s /\ At(M, n + 2) = LinkHead
  BY <1>1 DEF At
<1>4. ASSUME NEW i \in 1..(n + 2) PROVE pw[At(M, i)] = At(M, i - 1)
  <2>1. At(M, i) \in Nodes /\ s # LinkHead /\ s \in Nodes
    <3>1. i \in Int
      BY <1>1
    <3> HIDE DEF M
    <3> QED BY <1>1, <3>1, AtFacts, NodeFacts
  <2>2. CASE i = n + 2
    BY <1>1, <1>3, <2>1, <2>2
  <2>3. CASE i = n + 1
    BY <1>1, <1>3, <2>1, <2>3
  <2>4. CASE i <= n
    <3>1. At(L, i) # s /\ At(L, i) # LinkHead
      BY <1>1, <2>4, AtFacts, NodeFacts DEF At, In
    <3>2. pw[At(L, i)] = pv[At(L, i)]
      BY <1>1, <1>3, <2>1, <2>4, <3>1
    <3> QED BY <1>1, <1>3, <2>4, <3>2 DEF Back
  <2> QED BY <1>1, <2>2, <2>3, <2>4
<1>5. Len(M) + 1 = n + 2
  BY <1>1
<1> HIDE DEF M, pw
<1>6. Back(pw, M)
  BY <1>4, <1>5 DEF Back
<1> QED BY <1>6 DEF M, pw

(* A sock of the list that is linked at its end once more cuts off what    *)
(* came after it.                                                          *)
Prefix(L, k) == [i \in 1..k |-> L[i]]

LEMMA ForthCut ==
    ASSUME NEW L \in Seq(Socks), NEW nx \in [Nodes -> Nodes \cup {Null}],
           NEW k \in 1..Len(L), Distinct(L), Forth(nx, L)
    PROVE  /\ Prefix(L, k) \in Seq(Socks) /\ Distinct(Prefix(L, k))
           /\ Len(Prefix(L, k)) = k /\ Prefix(L, k)[k] = L[k]
           /\ Forth([nx EXCEPT ![At(L, Len(L))] = L[k], ![L[k]] = LinkHead],
                    Prefix(L, k))
<1> DEFINE M == Prefix(L, k)
           n == Len(L)
           ny == [nx EXCEPT ![At(L, n)] = L[k], ![L[k]] = LinkHead]
<1>1. /\ n \in Nat /\ Len(M) = k /\ M \in Seq(Socks) /\ k \in Nat
      /\ \A i \in 1..k : M[i] = L[i]
  <2>1. \A i \in 1..k : L[i] \in Socks
    OBVIOUS
  <2> QED BY <2>1 DEF Prefix
<1>2. Distinct(M)
  BY <1>1 DEF Distinct
<1>3. /\ \A i \in 0..k : At(M, i) = At(L, i)
      /\ At(M, k + 1) = LinkHead /\ At(L, k) = L[k]
  BY <1>1 DEF At
<1>4. ASSUME NEW i \in 0..k PROVE ny[At(M, i)] = At(M, i + 1)
  <2>1. At(L, i) \in Nodes /\ At(L, n) \in Nodes
    BY <1>1, AtFacts
  <2>2. CASE i = k
    BY <1>1, <1>3, <2>1, <2>2
  <2>3. CASE i < k
    <3>1. At(L, i) # L[k] /\ At(L, i) # At(L, n)
      BY <1>1, <2>3, AtFacts, NodeFacts DEF At, Distinct
    <3>2. ny[At(L, i)] = nx[At(L, i)]
      BY <1>1, <1>3, <2>1, <2>3, <3>1
    <3>3. nx[At(L, i)] = At(L, i + 1)
      BY <1>1, <2>3 DEF Forth
    <3> QED BY <1>1, <1>3, <2>3, <3>2, <3>3
  <2> QED BY <1>1, <2>2, <2>3
<1>5. Forth(ny, M)
  <2> HIDE DEF M, ny
  <2> QED BY <1>1, <1>4 DEF Forth
<1> QED BY <1>1, <1>2, <1>5

(* A sock of the list is taken out.                                        *)
Without(L, k) == [i \in 1..(Len(L) - 1) |-> IF i < k THEN L[i] ELSE L[i + 1]]

LEMMA ForthRemove ==
    ASSUME NEW L \in Seq(Socks), NEW nx \in [Nodes -> Nodes \cup {Null}],
           NEW pv \in [Nodes -> Nodes \cup {Null}],
           NEW k \in 1..Len(L), Distinct(L), Forth(nx, L), Back(pv, L)
    PROVE  /\ Without(L, k) \in Seq(Socks) /\ Distinct(Without(L, k))
           /\ \A s : In(s, Without(L, k)) <=> In(s, L) /\ s # L[k]
           /\ Forth([nx EXCEPT ![pv[L[k]]] = nx[L[k]], ![L[k]] = L[k]],
                    Without(L, k))
           /\ Back([pv EXCEPT ![nx[L[k]]] = pv[L[k]], ![L[k]] = L[k]],
                   Without(L, k))
<1> DEFINE M == Without(L, k)
           n == Len(L)
           ny == [nx EXCEPT ![pv[L[k]]] = nx[L[k]], ![L[k]] = L[k]]
           pw == [pv EXCEPT ![nx[L[k]]] = pv[L[k]], ![L[k]] = L[k]]
<1>1. /\ n \in Nat /\ Len(M) = n - 1 /\ M \in Seq(Socks) /\ k \in Nat
      /\ \A i \in 1..(n - 1) : M[i] = IF i < k THEN L[i] ELSE L[i + 1]
  <2>1. \A i \in 1..n : L[i] \in Socks
    OBVIOUS
  <2>2. \A i \in 1..(n - 1) : (IF i < k THEN L[i] ELSE L[i + 1]) \in Socks
    BY <2>1
  <2> QED BY <2>2 DEF Without
<1>2. Distinct(M)
  BY <1>1 DEF Distinct
<1>3. ASSUME NEW s PROVE In(s, M) <=> In(s, L) /\ s # L[k]
  <2>1. In(s, M) => In(s, L) /\ s # L[k]
    BY <1>1 DEF In, Distinct
  <2>2. ASSUME NEW i \in 1..n, L[i] = s, s # L[k] PROVE In(s, M)
    <3>1. CASE i < k
      BY <1>1, <2>2, <3>1 DEF In
    <3>2. CASE i > k
      <4>1. i - 1 \in 1..(n - 1) /\ M[i - 1] = L[i]
        BY <1>1, <2>2, <3>2
      <4> QED BY <1>1, <2>2, <4>1 DEF In
    <3> QED BY <2>2, <3>1, <3>2
  <2> QED BY <2>1, <2>2 DEF In
<1>4. /\ \A i \in 0..(k - 1) : At(M, i) = At(L, i)
      /\ \A i \in k..n : At(M, i) = At(L, i + 1)
      /\ At(L, k) = L[k]
  <2>1. ASSUME NEW i \in 0..(k - 1) PROVE At(M, i) = At(L, i)
    BY <1>1 DEF At
  <2>2. ASSUME NEW i \in k..n PROVE At(M, i) = At(L, i + 1)
    <3>1. i \in 1..Len(M) <=> i + 1 \in 1..n
      BY <1>1
    <3>2. i \in 1..Len(M) => M[i] = L[i + 1]
      BY <1>1
    <3> QED BY <3>1, <3>2 DEF At
  <2>3. At(L, k) = L[k]
    BY DEF At
  <2> QED BY <2>1, <2>2, <2>3
<1>5. /\ \A i \in 0..n : nx[At(L, i)] = At(L, i + 1)
      /\ \A i \in 1..(n + 1) : pv[At(L, i)] = At(L, i - 1)
      /\ n \in Nat /\ k \in 1..n /\ Len(M) = n - 1
  BY <1>1 DEF Forth, Back
<1>6. \A i \in 0..(n + 1) : At(L, i) \in Nodes
  BY <1>1, AtFacts
<1>7. \A i, j \in 0..n : At(L, i) = At(L, j) => i = j
  BY <1>1, AtFacts DEF At, Distinct
<1>8. \A i, j \in 1..(n + 1) : At(L, i) = At(L, j) => i = j
  BY <1>1, AtFacts DEF At, Distinct
<1>9. /\ pv[L[k]] = At(L, k - 1) /\ nx[L[k]] = At(L, k + 1)
      /\ At(L, k - 1) \in Nodes /\ At(L, k + 1) \in Nodes /\ L[k] \in Nodes
  <2>1. /\ k \in 0..n /\ k \in 1..(n + 1) /\ k - 1 \in 0..(n + 1)
        /\ k + 1 \in 0..(n + 1) /\ k \in 0..(n + 1)
    BY <1>5
  <2> QED BY <1>4, <1>5, <1>6, <2>1
<1>10. \A x \in Nodes :
          /\ ny[x] = IF x = L[k] THEN L[k]
                     ELSE IF x = At(L, k - 1) THEN At(L, k + 1) ELSE nx[x]
          /\ pw[x] = IF x = L[k] THEN L[k]
                     ELSE IF x = At(L, k + 1) THEN At(L, k - 1) ELSE pv[x]
  BY <1>9
<1> HIDE DEF n, M, ny, pw
<1>11. ASSUME NEW i \in 0..(n - 1) PROVE ny[At(M, i)] = At(M, i + 1)
  <2>1. CASE i = k - 1
    <3>1. At(L, k - 1) # At(L, k)
      BY <1>5, <1>7
    <3> QED BY <1>4, <1>5, <1>9, <1>10, <2>1, <3>1
  <2>2. CASE i < k - 1
    <3>1. /\ At(L, i) # At(L, k - 1) /\ At(L, i) # At(L, k)
          /\ At(L, i) \in Nodes
      BY <1>5, <1>6, <1>7, <2>2
    <3>2. ny[At(L, i)] = nx[At(L, i)]
      BY <1>4, <1>10, <3>1
    <3>3. i \in 0..n /\ i \in 0..(k - 1) /\ i + 1 \in 0..(k - 1)
      BY <1>5, <2>2
    <3>4. At(M, i) = At(L, i) /\ At(M, i + 1) = At(L, i + 1)
      BY <1>4, <3>3
    <3> QED BY <1>5, <3>2, <3>3, <3>4
  <2>3. CASE i >= k
    <3>1. /\ At(L, i + 1) # At(L, k - 1) /\ At(L, i + 1) # At(L, k)
          /\ At(L, i + 1) \in Nodes
      BY <1>5, <1>6, <1>7, <2>3
    <3>2. ny[At(L, i + 1)] = nx[At(L, i + 1)]
      BY <1>4, <1>10, <3>1
    <3>3. /\ i + 1 \in 0..n /\ i + 1 \in k..n /\ i \in k..n
          /\ (i + 1) + 1 = i + 2
      BY <1>5, <2>3
    <3> QED BY <1>4, <1>5, <3>2, <3>3
  <2> QED BY <1>5, <2>1, <2>2, <2>3
<1>12. ASSUME NEW i \in 1..n PROVE pw[At(M, i)] = At(M, i - 1)
  <2>1. CASE i = k
    <3>1. At(L, k + 1) # At(L, k)
      BY <1>5, <1>8
    <3>2. k \in k..n /\ k - 1 \in 0..(k - 1)
      BY <1>5
    <3> QED BY <1>4, <1>9, <1>10, <2>1, <3>1, <3>2
  <2>2. CASE i < k
    <3>1. /\ At(L, i) # At(L, k + 1) /\ At(L, i) # At(L, k)
          /\ At(L, i) \in Nodes
      BY <1>5, <1>6, <1>8, <2>2
    <3>2. pw[At(L, i)] = pv[At(L, i)]
      BY <1>4, <1>10, <3>1
    <3>3. /\ i \in 1..(n + 1) /\ i \in 0..(k - 1) /\ i - 1 \in 0..(k - 1)
      BY <1>5, <2>2
    <3> QED BY <1>4, <1>5, <3>2, <3>3
  <2>3. CASE i > k
    <3>1. /\ At(L, i + 1) # At(L, k + 1) /\ At(L, i + 1) # At(L, k)
          /\ At(L, i + 1) \in Nodes
      BY <1>5, <1>6, <1>8, <2>3
    <3>2. pw[At(L, i + 1)] = pv[At(L, i + 1)]
      BY <1>4, <1>10, <3>1
    <3>3. /\ i + 1 \in 1..(n + 1) /\ i \in k..n /\ i - 1 \in k..n
          /\ (i + 1) - 1 = i /\ (i - 1) + 1 = i
      BY <1>5, <2>3
    <3>4. At(M, i) = At(L, i + 1) /\ At(M, i - 1) = At(L, i)
      BY <1>4, <3>3
    <3>5. pv[At(L, i + 1)] = At(L, i)
      BY <1>5, <3>3
    <3> QED BY <3>2, <3>4, <3>5
  <2> QED BY <1>5, <2>1, <2>2, <2>3
<1>13. Forth(ny, M) /\ Back(pw, M)
  <2>1. 0..Len(M) = 0..(n - 1) /\ 1..(Len(M) + 1) = 1..n
    BY <1>5
  <2> QED BY <1>11, <1>12, <2>1 DEF Forth, Back
<1> QED BY <1>1, <1>2, <1>3, <1>13 DEF M, ny, pw

(* No list is longer than there are socks.                                 *)
LEMMA ListFits ==
    ASSUME NEW L \in Seq(Socks), Distinct(L)
    PROVE  /\ Len(L) <= Cardinality(Socks)
           /\ Len(L) \in Nat /\ Cardinality(Socks) \in Nat
<1>1. Len(L) \in Nat /\ \A i \in 1..Len(L) : L[i] \in Socks
  OBVIOUS
<1>2. L \in Injection(1..Len(L), Socks)
  BY <1>1 DEF Injection, Distinct, IsInjective
<1>3. Cardinality(1..Len(L)) = Len(L)
  <2>1. ASSUME NEW n \in Nat PROVE Cardinality(1..n) = n
    BY FS_Interval
  <2> QED BY <1>1, <2>1
<1> QED BY <1>1, <1>2, <1>3, FiniteSocks, FS_Injection, FS_CardinalityType

(* What list_for_each meets.                                               *)
LEMMA WalkValues ==
    ASSUME NEW L \in Seq(Socks), Distinct(L), Forth(nxt, L)
    PROVE  \A k \in Steps : Walk[k] = At(L, k + 1)
<1> DEFINE g == [k \in Steps |-> At(L, k + 1)]
           Rule(f) == f = [k \in Steps |->
                             IF k = 0 THEN nxt[LinkHead]
                             ELSE IF f[k - 1] \in Socks THEN nxt[f[k - 1]]
                                  ELSE f[k - 1]]
<1>1. Steps \subseteq Nat /\ \A k \in Steps : k # 0 => k - 1 \in Steps
  BY ListFits DEF Steps
<1>2. ASSUME NEW k \in Steps
      PROVE  g[k] = IF k = 0 THEN nxt[LinkHead]
                    ELSE IF g[k - 1] \in Socks THEN nxt[g[k - 1]] ELSE g[k - 1]
  <2>1. CASE k = 0
    <3>1. g[k] = At(L, 1)
      BY <2>1
    <3>2. 0 \in 0..Len(L) /\ 0 + 1 = 1 /\ At(L, 0) = LinkHead
      BY AtFacts
    <3>3. nxt[LinkHead] = At(L, 1)
      BY <3>2 DEF Forth
    <3> QED BY <2>1, <3>1, <3>3
  <2>2. CASE k # 0
    <3>1. g[k] = At(L, k + 1) /\ g[k - 1] = At(L, k) /\ k \in Nat
      BY <1>1, <2>2
    <3>2. CASE k <= Len(L)
      <4>1. k \in 1..Len(L) /\ k \in 0..Len(L)
        BY <2>2, <3>1, <3>2, AtFacts
      <4>2. nxt[At(L, k)] = At(L, k + 1)
        BY <4>1 DEF Forth
      <4>3. At(L, k) \in Socks
        BY <4>1, AtFacts
      <4> QED BY <2>2, <3>1, <4>2, <4>3
    <3>3. CASE k > Len(L)
      <4>1. At(L, k) = LinkHead /\ At(L, k + 1) = LinkHead /\ LinkHead \notin Socks
        BY <3>1, <3>3, AtFacts DEF At
      <4> QED BY <2>2, <3>1, <4>1
    <3> QED BY <3>1, <3>2, <3>3, AtFacts
  <2> QED BY <2>1, <2>2
<1>3. Rule(g)
  BY <1>2
<1>4. Rule(Walk)
  BY <1>3 DEF Walk
<1>5. ASSUME NEW k \in Steps, Walk[k] # g[k] PROVE FALSE
  <2> DEFINE T == {j \in Steps : Walk[j] # g[j]}
  <2>1. T \subseteq Nat /\ T # {}
    BY <1>1, <1>5
  <2>2. PICK m \in T : \A j \in T : m <= j
    <3> HIDE DEF T
    <3> QED BY <2>1, NatMinimum
  <2>3. m \in Steps /\ m \in Nat /\ Walk[m] # g[m]
    BY <1>1
  <2>4. m # 0 => m - 1 \in Steps /\ Walk[m - 1] = g[m - 1]
    BY <1>1, <2>2, <2>3
  <2> HIDE DEF g, T
  <2>5. Walk[m] = IF m = 0 THEN nxt[LinkHead]
                  ELSE IF Walk[m - 1] \in Socks THEN nxt[Walk[m - 1]]
                       ELSE Walk[m - 1]
    BY <1>4, <2>3
  <2>6. g[m] = IF m = 0 THEN nxt[LinkHead]
               ELSE IF g[m - 1] \in Socks THEN nxt[g[m - 1]] ELSE g[m - 1]
    BY <1>2, <2>3
  <2> QED BY <2>3, <2>4, <2>5, <2>6
<1> QED BY <1>5

-----------------------------------------------------------------------------
(* The list while nothing was linked twice: the socks with an address that *)
(* are not closed.  After that, what the links still lead to from the      *)
(* head, up to the sock that was linked last.                              *)
WholeList(L) ==
    /\ Distinct(L) /\ Forth(nxt, L) /\ Back(prv, L)
    /\ \A s \in Socks : In(s, L) <=> Live(s) /\ saddr[s]

CutList(L) ==
    Distinct(L) /\ Forth(nxt, L) /\ prv[LinkHead] = At(L, Len(L))

ListInv ==
    /\ \A s \in Socks : saddr[s] => state[s] # "none"
    /\ list # "broken" => \A s \in Socks : Linked(s) <=> saddr[s]
    /\ list = "whole" => \E L \in Seq(Socks) : WholeList(L)
    /\ list = "relinked" => \E L \in Seq(Socks) : CutList(L)

LEMMA ListInit == Init => ListInv
<1> SUFFICES ASSUME Init PROVE ListInv
  OBVIOUS
<1> DEFINE L == << >>
<1>1. L \in Seq(Socks) /\ Len(L) = 0
  OBVIOUS
<1>2. /\ \A s \in Socks : nxt[s] = Null /\ ~saddr[s]
      /\ nxt[LinkHead] = LinkHead /\ prv[LinkHead] = LinkHead
      /\ list = "whole"
  BY NodeFacts DEF Init
<1>3. WholeList(L)
  <2>1. At(L, 0) = LinkHead /\ At(L, 1) = LinkHead
    BY <1>1 DEF At
  <2>2. Forth(nxt, L) /\ Back(prv, L) /\ Distinct(L)
    BY <1>1, <1>2, <2>1 DEF Forth, Back, Distinct
  <2> QED BY <1>1, <1>2, <2>2 DEF WholeList, In
<1> QED BY <1>1, <1>2, <1>3 DEF ListInv, Linked

(* What leaves the links and the addresses alone.                          *)
LEMMA ListKept ==
    ASSUME ListInv, UNCHANGED <<nxt, prv, list, saddr>>,
           \A s \in Socks : saddr[s] =>
               /\ state'[s] # "none"
               /\ Live(s)' <=> Live(s)
    PROVE  ListInv'
<1>1. \A L : In(L, L)' <=> In(L, L)
  BY DEF In
<1>2. ASSUME NEW L, WholeList(L) PROVE WholeList(L)'
  BY <1>2 DEF WholeList, Forth, Back, Distinct, At, In
<1>3. ASSUME NEW L, CutList(L) PROVE CutList(L)'
  BY <1>3 DEF CutList, Forth, Distinct, At
<1>4. \A s \in Socks : Linked(s)' <=> Linked(s)
  BY DEF Linked
<1> QED BY <1>2, <1>3, <1>4 DEF ListInv

(* A sock that has an address from now on is linked at the end.            *)
LEMMA ListAdd ==
    ASSUME UdpInv, ListInv, NEW s \in Socks, Live(s), list_add_tail(s),
           saddr' = [saddr EXCEPT ![s] = TRUE],
           \A t \in Socks : (Live(t)' <=> Live(t)) /\ (t # s => state'[t] = state[t]),
           state'[s] # "none"
    PROVE  ListInv'
<1> DEFINE last == prv[LinkHead]
<1>1. /\ nxt \in [Nodes -> Nodes \cup {Null}]
      /\ prv \in [Nodes -> Nodes \cup {Null}]
      /\ saddr \in [Socks -> BOOLEAN]
      /\ list \in {"whole", "relinked", "broken"}
  BY Types DEF AddressTypeOK
<1>2. /\ nxt' = [nxt EXCEPT ![last] = s, ![s] = LinkHead]
      /\ prv' = [prv EXCEPT ![s] = last, ![LinkHead] = s]
      /\ list' = IF Linked(s) /\ list = "whole" THEN "relinked" ELSE list
  BY DEF list_add_tail
<1>3. \A t \in Socks : saddr'[t] => state'[t] # "none"
  BY <1>1 DEF ListInv
<1>4. ASSUME list # "broken", NEW L \in Seq(Socks), Distinct(L),
             Forth(nxt, L), prv[LinkHead] = At(L, Len(L))
      PROVE  /\ \A t \in Socks : Linked(t)' <=> saddr'[t]
             /\ In(s, L) => \E M \in Seq(Socks) : CutList(M)'
             /\ ~In(s, L) => CutList(Append(L, s))'
  <2>1. last \in Nodes /\ s \in Nodes /\ s # LinkHead
    BY <1>1, <1>4, AtFacts, NodeFacts
  <2>2. prv'[LinkHead] = s
    BY <1>1, <1>2, <2>1, NodeFacts
  <2>3. ASSUME NEW t \in Socks PROVE Linked(t)' <=> saddr'[t]
    <3>1. Linked(t) <=> saddr[t]
      BY <1>4 DEF ListInv
    <3>2. CASE t = s
      BY <1>1, <1>2, <2>1, <3>2, NodeFacts DEF Linked
    <3>3. CASE t # s
      <4>1. t = last => saddr[t]
        <5>1. Len(L) \in Nat
          OBVIOUS
        <5>2. t = last => t = At(L, Len(L)) /\ nxt[t] = LinkHead
          BY <1>4, <5>1, AtFacts DEF Forth
        <5> QED BY <3>1, <5>2, NodeFacts DEF Linked
      <4>2. saddr'[t] = saddr[t]
        BY <1>1, <3>3
      <4>3. Linked(t)' <=> Linked(t) \/ t = last
        BY <1>1, <1>2, <2>1, <3>3, NodeFacts DEF Linked
      <4> QED BY <3>1, <4>1, <4>2, <4>3
    <3> QED BY <3>2, <3>3
  <2>4. CASE In(s, L)
    <3>1. PICK k \in 1..Len(L) : L[k] = s
      BY <2>4 DEF In
    <3> DEFINE M == Prefix(L, k)
    <3>2. /\ M \in Seq(Socks) /\ Distinct(M) /\ Len(M) = k /\ M[k] = L[k]
          /\ Forth([nxt EXCEPT ![At(L, Len(L))] = L[k], ![L[k]] = LinkHead], M)
      BY <1>1, <1>4, ForthCut
    <3>3. Forth(nxt', M)
      BY <1>2, <1>4, <3>1, <3>2
    <3>4. At(M, Len(M)) = s
      BY <3>1, <3>2 DEF At
    <3> HIDE DEF M
    <3>5. CutList(M)'
      BY <2>2, <3>2, <3>3, <3>4 DEF CutList
    <3> QED BY <2>3, <2>4, <3>2, <3>5
  <2>5. CASE ~In(s, L)
    <3> DEFINE M == Append(L, s)
    <3>1. /\ M \in Seq(Socks) /\ Distinct(M)
          /\ Forth([nxt EXCEPT ![At(L, Len(L))] = s, ![s] = LinkHead], M)
      BY <1>1, <1>4, <2>5, ForthAppend
    <3>2. Forth(nxt', M)
      BY <1>2, <1>4, <3>1
    <3>3. At(M, Len(M)) = s
      BY DEF At
    <3> HIDE DEF M
    <3>4. CutList(M)'
      BY <2>2, <3>1, <3>2, <3>3 DEF CutList
    <3> QED BY <2>3, <2>5, <3>4 DEF M
  <2> QED BY <2>4, <2>5
<1>5. CASE list = "whole"
  <2>1. PICK L \in Seq(Socks) : WholeList(L)
    BY <1>5 DEF ListInv
  <2>2. prv[LinkHead] = At(L, Len(L))
    BY <2>1, AtFacts DEF WholeList, Back
  <2>3. /\ \A t \in Socks : Linked(t)' <=> saddr'[t]
        /\ In(s, L) => \E M \in Seq(Socks) : CutList(M)'
        /\ ~In(s, L) => CutList(Append(L, s))'
    BY <1>4, <1>5, <2>1, <2>2 DEF WholeList
  <2>4. In(s, L) <=> Linked(s)
    BY <1>5, <2>1 DEF WholeList, ListInv
  <2>5. CASE Linked(s)
    <3>1. list' = "relinked"
      BY <1>2, <1>5, <2>5
    <3> QED BY <1>3, <2>3, <2>4, <2>5, <3>1 DEF ListInv
  <2>6. CASE ~Linked(s)
    <3> DEFINE M == Append(L, s)
    <3>1. list' = "whole" /\ ~In(s, L) /\ ~saddr[s]
      BY <1>2, <1>5, <2>4, <2>6 DEF ListInv
    <3>2. Back(prv', M)
      BY <1>1, <1>2, <2>1, <2>2, <3>1, BackAppend DEF WholeList
    <3>3. \A t : In(t, M) <=> In(t, L) \/ t = s
      BY DEF In
    <3>4. M \in Seq(Socks)
      OBVIOUS
    <3> HIDE DEF M
    <3>5. \A t \in Socks : In(t, M) <=> Live(t)' /\ saddr'[t]
      BY <1>1, <2>1, <3>3 DEF WholeList
    <3>6. Distinct(M) /\ Forth(nxt', M)
      BY <2>3, <3>1 DEF CutList, M
    <3>7. WholeList(M)'
      BY <3>2, <3>5, <3>6 DEF WholeList
    <3> QED BY <1>3, <2>3, <3>1, <3>4, <3>7 DEF ListInv
  <2> QED BY <2>5, <2>6
<1>6. CASE list = "relinked"
  <2>1. PICK L \in Seq(Socks) : CutList(L)
    BY <1>6 DEF ListInv
  <2>2. /\ \A t \in Socks : Linked(t)' <=> saddr'[t]
        /\ In(s, L) => \E M \in Seq(Socks) : CutList(M)'
        /\ ~In(s, L) => CutList(Append(L, s))'
    BY <1>4, <1>6, <2>1 DEF CutList
  <2>3. Append(L, s) \in Seq(Socks)
    OBVIOUS
  <2>4. \E M \in Seq(Socks) : CutList(M)'
    BY <2>2, <2>3
  <2>5. list' = "relinked"
    BY <1>2, <1>6
  <2> QED BY <1>3, <2>2, <2>4, <2>5 DEF ListInv
<1>7. CASE list = "broken"
  <2>1. list' = "broken"
    BY <1>2, <1>7
  <2> QED BY <1>3, <2>1 DEF ListInv
<1> QED BY <1>1, <1>5, <1>6, <1>7

(* close takes the sock out of a list that is whole.                       *)
LEMMA ListRemove ==
    ASSUME UdpInv, ListInv, NEW s \in Socks, udp_close(s), Linked(s)
    PROVE  ListInv'
<1>1. /\ nxt \in [Nodes -> Nodes \cup {Null}]
      /\ prv \in [Nodes -> Nodes \cup {Null}]
      /\ saddr \in [Socks -> BOOLEAN]
      /\ list \in {"whole", "relinked", "broken"}
      /\ app_pc \in [Socks -> {"ready", "test", "unlink", "load", "store",
                               "sleep", "asleep", "free"}]
  BY Types DEF AddressTypeOK, ThreadTypeOK
<1>2. /\ nxt' = [nxt EXCEPT ![prv[s]] = nxt[s], ![s] = s]
      /\ prv' = [prv EXCEPT ![nxt[s]] = prv[s], ![s] = s]
      /\ list' = IF list = "relinked" THEN "broken" ELSE list
      /\ app_pc' = [app_pc EXCEPT ![s] = "free"]
      /\ state' = state /\ saddr' = saddr /\ Live(s)
  BY DEF udp_close, list_del_init, addrVars, Open, Live
<1>3. \A t \in Socks : saddr'[t] => state'[t] # "none"
  BY <1>2 DEF ListInv
<1>4. CASE list # "whole"
  <2>1. list' = "broken"
    BY <1>1, <1>2, <1>4
  <2> QED BY <1>3, <2>1 DEF ListInv
<1>5. CASE list = "whole"
  <2>1. PICK L \in Seq(Socks) : WholeList(L)
    BY <1>5 DEF ListInv
  <2>2. In(s, L)
    BY <1>2, <1>5, <2>1 DEF ListInv, WholeList
  <2>3. PICK k \in 1..Len(L) : L[k] = s
    BY <2>2 DEF In
  <2> DEFINE M == Without(L, k)
  <2>4. /\ M \in Seq(Socks) /\ Distinct(M)
        /\ \A t : In(t, M) <=> In(t, L) /\ t # s
        /\ Forth(nxt', M) /\ Back(prv', M)
    <3>1. Distinct(L) /\ Forth(nxt, L) /\ Back(prv, L)
      BY <2>1 DEF WholeList
    <3> QED BY <1>1, <1>2, <2>3, <3>1, ForthRemove
  <2> HIDE DEF M
  <2>5. \A t \in Socks : Live(t)' <=> Live(t) /\ t # s
    BY <1>1, <1>2 DEF Live
  <2>6. WholeList(M)'
    BY <1>2, <2>1, <2>4, <2>5 DEF WholeList
  <2>7. ASSUME NEW t \in Socks PROVE Linked(t)' <=> saddr'[t]
    <3>1. Linked(t) <=> saddr[t]
      BY <1>5 DEF ListInv
    <3>2. nxt[s] # Null /\ saddr[s]
      BY <1>5 DEF ListInv, Linked
    <3>3. t = prv[s] => saddr[t]
      <4>1. prv[s] = At(L, k - 1) /\ nxt[At(L, k - 1)] = s
        <5>1. k \in 1..(Len(L) + 1) /\ k - 1 \in 0..Len(L) /\ At(L, k) = s
              /\ (k - 1) + 1 = k
          BY <2>3 DEF At
        <5>2. \A i \in 1..(Len(L) + 1) : prv[At(L, i)] = At(L, i - 1)
          BY <2>1 DEF WholeList, Back
        <5>3. \A i \in 0..Len(L) : nxt[At(L, i)] = At(L, i + 1)
          BY <2>1 DEF WholeList, Forth
        <5>4. prv[s] = At(L, k - 1)
          BY <5>1, <5>2
        <5>5. nxt[At(L, k - 1)] = At(L, k)
          BY <5>1, <5>3
        <5> QED BY <5>1, <5>4, <5>5
      <4>2. s # Null
        BY NodeFacts
      <4> QED BY <3>1, <4>1, <4>2 DEF Linked
    <3>4. Linked(t)' <=> Linked(t) \/ t = s \/ t = prv[s]
      <4>1. t \in Nodes /\ s \in Nodes /\ s # Null
        BY NodeFacts
      <4> QED BY <1>1, <1>2, <3>2, <4>1 DEF Linked
    <3> QED BY <1>2, <3>1, <3>2, <3>3, <3>4
  <2>8. list' = "whole"
    BY <1>2, <1>5
  <2> QED BY <1>3, <2>4, <2>6, <2>7, <2>8 DEF ListInv
<1> QED BY <1>4, <1>5

LEMMA ListStep == UdpInv /\ ListInv /\ [Next]_vars => ListInv'
<1> SUFFICES ASSUME UdpInv, ListInv, [Next]_vars PROVE ListInv'
  OBVIOUS
<1>1. /\ saddr \in [Socks -> BOOLEAN]
      /\ state \in [Socks -> {"none", "UNCONNECTED", "CONNECTED", "freed"}]
      /\ app_pc \in [Socks -> {"ready", "test", "unlink", "load", "store",
                               "sleep", "asleep", "free"}]
      /\ \A s \in Socks : saddr[s] => state[s] # "none"
  BY Types DEF AddressTypeOK, ThreadTypeOK, ListInv
<1>2. ASSUME NEW s \in Socks, App(s) PROVE ListInv'
  <2>1. CASE inet_create(s)
    <3>1. /\ state[s] = "none" /\ state' = [state EXCEPT ![s] = "UNCONNECTED"]
          /\ UNCHANGED <<nxt, prv, list, saddr, app_pc>>
      BY <2>1 DEF inet_create, listVars, appVars
    <3>2. \A t \in Socks : saddr[t] => state'[t] = state[t]
      BY <1>1, <3>1
    <3> QED BY <1>1, <3>1, <3>2, ListKept DEF Live
  <2>2. CASE \E p \in Ports : udp_bind(s, p)
    <3>1. UNCHANGED <<nxt, prv, list, saddr, state, app_pc>>
      BY <2>2 DEF udp_bind, listVars, appVars
    <3> QED BY <1>1, <3>1, ListKept DEF Live
  <2>3. ASSUME NEW r \in Peers, udp_connect(s, r) \/ udp_sendto(s, r)
        PROVE  ListInv'
    <3>1. /\ Live(s) /\ app_pc' = app_pc
          /\ saddr' = [saddr EXCEPT ![s] = TRUE]
          /\ state' = state \/ state' = [state EXCEPT ![s] = "CONNECTED"]
          /\ \/ list_add_tail(s)
             \/ UNCHANGED listVars /\ (saddr[s] \/ udp_sk_in_socks(s))
      BY <2>3 DEF udp_connect, udp_sendto, Open, Live, appVars, SetAddress
    <3>2. \A t \in Socks : /\ Live(t)' <=> Live(t)
                           /\ t # s => state'[t] = state[t]
      BY <1>1, <3>1 DEF Live
    <3>3. state'[s] # "none"
      BY <1>1, <3>1 DEF Live
    <3>4. CASE list_add_tail(s)
      BY <3>1, <3>2, <3>3, <3>4, ListAdd
    <3>5. CASE UNCHANGED listVars /\ (saddr[s] \/ udp_sk_in_socks(s))
      <4>1. \A t \in Socks : saddr'[t] => state'[t] # "none"
        BY <1>1, <3>1, <3>2, <3>3
      <4>2. CASE list = "broken"
        BY <3>5, <4>1, <4>2 DEF ListInv, listVars
      <4>3. CASE list # "broken"
        <5>1. saddr[s]
          <6>1. s # Null
            BY NodeFacts
          <6> QED BY <3>5, <4>3, <6>1 DEF ListInv, udp_sk_in_socks, Linked
        <5>2. saddr' = saddr
          BY <1>1, <3>1, <5>1
        <5> QED BY <3>2, <3>3, <3>5, <4>1, <5>2, ListKept DEF listVars
      <4> QED BY <4>2, <4>3
    <3> QED BY <3>1, <3>4, <3>5
  <2>4. CASE udp_recvfrom(s) \/ Reading(s)
    <3>1. /\ UNCHANGED <<nxt, prv, list, saddr, state>>
          /\ \E pc \in {"ready", "test", "unlink", "load", "store", "sleep",
                        "asleep"} : app_pc' = [app_pc EXCEPT ![s] = pc]
                                    \/ app_pc' = app_pc
          /\ app_pc[s] # "free"
      BY <2>4 DEF udp_recvfrom, Reading, udp_data_dequeue, DequeueTest,
                  DequeueUnlink, DequeueLoad, DequeueStore, wait_sleep, WakeUp,
                  listVars, addrVars, Open
    <3>2. \A t \in Socks : Live(t)' <=> Live(t)
      BY <1>1, <3>1 DEF Live
    <3> QED BY <1>1, <3>1, <3>2, ListKept
  <2>5. CASE udp_close(s)
    <3>1. CASE Linked(s)
      BY <2>5, <3>1, ListRemove
    <3>2. CASE ~Linked(s)
      <4>1. UNCHANGED <<nxt, prv, list, saddr, state, app_pc>>
        BY <2>5, <3>2 DEF udp_close, listVars, addrVars
      <4> QED BY <1>1, <4>1, ListKept DEF Live
    <3> QED BY <3>1, <3>2
  <2>6. CASE FreeTwice(s)
    <3>1. /\ UNCHANGED <<nxt, prv, list, saddr>> /\ app_pc[s] = "free"
          /\ state' = [state EXCEPT ![s] = "freed"]
          /\ app_pc' = [app_pc EXCEPT ![s] = "ready"]
      BY <2>6 DEF FreeTwice, listVars
    <3>2. \A t \in Socks : Live(t)' <=> Live(t)
      BY <1>1, <3>1 DEF Live
    <3>3. \A t \in Socks : saddr[t] => state'[t] # "none"
      BY <1>1, <3>1
    <3> QED BY <3>1, <3>2, <3>3, ListKept
  <2> QED BY <1>2, <2>1, <2>2, <2>3, <2>4, <2>5, <2>6 DEF App
<1>3. CASE udp_in \/ UNCHANGED vars
  <2>1. UNCHANGED <<nxt, prv, list, saddr, state, app_pc>>
    BY <1>3 DEF udp_in, Lookup, Enqueue, EnqueueBegin, EnqueueLink,
                EnqueueLoad, EnqueueStore, udp_recv_notify, UseAfterFree,
                appSide, addrVars, listVars, appVars, vars
  <2> QED BY <1>1, <2>1, ListKept DEF Live
<1> QED BY <1>2, <1>3 DEF Next

LEMMA ListAlways == Spec => [](UdpInv /\ ListInv)
BY UdpInit, UdpStep, ListInit, ListStep, PTL DEF Spec

-----------------------------------------------------------------------------
(* The answer to what a socket sent finds that socket while no sock has    *)
(* been linked twice, unless a port was drawn twice, and no freed sock is  *)
(* found (udp_sendto, udp_lookup_sock).                                    *)
THEOREM ReplyFindsSenderHolds == Spec => []ReplyFindsSender
<1>1. UdpInv /\ ListInv => ReplyFindsSender
  <2> SUFFICES ASSUME UdpInv, ListInv, list = "whole" PROVE ReplyFindsSender
    BY DEF ReplyFindsSender
  <2>1. PICK L \in Seq(Socks) : WholeList(L)
    BY DEF ListInv
  <2>2. /\ Distinct(L) /\ Forth(nxt, L)
        /\ \A s \in Socks : In(s, L) <=> Live(s) /\ saddr[s]
    BY <2>1 DEF WholeList
  <2>3. \A k \in Steps : Walk[k] = At(L, k + 1)
    BY <2>2, WalkValues
  <2>4. /\ Len(L) \in Nat /\ Len(L) <= Cardinality(Socks)
        /\ Cardinality(Socks) \in Nat
    BY <2>2, ListFits
  <2>5. ASSUME NEW k \in Steps, Walk[k] \in Socks
        PROVE  k + 1 \in 1..Len(L) /\ Walk[k] = L[k + 1] /\ Live(Walk[k])
    <3>1. k + 1 \in 1..Len(L) /\ Walk[k] = L[k + 1]
      BY <2>3, <2>5, NodeFacts DEF At
    <3> QED BY <2>2, <2>5, <3>1 DEF In
  <2>6. ASSUME NEW s \in Socks, Live(s), saddr[s],
               \A t \in Socks \ {s} : Live(t) => sport[t] # sport[s]
        PROVE  udp_lookup_sock(sport[s]) = s
    <3> DEFINE hits == {k \in Steps : Walk[k] \in Socks
                                          /\ sport[Walk[k]] = sport[s]}
               first == CHOOSE k \in hits : \A j \in hits : k <= j
    <3>1. PICK i \in 1..Len(L) : L[i] = s
      BY <2>2, <2>6 DEF In
    <3>2. i - 1 \in Steps /\ Walk[i - 1] = s
      <4>1. i - 1 \in Steps /\ (i - 1) + 1 = i
        BY <2>4 DEF Steps
      <4> QED BY <2>3, <3>1, <4>1 DEF At
    <3>3. \A k \in hits : Walk[k] = s
      BY <2>5, <2>6
    <3>4. hits # {}
      BY <3>2
    <3>5. hits \subseteq Nat
      BY <2>4 DEF Steps
    <3>6. first \in hits
      <4> HIDE DEF hits
      <4>1. \E k \in hits : \A j \in hits : k <= j
        BY <3>4, <3>5, NatMinimum
      <4> QED BY <4>1
    <3>7. udp_lookup_sock(sport[s]) = Walk[first]
      BY <3>4 DEF udp_lookup_sock
    <3> QED BY <3>3, <3>6, <3>7
  <2>7. \A s \in Met : state[s] # "freed"
    BY <2>5 DEF Met, Live
  <2> QED BY <2>6, <2>7 DEF ReplyFindsSender
<1> QED BY <1>1, ListAlways, PTL

(* Also after a sock has been linked twice a walk ends, and ends at the    *)
(* sock linked last, as long as none was removed since (udp_sock.c:37).    *)
THEOREM LastLinkedFoundHolds == Spec => []LastLinkedFound
<1>1. UdpInv /\ ListInv => LastLinkedFound
  <2> SUFFICES ASSUME UdpInv, ListInv, list # "broken" PROVE LastLinkedFound
    BY DEF LastLinkedFound
  <2>1. list \in {"whole", "relinked"}
    BY Types DEF AddressTypeOK
  <2>2. PICK L \in Seq(Socks) :
            Distinct(L) /\ Forth(nxt, L) /\ prv[LinkHead] = At(L, Len(L))
    <3>1. CASE list = "whole"
      <4>1. PICK L \in Seq(Socks) : WholeList(L)
        BY <3>1 DEF ListInv
      <4>2. prv[LinkHead] = At(L, Len(L))
        BY <4>1, AtFacts DEF WholeList, Back
      <4> QED BY <4>1, <4>2 DEF WholeList
    <3>2. CASE list = "relinked"
      BY <3>2 DEF ListInv, CutList
    <3> QED BY <2>1, <3>1, <3>2
  <2>3. \A k \in Steps : Walk[k] = At(L, k + 1)
    BY <2>2, WalkValues
  <2>4. /\ Len(L) \in Nat /\ Len(L) <= Cardinality(Socks)
        /\ Cardinality(Socks) \in Nat
    BY <2>2, ListFits
  <2>5. WalkEnds
    BY <2>3, <2>4 DEF WalkEnds, Steps, At
  <2>6. ASSUME prv[LinkHead] # LinkHead PROVE prv[LinkHead] \in Met
    <3>1. Len(L) \in 1..Len(L) /\ prv[LinkHead] = L[Len(L)]
      BY <2>2, <2>4, <2>6 DEF At
    <3>2. Len(L) - 1 \in Steps /\ (Len(L) - 1) + 1 = Len(L)
      BY <2>4, <3>1 DEF Steps
    <3>3. Walk[Len(L) - 1] = L[Len(L)] /\ L[Len(L)] \in Socks
      BY <2>3, <3>1, <3>2 DEF At
    <3> QED BY <3>1, <3>2, <3>3 DEF Met
  <2> QED BY <2>5, <2>6 DEF LastLinkedFound
<1> QED BY <1>1, ListAlways, PTL
=============================================================================
