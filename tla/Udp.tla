---------------------------------- MODULE Udp ----------------------------------
(***************************************************************************)
(* UDP sockets of ToyIP.  The thread that serves a socket runs bind,       *)
(* connect, sendto, write, the two ways to read, and close; the receive    *)
(* thread runs udp_in.                                                     *)
(*                                                                         *)
(* The socks that have an address are linked into udp_socks.  slock makes  *)
(* every change of that list atomic, but sendto links a sock that is       *)
(* linked already, so the list is modelled by its links.  list (a history  *)
(* variable) tells whether that happened ("relinked") and whether a sock   *)
(* was removed after it ("broken").                                        *)
(*                                                                         *)
(* The reader holds the lock of the receive queue, udp_in does not.  An    *)
(* insertion that overlaps the removal of the only element, or a change of *)
(* qlen that overwrites the other's, is recorded in clash.                 *)
(*                                                                         *)
(* Datagrams come from anywhere and are numbered as they arrive; one that  *)
(* no sock is found for is dropped and has no step, and neither has write, *)
(* which only sends.  up turns false when the stack dies of an invalid     *)
(* access.  Where it only may die, of a double free or of a write to freed *)
(* memory, the model goes on: the behaviour may end there.                 *)
(***************************************************************************)
EXTENDS Integers, Sequences, FiniteSets

CONSTANTS
    Socks,      \* the UDP socks that may be made
    Readers,    \* those of them that are read from
    Ports,      \* what udp_generate_port may return and bind be given
    Peers,      \* remote ends
    Arrivals,   \* bound: the lengths of the datagrams that arrive, in order
    LinkHead, Null, NoPeer  \* udp_socks itself, no link and no remote end

(* 16 bits wide; udp_generate_port may also wrap to 0.                     *)
PortNumber == 0..65535

ASSUME UdpAssumption == Ports \subseteq PortNumber /\ Arrivals \in Seq(Nat)

ASSUME FiniteSocks == IsFiniteSet(Socks)

ASSUME NotSocks ==
    /\ LinkHead \notin Socks /\ Null \notin Socks \cup {LinkHead}
    /\ NoPeer \notin Peers

Nodes == Socks \cup {LinkHead}

(* A datagram is its number; its length is skb->dlen.                      *)
Datagram == 1..Len(Arrivals)

dlen(d) == Arrivals[d]

VARIABLES
    state,      \* "none", "UNCONNECTED", "CONNECTED" or "freed"
    sport, peer,  \* sk->sport, sk->dport and sk->daddr
    saddr,      \* sk->saddr # 0
    nxt, prv,   \* the links of udp_socks, Null while zero
    list,       \* history: "whole", "relinked" or "broken"
    queue, qlen,  \* sk->receive_queue
    sleeping,   \* sk->recv_wait.sleeping
    app_pc, app_qlen,  \* the thread that serves the socket
    rx_pc, rx_sk, rx_dg, rx_qlen,  \* the receive thread in udp_in
    race,       \* the insertion going on overlaps a removal
    clash,      \* history: a removal or a change of qlen was disturbed
    arrived,    \* history: datagrams looked up so far
    queued, taken,  \* history: datagrams put into and taken from the queues
    up          \* the stack is running

addrVars  == <<state, sport, peer, saddr>>
listVars  == <<nxt, prv, list>>
queueVars == <<queue, qlen, clash, queued, taken>>
rxVars    == <<rx_pc, rx_sk, rx_dg, rx_qlen, arrived>>
appVars   == <<app_pc, app_qlen>>
vars == <<addrVars, listVars, queueVars, sleeping, appVars, rxVars, race, up>>

Init ==
    /\ state = [s \in Socks |-> "none"]
    /\ sport = [s \in Socks |-> 0] /\ peer = [s \in Socks |-> NoPeer]
    /\ saddr = [s \in Socks |-> FALSE]
    /\ nxt = [n \in Nodes |-> IF n = LinkHead THEN LinkHead ELSE Null]
    /\ prv = nxt
    /\ list = "whole"
    /\ queue = [s \in Socks |-> << >>] /\ qlen = [s \in Socks |-> 0]
    /\ sleeping = [s \in Socks |-> FALSE]
    /\ app_pc = [s \in Socks |-> "ready"] /\ app_qlen = [s \in Socks |-> 0]
    /\ rx_pc = "idle" /\ rx_sk = LinkHead /\ rx_dg = 0 /\ rx_qlen = 0
    /\ race = FALSE /\ clash = [s \in Socks |-> FALSE]
    /\ arrived = 0
    /\ queued = [s \in Socks |-> << >>] /\ taken = [s \in Socks |-> << >>]
    /\ up = TRUE

-----------------------------------------------------------------------------
(* The list of socks.                                                      *)

Linked(s) == nxt[s] # Null

LinkIsNull(s) == nxt[s] = Null

(* The comment of udp_sk_in_socks asks whether the sock is in the list;    *)
(* the code answers whether its link points to itself.                     *)
udp_sk_in_socks(s) == nxt[s] = s

AddWithoutNext(s) ==
    LET last == prv[LinkHead]
    IN  /\ nxt' = [nxt EXCEPT ![last] = s]
        /\ prv' = [prv EXCEPT ![s] = last, ![LinkHead] = s]
        /\ list' = IF Linked(s) /\ list = "whole" THEN "relinked" ELSE list

list_add_tail(s) ==
    LET last == prv[LinkHead]
    IN  /\ nxt' = [nxt EXCEPT ![last] = s, ![s] = LinkHead]
        /\ prv' = [prv EXCEPT ![s] = last, ![LinkHead] = s]
        /\ list' = IF Linked(s) /\ list = "whole" THEN "relinked" ELSE list

list_del_init(s) ==
    /\ nxt' = [nxt EXCEPT ![prv[s]] = nxt[s], ![s] = s]
    /\ prv' = [prv EXCEPT ![nxt[s]] = prv[s], ![s] = s]
    /\ list' = IF list = "relinked" THEN "broken" ELSE list

(* The nodes list_for_each meets; after one step per sock it is at the     *)
(* head again, or it never will be.                                        *)
Steps == 0..Cardinality(Socks)

Walk ==
    LET at[k \in Steps] ==
            IF k = 0 THEN nxt[LinkHead]
            ELSE IF at[k - 1] \in Socks THEN nxt[at[k - 1]] ELSE at[k - 1]
    IN  at

WalkEnds == Walk[Cardinality(Socks)] = LinkHead

Met == {Walk[k] : k \in Steps} \cap Socks

udp_lookup_sock(p) ==
    LET hits == {k \in Steps : Walk[k] \in Socks /\ sport[Walk[k]] = p}
    IN  IF hits = {} THEN LinkHead
        ELSE Walk[CHOOSE k \in hits : \A j \in hits : k <= j]

(* udp_port_used walks the list without the lock.                          *)
udp_port_used(p) == udp_lookup_sock(p) # LinkHead

-----------------------------------------------------------------------------
(* The thread that serves the socket.  A receive thread that walks for     *)
(* ever keeps slock.                                                       *)

SlockFree == rx_pc # "spin"

(* inet_create and udp_alloc_sock: everything zero.                        *)
inet_create(s) ==
    /\ state[s] = "none"
    /\ state' = [state EXCEPT ![s] = "UNCONNECTED"]
    /\ UNCHANGED <<sport, peer, saddr, listVars, queueVars, sleeping,
                   appVars, rxVars, race, up>>

Open(s) == state[s] \in {"UNCONNECTED", "CONNECTED"} /\ app_pc[s] = "ready"

(* udp_set_sport stores a free port and reports failure all the same, so   *)
(* that bind never gets to link the sock.                                  *)
udp_set_sport(s, p) ==
    /\ p # 0 /\ ~udp_port_used(p)
    /\ sport' = [sport EXCEPT ![s] = p]

udp_bind(s, p) ==
    /\ Open(s)
    /\ sport[s] = 0 /\ ~saddr[s]
    /\ udp_set_sport(s, p)
    /\ UNCHANGED <<state, peer, saddr, listVars, queueVars, sleeping,
                   appVars, rxVars, race, up>>

(* The new address of the sock; a port is drawn every time.                *)
SetAddress(s, r) ==
    /\ peer' = [peer EXCEPT ![s] = r]
    /\ \E p \in Ports : sport' = [sport EXCEPT ![s] = p]
    /\ saddr' = [saddr EXCEPT ![s] = TRUE]

ConnectAgain(s) == TRUE

NotConnected(s) == sport[s] = 0

udp_clean_up_receive_queue(s) ==
    /\ queue' = [queue EXCEPT ![s] = << >>]
    /\ qlen' = [qlen EXCEPT ![s] = 0]
    /\ taken' = [taken EXCEPT ![s] = @ \o queue[s]]
    /\ clash' = [clash EXCEPT ![s] = @ \/ (rx_pc # "idle" /\ rx_sk = s)]
    /\ UNCHANGED queued

udp_connect(s, r) ==
    /\ Open(s) /\ SlockFree
    /\ NotConnected(s)
    /\ IF state[s] = "CONNECTED" THEN udp_clean_up_receive_queue(s)
       ELSE UNCHANGED queueVars
    /\ SetAddress(s, r)
    /\ state' = [state EXCEPT ![s] = "CONNECTED"]
    /\ IF saddr[s] THEN UNCHANGED listVars ELSE list_add_tail(s)
    /\ UNCHANGED <<sleeping, appVars, rxVars, race, up>>

(* sendto is given an address by the library at all times, so a connected  *)
(* sock refuses it.                                                        *)
udp_sendto(s, r) ==
    /\ Open(s) /\ SlockFree
    /\ state[s] = "UNCONNECTED"
    /\ SetAddress(s, r)
    /\ IF udp_sk_in_socks(s) THEN UNCHANGED listVars ELSE list_add_tail(s)
    /\ UNCHANGED <<state, queueVars, sleeping, appVars, rxVars, race, up>>

(* read and recvfrom: the loop around udp_data_dequeue.                    *)
udp_recvfrom(s) ==
    /\ Open(s) /\ s \in Readers
    /\ app_pc' = [app_pc EXCEPT ![s] = "test"]
    /\ UNCHANGED <<addrVars, listVars, queueVars, sleeping, app_qlen, rxVars,
                   race, up>>

Inserting(s) == rx_pc = "link" /\ rx_sk = s

(* The lock is taken, the length tested and the first skb looked at.  With *)
(* a length but no skb the head of the list is taken for one.              *)
DequeueTest(s) ==
    /\ app_pc[s] = "test"
    /\ \/ /\ qlen[s] < 1
          /\ app_pc' = [app_pc EXCEPT ![s] = "sleep"]
          /\ UNCHANGED <<race, up>>
       \/ /\ qlen[s] >= 1 /\ queue[s] # << >>
          /\ app_pc' = [app_pc EXCEPT ![s] = "unlink"]
          /\ race' = (race \/ (Inserting(s) /\ Len(queue[s]) = 1))
          /\ UNCHANGED up
       \/ /\ qlen[s] >= 1 /\ queue[s] = << >>
          /\ up' = FALSE
          /\ UNCHANGED <<app_pc, race>>
    /\ UNCHANGED <<addrVars, listVars, queueVars, sleeping, app_qlen, rxVars>>

DequeueUnlink(s) ==
    /\ app_pc[s] = "unlink"
    /\ queue' = [queue EXCEPT ![s] = Tail(@)]
    /\ taken' = [taken EXCEPT ![s] = Append(@, Head(queue[s]))]
    /\ app_pc' = [app_pc EXCEPT ![s] = "load"]
    /\ UNCHANGED <<addrVars, listVars, qlen, clash, queued, sleeping,
                   app_qlen, rxVars, race, up>>

DequeueLoad(s) ==
    /\ app_pc[s] = "load"
    /\ app_qlen' = [app_qlen EXCEPT ![s] = qlen[s]]
    /\ app_pc' = [app_pc EXCEPT ![s] = "store"]
    /\ UNCHANGED <<addrVars, listVars, queueVars, sleeping, rxVars, race, up>>

OneLess(n) == n - 1

LastTaken(s) == taken[s][Len(taken[s])]

(* A datagram of length 0 is gone and yet counts as none, so the reader    *)
(* goes to sleep, whatever else is queued.                                 *)
DequeueStore(s) ==
    /\ app_pc[s] = "store"
    /\ qlen' = [qlen EXCEPT ![s] = OneLess(app_qlen[s])]
    /\ clash' = [clash EXCEPT ![s] = @ \/ qlen[s] # app_qlen[s]
                                       \/ (rx_pc = "store" /\ rx_sk = s)]
    /\ app_pc' = [app_pc EXCEPT ![s] = IF dlen(LastTaken(s)) = 0
                                       THEN "sleep" ELSE "ready"]
    /\ app_qlen' = [app_qlen EXCEPT ![s] = 0]
    /\ UNCHANGED <<addrVars, listVars, queue, queued, taken, sleeping,
                   rxVars, race, up>>

udp_data_dequeue(s) ==
    DequeueTest(s) \/ DequeueUnlink(s) \/ DequeueLoad(s) \/ DequeueStore(s)

wait_sleep(s) ==
    /\ app_pc[s] = "sleep"
    /\ sleeping' = [sleeping EXCEPT ![s] = TRUE]
    /\ app_pc' = [app_pc EXCEPT ![s] = "asleep"]
    /\ UNCHANGED <<addrVars, listVars, queueVars, app_qlen, rxVars, race, up>>

WakeUp(s) ==
    /\ app_pc[s] = "asleep" /\ ~sleeping[s]
    /\ app_pc' = [app_pc EXCEPT ![s] = "test"]
    /\ UNCHANGED <<addrVars, listVars, queueVars, sleeping, app_qlen, rxVars,
                   race, up>>

(* close: a sock that was never linked has null pointers for links.        *)
udp_close(s) ==
    /\ Open(s) /\ SlockFree
    /\ \/ /\ ~Linked(s)
          /\ up' = FALSE
          /\ UNCHANGED <<listVars, app_pc>>
       \/ /\ Linked(s)
          /\ list_del_init(s)
          /\ app_pc' = [app_pc EXCEPT ![s] = "free"]
          /\ UNCHANGED up
    /\ UNCHANGED <<addrVars, queueVars, sleeping, app_qlen, rxVars, race>>

(* udp_free_sock, and then inet_free empties the queue of the same memory  *)
(* and frees it again.                                                     *)
FreeTwice(s) ==
    /\ app_pc[s] = "free"
    /\ state' = [state EXCEPT ![s] = "freed"]
    /\ queue' = [queue EXCEPT ![s] = << >>] /\ qlen' = [qlen EXCEPT ![s] = 0]
    /\ taken' = [taken EXCEPT ![s] = << >>]
    /\ queued' = [queued EXCEPT ![s] = << >>]
    /\ app_pc' = [app_pc EXCEPT ![s] = "ready"]
    /\ UNCHANGED <<sport, peer, saddr, listVars, clash, sleeping, app_qlen,
                   rxVars, race, up>>

Reading(s) == udp_data_dequeue(s) \/ wait_sleep(s) \/ WakeUp(s)

App(s) ==
    \/ inet_create(s)
    \/ \E p \in Ports : udp_bind(s, p)
    \/ \E r \in Peers : udp_connect(s, r) \/ udp_sendto(s, r)
    \/ udp_recvfrom(s) \/ Reading(s)
    \/ udp_close(s) \/ FreeTwice(s)

-----------------------------------------------------------------------------
(* The receive thread in udp_in.                                           *)

appSide == <<addrVars, listVars, sleeping, appVars>>

(* The sock found is used after slock is released.                         *)
Lookup(p) ==
    /\ rx_pc = "idle" /\ arrived < Len(Arrivals)
    /\ LET s == udp_lookup_sock(p)
       IN  \/ /\ s # LinkHead
              /\ rx_pc' = "found" /\ rx_sk' = s
              /\ rx_dg' = arrived + 1
              /\ arrived' = arrived + 1
           \/ /\ s = LinkHead /\ ~WalkEnds
              /\ rx_pc' = "spin"
              /\ UNCHANGED <<rx_sk, rx_dg, arrived>>
    /\ UNCHANGED <<appSide, queueVars, rx_qlen, race, up>>

Alive == state[rx_sk] # "freed"

(* The sock was closed meanwhile: what is written goes to freed memory.    *)
UseAfterFree ==
    /\ rx_pc \in {"found", "link", "load", "store", "notify"} /\ ~Alive
    /\ rx_pc' = "idle" /\ rx_sk' = LinkHead /\ rx_dg' = 0
    /\ rx_qlen' = 0 /\ race' = FALSE
    /\ UNCHANGED <<appSide, queueVars, arrived, up>>

EnqueueBegin ==
    /\ rx_pc = "found" /\ Alive
    /\ rx_pc' = "link"
    /\ race' = (app_pc[rx_sk] = "unlink" /\ Len(queue[rx_sk]) = 1)
    /\ UNCHANGED <<appSide, queueVars, rx_sk, rx_dg, rx_qlen, arrived, up>>

AtFront(q, d) == {<<d>> \o q}

(* An insertion that met the removal of the only element may lose its own  *)
(* or leave it reachable after its removal.                                *)
Inserted(q, d) ==
    IF race THEN {q, Append(q, d), Append(Append(q, d), d)}
    ELSE {Append(q, d)}

EnqueueLink ==
    /\ rx_pc = "link" /\ Alive
    /\ \E q \in Inserted(queue[rx_sk], rx_dg) :
           queue' = [queue EXCEPT ![rx_sk] = q]
    /\ queued' = [queued EXCEPT ![rx_sk] = Append(@, rx_dg)]
    /\ clash' = [clash EXCEPT ![rx_sk] = @ \/ race]
    /\ race' = FALSE
    /\ rx_pc' = "load"
    /\ UNCHANGED <<appSide, qlen, taken, rx_sk, rx_dg, rx_qlen, arrived, up>>

EnqueueLoad ==
    /\ rx_pc = "load" /\ Alive
    /\ rx_qlen' = qlen[rx_sk]
    /\ rx_pc' = "store"
    /\ UNCHANGED <<appSide, queueVars, rx_sk, rx_dg, arrived, race, up>>

EnqueueStore ==
    /\ rx_pc = "store" /\ Alive
    /\ qlen' = [qlen EXCEPT ![rx_sk] = rx_qlen + 1]
    /\ clash' = [clash EXCEPT ![rx_sk] = @ \/ qlen[rx_sk] # rx_qlen
                                           \/ app_pc[rx_sk] = "store"]
    /\ rx_pc' = "notify" /\ rx_qlen' = 0
    /\ UNCHANGED <<appSide, queue, queued, taken, rx_sk, rx_dg, arrived,
                   race, up>>

NoWakeup == UNCHANGED sleeping

wait_wakeup == sleeping' = [sleeping EXCEPT ![rx_sk] = FALSE]

udp_recv_notify ==
    /\ rx_pc = "notify" /\ Alive
    /\ wait_wakeup
    /\ rx_pc' = "idle" /\ rx_sk' = LinkHead /\ rx_dg' = 0
    /\ UNCHANGED <<addrVars, listVars, appVars, queueVars, rx_qlen,
                   arrived, race, up>>

Enqueue ==
    \/ EnqueueBegin \/ EnqueueLink \/ EnqueueLoad \/ EnqueueStore
    \/ udp_recv_notify \/ UseAfterFree

udp_in == (\E p \in Ports : Lookup(p)) \/ Enqueue

-----------------------------------------------------------------------------

Next == up /\ (udp_in \/ \E s \in Socks : App(s))

Spec == Init /\ [][Next]_vars

(* Threads go on with what they have begun.                                *)
FairSpec ==
    /\ Spec
    /\ WF_vars(up /\ Enqueue)
    /\ \A s \in Socks : WF_vars(up /\ Reading(s))

-----------------------------------------------------------------------------
AddressTypeOK ==
    /\ state \in [Socks -> {"none", "UNCONNECTED", "CONNECTED", "freed"}]
    /\ sport \in [Socks -> PortNumber]
    /\ peer \in [Socks -> Peers \cup {NoPeer}]
    /\ saddr \in [Socks -> BOOLEAN]
    /\ nxt \in [Nodes -> Nodes \cup {Null}]
    /\ prv \in [Nodes -> Nodes \cup {Null}]
    /\ list \in {"whole", "relinked", "broken"}

QueueTypeOK ==
    /\ queue \in [Socks -> Seq(Datagram)] /\ qlen \in [Socks -> Nat]
    /\ clash \in [Socks -> BOOLEAN]
    /\ queued \in [Socks -> Seq(Datagram)] /\ taken \in [Socks -> Seq(Datagram)]

ThreadTypeOK ==
    /\ sleeping \in [Socks -> BOOLEAN]
    /\ app_pc \in [Socks -> {"ready", "test", "unlink", "load", "store",
                             "sleep", "asleep", "free"}]
    /\ app_qlen \in [Socks -> Nat]

ReceiveTypeOK ==
    /\ rx_pc \in {"idle", "found", "link", "load", "store", "notify", "spin"}
    /\ rx_sk \in Nodes /\ rx_dg \in Datagram \cup {0} /\ rx_qlen \in Nat
    /\ arrived \in 0..Len(Arrivals)

(* Type invariant of the socks, the list, the queues and the threads.      *)
TypeOK ==
    /\ AddressTypeOK /\ QueueTypeOK /\ ThreadTypeOK /\ ReceiveTypeOK
    /\ race \in BOOLEAN /\ up \in BOOLEAN

Live(s) == state[s] \in {"UNCONNECTED", "CONNECTED"} /\ app_pc[s] # "free"

(* As long as no sock was linked while it was linked, the answer to what a *)
(* socket with an address of its own sent finds that socket, unless the    *)
(* socket or another one has drawn a port since; and no freed sock can be  *)
(* found (udp_sendto, udp_lookup_sock; "saddr != NULL means that sk hangs  *)
(* in udp_socks", udp_sock.c:165).                                         *)
ReplyFindsSender ==
    list = "whole" =>
        /\ \A s \in Socks :
               /\ Live(s) /\ saddr[s]
               /\ \A t \in Socks \ {s} : Live(t) => sport[t] # sport[s]
               => udp_lookup_sock(sport[s]) = s
        /\ \A s \in Met : state[s] # "freed"

(* Even after a sock was linked twice, as long as none was removed then, a *)
(* walk over the list ends, and it ends at the sock that was linked last:  *)
(* a sender can be answered until another one sends (udp_sock.c:37).       *)
LastLinkedFound ==
    list # "broken" =>
        /\ WalkEnds
        /\ prv[LinkHead] # LinkHead => prv[LinkHead] \in Met

Counting(s) == IF rx_sk = s /\ rx_pc \in {"load", "store"} THEN 1 ELSE 0

Uncounting(s) == IF app_pc[s] \in {"load", "store"} THEN 1 ELSE 0

(* Unless the receive thread, which takes no lock, disturbed the reader,   *)
(* every datagram queued for a sock is taken once and in the order of      *)
(* arrival, and qlen is the length of the queue                            *)
(* (skb_queue_tail in udp.c:52, udp_data_dequeue).                         *)
TakenInOrder ==
    \A s \in Socks : state[s] # "freed" /\ ~clash[s] =>
        /\ queued[s] = taken[s] \o queue[s]
        /\ qlen[s] = Len(queue[s]) - Counting(s) + Uncounting(s)

(* A connected sock keeps its port and its peer: neither a second connect  *)
(* nor sendto nor bind changes them, unless the port drawn was 0 after a   *)
(* wrap ("connecting several times is not allowed", inet.c:90; udp_connect *)
(* itself would).                                                          *)
ConnectedFixed ==
    [][\A s \in Socks :
          state[s] = "CONNECTED" /\ sport[s] # 0 =>
              sport'[s] = sport[s] /\ peer'[s] = peer[s]]_vars

(* A reader asleep when a datagram has been queued returns with one,       *)
(* unless the queue was disturbed or a datagram of length 0 is in front:   *)
(* that one is swallowed and the reader sleeps on (udp_recvfrom).          *)
ReaderReturns ==
    \A s \in Socks :
        /\ up /\ app_pc[s] = "asleep" /\ sleeping[s] /\ ~clash[s]
        /\ rx_pc = "notify" /\ rx_sk = s
        /\ queue[s] # << >>
        /\ \A k \in DOMAIN queue[s] : dlen(queue[s][k]) > 0
        ~> app_pc[s] = "ready" \/ clash[s] \/ ~up
=============================================================================
