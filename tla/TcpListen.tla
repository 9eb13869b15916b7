------------------------------- MODULE TcpListen -------------------------------
(***************************************************************************)
(* The passive opening of ToyIP connections: bind, listen, accept and the  *)
(* close of a listening socket in the thread that serves the application,  *)
(* and in the receive thread tcp_handle_listen, which makes a child sock   *)
(* for a SYN, and the part of tcp_process that completes the handshake.    *)
(*                                                                         *)
(* Children wait in listen_queue and then in accept_queue, two circular    *)
(* lists linked through the same field.  No lock protects them, so each    *)
(* statement of list_add and list_del that can collide is a step.          *)
(* clash records that an insertion and a removal overlapped: from then on  *)
(* a child may be missing from the queue or in it again.                   *)
(*                                                                         *)
(* Every client (external) opens one connection; its child has its name.   *)
(* What was sent may be received at any time, more than once or never.     *)
(* A segment that changes nothing has no step, and neither has one that is *)
(* answered without effect: by a reset of the listening sock, whose daddr  *)
(* and dport are 0 so that it goes to nobody, or by the bare ACK for what  *)
(* the filter of tcp_process refuses, which moves no client.  Clients do   *)
(* not close; FIN and text are the subject of TcpRecv.                     *)
(***************************************************************************)
EXTENDS Integers, Sequences, FiniteSets

CONSTANTS
    Clients,     \* the remote ends
    SeqMod,      \* sequence numbers are taken modulo this: 2^32
    ISNs,        \* values tcp_generate_isn may return for the children
    ClientISNs,  \* initial sequence numbers of the clients
    Talkers,     \* the clients that write or abort once connected
    Stale,       \* segments left over from earlier connections
    Port,        \* the port the clients connect to
    Busy,        \* ports another listening sock has taken
    MaxAccepts   \* bound on the calls of accept

SeqSpace == 0..(SeqMod - 1)

Inc(n) == IF n + 1 = SeqMod THEN 0 ELSE n + 1

Nodes == Clients \cup {"listen", "accept"}

Segment == [from : Clients, syn : BOOLEAN, ack : BOOLEAN, rst : BOOLEAN,
            text : BOOLEAN, seq : SeqSpace, ack_seq : SeqSpace]

(* A leftover acknowledges no number of the connections to come.           *)
ASSUME ListenAssumption ==
    /\ SeqMod \in Nat /\ SeqMod > 1
    /\ ISNs \subseteq SeqSpace /\ ClientISNs \subseteq SeqSpace
    /\ Port \in Nat \ {0} /\ Busy \subseteq Nat /\ MaxAccepts \in Nat
    /\ Stale \subseteq Segment
    /\ \A s \in Stale : /\ ~s.syn /\ s.ack
                        /\ \A i \in ISNs : s.ack_seq \notin {i, Inc(i)}
    /\ Talkers \subseteq Clients
    /\ Clients \cap {"listen", "accept", "none"} = {}
    /\ IsFiniteSet(Clients)

VARIABLES
    saddr, sport, lstate,  \* of the listening sock
    listed,      \* how often it was linked into the list of listening socks,
                 \* or "loop" when its link points to itself there
    sleeping,    \* tsk->wait.sleeping of the listening sock
    app_pc,      \* where the application's thread is
    newtsk, before, after,  \* locals of tcp_accept_dequeue and list_del
    accepted,    \* the socks accept returned, in order
    nxt, prv,    \* the links of the children and of the two list heads
    cstate, isn, snd_una, snd_nxt, rcv_nxt,  \* the children
    rx_pc,       \* the receive thread: "idle", or in tcp_synrecv_ack
    rx_child, rx_ack,  \* the child and the ack_seq it is working on
    clash,       \* list_add and list_del overlapped
    client,      \* "CLOSED", "SYN_SENT", "ESTABLISHED", "ABORTED", "RESET"
    client_isn, client_irs,
    to_server, from_server  \* segments sent so far

sockVars   == <<saddr, sport, lstate, listed>>
appVars    == <<app_pc, newtsk, before, after, accepted>>
linkVars   == <<nxt, prv>>
tcbVars    == <<isn, snd_una, snd_nxt, rcv_nxt>>
rxVars     == <<rx_pc, rx_child, rx_ack>>
clientVars == <<client, client_isn, client_irs, to_server>>
stackVars  == <<sockVars, sleeping, appVars, linkVars, cstate, tcbVars,
                rxVars>>
vars == <<stackVars, clash, clientVars, from_server>>

Init ==
    /\ saddr = "any" /\ sport = 0 /\ lstate = "CLOSE" /\ listed = "no"
    /\ sleeping = FALSE
    /\ app_pc = "ready" /\ accepted = << >>
    /\ newtsk = "accept" /\ before = "accept" /\ after = "accept"
    /\ nxt = [n \in Nodes |-> n] /\ prv = [n \in Nodes |-> n]
    /\ cstate = [c \in Clients |-> "CLOSE"]
    /\ isn = [c \in Clients |-> 0]
    /\ snd_una = [c \in Clients |-> 0] /\ snd_nxt = [c \in Clients |-> 0]
    /\ rcv_nxt = [c \in Clients |-> 0]
    /\ rx_pc = "idle" /\ rx_child = "none" /\ rx_ack = 0
    /\ clash = FALSE
    /\ client = [c \in Clients |-> "CLOSED"]
    /\ client_isn \in [Clients -> ClientISNs]
    /\ client_irs = [c \in Clients |-> 0]
    /\ to_server = Stale /\ from_server = {}

-----------------------------------------------------------------------------
(* The application's thread.                                               *)

(* local_ipaddress takes INADDR_ANY for an address of ours.                *)
local_ipaddress(a) == a \in {"any", "stack"}

tcp_set_sport(p) == p # 0 /\ p \notin Busy

(* bind; an attempt that fails leaves the sock as it was.                  *)
inet_bind(a, p) ==
    /\ app_pc = "ready"
    /\ sport = 0
    /\ local_ipaddress(a) /\ tcp_set_sport(p)
    /\ saddr' = a /\ sport' = p
    /\ UNCHANGED <<lstate, listed, sleeping, appVars, linkVars, cstate,
                   tcbVars, rxVars>>

(* The link is added at the tail of the list of listening socks, also when *)
(* it is the tail already: it then points back to itself, and stays when   *)
(* it is removed.                                                          *)
LinkListener == listed' = IF listed = "no" THEN "once" ELSE "twice"

UnlinkListener == listed' = IF listed = "twice" THEN "loop" ELSE "no"

tcp_listen ==
    /\ app_pc = "ready"
    /\ sport # 0 /\ lstate \in {"CLOSE", "LISTEN"}
    /\ lstate' = "LISTEN"
    /\ LinkListener
    /\ UNCHANGED <<saddr, sport, sleeping, appVars, linkVars, cstate,
                   tcbVars, rxVars>>

(* close: tcp_free_sock takes sk->lock, which inet_close holds, so the     *)
(* thread never comes back.                                                *)
CloseListener ==
    /\ app_pc = "ready" /\ lstate = "LISTEN"
    /\ lstate' = "CLOSE"
    /\ app_pc' = "closing"
    /\ UNCHANGED <<saddr, sport, listed, sleeping, newtsk, before, after,
                   accepted, linkVars, cstate, tcbVars, rxVars>>

RemoveListener ==
    /\ app_pc = "closing"
    /\ UnlinkListener
    /\ app_pc' = "stuck"
    /\ UNCHANGED <<saddr, sport, lstate, sleeping, newtsk, before, after,
                   accepted, linkVars, cstate, tcbVars, rxVars>>

(* inet_accept asks for a port and for nothing else.                       *)
inet_accept ==
    /\ app_pc = "ready" /\ sport # 0 /\ Len(accepted) < MaxAccepts
    /\ app_pc' = "check"
    /\ UNCHANGED <<sockVars, sleeping, newtsk, before, after, accepted,
                   linkVars, cstate, tcbVars, rxVars>>

list_empty(head) == nxt[head] = head

tcp_accept ==
    /\ app_pc = "check"
    /\ app_pc' = IF list_empty("accept") THEN "sleep" ELSE "first"
    /\ UNCHANGED <<sockVars, sleeping, newtsk, before, after, accepted,
                   linkVars, cstate, tcbVars, rxVars>>

wait_sleep ==
    /\ app_pc = "sleep"
    /\ sleeping' = TRUE
    /\ app_pc' = "asleep"
    /\ UNCHANGED <<sockVars, newtsk, before, after, accepted, linkVars,
                   cstate, tcbVars, rxVars>>

WakeUp ==
    /\ app_pc = "asleep" /\ ~sleeping
    /\ app_pc' = "check"
    /\ UNCHANGED <<sockVars, sleeping, newtsk, before, after, accepted,
                   linkVars, cstate, tcbVars, rxVars>>

FirstListening == nxt["listen"]

list_first_entry == nxt["accept"]

DequeueFirst ==
    /\ app_pc = "first"
    /\ newtsk' = list_first_entry
    /\ app_pc' = "links"
    /\ UNCHANGED <<sockVars, sleeping, before, after, accepted, linkVars,
                   cstate, tcbVars, rxVars>>

DequeueLinks ==
    /\ app_pc = "links"
    /\ before' = prv[newtsk] /\ after' = nxt[newtsk]
    /\ app_pc' = "unlink"
    /\ UNCHANGED <<sockVars, sleeping, newtsk, accepted, linkVars, cstate,
                   tcbVars, rxVars>>

DequeueUnlink ==
    /\ app_pc = "unlink"
    /\ nxt' = [nxt EXCEPT ![before] = after]
    /\ app_pc' = "relink"
    /\ UNCHANGED <<sockVars, sleeping, newtsk, before, after, accepted, prv,
                   cstate, tcbVars, rxVars>>

DequeueRelink ==
    /\ app_pc = "relink"
    /\ prv' = [prv EXCEPT ![after] = before]
    /\ app_pc' = "init"
    /\ UNCHANGED <<sockVars, sleeping, newtsk, before, after, accepted, nxt,
                   cstate, tcbVars, rxVars>>

(* list_init of the link, and the new sock is returned.                    *)
DequeueInit ==
    /\ app_pc = "init"
    /\ nxt' = [nxt EXCEPT ![newtsk] = newtsk]
    /\ prv' = [prv EXCEPT ![newtsk] = newtsk]
    /\ accepted' = Append(accepted, newtsk)
    /\ app_pc' = "ready"
    /\ newtsk' = "accept" /\ before' = "accept" /\ after' = "accept"
    /\ UNCHANGED <<sockVars, sleeping, cstate, tcbVars, rxVars>>

tcp_accept_dequeue ==
    DequeueFirst \/ DequeueLinks \/ DequeueUnlink \/ DequeueRelink
        \/ DequeueInit

Accept == tcp_accept \/ wait_sleep \/ WakeUp \/ tcp_accept_dequeue

App ==
    /\ \/ \E a \in {"any", "stack", "other"}, p \in {0, Port} \cup Busy :
              inet_bind(a, p)
       \/ tcp_listen \/ CloseListener \/ RemoveListener
       \/ inet_accept \/ Accept
    /\ UNCHANGED <<clientVars, from_server>>

-----------------------------------------------------------------------------
(* The receive thread.                                                     *)

SynAck(c, seq, ack) == [to |-> c, kind |-> "SYNACK", seq |-> seq,
                        ack_seq |-> ack]
Rst(c, seq, ack)    == [to |-> c, kind |-> "RST", seq |-> seq,
                        ack_seq |-> ack]

Send(s) == from_server' = from_server \cup {s}

(* tcp_listen_child_sock: list_add at the head of listen_queue.            *)
LinkListening(c) ==
    /\ nxt' = [nxt EXCEPT !["listen"] = c, ![c] = nxt["listen"]]
    /\ prv' = [prv EXCEPT ![nxt["listen"]] = c, ![c] = "listen"]

tcp_send_synack(s, i) == Send(SynAck(s.from, i, Inc(s.seq)))

SynNotCounted(i) == i

CountSyn(i) == Inc(i)

(* A SYN makes a child and is answered at once; the SYN-ACK is not queued  *)
(* and is sent this one time.                                              *)
tcp_handle_listen(s, i) ==
    /\ lstate = "LISTEN"
    /\ s.syn /\ ~s.ack /\ ~s.rst
    /\ LinkListening(s.from)
    /\ cstate' = [cstate EXCEPT ![s.from] = "SYN_RECEIVED"]
    /\ isn' = [isn EXCEPT ![s.from] = i]
    /\ rcv_nxt' = [rcv_nxt EXCEPT ![s.from] = Inc(s.seq)]
    /\ tcp_send_synack(s, i)
    /\ snd_nxt' = [snd_nxt EXCEPT ![s.from] = CountSyn(i)]
    /\ snd_una' = [snd_una EXCEPT ![s.from] = i]
    /\ UNCHANGED rxVars

(* tcp_alloc_sock leaves the receive window of a child at 0.               *)
RcvWnd == 0

tcp_packet_filter(c, s) ==
    /\ ~(s.text /\ RcvWnd = 0)
    /\ s.seq >= rcv_nxt[c]
    /\ s.seq <= rcv_nxt[c] + RcvWnd

AckNotOld(c, s) == snd_una[c] <= s.ack_seq

AckInRange(c, s) ==
    /\ snd_una[c] <= s.ack_seq
    /\ s.ack_seq <= snd_nxt[c]

NotUnlinked(c) == UNCHANGED linkVars

list_del(c) ==
    /\ nxt' = [nxt EXCEPT ![prv[c]] = nxt[c]]
    /\ prv' = [prv EXCEPT ![nxt[c]] = prv[c]]

(* tcp_synrecv_ack begins: the child leaves listen_queue.                  *)
SynRecvAck(c, s) ==
    /\ AckInRange(c, s)
    /\ lstate = "LISTEN"
    /\ list_del(c)
    /\ rx_pc' = "add1" /\ rx_child' = c /\ rx_ack' = s.ack_seq
    /\ UNCHANGED <<cstate, tcbVars, from_server>>

SynRecvReset(c, s) ==
    /\ ~AckInRange(c, s)
    /\ snd_una' = [snd_una EXCEPT ![c] = snd_nxt[c]]
    /\ Send(Rst(c, snd_nxt[c], rcv_nxt[c]))
    /\ UNCHANGED <<linkVars, cstate, isn, snd_nxt, rcv_nxt, rxVars>>

(* tcp_process does not look at the RST bit.                               *)
tcp_process(c, s) ==
    /\ tcp_packet_filter(c, s) /\ ~s.syn /\ s.ack
    /\ cstate[c] = "SYN_RECEIVED"
    /\ SynRecvAck(c, s) \/ SynRecvReset(c, s)

ListenerFound == listed # "no" /\ saddr = "stack" /\ sport = Port

(* tcp_lookup_sock: the child of the client, else the listening sock.      *)
tcp_in(s) ==
    /\ rx_pc = "idle"
    /\ IF cstate[s.from] # "CLOSE" THEN tcp_process(s.from, s)
       ELSE ListenerFound /\ \E i \in ISNs : tcp_handle_listen(s, i)
    /\ UNCHANGED <<sockVars, sleeping, appVars, clientVars>>

(* tcp_accept_enqueue: the statements of list_add, the child at the head.  *)
EnqueuePrev ==
    /\ rx_pc = "add1"
    /\ prv' = [prv EXCEPT ![nxt["accept"]] = rx_child]
    /\ rx_pc' = "add2"
    /\ UNCHANGED <<nxt, sleeping, cstate, snd_una, rx_child, rx_ack>>

EnqueueOwn ==
    /\ rx_pc = "add2"
    /\ nxt' = [nxt EXCEPT ![rx_child] = nxt["accept"]]
    /\ prv' = [prv EXCEPT ![rx_child] = "accept"]
    /\ rx_pc' = "add3"
    /\ UNCHANGED <<sleeping, cstate, snd_una, rx_child, rx_ack>>

EnqueueHead ==
    /\ rx_pc = "add3"
    /\ nxt' = [nxt EXCEPT !["accept"] = rx_child]
    /\ rx_pc' = "wake"
    /\ UNCHANGED <<prv, sleeping, cstate, snd_una, rx_child, rx_ack>>

NoWakeup == UNCHANGED sleeping

wait_wakeup == sleeping' = FALSE

WakeAccept ==
    /\ rx_pc = "wake"
    /\ wait_wakeup
    /\ rx_pc' = "establish"
    /\ UNCHANGED <<linkVars, cstate, snd_una, rx_child, rx_ack>>

(* The state changes only now: accept may have returned the sock already.  *)
Establish ==
    /\ rx_pc = "establish"
    /\ snd_una' = [snd_una EXCEPT ![rx_child] = rx_ack]
    /\ cstate' = [cstate EXCEPT ![rx_child] = "ESTABLISHED"]
    /\ rx_pc' = "idle" /\ rx_child' = "none" /\ rx_ack' = 0
    /\ UNCHANGED <<linkVars, sleeping>>

tcp_synrecv_ack ==
    /\ EnqueuePrev \/ EnqueueOwn \/ EnqueueHead \/ WakeAccept \/ Establish
    /\ UNCHANGED <<sockVars, appVars, isn, snd_nxt, rcv_nxt, clientVars,
                   from_server>>

-----------------------------------------------------------------------------
(* The clients.                                                            *)

ToServer(c, syn, rst, text, seq, ack_seq) ==
    [from |-> c, syn |-> syn, ack |-> ~syn, rst |-> rst, text |-> text,
     seq |-> seq, ack_seq |-> ack_seq]

Says(s) == to_server' = to_server \cup {s}

ClientOpens(c) ==
    /\ client[c] = "CLOSED"
    /\ client' = [client EXCEPT ![c] = "SYN_SENT"]
    /\ Says(ToServer(c, TRUE, FALSE, FALSE, client_isn[c], 0))
    /\ UNCHANGED client_irs

ClientHearsSynAck(c, s) ==
    /\ client[c] = "SYN_SENT"
    /\ s.to = c /\ s.kind = "SYNACK" /\ s.ack_seq = Inc(client_isn[c])
    /\ client' = [client EXCEPT ![c] = "ESTABLISHED"]
    /\ client_irs' = [client_irs EXCEPT ![c] = s.seq]
    /\ Says(ToServer(c, FALSE, FALSE, FALSE, s.ack_seq, Inc(s.seq)))

ClientHearsRst(c, s) ==
    /\ client[c] = "ESTABLISHED"
    /\ s.to = c /\ s.kind = "RST" /\ s.seq = Inc(client_irs[c])
    /\ client' = [client EXCEPT ![c] = "RESET"]
    /\ UNCHANGED <<client_irs, to_server>>

ClientWrites(c) ==
    /\ c \in Talkers /\ client[c] = "ESTABLISHED"
    /\ Says(ToServer(c, FALSE, FALSE, TRUE, Inc(client_isn[c]),
                     Inc(client_irs[c])))
    /\ UNCHANGED <<client, client_irs>>

ClientAborts(c) ==
    /\ c \in Talkers /\ client[c] = "ESTABLISHED"
    /\ client' = [client EXCEPT ![c] = "ABORTED"]
    /\ Says(ToServer(c, FALSE, TRUE, FALSE, Inc(client_isn[c]),
                     Inc(client_irs[c])))
    /\ UNCHANGED client_irs

Client(c) ==
    /\ \/ ClientOpens(c)
       \/ \E s \in from_server : ClientHearsSynAck(c, s)
                                     \/ ClientHearsRst(c, s)
       \/ ClientWrites(c)
       \/ ClientAborts(c)
    /\ UNCHANGED <<stackVars, client_isn, from_server>>

-----------------------------------------------------------------------------

(* list_del has read its neighbours and list_add the head of the same list.*)
Overlapping ==
    /\ rx_pc \in {"add2", "add3"}
    /\ app_pc \in {"unlink", "relink"}

Noting(A) == A /\ clash' = (clash \/ Overlapping')

From(c) == \E s \in to_server : s.from = c /\ tcp_in(s)

Step ==
    \/ App
    \/ tcp_synrecv_ack
    \/ \E c \in Clients : From(c) \/ Client(c)

Next == Noting(Step)

Spec == Init /\ [][Next]_vars

(* Both threads go on, and the link loses nothing for ever: the SYN-ACK is *)
(* sent once, so on a link that does, a handshake may never complete.      *)
FairSpec ==
    /\ Spec
    /\ WF_vars(Noting(Accept /\ UNCHANGED <<clientVars, from_server>>))
    /\ WF_vars(Noting(tcp_synrecv_ack))
    /\ \A c \in Clients : SF_vars(Noting(From(c)))

-----------------------------------------------------------------------------
(* Type invariant of the listening sock, its children and the segments.    *)
TypeOK ==
    /\ saddr \in {"any", "stack"} /\ sport \in Nat
    /\ lstate \in {"CLOSE", "LISTEN"}
    /\ listed \in {"no", "once", "twice", "loop"}
    /\ sleeping \in BOOLEAN /\ clash \in BOOLEAN
    /\ app_pc \in {"ready", "check", "sleep", "asleep", "first", "links",
                   "unlink", "relink", "init", "closing", "stuck"}
    /\ newtsk \in Nodes /\ before \in Nodes /\ after \in Nodes
    /\ accepted \in Seq(Nodes) /\ Len(accepted) <= MaxAccepts
    /\ nxt \in [Nodes -> Nodes] /\ prv \in [Nodes -> Nodes]
    /\ cstate \in [Clients -> {"CLOSE", "SYN_RECEIVED", "ESTABLISHED"}]
    /\ isn \in [Clients -> SeqSpace] /\ snd_una \in [Clients -> SeqSpace]
    /\ snd_nxt \in [Clients -> SeqSpace] /\ rcv_nxt \in [Clients -> SeqSpace]
    /\ rx_pc \in {"idle", "add1", "add2", "add3", "wake", "establish"}
    /\ rx_child \in Clients \cup {"none"} /\ rx_ack \in SeqSpace
    /\ client \in [Clients -> {"CLOSED", "SYN_SENT", "ESTABLISHED",
                               "ABORTED", "RESET"}]
    /\ client_isn \in [Clients -> SeqSpace]
    /\ client_irs \in [Clients -> SeqSpace]
    /\ to_server \subseteq Segment
    /\ from_server \subseteq [to : Clients, kind : {"SYNACK", "RST"},
                              seq : SeqSpace, ack_seq : SeqSpace]

(* The client once took the connection for established.                    *)
Answered(c) == client[c] \in {"ESTABLISHED", "ABORTED", "RESET"}

(* A child that accept may return, established or about to be, belongs to  *)
(* a client that completed the handshake with it, and both ends agree on   *)
(* both initial sequence numbers: no leftover of an earlier connection, no *)
(* repeated SYN and no wrap of the numbers completes a handshake           *)
(* (tcp_handle_listen, tcp_process in SYN_RECEIVED).                       *)
ChildAgrees ==
    \A c \in Clients :
        /\ Answered(c) => /\ client_irs[c] = isn[c]
                          /\ rcv_nxt[c] = Inc(client_isn[c])
        /\ cstate[c] = "ESTABLISHED" =>
               Answered(c) /\ snd_nxt[c] = Inc(isn[c]) /\ snd_una[c] = snd_nxt[c]

(* The nodes list_for_each meets from head on, until it is back there.     *)
Walk(head) ==
    LET at[k \in 0..Cardinality(Clients)] ==
            IF k = 0 THEN nxt[head]
            ELSE IF at[k - 1] = head THEN head ELSE nxt[at[k - 1]]
    IN  at

Members(head) == {Walk(head)[k] : k \in 0..Cardinality(Clients)} \ {head}

Returned == {accepted[k] : k \in DOMAIN accepted}

Queued == {c \in Clients :
               \/ cstate[c] = "ESTABLISHED"
               \/ rx_pc \in {"wake", "establish"} /\ c = rx_child}

ListsAtRest ==
    rx_pc \notin {"add1", "add2", "add3"}
        /\ app_pc \notin {"unlink", "relink", "init"}

(* As long as no insertion overlapped a removal, accept hands out every    *)
(* connection at most once, and every child is where the comments of       *)
(* struct tcp_sock (tcp.h:163-164) put it once the lists are at rest: in   *)
(* listen_queue while its handshake goes on, in accept_queue when it is    *)
(* complete and accept has not returned it, never in both.                 *)
ListsIntact ==
    ~clash =>
        /\ \A j, k \in DOMAIN accepted : accepted[j] = accepted[k] => j = k
        /\ Returned \subseteq Queued
        /\ ListsAtRest =>
               /\ Members("accept") = Queued \ Returned
               /\ Members("listen") =
                      {c \in Clients : cstate[c] = "SYN_RECEIVED"} \ Queued

(* No copy of the SYN a child was made for passes the filter of            *)
(* tcp_process, so that the child is never freed by it ("retransmitted     *)
(* SYNs have been dropped before", tcp_input.c:279), also when the numbers *)
(* wrap.                                                                   *)
SynFiltered ==
    \A s \in to_server :
        s.syn /\ cstate[s.from] # "CLOSE" => ~tcp_packet_filter(s.from, s)

(* The listening sock and its children keep the promise of Backlog.        *)
Promise == INSTANCE Backlog WITH
    Socks     <- Nodes,
    opened    <- {c \in Clients : cstate[c] # "CLOSE"},
    answered  <- {c \in Clients : Answered(c)},
    completed <- Queued,
    broken    <- clash

(* Every step of the two threads and of the clients is one that Backlog    *)
(* allows: a child is completed once, only after its client took the       *)
(* connection for established, and, unless an insertion overlapped a       *)
(* removal, accept hands it out once and only then (tcp_handle_listen,     *)
(* tcp_synrecv_ack, tcp_accept).                                           *)
BacklogKept == Promise!Spec

(* When nothing is lost for ever, the child of a client that completed the *)
(* handshake becomes established, unless the listening sock is closed, the *)
(* client was reset, or the child has the very last sequence number.       *)
HandshakeCompletes ==
    \A c \in Clients :
        Answered(c) ~> \/ cstate[c] = "ESTABLISHED"
                       \/ lstate = "CLOSE" \/ client[c] = "RESET"
                       \/ Inc(isn[c]) = 0

(* A thread asleep in accept when a child is queued returns from accept:   *)
(* the queue was filled before the wakeup, and only an overlap empties it. *)
AcceptReturns ==
    \A c \in Clients :
        /\ app_pc = "asleep" /\ sleeping
        /\ rx_pc = "wake" /\ rx_child = c /\ c \notin Returned
        ~> app_pc = "init" \/ clash
=============================================================================
