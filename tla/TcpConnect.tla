------------------------------ MODULE TcpConnect ------------------------------
(***************************************************************************)
(* The active opening of a ToyIP connection: tcp_v4_connect and            *)
(* tcp_begin_connect in the application's IPC thread, tcp_synsent and the  *)
(* head of tcp_process in the receive thread, tcp_connect_rto in the timer *)
(* thread.                                                                 *)
(*                                                                         *)
(* Nothing but the retransmission queue is locked: the SYN takes its       *)
(* sequence number after it has been sent, the thread goes to sleep some   *)
(* time after that, and tcp_connect_rto looks at the state before it acts  *)
(* on it.  Sequence numbers are unsigned, taken modulo SeqMod, and         *)
(* compared with < and > as they are.                                      *)
(*                                                                         *)
(* The peer (external) listens, refuses, or opens at the same time.  What  *)
(* has been sent may be received at any time, more than once or never.     *)
(* Segments that are just dropped have no step, and neither has a SYN that *)
(* passes the filter of tcp_process: SynFiltered says there is none.       *)
(***************************************************************************)
EXTENDS Integers, FiniteSets

CONSTANTS
    SeqMod,      \* sequence numbers are taken modulo this: 2^32
    ISNs,        \* values tcp_generate_isn may return
    PeerISNs,    \* initial sequence numbers of the peer
    PeerStarts,  \* what the peer may be doing at first
    RcvWnd,      \* tcb->rcv_wnd: 44477 in tcp_select_initial_window
    Retries      \* TCP_CONN_RETRIES

SeqSpace == 0..(SeqMod - 1)

ASSUME ConnectAssumption ==
    /\ SeqMod \in Nat /\ SeqMod > 1
    /\ ISNs \subseteq SeqSpace /\ PeerISNs \subseteq SeqSpace
    /\ PeerStarts \subseteq {"LISTEN", "SYN_SENT", "CLOSED"}
    /\ RcvWnd \in 0..(SeqMod - 2) /\ Retries \in Nat

VARIABLES
    state,       \* sk->state
    isn, snd_una, snd_nxt, rcv_nxt,     \* the tcb
    syn_queued,  \* the SYN is in write_queue; its end_seq is isn
    retransmit,  \* tsk->retransmit: "null" or the handler it will call
    backoff,     \* tsk->backoff
    rto_pc,      \* tcp_connect_rto: "idle", "check", "free" or "resend"
    freed,       \* tcp_free_sock was called
    list,        \* where lookup finds the sock: "none", "cl" or "es"
    app_pc,      \* tcp_v4_connect: "idle", "sent", "presleep", "asleep",
                 \* "woken", "moving" or "done"
    crashed,     \* a NULL pointer was dereferenced
    peer,        \* "LISTEN", "SYN_SENT", "CLOSED", "SYN_RCVD",
                 \* "ESTABLISHED" or "RESET"
    peer_isn, peer_irs,  \* its own initial number and ours, as it knows it
    to_peer,     \* segments sent to the peer so far
    from_peer    \* segments sent by the peer so far

tcbVars  == <<isn, snd_una, snd_nxt, rcv_nxt>>
rtoVars  == <<retransmit, backoff, rto_pc, freed>>
peerVars == <<peer, peer_isn, peer_irs, from_peer>>
vars == <<state, tcbVars, syn_queued, rtoVars, list, app_pc, crashed,
          peerVars, to_peer>>

Inc(n) == IF n + 1 = SeqMod THEN 0 ELSE n + 1

Segment == [syn : BOOLEAN, ack : BOOLEAN, rst : BOOLEAN,
            seq : SeqSpace, ack_seq : SeqSpace]

Syn(seq)         == [syn |-> TRUE, ack |-> FALSE, rst |-> FALSE,
                     seq |-> seq, ack_seq |-> 0]
SynAck(seq, ack) == [syn |-> TRUE, ack |-> TRUE, rst |-> FALSE,
                     seq |-> seq, ack_seq |-> ack]
Ack(seq, ack)    == [syn |-> FALSE, ack |-> TRUE, rst |-> FALSE,
                     seq |-> seq, ack_seq |-> ack]
Rst(seq)         == [syn |-> FALSE, ack |-> FALSE, rst |-> TRUE,
                     seq |-> seq, ack_seq |-> 0]
RstAck(ack)      == [syn |-> FALSE, ack |-> TRUE, rst |-> TRUE,
                     seq |-> 0, ack_seq |-> ack]

Init ==
    /\ state = "CLOSE"
    /\ isn = 0 /\ snd_una = 0 /\ snd_nxt = 0 /\ rcv_nxt = 0
    /\ syn_queued = FALSE
    /\ retransmit = "null" /\ backoff = 0 /\ rto_pc = "idle"
    /\ freed = FALSE
    /\ list = "none" /\ app_pc = "idle"
    /\ crashed = FALSE
    /\ peer \in PeerStarts /\ peer_isn \in PeerISNs /\ peer_irs = 0
    /\ to_peer = {} /\ from_peer = {}

-----------------------------------------------------------------------------
(* The application's thread.                                               *)

(* tcp_reset_retransmission_timer picks the handler by the state.          *)
Handler == IF state' = "SYN_SENT" THEN "connect_rto"
           ELSE "retransmission_timeout"

(* tcp_v4_connect up to the SYN on the wire, with i for the random isn.    *)
tcp_begin_connect(i) ==
    /\ app_pc = "idle"
    /\ list' = "cl"
    /\ isn' = i /\ snd_una' = i /\ snd_nxt' = i /\ rcv_nxt' = 0
    /\ state' = "SYN_SENT"
    /\ retransmit' = Handler
    /\ syn_queued' = TRUE
    /\ to_peer' = to_peer \cup {Syn(i)}
    /\ app_pc' = "sent"
    /\ UNCHANGED <<backoff, rto_pc, freed, crashed, peerVars>>

(* The SYN takes a sequence number.                                        *)
SynNotCounted ==
    /\ app_pc = "sent"
    /\ app_pc' = "presleep"
    /\ UNCHANGED <<state, tcbVars, syn_queued, rtoVars, list, crashed,
                   peerVars, to_peer>>

CountSyn ==
    /\ app_pc = "sent"
    /\ snd_nxt' = Inc(snd_nxt)
    /\ app_pc' = "presleep"
    /\ UNCHANGED <<state, isn, snd_una, rcv_nxt, syn_queued, rtoVars, list,
                   crashed, peerVars, to_peer>>

wait_sleep ==
    /\ app_pc = "presleep"
    /\ app_pc' = "asleep"
    /\ UNCHANGED <<state, tcbVars, syn_queued, rtoVars, list, crashed,
                   peerVars, to_peer>>

(* The sock leaves one list before it enters the other.                    *)
LeaveConnecting ==
    /\ app_pc = "woken"
    /\ list' = "none"
    /\ app_pc' = "moving"
    /\ UNCHANGED <<state, tcbVars, syn_queued, rtoVars, crashed, peerVars,
                   to_peer>>

EnterEstablished ==
    /\ app_pc = "moving"
    /\ list' = "es"
    /\ app_pc' = "done"
    /\ UNCHANGED <<state, tcbVars, syn_queued, rtoVars, crashed, peerVars,
                   to_peer>>

App == CountSyn \/ wait_sleep \/ LeaveConnecting \/ EnterEstablished

-----------------------------------------------------------------------------
(* The receive thread.                                                     *)

Send(s) == to_peer' = to_peer \cup {s}

wait_wakeup == app_pc' = IF app_pc = "asleep" THEN "woken" ELSE app_pc

(* tcp_send_reset, also for the segments of a closed sock.                 *)
tcp_send_reset ==
    /\ snd_una' = snd_nxt
    /\ Send(Rst(snd_nxt))

tcp_closed(s) ==
    /\ state = "CLOSE" /\ ~s.rst
    /\ tcp_send_reset
    /\ UNCHANGED <<state, isn, snd_nxt, rcv_nxt, syn_queued, retransmit,
                   app_pc, crashed>>

Unacceptable(s) ==
    s.ack /\ \/ s.ack_seq < isn
             \/ s.ack_seq > snd_nxt
             \/ s.ack_seq < snd_una

(* What the SYN of the peer tells us.                                      *)
ReceivedAs(s) == rcv_nxt' = s.seq

ReceiveNext(s) == rcv_nxt' = Inc(s.seq)

(* The SYN, which takes no room in skb->dlen, is dropped from the queue by *)
(* any acknowledgement that was accepted.                                  *)
AckedSyn(s) ==
    IF s.ack THEN syn_queued' = FALSE /\ retransmit' = "null"
    ELSE UNCHANGED <<syn_queued, retransmit>>

tcp_synsent(s) ==
    /\ state = "SYN_SENT"
    /\ ~Unacceptable(s) /\ ~s.rst /\ s.syn
    /\ ReceiveNext(s)
    /\ AckedSyn(s)
    /\ IF s.ack /\ s.ack_seq > isn
       THEN /\ state' = "ESTABLISHED"
            /\ snd_una' = snd_nxt
            /\ Send(Ack(snd_nxt, rcv_nxt'))
            /\ wait_wakeup
       ELSE /\ state' = "SYN_RECEIVED"
            /\ snd_una' = isn
            /\ Send(SynAck(snd_nxt, rcv_nxt'))
            /\ UNCHANGED app_pc
    /\ UNCHANGED <<isn, snd_nxt, crashed>>

tcp_packet_filter(s) ==
    /\ s.seq >= rcv_nxt
    /\ s.seq <= (rcv_nxt + RcvWnd) % SeqMod

(* tcp_process in SYN_RECEIVED and ESTABLISHED.  tcp_synrecv_ack looks at  *)
(* the state of tsk->parent, and a sock that called connect has none.      *)
AckAgain(s) ==
    /\ ~tcp_packet_filter(s) /\ ~s.rst
    /\ Send(Ack(snd_nxt, rcv_nxt))
    /\ UNCHANGED <<state, tcbVars, syn_queued, retransmit, app_pc, crashed>>

SynRecvAck(s) ==
    /\ tcp_packet_filter(s) /\ ~s.syn /\ s.ack
    /\ state = "SYN_RECEIVED"
    /\ \/ /\ snd_una <= s.ack_seq /\ s.ack_seq <= snd_nxt
          /\ crashed' = TRUE
          /\ UNCHANGED <<snd_una, to_peer>>
       \/ /\ ~(snd_una <= s.ack_seq /\ s.ack_seq <= snd_nxt)
          /\ tcp_send_reset
          /\ UNCHANGED crashed
    /\ UNCHANGED <<state, isn, snd_nxt, rcv_nxt, syn_queued, retransmit,
                   app_pc>>

tcp_process(s) ==
    \/ tcp_closed(s)
    \/ tcp_synsent(s)
    \/ /\ state \in {"SYN_RECEIVED", "ESTABLISHED"}
       /\ AckAgain(s) \/ SynRecvAck(s)

(* A segment is dropped while the sock is in neither list.                 *)
tcp_lookup_sock == list \in {"cl", "es"}

tcp_in ==
    /\ tcp_lookup_sock
    /\ \E s \in from_peer : tcp_process(s)
    /\ UNCHANGED <<backoff, rto_pc, freed, list, peerVars>>

-----------------------------------------------------------------------------
(* The timer thread.                                                       *)

FireConnectRto ==
    /\ rto_pc = "idle" /\ retransmit = "connect_rto"
    /\ retransmit' = "null"
    /\ rto_pc' = "check"
    /\ UNCHANGED <<state, tcbVars, syn_queued, backoff, freed, list, app_pc,
                   crashed, peerVars, to_peer>>

(* tcp_connect_rto: a look at the state, and what follows from it.         *)
RtoCheck ==
    /\ rto_pc = "check"
    /\ rto_pc' = CASE state = "ESTABLISHED" -> "idle"
                   [] state # "ESTABLISHED" /\ backoff > Retries -> "free"
                   [] OTHER -> "resend"
    /\ UNCHANGED <<state, tcbVars, syn_queued, retransmit, backoff, freed,
                   list, app_pc, crashed, peerVars, to_peer>>

tcp_free_sock ==
    /\ rto_pc = "free"
    /\ state' = "CLOSE"
    /\ retransmit' = "null"
    /\ syn_queued' = FALSE
    /\ freed' = TRUE
    /\ rto_pc' = "idle"
    /\ UNCHANGED <<tcbVars, backoff, list, app_pc, crashed, peerVars,
                   to_peer>>

NoBackoff == UNCHANGED backoff

CountBackoff == backoff' = backoff + 1

RtoNotReset == retransmit' = "null"

RtoReset ==
    retransmit' = IF state = "SYN_SENT" THEN "connect_rto"
                  ELSE "retransmission_timeout"

RtoResend ==
    /\ rto_pc = "resend"
    /\ IF syn_queued
       THEN /\ Send(Syn(snd_una))
            /\ CountBackoff
            /\ RtoReset
       ELSE UNCHANGED <<to_peer, backoff, retransmit>>
    /\ rto_pc' = "idle"
    /\ UNCHANGED <<state, tcbVars, syn_queued, freed, list, app_pc, crashed,
                   peerVars>>

(* After a simultaneous open the SYN is retransmitted as if it were data.  *)
tcp_retransmission_timeout ==
    /\ rto_pc = "idle" /\ retransmit = "retransmission_timeout"
    /\ Send(Syn(snd_una))
    /\ UNCHANGED <<state, tcbVars, syn_queued, rtoVars, list, app_pc,
                   crashed, peerVars>>

Timer == FireConnectRto \/ RtoCheck \/ tcp_free_sock \/ RtoResend
             \/ tcp_retransmission_timeout

-----------------------------------------------------------------------------
(* The peer.                                                               *)

PeerSays(s) == from_peer' = from_peer \cup {s}

PeerRefuses(s) ==
    /\ peer = "CLOSED" /\ s.syn
    /\ PeerSays(RstAck(Inc(s.seq)))
    /\ UNCHANGED <<peer, peer_irs>>

PeerHearsSyn(s) ==
    /\ peer \in {"LISTEN", "SYN_SENT"} /\ s.syn /\ ~s.ack
    /\ peer' = "SYN_RCVD" /\ peer_irs' = s.seq
    /\ PeerSays(SynAck(peer_isn, Inc(s.seq)))

PeerHearsAck(s) ==
    /\ peer = "SYN_RCVD" /\ s.ack /\ ~s.syn /\ ~s.rst
    /\ s.seq = Inc(peer_irs) /\ s.ack_seq = Inc(peer_isn)
    /\ peer' = "ESTABLISHED"
    /\ PeerSays(Ack(Inc(peer_isn), Inc(peer_irs)))
    /\ UNCHANGED peer_irs

PeerHearsRst(s) ==
    /\ peer \in {"SYN_RCVD", "ESTABLISHED"} /\ s.rst
    /\ peer' = "RESET"
    /\ UNCHANGED <<peer_irs, from_peer>>

PeerOpens ==
    /\ peer = "SYN_SENT"
    /\ PeerSays(Syn(peer_isn))
    /\ UNCHANGED <<peer, peer_irs>>

Peer ==
    /\ \/ \E s \in to_peer : PeerRefuses(s) \/ PeerHearsSyn(s)
                                 \/ PeerHearsAck(s) \/ PeerHearsRst(s)
       \/ PeerOpens
    /\ UNCHANGED <<state, tcbVars, syn_queued, rtoVars, list, app_pc,
                   crashed, peer_isn, to_peer>>

-----------------------------------------------------------------------------

Next ==
    /\ ~crashed
    /\ \/ \E i \in ISNs : tcp_begin_connect(i)
       \/ App
       \/ tcp_in
       \/ Timer
       \/ Peer

Spec == Init /\ [][Next]_vars

(* Our own threads go on; the network and the peer owe us nothing.         *)
FairSpec == Spec /\ WF_vars(~crashed /\ App) /\ WF_vars(~crashed /\ Timer)

-----------------------------------------------------------------------------
(* Type invariant of the connection attempt.                               *)
TypeOK ==
    /\ state \in {"CLOSE", "SYN_SENT", "SYN_RECEIVED", "ESTABLISHED"}
    /\ isn \in SeqSpace /\ snd_una \in SeqSpace
    /\ snd_nxt \in SeqSpace /\ rcv_nxt \in SeqSpace
    /\ syn_queued \in BOOLEAN /\ freed \in BOOLEAN /\ crashed \in BOOLEAN
    /\ retransmit \in {"null", "connect_rto", "retransmission_timeout"}
    /\ backoff \in 0..(Retries + 1)
    /\ rto_pc \in {"idle", "check", "free", "resend"}
    /\ list \in {"none", "cl", "es"}
    /\ app_pc \in {"idle", "sent", "presleep", "asleep", "woken", "moving",
                   "done"}
    /\ peer \in {"LISTEN", "SYN_SENT", "CLOSED", "SYN_RCVD", "ESTABLISHED",
                 "RESET"}
    /\ peer_isn \in SeqSpace /\ peer_irs \in SeqSpace
    /\ to_peer \subseteq Segment /\ from_peer \subseteq Segment

(* Both ends agree on both initial sequence numbers when either of them    *)
(* takes the connection for established, although SYNs and SYN-ACKs are    *)
(* lost, late and repeated and sequence numbers wrap (tcp_synsent).        *)
HandshakeAgrees ==
    /\ state = "ESTABLISHED" =>
           /\ snd_nxt = Inc(isn) /\ snd_una = snd_nxt
           /\ rcv_nxt = Inc(peer_isn) /\ peer_irs = isn
    /\ peer = "ESTABLISHED" =>
           peer_irs = isn /\ rcv_nxt = Inc(peer_isn)

(* While the SYN waits for its answer it is queued and its timer is armed, *)
(* or tcp_connect_rto is on its way: the attempt never stalls.             *)
SynHasTimer ==
    state = "SYN_SENT" =>
        /\ syn_queued
        /\ retransmit = "connect_rto" \/ rto_pc # "idle"

(* Once the SYN is counted, tcp_synsent turns away no acknowledgement the  *)
(* peer can have sent ("impossible", tcp_input.c:158-159), unless our SYN  *)
(* has the very last sequence number: the answer to that one wraps to 0.   *)
AnswerAcceptable ==
    state = "SYN_SENT" /\ app_pc # "sent" /\ isn + 1 < SeqMod =>
        \A s \in from_peer : ~Unacceptable(s)

(* "Retransmitted SYNs have been dropped before" (tcp_input.c:279): once   *)
(* the SYN of the peer is in, no copy of it or of its SYN-ACK passes the   *)
(* filter, also when sequence numbers wrap.                                *)
SynFiltered ==
    state \in {"SYN_RECEIVED", "ESTABLISHED"} =>
        \A s \in from_peer : s.syn => ~tcp_packet_filter(s)

(* The attempt leaves SYN_SENT whatever the network and the peer do:       *)
(* answered, or given up after the retries of tcp_connect_rto.             *)
ConnectEnds == app_pc # "idle" ~> state # "SYN_SENT"

(* "Wait for the connection to be established" (tcp_sock.c:312): connect   *)
(* returns once it is.                                                     *)
EstablishedReturns == state = "ESTABLISHED" ~> app_pc = "done"
=============================================================================
