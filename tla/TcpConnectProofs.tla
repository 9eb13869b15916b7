--------------------------- MODULE TcpConnectProofs ---------------------------
(***************************************************************************)
(* Proofs about TcpConnect, for every modulus, window and retry limit.     *)
(***************************************************************************)
EXTENDS TcpConnect, TLAPS

(* The peer knows our initial sequence number.                             *)
Heard == peer \in {"SYN_RCVD", "ESTABLISHED", "RESET"}

(* Before the SYN is sent nothing of the attempt exists.                   *)
NotStarted ==
    app_pc = "idle" =>
        /\ state = "CLOSE" /\ ~syn_queued /\ to_peer = {} /\ ~Heard
        /\ rto_pc = "idle" /\ retransmit = "null" /\ list = "none"
        /\ \A s \in from_peer : s.syn /\ ~s.ack

(* The SYN's number is counted once.                                       *)
Counted ==
    /\ app_pc = "sent" => snd_nxt = isn
    /\ app_pc \notin {"idle", "sent"} => snd_nxt = Inc(isn)
    /\ state = "SYN_SENT" => snd_una = isn

(* What our segments say: a SYN carries isn, or comes too late to be heard *)
(* by the peer; an acknowledgement is of the peer's SYN.                   *)
SentByUs ==
    /\ \A s \in to_peer : s.syn /\ ~s.ack => s.seq = isn \/ Heard
    /\ \A s \in to_peer : s.ack => /\ rcv_nxt = Inc(peer_isn)
                                   /\ peer # "CLOSED"
    /\ syn_queued => state # "CLOSE" /\ (snd_una = isn \/ Heard)
    /\ retransmit # "null" => syn_queued
    /\ state \in {"SYN_RECEIVED", "ESTABLISHED"} =>
           rcv_nxt = Inc(peer_isn) /\ peer # "CLOSED"

(* What the peer's segments say.                                           *)
SentByPeer ==
    /\ Heard => peer_irs = isn
    /\ peer = "ESTABLISHED" => rcv_nxt = Inc(peer_isn)
    /\ \A s \in from_peer : s.syn => s.seq = peer_isn /\ peer # "CLOSED"
    /\ \A s \in from_peer : s.ack => s.ack_seq = Inc(isn)
    /\ \A s \in from_peer : s.ack => Heard \/ peer = "CLOSED"

Established ==
    state = "ESTABLISHED" => /\ app_pc \notin {"idle", "sent"}
                             /\ snd_una = snd_nxt /\ Heard

(* tcp_connect_rto resends only below the limit.                           *)
BelowLimit == rto_pc = "resend" => backoff <= Retries

TypeInv == TypeOK /\ BelowLimit

ConnInv == /\ TypeInv /\ NotStarted /\ Counted /\ SentByUs /\ SentByPeer
           /\ Established

-----------------------------------------------------------------------------
LEMMA IncType ==
    ASSUME NEW n \in SeqSpace
    PROVE  Inc(n) \in SeqSpace
BY ConnectAssumption DEF Inc, SeqSpace

LEMMA SegmentTypes ==
    ASSUME NEW m \in SeqSpace, NEW n \in SeqSpace
    PROVE  /\ Syn(m) \in Segment /\ SynAck(m, n) \in Segment
           /\ Ack(m, n) \in Segment /\ Rst(m) \in Segment
           /\ RstAck(n) \in Segment
<1>1. 0 \in SeqSpace
  BY ConnectAssumption DEF SeqSpace
<1> QED BY <1>1 DEF Syn, SynAck, Ack, Rst, RstAck, Segment

LEMMA TypeStep ==
    ASSUME TypeInv, [Next]_vars
    PROVE  TypeInv'
<1> USE ConnectAssumption
<1>0. 0 \in SeqSpace
  BY DEF SeqSpace
<1>1. ASSUME NEW i \in ISNs, tcp_begin_connect(i) PROVE TypeInv'
  BY <1>0, <1>1, SegmentTypes
  DEF TypeInv, TypeOK, BelowLimit, tcp_begin_connect, Handler, peerVars
<1>2. CASE App
  BY <1>2, IncType
  DEF TypeInv, TypeOK, BelowLimit, App, CountSyn, wait_sleep, LeaveConnecting,
      EnterEstablished, tcbVars, rtoVars, peerVars
<1>3. ASSUME tcp_in PROVE TypeInv'
  <2>1. PICK s \in from_peer : tcp_process(s)
    BY <1>3 DEF tcp_in
  <2>2. s \in Segment /\ s.seq \in SeqSpace
    BY <2>1 DEF TypeInv, TypeOK, Segment
  <2>3. UNCHANGED <<backoff, rto_pc, freed, list, peerVars>>
    BY <1>3 DEF tcp_in
  <2>4. CASE tcp_closed(s)
    BY <2>3, <2>4, SegmentTypes
    DEF TypeInv, TypeOK, BelowLimit, tcp_closed, tcp_send_reset, Send, peerVars
  <2>5. CASE tcp_synsent(s)
    <3>1. rcv_nxt' \in SeqSpace
      BY <2>2, <2>5, IncType DEF tcp_synsent, ReceiveNext
    <3>2. to_peer' \subseteq Segment
      BY <2>5, <3>1, SegmentTypes DEF tcp_synsent, Send, TypeInv, TypeOK
    <3>3. /\ snd_una' \in SeqSpace
          /\ state' \in {"SYN_RECEIVED", "ESTABLISHED"}
          /\ UNCHANGED <<isn, snd_nxt, crashed>>
      BY <2>5 DEF tcp_synsent, TypeInv, TypeOK
    <3>4. /\ syn_queued' \in BOOLEAN
          /\ retransmit' \in {"null", "connect_rto", "retransmission_timeout"}
      BY <2>5 DEF tcp_synsent, AckedSyn, TypeInv, TypeOK
    <3>5. app_pc' \in {"idle", "sent", "presleep", "asleep", "woken",
                       "moving", "done"}
      BY <2>5 DEF tcp_synsent, wait_wakeup, TypeInv, TypeOK
    <3> QED BY <2>3, <3>1, <3>2, <3>3, <3>4, <3>5
            DEF TypeInv, TypeOK, BelowLimit, peerVars
  <2>6. CASE AckAgain(s)
    BY <2>3, <2>6, SegmentTypes
    DEF TypeInv, TypeOK, BelowLimit, AckAgain, Send, tcbVars, peerVars
  <2>7. CASE SynRecvAck(s)
    <3>1. crashed' \in BOOLEAN
      BY <2>7 DEF SynRecvAck, TypeInv, TypeOK
    <3>2. /\ snd_una' \in SeqSpace /\ to_peer' \subseteq Segment
          /\ UNCHANGED <<state, isn, snd_nxt, rcv_nxt, syn_queued, retransmit,
                         app_pc>>
      BY <2>7, SegmentTypes
      DEF SynRecvAck, tcp_send_reset, Send, TypeInv, TypeOK
    <3> QED BY <2>3, <3>1, <3>2 DEF TypeInv, TypeOK, BelowLimit, peerVars
  <2> QED BY <2>1, <2>4, <2>5, <2>6, <2>7 DEF tcp_process
<1>4. CASE FireConnectRto
  BY <1>4 DEF TypeInv, TypeOK, BelowLimit, FireConnectRto, tcbVars, peerVars
<1>5. CASE RtoCheck
  <2>1. /\ rto_pc' \in {"idle", "free", "resend"}
        /\ rto_pc' = "resend" => backoff <= Retries
    BY <1>5 DEF RtoCheck, TypeInv, TypeOK
  <2> QED BY <1>5, <2>1
          DEF TypeInv, TypeOK, BelowLimit, RtoCheck, tcbVars, peerVars
<1>6. CASE tcp_free_sock
  BY <1>6 DEF TypeInv, TypeOK, BelowLimit, tcp_free_sock, tcbVars, peerVars
<1>7. CASE RtoResend
  BY <1>7, SegmentTypes
  DEF TypeInv, TypeOK, BelowLimit, RtoResend, CountBackoff, RtoReset, Send,
      tcbVars, peerVars
<1>8. CASE tcp_retransmission_timeout
  BY <1>8, SegmentTypes
  DEF TypeInv, TypeOK, BelowLimit, tcp_retransmission_timeout, Send, tcbVars,
      rtoVars, peerVars
<1>9. ASSUME Peer PROVE TypeInv'
  <2>1. /\ peer_irs' \in SeqSpace /\ from_peer' \subseteq Segment
        /\ peer' \in {"LISTEN", "SYN_SENT", "CLOSED", "SYN_RCVD",
                      "ESTABLISHED", "RESET"}
    <3>1. CASE PeerOpens
      BY <3>1, SegmentTypes DEF PeerOpens, PeerSays, TypeInv, TypeOK
    <3>2. ASSUME NEW s \in to_peer, PeerRefuses(s) \/ PeerHearsSyn(s)
                                    \/ PeerHearsAck(s) \/ PeerHearsRst(s)
          PROVE  /\ peer_irs' \in SeqSpace /\ from_peer' \subseteq Segment
                 /\ peer' \in {"LISTEN", "SYN_SENT", "CLOSED", "SYN_RCVD",
                               "ESTABLISHED", "RESET"}
      <4>1. s.seq \in SeqSpace
        BY DEF TypeInv, TypeOK, Segment
      <4>2. Inc(s.seq) \in SeqSpace /\ Inc(peer_irs) \in SeqSpace
            /\ Inc(peer_isn) \in SeqSpace
        BY <4>1, IncType DEF TypeInv, TypeOK
      <4>3. CASE PeerRefuses(s)
        BY <4>2, <4>3, SegmentTypes DEF PeerRefuses, PeerSays, TypeInv, TypeOK
      <4>4. CASE PeerHearsSyn(s)
        BY <4>1, <4>2, <4>4, SegmentTypes
        DEF PeerHearsSyn, PeerSays, TypeInv, TypeOK
      <4>5. CASE PeerHearsAck(s)
        BY <4>2, <4>5, SegmentTypes DEF PeerHearsAck, PeerSays, TypeInv, TypeOK
      <4>6. CASE PeerHearsRst(s)
        BY <4>6 DEF PeerHearsRst, TypeInv, TypeOK
      <4> QED BY <3>2, <4>3, <4>4, <4>5, <4>6
    <3> QED BY <1>9, <3>1, <3>2 DEF Peer
  <2> QED BY <1>9, <2>1
          DEF Peer, TypeInv, TypeOK, BelowLimit, tcbVars, rtoVars
<1>10. CASE UNCHANGED vars
  BY <1>10 DEF TypeInv, TypeOK, BelowLimit, vars, tcbVars, rtoVars, peerVars
<1> QED
  BY <1>1, <1>2, <1>3, <1>4, <1>5, <1>6, <1>7, <1>8, <1>9, <1>10
  DEF Next, Timer

LEMMA TypeInit == Init => TypeInv
<1>1. 0 \in SeqSpace
  BY ConnectAssumption DEF SeqSpace
<1>2. ASSUME Init
      PROVE  /\ syn_queued \in BOOLEAN /\ freed \in BOOLEAN
             /\ crashed \in BOOLEAN
  BY <1>2 DEF Init
<1>3. ASSUME Init
      PROVE  /\ backoff \in 0..(Retries + 1)
             /\ peer_isn \in SeqSpace
             /\ peer \in {"LISTEN", "SYN_SENT", "CLOSED", "SYN_RCVD",
                          "ESTABLISHED", "RESET"}
  BY <1>3, ConnectAssumption DEF Init
<1> QED BY <1>1, <1>2, <1>3 DEF Init, TypeInv, TypeOK, BelowLimit

(* Every state of a connection attempt is well typed; in particular the    *)
(* retries of tcp_connect_rto are bounded.                                 *)
THEOREM ConnectTypeCorrect == Spec => []TypeOK
<1>1. TypeInv => TypeOK
  BY DEF TypeInv
<1>2. TypeInv /\ [Next]_vars => TypeInv'
  BY TypeStep
<1> QED BY <1>1, <1>2, TypeInit, PTL DEF Spec

-----------------------------------------------------------------------------
(* The flags of the segments, as far as the invariants look at them.       *)
LEMMA SegmentFlags ==
    ASSUME NEW m, NEW n
    PROVE  /\ Syn(m).syn /\ ~Syn(m).ack /\ Syn(m).seq = m
           /\ SynAck(m, n).syn /\ SynAck(m, n).ack
           /\ SynAck(m, n).seq = m /\ SynAck(m, n).ack_seq = n
           /\ ~Ack(m, n).syn /\ Ack(m, n).ack /\ Ack(m, n).ack_seq = n
           /\ ~Rst(m).syn /\ ~Rst(m).ack
           /\ ~RstAck(n).syn /\ RstAck(n).ack /\ RstAck(n).ack_seq = n
BY DEF Syn, SynAck, Ack, Rst, RstAck

Handshake == NotStarted /\ Counted /\ SentByUs /\ SentByPeer /\ Established

(* The connecting thread.                                                  *)
LEMMA AppHandshake ==
    ASSUME ConnInv, App \/ \E i \in ISNs : tcp_begin_connect(i)
    PROVE  Handshake'
<1>1. ASSUME NEW i \in ISNs, tcp_begin_connect(i) PROVE Handshake'
  <2>1. /\ to_peer' = {Syn(i)} /\ ~Heard /\ ~Heard' /\ state' = "SYN_SENT"
        /\ app_pc' = "sent" /\ snd_nxt' = i /\ isn' = i /\ snd_una' = i
        /\ syn_queued'
        /\ UNCHANGED peerVars
        /\ \A s \in from_peer : s.syn /\ ~s.ack
    BY <1>1 DEF ConnInv, NotStarted, tcp_begin_connect, Heard, peerVars
  <2>2. NotStarted' /\ Counted' /\ Established'
    BY <2>1 DEF NotStarted, Counted, Established
  <2>3. SentByUs'
    BY <2>1, SegmentFlags DEF SentByUs
  <2>4. SentByPeer'
    BY <2>1 DEF ConnInv, SentByPeer, Heard, peerVars
  <2> QED BY <2>2, <2>3, <2>4 DEF Handshake
<1>2. CASE CountSyn
  BY <1>2 DEF ConnInv, Handshake, NotStarted, Counted, SentByUs, SentByPeer,
              Established, Heard, CountSyn, rtoVars, peerVars
<1>3. CASE wait_sleep \/ LeaveConnecting \/ EnterEstablished
  BY <1>3 DEF ConnInv, Handshake, NotStarted, Counted, SentByUs, SentByPeer,
              Established, Heard, wait_sleep, LeaveConnecting,
              EnterEstablished, tcbVars, rtoVars, peerVars
<1> QED BY <1>1, <1>2, <1>3 DEF App

(* The receive thread.                                                     *)
LEMMA RxHandshake ==
    ASSUME ConnInv, tcp_in
    PROVE  Handshake'
<1>1. PICK s \in from_peer : tcp_process(s)
  BY DEF tcp_in
<1>2. /\ UNCHANGED <<rto_pc, list, peer, peer_isn, peer_irs, from_peer>>
      /\ Heard' = Heard /\ app_pc # "idle"
  BY DEF tcp_in, tcp_lookup_sock, peerVars, Heard, ConnInv, NotStarted
<1>3. /\ s.syn => s.seq = peer_isn /\ peer # "CLOSED"
      /\ s.ack => s.ack_seq = Inc(isn) /\ (Heard \/ peer = "CLOSED")
  BY DEF ConnInv, SentByPeer
<1>4. CASE tcp_closed(s)
  BY <1>2, <1>4, SegmentFlags
  DEF ConnInv, Handshake, NotStarted, Counted, SentByUs, SentByPeer,
      Established, tcp_closed, tcp_send_reset, Send
<1>5. CASE tcp_synsent(s)
  <2>1. /\ state = "SYN_SENT" /\ s.syn /\ rcv_nxt' = Inc(peer_isn)
        /\ UNCHANGED <<isn, snd_nxt>> /\ peer # "CLOSED"
        /\ state' # "SYN_SENT"
        /\ app_pc' # "idle" /\ (app_pc' = "sent" <=> app_pc = "sent")
        /\ (app_pc' \in {"idle", "sent"} <=> app_pc \in {"idle", "sent"})
        /\ syn_queued' => syn_queued
        /\ retransmit' # "null" => retransmit # "null" /\ syn_queued' = syn_queued
    BY <1>2, <1>3, <1>5
    DEF tcp_synsent, ReceiveNext, wait_wakeup, AckedSyn
  <2>2. SentByPeer' /\ Counted' /\ NotStarted'
    BY <1>2, <2>1 DEF ConnInv, SentByPeer, Counted, NotStarted
  <2>3. CASE s.ack /\ s.ack_seq > isn
    <3>1. /\ state' = "ESTABLISHED" /\ snd_una' = snd_nxt
          /\ to_peer' = to_peer \cup {Ack(snd_nxt, rcv_nxt')}
          /\ ~syn_queued' /\ Heard
      BY <1>3, <1>5, <2>1, <2>3 DEF tcp_synsent, Send, AckedSyn
    <3>2. app_pc # "sent"
      <4>1. isn \in Int /\ snd_nxt \in Int /\ s.ack_seq \in Int
        BY ConnectAssumption
        DEF ConnInv, TypeInv, TypeOK, SeqSpace, Segment
      <4>2. ~(s.ack_seq > snd_nxt)
        BY <1>5, <2>3 DEF tcp_synsent, Unacceptable
      <4>3. snd_nxt # isn
        BY <2>3, <4>1, <4>2
      <4> QED BY <4>3 DEF ConnInv, Counted
    <3>3. SentByUs'
      BY <1>2, <2>1, <3>1, SegmentFlags DEF ConnInv, SentByUs
    <3>4. Established'
      BY <1>2, <2>1, <3>1, <3>2 DEF Established
    <3> QED BY <2>2, <3>3, <3>4 DEF Handshake
  <2>4. CASE ~(s.ack /\ s.ack_seq > isn)
    <3>1. /\ state' = "SYN_RECEIVED" /\ snd_una' = isn
          /\ to_peer' = to_peer \cup {SynAck(snd_nxt, rcv_nxt')}
      BY <1>5, <2>4 DEF tcp_synsent, Send
    <3>2. SentByUs'
      BY <1>2, <2>1, <3>1, SegmentFlags DEF ConnInv, SentByUs
    <3>3. Established'
      BY <3>1 DEF Established
    <3> QED BY <2>2, <3>2, <3>3 DEF Handshake
  <2> QED BY <2>3, <2>4
<1>6. CASE state \in {"SYN_RECEIVED", "ESTABLISHED"} /\ AckAgain(s)
  BY <1>2, <1>6, SegmentFlags
  DEF ConnInv, Handshake, NotStarted, Counted, SentByUs, SentByPeer,
      Established, AckAgain, Send, tcbVars
<1>7. CASE SynRecvAck(s)
  <2>1. s.ack /\ state = "SYN_RECEIVED" /\ Heard
    BY <1>3, <1>7 DEF SynRecvAck, ConnInv, SentByUs
  <2>2. /\ UNCHANGED <<state, isn, snd_nxt, rcv_nxt, syn_queued, retransmit,
                       app_pc>>
        /\ to_peer' = to_peer \/ to_peer' = to_peer \cup {Rst(snd_nxt)}
    BY <1>7 DEF SynRecvAck, tcp_send_reset, Send
  <2> QED
    BY <1>2, <2>1, <2>2, SegmentFlags
    DEF ConnInv, Handshake, NotStarted, Counted, SentByUs, SentByPeer,
        Established
<1> QED BY <1>1, <1>4, <1>5, <1>6, <1>7 DEF tcp_process

(* The timer thread.                                                       *)
LEMMA TimerHandshake ==
    ASSUME ConnInv, Timer
    PROVE  Handshake'
<1>1. UNCHANGED <<tcbVars, list, app_pc, peerVars>> /\ Heard' = Heard
  BY DEF Timer, FireConnectRto, RtoCheck, tcp_free_sock, RtoResend,
         tcp_retransmission_timeout, peerVars, Heard
<1>2. app_pc # "idle"
  BY DEF ConnInv, NotStarted, Timer, FireConnectRto, RtoCheck, tcp_free_sock,
         RtoResend, tcp_retransmission_timeout
<1>3. /\ state' = state \/ (state' = "CLOSE" /\ ~syn_queued')
      /\ syn_queued' => syn_queued
      /\ retransmit' # "null" => syn_queued'
      /\ \/ to_peer' = to_peer
         \/ /\ to_peer' = to_peer \cup {Syn(snd_una)}
            /\ snd_una = isn \/ Heard
  BY DEF Timer, FireConnectRto, RtoCheck, tcp_free_sock, RtoResend, Send,
         tcp_retransmission_timeout, RtoReset, rtoVars, ConnInv, SentByUs
<1> QED
  BY <1>1, <1>2, <1>3, SegmentFlags
  DEF ConnInv, Handshake, NotStarted, Counted, SentByUs, SentByPeer,
      Established, tcbVars, peerVars

(* The peer.                                                               *)
LEMMA PeerHandshake ==
    ASSUME ConnInv, Peer
    PROVE  Handshake'
<1>1. UNCHANGED <<state, isn, snd_una, snd_nxt, rcv_nxt, syn_queued,
                  retransmit, rto_pc, list, app_pc, peer_isn, to_peer>>
  BY DEF Peer, tcbVars, rtoVars
<1>2. Counted'
  BY <1>1 DEF ConnInv, Counted
<1>3. CASE PeerOpens
  BY <1>1, <1>2, <1>3, SegmentFlags
  DEF ConnInv, Handshake, NotStarted, SentByUs, SentByPeer, Established,
      Heard, PeerOpens, PeerSays
<1>4. ASSUME NEW s \in to_peer, PeerRefuses(s) PROVE Handshake'
  <2>1. /\ s.seq = isn /\ app_pc # "idle" /\ UNCHANGED <<peer, peer_irs>>
        /\ peer = "CLOSED" /\ ~Heard /\ Heard' = Heard
        /\ from_peer' = from_peer \cup {RstAck(Inc(s.seq))}
    BY <1>4 DEF PeerRefuses, PeerSays, ConnInv, SentByUs, NotStarted, Heard
  <2> QED
    BY <1>1, <1>2, <2>1, SegmentFlags
    DEF ConnInv, Handshake, NotStarted, SentByUs, SentByPeer, Established
<1>5. ASSUME NEW s \in to_peer, PeerHearsSyn(s) PROVE Handshake'
  <2>1. /\ s.seq = isn /\ app_pc # "idle" /\ ~Heard /\ Heard'
        /\ peer \in {"LISTEN", "SYN_SENT"} /\ peer' = "SYN_RCVD"
        /\ peer_irs' = isn
        /\ from_peer' = from_peer \cup {SynAck(peer_isn, Inc(isn))}
    BY <1>5 DEF PeerHearsSyn, PeerSays, ConnInv, SentByUs, NotStarted, Heard
  <2> QED
    BY <1>1, <1>2, <2>1, SegmentFlags
    DEF ConnInv, Handshake, NotStarted, SentByUs, SentByPeer, Established
<1>6. ASSUME NEW s \in to_peer, PeerHearsAck(s) PROVE Handshake'
  <2>1. /\ app_pc # "idle" /\ Heard /\ Heard' /\ peer' = "ESTABLISHED"
        /\ peer_irs = isn /\ peer_irs' = isn /\ peer # "CLOSED"
        /\ rcv_nxt = Inc(peer_isn)
        /\ from_peer' = from_peer \cup {Ack(Inc(peer_isn), Inc(isn))}
    BY <1>6
    DEF PeerHearsAck, PeerSays, ConnInv, SentByUs, SentByPeer, NotStarted,
        Heard
  <2> QED
    BY <1>1, <1>2, <2>1, SegmentFlags
    DEF ConnInv, Handshake, NotStarted, SentByUs, SentByPeer, Established
<1>7. ASSUME NEW s \in to_peer, PeerHearsRst(s) PROVE Handshake'
  <2>1. /\ Heard /\ Heard' /\ peer # "CLOSED" /\ peer' = "RESET"
        /\ UNCHANGED <<peer_irs, from_peer>>
    BY <1>7 DEF PeerHearsRst, Heard
  <2> QED
    BY <1>1, <1>2, <2>1
    DEF ConnInv, Handshake, NotStarted, SentByUs, SentByPeer, Established
<1> QED BY <1>3, <1>4, <1>5, <1>6, <1>7 DEF Peer

LEMMA ConnInvariant == Spec => []ConnInv
<1>1. Init => ConnInv
  <2>1. ASSUME Init PROVE Handshake
    BY <2>1, ConnectAssumption
    DEF Init, Handshake, NotStarted, Counted, SentByUs, SentByPeer,
        Established, Heard
  <2> QED BY <2>1, TypeInit DEF ConnInv, Handshake
<1>2. ConnInv /\ [Next]_vars => ConnInv'
  <2>1. ASSUME ConnInv, UNCHANGED vars PROVE Handshake'
    BY <2>1
    DEF ConnInv, Handshake, NotStarted, Counted, SentByUs, SentByPeer,
        Established, Heard, vars, tcbVars, rtoVars, peerVars
  <2>2. ASSUME ConnInv, [Next]_vars PROVE Handshake'
    BY <2>1, <2>2, AppHandshake, RxHandshake, TimerHandshake, PeerHandshake
    DEF Next
  <2>3. ASSUME ConnInv, [Next]_vars PROVE TypeInv'
    BY <2>3, TypeStep DEF ConnInv
  <2> QED BY <2>2, <2>3 DEF ConnInv, Handshake
<1> QED BY <1>1, <1>2, PTL DEF Spec

(* When either end takes the connection for established, both agree on     *)
(* both initial sequence numbers (tcp_synsent, tcp_process), for every     *)
(* isn, also the largest.                                                  *)
THEOREM HandshakeAgreement == Spec => []HandshakeAgrees
<1>1. ConnInv => HandshakeAgrees
  BY DEF ConnInv, Counted, SentByUs, SentByPeer, Established, Heard,
         HandshakeAgrees
<1> QED BY <1>1, ConnInvariant, PTL

(* While the SYN waits for its answer, tcp_connect_rto will look after it. *)
THEOREM SynTimerHolds == Spec => []SynHasTimer
<1>1. Init => SynHasTimer
  BY DEF Init, SynHasTimer
<1>2. SynHasTimer /\ TypeOK /\ [Next]_vars => SynHasTimer'
  <2> SUFFICES ASSUME SynHasTimer, TypeOK, [Next]_vars PROVE SynHasTimer'
    OBVIOUS
  <2>1. ASSUME NEW i \in ISNs, tcp_begin_connect(i) PROVE SynHasTimer'
    BY <2>1 DEF tcp_begin_connect, Handler, SynHasTimer
  <2>2. ASSUME UNCHANGED <<state, syn_queued, retransmit, rto_pc>>
        PROVE  SynHasTimer'
    BY <2>2 DEF SynHasTimer
  <2>3. CASE App
    BY <2>2, <2>3 DEF App, CountSyn, wait_sleep, LeaveConnecting,
                      EnterEstablished, rtoVars
  <2>4. CASE tcp_in
    <3>1. PICK s \in from_peer : tcp_process(s)
      BY <2>4 DEF tcp_in
    <3>2. CASE tcp_synsent(s)
      BY <3>2 DEF tcp_synsent, SynHasTimer
    <3>3. CASE tcp_closed(s) \/ AckAgain(s) \/ SynRecvAck(s)
      BY <2>2, <2>4, <3>3 DEF tcp_in, tcp_closed, AckAgain, SynRecvAck
    <3> QED BY <3>1, <3>2, <3>3 DEF tcp_process
  <2>5. CASE Timer
    <3>1. CASE FireConnectRto
      BY <3>1 DEF FireConnectRto, SynHasTimer
    <3>2. CASE RtoCheck
      BY <3>2 DEF RtoCheck, SynHasTimer
    <3>3. CASE tcp_free_sock
      BY <3>3 DEF tcp_free_sock, SynHasTimer
    <3>4. CASE RtoResend
      BY <3>4 DEF RtoResend, RtoReset, SynHasTimer
    <3>5. CASE tcp_retransmission_timeout
      BY <2>2, <3>5 DEF tcp_retransmission_timeout, rtoVars
    <3> QED BY <2>5, <3>1, <3>2, <3>3, <3>4, <3>5 DEF Timer
  <2>6. CASE Peer
    BY <2>2, <2>6 DEF Peer, rtoVars
  <2>7. CASE UNCHANGED vars
    BY <2>2, <2>7 DEF vars, rtoVars
  <2> QED BY <2>1, <2>3, <2>4, <2>5, <2>6, <2>7 DEF Next
<1> QED BY <1>1, <1>2, ConnectTypeCorrect, PTL DEF Spec

(* Unless isn + 1 wraps to 0, no answer of the peer to a counted SYN is    *)
(* turned away by tcp_synsent.                                             *)
THEOREM AnswersAccepted == Spec => []AnswerAcceptable
<1>1. ConnInv => AnswerAcceptable
  <2> SUFFICES ASSUME ConnInv, isn + 1 < SeqMod, state = "SYN_SENT",
                      app_pc # "sent", NEW s \in from_peer, s.ack
               PROVE  /\ ~(s.ack_seq < isn) /\ ~(s.ack_seq > snd_nxt)
                      /\ ~(s.ack_seq < snd_una)
    BY DEF AnswerAcceptable, Unacceptable
  <2>1. /\ s.ack_seq = Inc(isn) /\ snd_nxt = Inc(isn) /\ snd_una = isn
    BY DEF ConnInv, SentByPeer, Counted, NotStarted
  <2>2. isn \in Int
    BY ConnectAssumption DEF ConnInv, TypeInv, TypeOK, SeqSpace
  <2>3. Inc(isn) = isn + 1
    BY <2>2 DEF Inc
  <2> QED BY <2>1, <2>2, <2>3
<1> QED BY <1>1, ConnInvariant, PTL

(* Once the peer's SYN is in, no copy of it or of its SYN-ACK passes the   *)
(* filter of tcp_process, also when the sequence numbers wrap.             *)
THEOREM RepeatedSynDropped == Spec => []SynFiltered
<1>1. ConnInv => SynFiltered
  <2> SUFFICES ASSUME ConnInv, state \in {"SYN_RECEIVED", "ESTABLISHED"},
                      NEW s \in from_peer, s.syn
               PROVE  ~tcp_packet_filter(s)
    BY DEF SynFiltered
  <2>1. s.seq = peer_isn /\ rcv_nxt = Inc(peer_isn)
    BY DEF ConnInv, SentByPeer, SentByUs
  <2>2. /\ peer_isn \in Int /\ SeqMod \in Int /\ RcvWnd \in Int
        /\ peer_isn <= SeqMod - 1 /\ 0 <= RcvWnd /\ RcvWnd <= SeqMod - 2
    BY ConnectAssumption DEF ConnInv, TypeInv, TypeOK, SeqSpace
  <2>3. CASE peer_isn + 1 # SeqMod
    <3>1. rcv_nxt = peer_isn + 1
      BY <2>1, <2>3 DEF Inc
    <3> QED BY <2>1, <2>2, <3>1 DEF tcp_packet_filter
  <2>4. CASE peer_isn + 1 = SeqMod
    <3>1. rcv_nxt = 0
      BY <2>1, <2>4 DEF Inc
    <3>2. (rcv_nxt + RcvWnd) % SeqMod = RcvWnd
      BY <2>2, <3>1
    <3> QED BY <2>1, <2>2, <2>4, <3>2 DEF tcp_packet_filter
  <2> QED BY <2>3, <2>4
<1> QED BY <1>1, ConnInvariant, PTL
=============================================================================
