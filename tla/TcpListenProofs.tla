---------------------------- MODULE TcpListenProofs ----------------------------
(***************************************************************************)
(* Proofs about TcpListen, for every set of clients, sequence space and    *)
(* set of leftover segments: the types, the agreement of both ends, that   *)
(* no repeated SYN passes the filter, that the two queues of children stay *)
(* whole as long as no insertion overlaps a removal, and that the sock     *)
(* implements Backlog.                                                     *)
(***************************************************************************)
EXTENDS TcpListen, FiniteSetTheorems, WellFoundedInduction, TLAPS

TypeInv ==
    /\ TypeOK
    /\ rx_pc # "idle" => rx_child \in Clients
    /\ app_pc \notin {"ready", "closing", "stuck"} =>
           Len(accepted) < MaxAccepts

(* What the segments in the network say.                                   *)
SentByClients ==
    \A s \in to_server :
        /\ s.syn => s.seq = client_isn[s.from]
        /\ ~s.syn => \/ s \in Stale
                     \/ Answered(s.from) /\ s.ack_seq = Inc(isn[s.from])

SentByChildren ==
    \A s \in from_server :
        s.kind = "SYNACK" => cstate[s.to] # "CLOSE" /\ s.seq = isn[s.to]

(* The numbers of a child, from the SYN on.                                *)
ChildTcb ==
    \A c \in Clients :
        cstate[c] # "CLOSE" =>
            /\ isn[c] \in ISNs
            /\ snd_nxt[c] = Inc(isn[c]) /\ snd_una[c] \in {isn[c], snd_nxt[c]}
            /\ rcv_nxt[c] = Inc(client_isn[c])

ClientTcb ==
    \A c \in Clients :
        Answered(c) => cstate[c] # "CLOSE" /\ client_irs[c] = isn[c]

EstablishedTcb ==
    \A c \in Clients :
        cstate[c] = "ESTABLISHED" => Answered(c) /\ snd_una[c] = snd_nxt[c]

(* The child that tcp_synrecv_ack is moving.                               *)
Completing ==
    rx_pc # "idle" =>
        /\ cstate[rx_child] = "SYN_RECEIVED"
        /\ Answered(rx_child) /\ rx_ack = Inc(isn[rx_child])

ListenInv == /\ SentByClients /\ SentByChildren
             /\ ChildTcb /\ ClientTcb /\ EstablishedTcb /\ Completing

-----------------------------------------------------------------------------
(* Inc stays in the sequence space and never returns its argument.         *)
LEMMA IncFacts ==
    ASSUME NEW n \in SeqSpace
    PROVE  Inc(n) \in SeqSpace /\ Inc(n) # n /\ 0 \in SeqSpace
BY ListenAssumption DEF SeqSpace, Inc

(* An acknowledgement in the range of tcp_process names one of the two     *)
(* numbers of the SYN-ACK; where the numbers wrap it is the second.        *)
LEMMA RangeNames ==
    ASSUME NEW i \in SeqSpace, NEW una \in {i, Inc(i)}, NEW a \in SeqSpace,
           una <= a, a <= Inc(i)
    PROVE  a \in {i, Inc(i)}
BY ListenAssumption DEF SeqSpace, Inc

(* What a client sends is a segment.                                       *)
LEMMA ToServerTyped ==
    ASSUME NEW c \in Clients, NEW syn \in BOOLEAN, NEW rst \in BOOLEAN,
           NEW text \in BOOLEAN, NEW seq \in SeqSpace, NEW a \in SeqSpace
    PROVE  ToServer(c, syn, rst, text, seq, a) \in Segment
<1>1. (~syn) \in BOOLEAN
    BY Zenon
<1> QED
    BY <1>1 DEF ToServer, Segment

-----------------------------------------------------------------------------
LEMMA TypeInit == Init => TypeInv
<1> SUFFICES ASSUME Init PROVE TypeInv
    OBVIOUS
<1>1. 0 \in SeqSpace
    BY ListenAssumption DEF SeqSpace
<1>2. /\ nxt \in [Nodes -> Nodes] /\ prv \in [Nodes -> Nodes]
      /\ newtsk \in Nodes /\ before \in Nodes /\ after \in Nodes
      /\ accepted \in Seq(Nodes) /\ Len(accepted) <= MaxAccepts
    BY ListenAssumption DEF Init, Nodes
<1>3. /\ isn \in [Clients -> SeqSpace] /\ snd_una \in [Clients -> SeqSpace]
      /\ snd_nxt \in [Clients -> SeqSpace]
      /\ rcv_nxt \in [Clients -> SeqSpace]
      /\ client_irs \in [Clients -> SeqSpace] /\ rx_ack \in SeqSpace
      /\ client_isn \in [Clients -> SeqSpace]
    BY <1>1, ListenAssumption DEF Init
<1>4. to_server \subseteq Segment /\ from_server = {}
    BY ListenAssumption DEF Init
<1> QED
    BY <1>2, <1>3, <1>4 DEF Init, TypeInv, TypeOK

LEMMA TypeApp == TypeInv /\ App /\ clash' \in BOOLEAN => TypeInv'
<1> SUFFICES ASSUME TypeInv, App, clash' \in BOOLEAN
             PROVE  TypeInv'
    OBVIOUS
<1> USE DEF TypeInv, TypeOK
<1>0. /\ client' = client /\ client_isn' = client_isn
      /\ client_irs' = client_irs /\ to_server' = to_server
      /\ from_server' = from_server
    BY DEF App, clientVars
<1>1. ASSUME NEW a \in {"any", "stack", "other"},
             NEW p \in {0, Port} \cup Busy, inet_bind(a, p)
      PROVE  TypeInv'
    BY <1>0, <1>1, ListenAssumption
    DEF inet_bind, local_ipaddress, tcp_set_sport, appVars, linkVars, tcbVars,
        rxVars
<1>2. CASE tcp_listen
    BY <1>0, <1>2 DEF tcp_listen, LinkListener, appVars, linkVars, tcbVars, rxVars
<1>3. CASE CloseListener
    BY <1>0, <1>3 DEF CloseListener, linkVars, tcbVars, rxVars
<1>4. CASE RemoveListener
    BY <1>0, <1>4 DEF RemoveListener, UnlinkListener, linkVars, tcbVars, rxVars
<1>5. CASE inet_accept
    BY <1>0, <1>5 DEF inet_accept, sockVars, linkVars, tcbVars, rxVars
<1>6. CASE tcp_accept
    BY <1>0, <1>6 DEF tcp_accept, sockVars, linkVars, tcbVars, rxVars
<1>7. CASE wait_sleep
    BY <1>0, <1>7 DEF wait_sleep, sockVars, linkVars, tcbVars, rxVars
<1>8. CASE WakeUp
    BY <1>0, <1>8 DEF WakeUp, sockVars, linkVars, tcbVars, rxVars
<1>9. CASE DequeueFirst
    BY <1>0, <1>9 DEF DequeueFirst, list_first_entry, Nodes, sockVars,
        linkVars, tcbVars, rxVars
<1>10. CASE DequeueLinks
    BY <1>0, <1>10 DEF DequeueLinks, sockVars, linkVars, tcbVars, rxVars
<1>11. CASE DequeueUnlink
    BY <1>0, <1>11 DEF DequeueUnlink, sockVars, tcbVars, rxVars
<1>12. CASE DequeueRelink
    BY <1>0, <1>12 DEF DequeueRelink, sockVars, tcbVars, rxVars
<1>13. CASE DequeueInit
    <2>1. /\ accepted' \in Seq(Nodes)
          /\ Len(accepted') = Len(accepted) + 1
        BY <1>13 DEF DequeueInit
    <2>2. /\ nxt' \in [Nodes -> Nodes] /\ prv' \in [Nodes -> Nodes]
          /\ newtsk' \in Nodes /\ before' \in Nodes /\ after' \in Nodes
        BY <1>13 DEF DequeueInit, Nodes
    <2>3. Len(accepted') <= MaxAccepts
        BY <1>13, <2>1, ListenAssumption DEF DequeueInit
    <2> QED
        BY <1>0, <1>13, <2>1, <2>2, <2>3
        DEF DequeueInit, sockVars, tcbVars, rxVars
<1> QED
    BY <1>1, <1>2, <1>3, <1>4, <1>5, <1>6, <1>7, <1>8, <1>9, <1>10, <1>11,
       <1>12, <1>13 DEF App, Accept, tcp_accept_dequeue

LEMMA TypeReceive ==
    ASSUME TypeInv, NEW s \in to_server, tcp_in(s), clash' \in BOOLEAN
    PROVE  TypeInv'
<1> USE DEF TypeInv, TypeOK
<1>0. /\ client' = client /\ client_isn' = client_isn
      /\ client_irs' = client_irs /\ to_server' = to_server
      /\ saddr' = saddr /\ sport' = sport /\ lstate' = lstate
      /\ listed' = listed /\ sleeping' = sleeping /\ app_pc' = app_pc
      /\ newtsk' = newtsk /\ before' = before /\ after' = after
      /\ accepted' = accepted /\ rx_pc = "idle"
    BY DEF tcp_in, clientVars, sockVars, appVars
<1>1. s \in Segment /\ s.from \in Clients /\ s.seq \in SeqSpace
      /\ s.ack_seq \in SeqSpace
    BY DEF Segment
<1>2. CASE cstate[s.from] # "CLOSE"
    <2>1. tcp_process(s.from, s)
        BY <1>2 DEF tcp_in
    <2>2. CASE SynRecvAck(s.from, s)
        <3>1. /\ nxt' \in [Nodes -> Nodes] /\ prv' \in [Nodes -> Nodes]
            BY <1>1, <2>2 DEF SynRecvAck, list_del, Nodes
        <3> QED
            BY <1>0, <1>1, <2>2, <3>1 DEF SynRecvAck, tcbVars
    <2>3. CASE SynRecvReset(s.from, s)
        <3>1. from_server' \subseteq [to : Clients, kind : {"SYNACK", "RST"},
                                       seq : SeqSpace, ack_seq : SeqSpace]
            BY <1>1, <2>3 DEF SynRecvReset, Send, Rst
        <3> QED
            BY <1>0, <1>1, <2>3, <3>1 DEF SynRecvReset, linkVars, rxVars
    <2> QED
        BY <2>1, <2>2, <2>3 DEF tcp_process
<1>3. CASE cstate[s.from] = "CLOSE"
    <2>1. PICK i \in ISNs : tcp_handle_listen(s, i)
        BY <1>3 DEF tcp_in
    <2>2. i \in SeqSpace /\ Inc(i) \in SeqSpace /\ Inc(s.seq) \in SeqSpace
        BY <1>1, IncFacts, ListenAssumption
    <2>3. nxt' \in [Nodes -> Nodes] /\ prv' \in [Nodes -> Nodes]
        BY <1>1, <2>1 DEF tcp_handle_listen, LinkListening, Nodes
    <2>4. from_server' \subseteq [to : Clients, kind : {"SYNACK", "RST"},
                                   seq : SeqSpace, ack_seq : SeqSpace]
        BY <1>1, <2>1, <2>2 DEF tcp_handle_listen, tcp_send_synack, Send, SynAck
    <2> QED
        BY <1>0, <1>1, <2>1, <2>2, <2>3, <2>4
        DEF tcp_handle_listen, CountSyn, rxVars
<1> QED
    BY <1>2, <1>3

LEMMA TypeComplete == TypeInv /\ tcp_synrecv_ack /\ clash' \in BOOLEAN => TypeInv'
<1> SUFFICES ASSUME TypeInv, tcp_synrecv_ack, clash' \in BOOLEAN
             PROVE  TypeInv'
    OBVIOUS
<1> USE DEF TypeInv, TypeOK
<1>0. /\ client' = client /\ client_isn' = client_isn
      /\ client_irs' = client_irs /\ to_server' = to_server
      /\ from_server' = from_server
      /\ saddr' = saddr /\ sport' = sport /\ lstate' = lstate
      /\ listed' = listed /\ app_pc' = app_pc
      /\ newtsk' = newtsk /\ before' = before /\ after' = after
      /\ accepted' = accepted
      /\ isn' = isn /\ snd_nxt' = snd_nxt /\ rcv_nxt' = rcv_nxt
    BY DEF tcp_synrecv_ack, clientVars, sockVars, appVars
<1>1. rx_pc # "idle" /\ rx_child \in Clients
    BY DEF tcp_synrecv_ack, EnqueuePrev, EnqueueOwn, EnqueueHead, WakeAccept,
           Establish
<1>2. CASE EnqueuePrev
    BY <1>0, <1>1, <1>2 DEF EnqueuePrev, Nodes
<1>3. CASE EnqueueOwn
    BY <1>0, <1>1, <1>3 DEF EnqueueOwn, Nodes
<1>4. CASE EnqueueHead
    BY <1>0, <1>1, <1>4 DEF EnqueueHead, Nodes
<1>5. CASE WakeAccept
    BY <1>0, <1>1, <1>5 DEF WakeAccept, wait_wakeup, linkVars
<1>6. CASE Establish
    <2>1. rx_ack' \in SeqSpace
        BY <1>6, ListenAssumption DEF Establish, SeqSpace
    <2> QED
        BY <1>0, <1>1, <1>6, <2>1 DEF Establish, linkVars
<1> QED
    BY <1>2, <1>3, <1>4, <1>5, <1>6 DEF tcp_synrecv_ack

LEMMA TypeClient ==
    ASSUME TypeInv, NEW c \in Clients, Client(c), clash' \in BOOLEAN
    PROVE  TypeInv'
<1> USE DEF TypeInv, TypeOK
<1>0. /\ UNCHANGED <<sockVars, sleeping, appVars, linkVars, cstate, tcbVars,
                     rxVars>>
      /\ client_isn' = client_isn /\ from_server' = from_server
    BY DEF Client, stackVars
<1> DEFINE Typed ==
               /\ client \in [Clients -> {"CLOSED", "SYN_SENT",
                                          "ESTABLISHED", "ABORTED", "RESET"}]
               /\ client_irs \in [Clients -> SeqSpace]
               /\ to_server \subseteq Segment
<1>1. Typed'
    <2>1. /\ client_isn[c] \in SeqSpace /\ Inc(client_isn[c]) \in SeqSpace
          /\ client_irs[c] \in SeqSpace /\ Inc(client_irs[c]) \in SeqSpace
          /\ 0 \in SeqSpace
        BY IncFacts
    <2>2. CASE ClientOpens(c)
        BY <2>1, <2>2, ToServerTyped DEF ClientOpens, Says
    <2>3. ASSUME NEW s \in from_server, ClientHearsSynAck(c, s)
          PROVE  Typed'
        <3>1. /\ s.seq \in SeqSpace /\ s.ack_seq \in SeqSpace
              /\ Inc(s.seq) \in SeqSpace
            BY IncFacts
        <3>2. ToServer(c, FALSE, FALSE, FALSE, s.ack_seq, Inc(s.seq))
                  \in Segment
            BY <3>1, ToServerTyped
        <3> QED
            BY <2>3, <3>1, <3>2 DEF ClientHearsSynAck, Says
    <2>4. ASSUME NEW s \in from_server, ClientHearsRst(c, s)
          PROVE  Typed'
        BY <2>4 DEF ClientHearsRst
    <2>5. CASE ClientWrites(c)
        BY <2>1, <2>5, ToServerTyped DEF ClientWrites, Says
    <2>6. CASE ClientAborts(c)
        BY <2>1, <2>6, ToServerTyped DEF ClientAborts, Says
    <2> QED
        BY <2>2, <2>3, <2>4, <2>5, <2>6 DEF Client
<1> QED
    BY <1>0, <1>1 DEF sockVars, appVars, linkVars, tcbVars, rxVars

LEMMA TypeStep == TypeInv /\ [Next]_vars => TypeInv'
<1> SUFFICES ASSUME TypeInv, [Next]_vars PROVE TypeInv'
    OBVIOUS
<1>1. CASE UNCHANGED vars
    BY <1>1 DEF TypeInv, TypeOK, vars, stackVars, sockVars, appVars, linkVars,
                tcbVars, rxVars, clientVars
<1>2. CASE Next
    <2>1. Step /\ clash' \in BOOLEAN
        BY <1>2 DEF Next, Noting, TypeInv, TypeOK
    <2> QED
        BY <2>1, TypeApp, TypeReceive, TypeComplete, TypeClient
        DEF Step, From
<1> QED
    BY <1>1, <1>2

(* Sequence numbers, links and states keep their types: a child is linked  *)
(* to children and list heads only, whatever the two threads do to the     *)
(* lists (list_add, list_del, tcp_accept_dequeue).                         *)
THEOREM ListenTypeCorrect == Spec => []TypeOK
<1>1. TypeInv => TypeOK
    BY DEF TypeInv
<1> QED
    BY <1>1, TypeInit, TypeStep, PTL DEF Spec

-----------------------------------------------------------------------------
(* A step that leaves the children, the clients and the segments alone.    *)
LEMMA InvApp == ListenInv /\ App => ListenInv'
<1> SUFFICES ASSUME ListenInv, App PROVE ListenInv'
    OBVIOUS
<1>1. /\ UNCHANGED <<client, client_isn, client_irs, to_server, from_server>>
      /\ UNCHANGED <<cstate, isn, snd_una, snd_nxt, rcv_nxt>>
      /\ UNCHANGED <<rx_pc, rx_child, rx_ack>>
    BY DEF App, clientVars, inet_bind, tcp_listen, CloseListener,
           RemoveListener, inet_accept, Accept, tcp_accept, wait_sleep, WakeUp,
           tcp_accept_dequeue, DequeueFirst, DequeueLinks, DequeueUnlink,
           DequeueRelink, DequeueInit, tcbVars, rxVars
<1> QED
    BY <1>1 DEF ListenInv, SentByClients, SentByChildren, ChildTcb, ClientTcb,
                EstablishedTcb, Completing, Answered

(* A SYN makes a child for a client that has none: nobody has answered it, *)
(* so only the numbers of that child have to be looked at.                 *)
LEMMA InvListen ==
    ASSUME TypeInv, ListenInv, NEW s \in to_server, NEW i \in ISNs,
           cstate[s.from] = "CLOSE", tcp_handle_listen(s, i), rx_pc = "idle",
           UNCHANGED clientVars
    PROVE  ListenInv'
<1>0. /\ s.from \in Clients /\ s.seq = client_isn[s.from]
      /\ ~Answered(s.from) /\ i \in SeqSpace
    BY ListenAssumption
    DEF TypeInv, TypeOK, Segment, ListenInv, SentByClients, ClientTcb,
        tcp_handle_listen
<1>1. /\ UNCHANGED <<client, client_isn, client_irs, to_server>>
      /\ UNCHANGED <<rx_pc, rx_child, rx_ack>>
    BY DEF clientVars, rxVars, tcp_handle_listen
<1>2. /\ cstate' = [cstate EXCEPT ![s.from] = "SYN_RECEIVED"]
      /\ isn' = [isn EXCEPT ![s.from] = i]
      /\ rcv_nxt' = [rcv_nxt EXCEPT ![s.from] = Inc(s.seq)]
      /\ snd_nxt' = [snd_nxt EXCEPT ![s.from] = Inc(i)]
      /\ snd_una' = [snd_una EXCEPT ![s.from] = i]
    BY DEF tcp_handle_listen, CountSyn
<1>3. from_server' = from_server \cup {SynAck(s.from, i, Inc(s.seq))}
    BY DEF tcp_handle_listen, tcp_send_synack, Send
<1> USE DEF TypeInv, TypeOK
<1>4. SentByClients'
    BY <1>0, <1>1, <1>2 DEF ListenInv, SentByClients, Answered, Segment
<1>5. SentByChildren'
    BY <1>0, <1>2, <1>3 DEF ListenInv, SentByChildren, SynAck
<1>6. ChildTcb'
    BY <1>0, <1>1, <1>2 DEF ListenInv, ChildTcb
<1>7. ClientTcb' /\ EstablishedTcb'
    BY <1>0, <1>1, <1>2 DEF ListenInv, ClientTcb, EstablishedTcb, Answered
<1>8. Completing'
    BY <1>1 DEF Completing
<1> QED
    BY <1>4, <1>5, <1>6, <1>7, <1>8 DEF ListenInv

(* Only the ACK of the client itself is in range: a leftover is not.       *)
LEMMA InvSynRecvAck ==
    ASSUME TypeInv, ListenInv, NEW s \in to_server, ~s.syn,
           cstate[s.from] = "SYN_RECEIVED", SynRecvAck(s.from, s),
           UNCHANGED clientVars
    PROVE  ListenInv'
<1>0. /\ s.from \in Clients /\ s.ack_seq \in SeqSpace
      /\ isn[s.from] \in SeqSpace /\ isn[s.from] \in ISNs
      /\ snd_nxt[s.from] = Inc(isn[s.from])
      /\ snd_una[s.from] \in {isn[s.from], Inc(isn[s.from])}
    BY DEF TypeInv, TypeOK, Segment, ListenInv, ChildTcb
<1>1. s.ack_seq \in {isn[s.from], Inc(isn[s.from])}
    BY <1>0, RangeNames DEF SynRecvAck, AckInRange
<1>2. s \notin Stale
    BY <1>0, <1>1, ListenAssumption
<1>3. Answered(s.from) /\ s.ack_seq = Inc(isn[s.from])
    BY <1>2 DEF ListenInv, SentByClients
<1>4. /\ UNCHANGED <<client, client_isn, client_irs, to_server, from_server>>
      /\ UNCHANGED <<cstate, isn, snd_una, snd_nxt, rcv_nxt>>
      /\ rx_child' = s.from /\ rx_ack' = s.ack_seq
    BY DEF SynRecvAck, clientVars, tcbVars
<1> QED
    BY <1>3, <1>4 DEF ListenInv, SentByClients, SentByChildren, ChildTcb,
        ClientTcb, EstablishedTcb, Completing, Answered

LEMMA InvSynRecvReset ==
    ASSUME TypeInv, ListenInv, NEW s \in to_server,
           cstate[s.from] = "SYN_RECEIVED", SynRecvReset(s.from, s),
           UNCHANGED clientVars
    PROVE  ListenInv'
<1>0. s.from \in Clients
    BY DEF TypeInv, TypeOK, Segment
<1>1. /\ UNCHANGED <<client, client_isn, client_irs, to_server>>
      /\ UNCHANGED <<cstate, isn, snd_nxt, rcv_nxt, rx_pc, rx_child, rx_ack>>
      /\ snd_una' = [snd_una EXCEPT ![s.from] = snd_nxt[s.from]]
    BY DEF SynRecvReset, clientVars, rxVars
<1>2. \A r \in from_server' : r.kind = "SYNACK" => r \in from_server
    BY DEF SynRecvReset, Send, Rst
<1> USE DEF TypeInv, TypeOK
<1>3. ChildTcb' /\ EstablishedTcb'
    BY <1>0, <1>1 DEF ListenInv, ChildTcb, EstablishedTcb, Answered
<1>4. SentByClients' /\ ClientTcb' /\ Completing'
    BY <1>1 DEF ListenInv, SentByClients, ClientTcb, Completing, Answered
<1>5. SentByChildren'
    BY <1>1, <1>2 DEF ListenInv, SentByChildren
<1> QED
    BY <1>3, <1>4, <1>5 DEF ListenInv

LEMMA InvReceive ==
    ASSUME TypeInv, ListenInv, NEW s \in to_server, tcp_in(s)
    PROVE  ListenInv'
<1>1. UNCHANGED clientVars /\ rx_pc = "idle"
    BY DEF tcp_in
<1>2. CASE cstate[s.from] # "CLOSE"
    BY <1>1, <1>2, InvSynRecvAck, InvSynRecvReset DEF tcp_in, tcp_process
<1>3. CASE cstate[s.from] = "CLOSE"
    BY <1>1, <1>3, InvListen DEF tcp_in
<1> QED
    BY <1>2, <1>3

LEMMA InvComplete == TypeInv /\ ListenInv /\ tcp_synrecv_ack => ListenInv'
<1> SUFFICES ASSUME TypeInv, ListenInv, tcp_synrecv_ack PROVE ListenInv'
    OBVIOUS
<1>1. /\ UNCHANGED <<client, client_isn, client_irs, to_server, from_server>>
      /\ UNCHANGED <<isn, snd_nxt, rcv_nxt>>
    BY DEF tcp_synrecv_ack, clientVars
<1>2. rx_pc # "idle" /\ rx_child \in Clients
    BY DEF tcp_synrecv_ack, EnqueuePrev, EnqueueOwn, EnqueueHead, WakeAccept,
           Establish, TypeInv
<1>3. CASE Establish
    <2>1. /\ snd_una' = [snd_una EXCEPT ![rx_child] = rx_ack]
          /\ cstate' = [cstate EXCEPT ![rx_child] = "ESTABLISHED"]
          /\ rx_pc' = "idle"
        BY <1>3 DEF Establish
    <2> USE DEF TypeInv, TypeOK
    <2>2. ChildTcb' /\ EstablishedTcb'
        BY <1>1, <1>2, <2>1
        DEF ListenInv, ChildTcb, EstablishedTcb, Completing, Answered
    <2>3. SentByChildren' /\ ClientTcb' /\ Completing'
        BY <1>1, <1>2, <2>1
        DEF ListenInv, SentByChildren, ClientTcb, Completing, Answered
    <2>4. SentByClients'
        BY <1>1 DEF ListenInv, SentByClients, Answered
    <2> QED
        BY <2>2, <2>3, <2>4 DEF ListenInv
<1>4. CASE EnqueuePrev \/ EnqueueOwn \/ EnqueueHead \/ WakeAccept
    <2>1. UNCHANGED <<cstate, snd_una, rx_child, rx_ack>>
        BY <1>4 DEF EnqueuePrev, EnqueueOwn, EnqueueHead, WakeAccept
    <2> QED
        BY <1>1, <1>2, <2>1
        DEF ListenInv, SentByClients, SentByChildren, ChildTcb, ClientTcb,
            EstablishedTcb, Completing, Answered
<1> QED
    BY <1>3, <1>4 DEF tcp_synrecv_ack

(* A client that has answered once has answered for good.                  *)
LEMMA InvClient ==
    ASSUME TypeInv, ListenInv, NEW c \in Clients, Client(c)
    PROVE  ListenInv'
<1>0. /\ UNCHANGED <<cstate, isn, snd_una, snd_nxt, rcv_nxt>>
      /\ UNCHANGED <<rx_pc, rx_child, rx_ack, client_isn, from_server>>
    BY DEF Client, stackVars, tcbVars, rxVars
<1> USE DEF TypeInv, TypeOK
<1> DEFINE Good ==
        /\ \A d \in Clients : Answered(d) => Answered(d)'
        /\ ClientTcb'
        /\ \A s \in to_server' \ to_server :
               /\ s.syn => s.seq = client_isn[s.from]
               /\ ~s.syn => /\ s.from = c /\ Answered(c)'
                            /\ s.ack_seq = Inc(isn[c])
<1>1. Good
    <2>1. CASE ClientOpens(c)
        BY <1>0, <2>1 DEF ClientOpens, Says, ToServer, Answered, ListenInv,
                     ClientTcb
    <2>2. ASSUME NEW s \in from_server, ClientHearsSynAck(c, s) PROVE Good
        <3>1. cstate[c] # "CLOSE" /\ s.seq = isn[c]
            BY <2>2 DEF ClientHearsSynAck, ListenInv, SentByChildren
        <3>2. /\ client' = [client EXCEPT ![c] = "ESTABLISHED"]
              /\ client_irs' = [client_irs EXCEPT ![c] = s.seq]
              /\ to_server' = to_server \cup
                     {ToServer(c, FALSE, FALSE, FALSE, s.ack_seq, Inc(s.seq))}
            BY <2>2 DEF ClientHearsSynAck, Says
        <3> QED
            BY <1>0, <3>1, <3>2 DEF ToServer, Answered, ListenInv, ClientTcb
    <2>3. ASSUME NEW s \in from_server, ClientHearsRst(c, s) PROVE Good
        BY <1>0, <2>3 DEF ClientHearsRst, Answered, ListenInv, ClientTcb
    <2>4. CASE ClientWrites(c)
        BY <1>0, <2>4 DEF ClientWrites, Says, ToServer, Answered, ListenInv,
                          ClientTcb
    <2>5. CASE ClientAborts(c)
        BY <1>0, <2>5 DEF ClientAborts, Says, ToServer, Answered, ListenInv,
                          ClientTcb
    <2> QED
        BY <2>1, <2>2, <2>3, <2>4, <2>5 DEF Client
<1>2. SentByClients'
    BY <1>0, <1>1 DEF ListenInv, SentByClients, Segment
<1>3. SentByChildren' /\ ChildTcb'
    BY <1>0 DEF ListenInv, SentByChildren, ChildTcb
<1>4. EstablishedTcb' /\ Completing'
    BY <1>0, <1>1 DEF ListenInv, EstablishedTcb, Completing
<1> QED
    BY <1>1, <1>2, <1>3, <1>4 DEF ListenInv

LEMMA InvInit == Init => ListenInv
BY ListenAssumption
DEF Init, ListenInv, SentByClients, SentByChildren, ChildTcb, ClientTcb,
    EstablishedTcb, Completing, Answered

LEMMA InvStep == TypeInv /\ ListenInv /\ [Next]_vars => ListenInv'
<1> SUFFICES ASSUME TypeInv, ListenInv, [Next]_vars PROVE ListenInv'
    OBVIOUS
<1>1. CASE UNCHANGED vars
    BY <1>1 DEF vars, stackVars, tcbVars, rxVars, clientVars, ListenInv,
        SentByClients, SentByChildren, ChildTcb, ClientTcb, EstablishedTcb,
        Completing, Answered
<1>2. CASE Step
    BY <1>2, InvApp, InvReceive, InvComplete, InvClient DEF Step, From
<1> QED
    BY <1>1, <1>2 DEF Next, Noting

LEMMA ListenInvHolds == Spec => [](TypeInv /\ ListenInv)
BY TypeInit, TypeStep, InvInit, InvStep, PTL DEF Spec

(* Whoever accept may return has completed the handshake, and both ends    *)
(* agree on both initial sequence numbers, for every sequence space, wrap  *)
(* included, and whatever earlier connections left in the network          *)
(* (tcp_handle_listen, tcp_process in SYN_RECEIVED).                       *)
THEOREM ChildAgreement == Spec => []ChildAgrees
<1>1. TypeInv /\ ListenInv => ChildAgrees
    BY DEF ListenInv, ChildAgrees, ChildTcb, ClientTcb, EstablishedTcb
<1> QED
    BY <1>1, ListenInvHolds, PTL

(* No repeated SYN passes the filter of tcp_process, so that the branch    *)
(* that frees the child (tcp_input.c:281-286) is never taken for one.      *)
THEOREM RepeatedSynFiltered == Spec => []SynFiltered
<1>1. ASSUME TypeInv, ListenInv PROVE SynFiltered
    <2>1. SUFFICES ASSUME NEW s \in to_server, s.syn,
                          cstate[s.from] # "CLOSE"
                   PROVE  ~tcp_packet_filter(s.from, s)
        BY DEF SynFiltered
    <2>2. /\ s.from \in Clients /\ s.seq \in SeqSpace
          /\ rcv_nxt[s.from] = Inc(s.seq)
        BY <1>1, <2>1
        DEF TypeInv, TypeOK, Segment, ListenInv, SentByClients, ChildTcb
    <2>3. Inc(s.seq) \in SeqSpace /\ Inc(s.seq) # s.seq
        BY <2>2, IncFacts
    <2> QED
        BY <2>2, <2>3 DEF tcp_packet_filter, RcvWnd, SeqSpace
<1> QED
    BY <1>1, ListenInvHolds, PTL

-----------------------------------------------------------------------------
(* A queue as it hangs at its head: the i-th child, and the head before    *)
(* the first and after the last.                                           *)
Heads == {"listen", "accept"}

At(h, L, i) == IF i \in 1..Len(L) THEN L[i] ELSE h

Distinct(L) == \A i, j \in 1..Len(L) : L[i] = L[j] => i = j

Forth(nx, h, L) == \A i \in 0..Len(L) : nx[At(h, L, i)] = At(h, L, i + 1)

Back(pv, h, L) ==
    \A i \in 1..(Len(L) + 1) : pv[At(h, L, i)] = At(h, L, i - 1)

Elements(L) == {L[i] : i \in 1..Len(L)}

(* The links nx and pv make a ring of the head h and the children S.       *)
Links(nx, pv, h, L) == Distinct(L) /\ Forth(nx, h, L) /\ Back(pv, h, L)

Ring(nx, pv, h, S) ==
    \E L \in Seq(Clients) : Links(nx, pv, h, L) /\ Elements(L) = S

LEMMA NodeFacts ==
    /\ Clients \subseteq Nodes /\ Heads \subseteq Nodes
    /\ \A c \in Clients : c \notin Heads /\ c # "none"
    /\ "listen" # "accept"
BY ListenAssumption DEF Nodes, Heads

LEMMA AtFacts ==
    ASSUME NEW L \in Seq(Clients), NEW h \in Heads
    PROVE  /\ Len(L) \in Nat
           /\ \A i \in 1..Len(L) : At(h, L, i) = L[i] /\ L[i] \in Clients
           /\ \A i \in Int : At(h, L, i) \in Nodes
           /\ At(h, L, 0) = h /\ At(h, L, Len(L) + 1) = h
           /\ \A i \in 1..Len(L) : At(h, L, i) # h
           /\ Elements(L) \subseteq Clients /\ h \notin Elements(L)
<1>1. Len(L) \in Nat /\ \A i \in 1..Len(L) : L[i] \in Clients
  OBVIOUS
<1> QED BY <1>1, NodeFacts DEF At, Elements

(* No place of a queue is met twice.                                       *)
LEMMA PlacesDiffer ==
    ASSUME NEW L \in Seq(Clients), NEW h \in Heads, Distinct(L)
    PROVE  /\ \A i, j \in 0..Len(L) : At(h, L, i) = At(h, L, j) => i = j
           /\ \A i, j \in 1..(Len(L) + 1) :
                  At(h, L, i) = At(h, L, j) => i = j
BY AtFacts DEF At, Distinct

(* Links that agree on a ring make the same ring.                          *)
LEMMA RingSame ==
    ASSUME NEW h \in Heads, NEW S, NEW nx, NEW pv, NEW ny, NEW pw,
           Ring(nx, pv, h, S),
           \A x \in S \cup {h} : ny[x] = nx[x] /\ pw[x] = pv[x]
    PROVE  Ring(ny, pw, h, S)
<1>1. PICK L \in Seq(Clients) : Links(nx, pv, h, L) /\ Elements(L) = S
  BY DEF Ring
<1>2. \A i \in Int : At(h, L, i) \in S \cup {h}
  BY <1>1 DEF At, Elements
<1>3. Len(L) \in Nat
  OBVIOUS
<1>4. /\ \A i \in 0..Len(L) : i \in Int
      /\ \A i \in 1..(Len(L) + 1) : i \in Int
  BY <1>3
<1>5. Links(ny, pw, h, L)
  BY <1>1, <1>2, <1>4 DEF Links, Forth, Back
<1> QED BY <1>1, <1>5 DEF Ring

(* The neighbours of a node of a ring are in the ring.                     *)
LEMMA RingClosed ==
    ASSUME NEW h \in Heads, NEW S, NEW nx, NEW pv, Ring(nx, pv, h, S)
    PROVE  /\ \A x \in S \cup {h} : nx[x] \in S \cup {h} /\ pv[x] \in S \cup {h}
           /\ \A c \in S : nx[c] # c /\ pv[c] # c
           /\ S \subseteq Clients
           /\ nx[h] = h <=> S = {}
<1>1. PICK L \in Seq(Clients) : Links(nx, pv, h, L) /\ Elements(L) = S
  BY DEF Ring
<1>2. \A i \in Int : At(h, L, i) \in S \cup {h}
  BY <1>1 DEF At, Elements
<1>3. /\ \A i \in 0..Len(L) : nx[At(h, L, i)] = At(h, L, i + 1)
      /\ \A i \in 1..(Len(L) + 1) : pv[At(h, L, i)] = At(h, L, i - 1)
  BY <1>1 DEF Links, Forth, Back
<1>4. Len(L) \in Nat /\ At(h, L, 0) = h /\ At(h, L, Len(L) + 1) = h
  BY AtFacts
<1>5. \A c \in S : \E i \in 1..Len(L) : At(h, L, i) = c
  BY <1>1, AtFacts DEF Elements
<1>6. nx[h] = At(h, L, 1) /\ pv[h] = At(h, L, Len(L))
  <2>1. 0 \in 0..Len(L) /\ Len(L) + 1 \in 1..(Len(L) + 1)
        /\ (Len(L) + 1) - 1 = Len(L) /\ 0 + 1 = 1
    BY <1>4
  <2> QED BY <1>3, <1>4, <2>1
<1>7. ASSUME NEW i \in 1..Len(L)
      PROVE  /\ nx[At(h, L, i)] = At(h, L, i + 1)
             /\ pv[At(h, L, i)] = At(h, L, i - 1)
             /\ At(h, L, i + 1) # At(h, L, i)
             /\ At(h, L, i - 1) # At(h, L, i)
  <2>1. /\ i \in 0..Len(L) /\ i \in 1..(Len(L) + 1)
        /\ i - 1 \in 0..Len(L) /\ i + 1 \in 1..(Len(L) + 1)
        /\ i - 1 # i /\ i + 1 # i
    BY <1>4
  <2> QED BY <1>1, <1>3, <2>1, PlacesDiffer DEF Links
<1>8. ASSUME NEW x \in S \cup {h}
      PROVE  nx[x] \in S \cup {h} /\ pv[x] \in S \cup {h}
  <2>1. CASE x = h
    BY <1>2, <1>4, <1>6, <2>1
  <2>2. CASE x \in S
    <3>1. PICK i \in 1..Len(L) : At(h, L, i) = x
      BY <1>5, <2>2
    <3>2. i + 1 \in Int /\ i - 1 \in Int
      OBVIOUS
    <3> QED BY <1>2, <1>7, <3>1, <3>2
  <2> QED BY <2>1, <2>2
<1>9. \A c \in S : nx[c] # c /\ pv[c] # c
  BY <1>5, <1>7
<1>10. nx[h] = h <=> S = {}
  <2>1. CASE Len(L) = 0
    BY <1>1, <1>4, <1>6, <2>1 DEF Elements
  <2>2. CASE Len(L) > 0
    <3>1. 1 \in 1..Len(L)
      BY <1>4, <2>2
    <3> QED BY <1>1, <1>6, <3>1, AtFacts DEF Elements
  <2> QED BY <1>4, <2>1, <2>2
<1>11. S \subseteq Clients
  BY <1>1, AtFacts
<1> QED BY <1>8, <1>9, <1>10, <1>11

(* A child is linked between a head and what came first.                   *)
Front(c, L) == [i \in 1..(Len(L) + 1) |-> IF i = 1 THEN c ELSE L[i - 1]]

LEMMA FrontFacts ==
    ASSUME NEW L \in Seq(Clients), NEW c \in Clients, NEW h \in Heads
    PROVE  /\ Front(c, L) \in Seq(Clients) /\ Len(Front(c, L)) = Len(L) + 1
           /\ At(h, Front(c, L), 0) = h /\ At(h, Front(c, L), 1) = c
           /\ \A i \in 1..(Len(L) + 1) : At(h, Front(c, L), i + 1) = At(h, L, i)
           /\ Elements(Front(c, L)) = Elements(L) \cup {c}
           /\ Distinct(L) /\ c \notin Elements(L) => Distinct(Front(c, L))
<1> DEFINE M == Front(c, L)
           n == Len(L)
<1>1. n \in Nat /\ \A i \in 1..n : L[i] \in Clients
  OBVIOUS
<1>2. /\ M \in Seq(Clients) /\ Len(M) = n + 1
      /\ \A i \in 1..(n + 1) : M[i] = IF i = 1 THEN c ELSE L[i - 1]
  <2>1. \A i \in 1..(n + 1) : (IF i = 1 THEN c ELSE L[i - 1]) \in Clients
    <3>1. \A i \in 1..(n + 1) : i # 1 => i - 1 \in 1..n
      BY <1>1
    <3> QED BY <1>1, <3>1
  <2> QED BY <1>1, <2>1 DEF Front
<1> HIDE DEF M
<1>3. M[1] = c /\ \A i \in 1..n : M[i + 1] = L[i]
  <2>1. \A i \in 1..n : i + 1 \in 1..(n + 1) /\ i + 1 # 1 /\ (i + 1) - 1 = i
    BY <1>1
  <2>2. 1 \in 1..(n + 1)
    BY <1>1
  <2> QED BY <1>2, <2>1, <2>2
<1>4. At(h, M, 0) = h /\ At(h, M, 1) = c
  BY <1>1, <1>2, <1>3 DEF At
<1>5. ASSUME NEW i \in 1..(n + 1) PROVE At(h, M, i + 1) = At(h, L, i)
  <2>1. (i + 1 \in 1..(n + 1)) <=> (i \in 1..n)
    BY <1>1
  <2> QED BY <1>2, <1>3, <2>1 DEF At
<1>6. Elements(M) = Elements(L) \cup {c}
  <2>1. \A i \in 1..(n + 1) : i = 1 \/ i - 1 \in 1..n
    BY <1>1
  <2>2. Elements(M) \subseteq Elements(L) \cup {c}
    BY <1>2, <2>1 DEF Elements
  <2>3. \A i \in 1..n : i + 1 \in 1..(n + 1)
    BY <1>1
  <2>4. 1 \in 1..(n + 1)
    BY <1>1
  <2>5. Elements(L) \cup {c} \subseteq Elements(M)
    BY <1>2, <1>3, <2>3, <2>4 DEF Elements
  <2> QED BY <2>2, <2>5
<1>7. ASSUME Distinct(L), c \notin Elements(L) PROVE Distinct(M)
  <2>1. ASSUME NEW i \in 1..(n + 1), NEW j \in 1..(n + 1), M[i] = M[j]
        PROVE  i = j
    <3>1. CASE i = 1 /\ j = 1
      BY <3>1
    <3>2. CASE i = 1 /\ j # 1
      <4>1. j - 1 \in 1..n /\ M[j] = L[j - 1] /\ M[i] = c
        BY <1>1, <1>2, <3>2
      <4> QED BY <1>7, <2>1, <4>1 DEF Elements
    <3>3. CASE i # 1 /\ j = 1
      <4>1. i - 1 \in 1..n /\ M[i] = L[i - 1] /\ M[j] = c
        BY <1>1, <1>2, <3>3
      <4> QED BY <1>7, <2>1, <4>1 DEF Elements
    <3>4. CASE i # 1 /\ j # 1
      <4>1. /\ i - 1 \in 1..n /\ M[i] = L[i - 1]
            /\ j - 1 \in 1..n /\ M[j] = L[j - 1]
        BY <1>1, <1>2, <3>4
      <4>2. i - 1 = j - 1
        BY <1>7, <2>1, <4>1 DEF Distinct
      <4> QED BY <1>1, <4>2
    <3> QED BY <3>1, <3>2, <3>3, <3>4
  <2> QED BY <1>2, <2>1 DEF Distinct
<1> QED BY <1>2, <1>4, <1>5, <1>6, <1>7 DEF M

LEMMA RingAdd ==
    ASSUME NEW h \in Heads, NEW S, NEW nx, NEW pv, NEW ny, NEW pw,
           NEW c \in Clients, c \notin S, Ring(nx, pv, h, S),
           ny[h] = c, ny[c] = nx[h], pw[nx[h]] = c, pw[c] = h,
           \A x \in S : ny[x] = nx[x],
           \A x \in S \cup {h} : x # nx[h] => pw[x] = pv[x]
    PROVE  Ring(ny, pw, h, S \cup {c})
<1>1. PICK L \in Seq(Clients) : Links(nx, pv, h, L) /\ Elements(L) = S
  BY DEF Ring
<1> DEFINE M == Front(c, L)
           n == Len(L)
<1>2. /\ n \in Nat
      /\ \A i \in 1..n : At(h, L, i) \in S
      /\ \A i \in Int : At(h, L, i) \in S \cup {h}
      /\ \A i \in 0..n : nx[At(h, L, i)] = At(h, L, i + 1)
      /\ \A i \in 1..(n + 1) : pv[At(h, L, i)] = At(h, L, i - 1)
      /\ At(h, L, 0) = h /\ At(h, L, n + 1) = h
  <2>1. /\ \A i \in 1..n : At(h, L, i) \in S
        /\ \A i \in Int : At(h, L, i) \in S \cup {h}
    BY <1>1 DEF At, Elements
  <2>2. /\ \A i \in 0..n : nx[At(h, L, i)] = At(h, L, i + 1)
        /\ \A i \in 1..(n + 1) : pv[At(h, L, i)] = At(h, L, i - 1)
    BY <1>1 DEF Links, Forth, Back
  <2>3. n \in Nat /\ At(h, L, 0) = h /\ At(h, L, n + 1) = h
    BY AtFacts
  <2> QED BY <2>1, <2>2, <2>3
<1>3. /\ M \in Seq(Clients) /\ Len(M) = n + 1
      /\ At(h, M, 0) = h /\ At(h, M, 1) = c
      /\ \A i \in 1..(n + 1) : At(h, M, i + 1) = At(h, L, i)
      /\ Elements(M) = S \cup {c} /\ Distinct(M)
  <2>1. Distinct(L) /\ Elements(L) = S
    BY <1>1 DEF Links
  <2>2. c \notin Elements(L)
    BY <2>1
  <2>3. M \in Seq(Clients) /\ Len(M) = n + 1
    BY FrontFacts
  <2>4. At(h, M, 0) = h /\ At(h, M, 1) = c
    BY FrontFacts
  <2>5. \A i \in 1..(n + 1) : At(h, M, i + 1) = At(h, L, i)
    BY FrontFacts
  <2>6. Elements(M) = Elements(L) \cup {c}
    BY FrontFacts
  <2>7. Distinct(M)
    BY <2>1, <2>2, FrontFacts
  <2> HIDE DEF M, n
  <2> QED BY <2>1, <2>3, <2>4, <2>5, <2>6, <2>7
<1>4. nx[h] = At(h, L, 1)
  <2>1. 0 \in 0..n /\ 0 + 1 = 1
    BY <1>2
  <2> QED BY <1>2, <2>1
<1>5. \A i, j \in 1..(n + 1) : At(h, L, i) = At(h, L, j) => i = j
  BY <1>1, PlacesDiffer DEF Links
<1> HIDE DEF M, n
<1>6. ASSUME NEW i \in 0..(n + 1) PROVE ny[At(h, M, i)] = At(h, M, i + 1)
  <2>1. CASE i = 0
    BY <1>3, <2>1
  <2>2. CASE i = 1
    <3>1. 1 \in 1..(n + 1)
      BY <1>2
    <3>2. At(h, M, 1 + 1) = At(h, L, 1)
      BY <1>3, <3>1
    <3> QED BY <1>3, <1>4, <2>2, <3>2
  <2>3. CASE i > 1
    <3>1. /\ i - 1 \in 1..n /\ i - 1 \in 1..(n + 1) /\ i \in 1..(n + 1)
          /\ (i - 1) + 1 = i /\ i - 1 \in 0..n
      BY <1>2, <2>3
    <3>2. At(h, M, i) = At(h, L, i - 1) /\ At(h, M, i + 1) = At(h, L, i)
      BY <1>3, <3>1
    <3>3. /\ At(h, L, i - 1) \in S
          /\ nx[At(h, L, i - 1)] = At(h, L, i)
      BY <1>2, <3>1
    <3> QED BY <3>2, <3>3
  <2> QED BY <1>2, <2>1, <2>2, <2>3
<1>7. ASSUME NEW i \in 1..(n + 2) PROVE pw[At(h, M, i)] = At(h, M, i - 1)
  <2>1. CASE i = 1
    BY <1>3, <2>1
  <2>2. CASE i = 2
    <3>1. 1 \in 1..(n + 1) /\ 1 + 1 = 2 /\ 2 - 1 = 1
      BY <1>2
    <3>2. At(h, M, 2) = At(h, L, 1)
      BY <1>3, <3>1
    <3> QED BY <1>3, <1>4, <2>2, <3>1, <3>2
  <2>3. CASE i > 2
    <3>1. /\ i - 1 \in 1..(n + 1) /\ (i - 1) + 1 = i /\ i - 1 # 1
          /\ i - 2 \in 1..(n + 1) /\ (i - 2) + 1 = i - 1 /\ (i - 1) - 1 = i - 2
          /\ 1 \in 1..(n + 1) /\ i - 1 \in Int
      BY <1>2, <2>3
    <3>2. At(h, M, i) = At(h, L, i - 1) /\ At(h, M, i - 1) = At(h, L, i - 2)
      BY <1>3, <3>1
    <3>3. At(h, L, i - 1) # nx[h] /\ At(h, L, i - 1) \in S \cup {h}
      BY <1>2, <1>4, <1>5, <3>1
    <3>4. pv[At(h, L, i - 1)] = At(h, L, i - 2)
      BY <1>2, <3>1
    <3> QED BY <3>2, <3>3, <3>4
  <2> QED BY <1>2, <2>1, <2>2, <2>3
<1>8. Links(ny, pw, h, M)
  <2>1. 0..Len(M) = 0..(n + 1) /\ 1..(Len(M) + 1) = 1..(n + 2)
    BY <1>2, <1>3
  <2> QED BY <1>3, <1>6, <1>7, <2>1 DEF Links, Forth, Back
<1> QED BY <1>3, <1>8 DEF Ring

(* A child is taken out of a queue.                                        *)
Without(L, k) == [i \in 1..(Len(L) - 1) |-> IF i < k THEN L[i] ELSE L[i + 1]]

LEMMA WithoutFacts ==
    ASSUME NEW L \in Seq(Clients), NEW k \in 1..Len(L), NEW h \in Heads,
           Distinct(L)
    PROVE  /\ Without(L, k) \in Seq(Clients)
           /\ Len(Without(L, k)) = Len(L) - 1
           /\ \A i \in 0..(k - 1) : At(h, Without(L, k), i) = At(h, L, i)
           /\ \A i \in k..Len(L) : At(h, Without(L, k), i) = At(h, L, i + 1)
           /\ Elements(Without(L, k)) = Elements(L) \ {L[k]}
           /\ Distinct(Without(L, k))
<1> DEFINE M == Without(L, k)
           n == Len(L)
<1>1. n \in Nat /\ k \in 1..n /\ \A i \in 1..n : L[i] \in Clients
  OBVIOUS
<1>2. /\ M \in Seq(Clients) /\ Len(M) = n - 1
      /\ \A i \in 1..(n - 1) : M[i] = IF i < k THEN L[i] ELSE L[i + 1]
  <2>1. \A i \in 1..(n - 1) : i \in 1..n /\ i + 1 \in 1..n
    BY <1>1
  <2>2. \A i \in 1..(n - 1) : (IF i < k THEN L[i] ELSE L[i + 1]) \in Clients
    BY <1>1, <2>1
  <2> QED BY <1>1, <2>2 DEF Without
<1> HIDE DEF M, n
<1>3. ASSUME NEW i \in 0..(k - 1) PROVE At(h, M, i) = At(h, L, i)
  <2>1. i \in 1..Len(M) <=> i \in 1..n
    BY <1>1, <1>2
  <2>2. i \in 1..Len(M) => M[i] = L[i]
    BY <1>1, <1>2
  <2> QED BY <2>1, <2>2 DEF At, n
<1>4. ASSUME NEW i \in k..n PROVE At(h, M, i) = At(h, L, i + 1)
  <2>1. i \in 1..Len(M) <=> i + 1 \in 1..n
    BY <1>1, <1>2
  <2>2. i \in 1..Len(M) => M[i] = L[i + 1]
    BY <1>1, <1>2
  <2> QED BY <2>1, <2>2 DEF At, n
<1>5. Distinct(M)
  <2>1. ASSUME NEW i \in 1..(n - 1), NEW j \in 1..(n - 1), M[i] = M[j]
        PROVE  i = j
    <3> DEFINE f(m) == IF m < k THEN m ELSE m + 1
    <3>1. /\ f(i) \in 1..n /\ M[i] = L[f(i)]
          /\ f(j) \in 1..n /\ M[j] = L[f(j)]
      BY <1>1, <1>2
    <3>2. f(i) = f(j)
      BY <2>1, <3>1 DEF Distinct, n
    <3> QED BY <1>1, <3>2
  <2> QED BY <1>2, <2>1 DEF Distinct
<1>6. Elements(M) = Elements(L) \ {L[k]}
  <2>1. ASSUME NEW i \in 1..(n - 1) PROVE M[i] \in Elements(L) \ {L[k]}
    <3>1. CASE i < k
      <4>1. i \in 1..n /\ i # k /\ M[i] = L[i]
        BY <1>1, <1>2, <3>1
      <4> QED BY <1>1, <4>1 DEF Elements, Distinct, n
    <3>2. CASE i >= k
      <4>1. i + 1 \in 1..n /\ i + 1 # k /\ M[i] = L[i + 1]
        BY <1>1, <1>2, <3>2
      <4> QED BY <1>1, <4>1 DEF Elements, Distinct, n
    <3> QED BY <1>1, <3>1, <3>2
  <2>2. ASSUME NEW i \in 1..n, L[i] # L[k] PROVE L[i] \in Elements(M)
    <3>1. CASE i < k
      <4>1. i \in 1..(n - 1) /\ M[i] = L[i]
        BY <1>1, <1>2, <3>1
      <4> QED BY <1>2, <4>1 DEF Elements
    <3>2. CASE i > k
      <4>1. i - 1 \in 1..(n - 1) /\ M[i - 1] = L[i]
        BY <1>1, <1>2, <3>2
      <4> QED BY <1>2, <4>1 DEF Elements
    <3> QED BY <1>1, <2>2, <3>1, <3>2
  <2>3. /\ Elements(M) = {M[i] : i \in 1..(n - 1)}
        /\ Elements(L) = {L[i] : i \in 1..n}
    BY <1>2 DEF Elements, n
  <2> QED BY <2>1, <2>2, <2>3
<1> QED BY <1>2, <1>3, <1>4, <1>5, <1>6 DEF M, n

LEMMA RingDel ==
    ASSUME NEW h \in Heads, NEW S, NEW nx, NEW pv, NEW ny, NEW pw,
           NEW c \in S, Ring(nx, pv, h, S),
           ny[pv[c]] = nx[c], pw[nx[c]] = pv[c],
           \A x \in (S \cup {h}) \ {c} :
               /\ x # pv[c] => ny[x] = nx[x]
               /\ x # nx[c] => pw[x] = pv[x]
    PROVE  Ring(ny, pw, h, S \ {c})
<1>1. PICK L \in Seq(Clients) : Links(nx, pv, h, L) /\ Elements(L) = S
  BY DEF Ring
<1>2. PICK k \in 1..Len(L) : L[k] = c
  BY <1>1 DEF Elements
<1> DEFINE M == Without(L, k)
           n == Len(L)
<1>3. /\ n \in Nat /\ k \in 1..n
      /\ \A i \in Int : At(h, L, i) \in S \cup {h}
      /\ \A i \in 0..n : nx[At(h, L, i)] = At(h, L, i + 1)
      /\ \A i \in 1..(n + 1) : pv[At(h, L, i)] = At(h, L, i - 1)
      /\ At(h, L, k) = c
  <2>1. \A i \in Int : At(h, L, i) \in S \cup {h}
    BY <1>1 DEF At, Elements
  <2>2. /\ \A i \in 0..n : nx[At(h, L, i)] = At(h, L, i + 1)
        /\ \A i \in 1..(n + 1) : pv[At(h, L, i)] = At(h, L, i - 1)
    BY <1>1 DEF Links, Forth, Back
  <2>3. n \in Nat /\ k \in 1..n /\ At(h, L, k) = c
    BY <1>2, AtFacts
  <2> QED BY <2>1, <2>2, <2>3
<1>4. /\ M \in Seq(Clients) /\ Len(M) = n - 1
      /\ \A i \in 0..(k - 1) : At(h, M, i) = At(h, L, i)
      /\ \A i \in k..n : At(h, M, i) = At(h, L, i + 1)
      /\ Elements(M) = S \ {c} /\ Distinct(M)
  BY <1>1, <1>2, WithoutFacts DEF Links
<1>5. /\ \A i, j \in 0..n : At(h, L, i) = At(h, L, j) => i = j
      /\ \A i, j \in 1..(n + 1) : At(h, L, i) = At(h, L, j) => i = j
  BY <1>1, PlacesDiffer DEF Links
<1> HIDE DEF M, n
<1>6. nx[c] = At(h, L, k + 1) /\ pv[c] = At(h, L, k - 1)
  <2>1. k \in 0..n /\ k \in 1..(n + 1)
    BY <1>3
  <2> QED BY <1>3, <2>1
<1>7. ASSUME NEW i \in 0..(n - 1) PROVE ny[At(h, M, i)] = At(h, M, i + 1)
  <2>1. CASE i = k - 1
    <3>1. k - 1 \in 0..(k - 1) /\ k \in k..n /\ (k - 1) + 1 = k
      BY <1>3
    <3>2. At(h, M, k - 1) = At(h, L, k - 1) /\ At(h, M, k) = At(h, L, k + 1)
      BY <1>4, <3>1
    <3> QED BY <1>6, <2>1, <3>1, <3>2
  <2>2. CASE i < k - 1
    <3>1. /\ i \in 0..n /\ i \in 0..(k - 1) /\ i + 1 \in 0..(k - 1)
          /\ k \in 0..n /\ k - 1 \in 0..n /\ i # k /\ i # k - 1 /\ i \in Int
      BY <1>3, <2>2
    <3>2. At(h, M, i) = At(h, L, i) /\ At(h, M, i + 1) = At(h, L, i + 1)
      BY <1>4, <3>1
    <3>3. /\ At(h, L, i) # c /\ At(h, L, i) # pv[c]
          /\ At(h, L, i) \in S \cup {h}
      BY <1>3, <1>5, <1>6, <3>1
    <3>4. ny[At(h, L, i)] = nx[At(h, L, i)]
      BY <3>3
    <3> QED BY <1>3, <3>1, <3>2, <3>4
  <2>3. CASE i >= k
    <3>1. /\ i + 1 \in 0..n /\ i \in k..n /\ i + 1 \in k..n
          /\ k \in 0..n /\ k - 1 \in 0..n /\ i + 1 # k /\ i + 1 # k - 1
          /\ i + 1 \in Int
      BY <1>3, <2>3
    <3>2. /\ At(h, M, i) = At(h, L, i + 1)
          /\ At(h, M, i + 1) = At(h, L, (i + 1) + 1)
      BY <1>4, <3>1
    <3>3. /\ At(h, L, i + 1) # c /\ At(h, L, i + 1) # pv[c]
          /\ At(h, L, i + 1) \in S \cup {h}
      BY <1>3, <1>5, <1>6, <3>1
    <3>4. ny[At(h, L, i + 1)] = nx[At(h, L, i + 1)]
      BY <3>3
    <3> QED BY <1>3, <3>1, <3>2, <3>4
  <2> QED BY <1>3, <2>1, <2>2, <2>3
<1>8. ASSUME NEW i \in 1..n PROVE pw[At(h, M, i)] = At(h, M, i - 1)
  <2>1. CASE i = k
    <3>1. k - 1 \in 0..(k - 1) /\ k \in k..n
      BY <1>3
    <3>2. At(h, M, k - 1) = At(h, L, k - 1) /\ At(h, M, k) = At(h, L, k + 1)
      BY <1>4, <3>1
    <3> QED BY <1>6, <2>1, <3>2
  <2>2. CASE i < k
    <3>1. /\ i \in 1..(n + 1) /\ i \in 0..(k - 1) /\ i - 1 \in 0..(k - 1)
          /\ k \in 1..(n + 1) /\ k + 1 \in 1..(n + 1) /\ i # k /\ i # k + 1
          /\ i \in Int
      BY <1>3, <2>2
    <3>2. At(h, M, i) = At(h, L, i) /\ At(h, M, i - 1) = At(h, L, i - 1)
      BY <1>4, <3>1
    <3>3. /\ At(h, L, i) # c /\ At(h, L, i) # nx[c]
          /\ At(h, L, i) \in S \cup {h}
      BY <1>3, <1>5, <1>6, <3>1
    <3>4. pw[At(h, L, i)] = pv[At(h, L, i)]
      BY <3>3
    <3> QED BY <1>3, <3>1, <3>2, <3>4
  <2>3. CASE i > k
    <3>1. /\ i + 1 \in 1..(n + 1) /\ i \in k..n /\ i - 1 \in k..n
          /\ (i - 1) + 1 = i /\ (i + 1) - 1 = i
          /\ k \in 1..(n + 1) /\ k + 1 \in 1..(n + 1)
          /\ i + 1 # k /\ i + 1 # k + 1 /\ i + 1 \in Int
      BY <1>3, <2>3
    <3>2. At(h, M, i) = At(h, L, i + 1) /\ At(h, M, i - 1) = At(h, L, i)
      BY <1>4, <3>1
    <3>3. /\ At(h, L, i + 1) # c /\ At(h, L, i + 1) # nx[c]
          /\ At(h, L, i + 1) \in S \cup {h}
      BY <1>3, <1>5, <1>6, <3>1
    <3>4. pw[At(h, L, i + 1)] = pv[At(h, L, i + 1)]
      BY <3>3
    <3> QED BY <1>3, <3>1, <3>2, <3>4
  <2> QED BY <1>3, <2>1, <2>2, <2>3
<1>9. Links(ny, pw, h, M)
  <2>1. 0..Len(M) = 0..(n - 1) /\ 1..(Len(M) + 1) = 1..n
    BY <1>3, <1>4
  <2> QED BY <1>4, <1>7, <1>8, <2>1 DEF Links, Forth, Back
<1> QED BY <1>4, <1>9 DEF Ring

(* A set of numbers has a least one.                                       *)
LEMMA NatMinimum ==
    ASSUME NEW T, T \subseteq Nat, T # {}
    PROVE  \E k \in T : \A j \in T : k <= j
<1>1. PICK k \in T : \A j \in T : ~(<<j, k>> \in OpToRel(<, Nat))
  BY NatLessThanWellFounded, WFMin
<1>2. \A j \in T : ~(j < k)
  BY <1>1 DEF OpToRel
<1> QED BY <1>2


(* No queue is longer than there are clients.                              *)
LEMMA QueueFits ==
    ASSUME NEW L \in Seq(Clients), Distinct(L)
    PROVE  /\ Len(L) <= Cardinality(Clients)
           /\ Len(L) \in Nat /\ Cardinality(Clients) \in Nat
<1>1. Len(L) \in Nat /\ \A i \in 1..Len(L) : L[i] \in Clients
  OBVIOUS
<1>2. L \in Injection(1..Len(L), Clients)
  BY <1>1 DEF Injection, Distinct, IsInjective
<1>3. Cardinality(1..Len(L)) = Len(L)
  <2>1. ASSUME NEW n \in Nat PROVE Cardinality(1..n) = n
    BY FS_Interval
  <2> QED BY <1>1, <2>1
<1>4. IsFiniteSet(Clients)
  BY ListenAssumption
<1> QED BY <1>1, <1>2, <1>3, <1>4, FS_Injection, FS_CardinalityType

(* What list_for_each meets.                                               *)
LEMMA WalkValues ==
    ASSUME NEW L \in Seq(Clients), NEW h \in Heads, Links(nxt, prv, h, L)
    PROVE  \A k \in 0..Cardinality(Clients) : Walk(h)[k] = At(h, L, k + 1)
<1> DEFINE D == 0..Cardinality(Clients)
           W == Walk(h)
           g == [k \in D |-> At(h, L, k + 1)]
           Rule(f) == f = [k \in D |->
                             IF k = 0 THEN nxt[h]
                             ELSE IF f[k - 1] = h THEN h ELSE nxt[f[k - 1]]]
<1>1. D \subseteq Nat /\ \A k \in D : k # 0 => k - 1 \in D
  BY QueueFits DEF Links
<1>2. ASSUME NEW k \in D
      PROVE  g[k] = IF k = 0 THEN nxt[h]
                    ELSE IF g[k - 1] = h THEN h ELSE nxt[g[k - 1]]
  <2>1. CASE k = 0
    <3>1. nxt[At(h, L, 0)] = At(h, L, 0 + 1)
      BY AtFacts DEF Links, Forth
    <3> QED BY <2>1, <3>1, AtFacts
  <2>2. CASE k # 0
    <3>1. g[k] = At(h, L, k + 1) /\ g[k - 1] = At(h, L, k) /\ k \in Nat
      BY <1>1, <2>2
    <3>2. CASE k <= Len(L)
      <4>1. k \in 1..Len(L) /\ k \in 0..Len(L)
        BY <2>2, <3>1, <3>2, AtFacts
      <4>2. nxt[At(h, L, k)] = At(h, L, k + 1) /\ At(h, L, k) # h
        BY <4>1, AtFacts DEF Links, Forth
      <4> QED BY <2>2, <3>1, <4>2
    <3>3. CASE k > Len(L)
      <4>1. At(h, L, k) = h /\ At(h, L, k + 1) = h
        BY <3>1, <3>3, AtFacts DEF At
      <4> QED BY <2>2, <3>1, <4>1
    <3> QED BY <3>1, <3>2, <3>3, AtFacts
  <2> QED BY <2>1, <2>2
<1>3. Rule(g)
  BY <1>2
<1>4. Rule(W)
  BY <1>3, Zenon DEF Walk
<1>5. ASSUME NEW k \in D, W[k] # g[k] PROVE FALSE
  <2> DEFINE T == {j \in D : W[j] # g[j]}
  <2>1. T \subseteq Nat /\ T # {}
    BY <1>1, <1>5
  <2>2. PICK m \in T : \A j \in T : m <= j
    <3> HIDE DEF T
    <3> QED BY <2>1, NatMinimum
  <2>3. m \in D /\ m \in Nat /\ W[m] # g[m]
    BY <1>1
  <2>4. m # 0 => m - 1 \in D /\ W[m - 1] = g[m - 1]
    BY <1>1, <2>2, <2>3
  <2> HIDE DEF g, T, W
  <2>5. W[m] = IF m = 0 THEN nxt[h]
               ELSE IF W[m - 1] = h THEN h ELSE nxt[W[m - 1]]
    BY <1>4, <2>3
  <2>6. g[m] = IF m = 0 THEN nxt[h]
               ELSE IF g[m - 1] = h THEN h ELSE nxt[g[m - 1]]
    BY <1>2, <2>3
  <2> QED BY <2>3, <2>4, <2>5, <2>6
<1> QED BY <1>5

(* list_for_each meets the children of the ring and no others.             *)
LEMMA RingMembers ==
    ASSUME NEW h \in Heads, NEW S, Ring(nxt, prv, h, S)
    PROVE  Members(h) = S
<1>1. PICK L \in Seq(Clients) : Links(nxt, prv, h, L) /\ Elements(L) = S
  BY DEF Ring
<1>2. \A k \in 0..Cardinality(Clients) : Walk(h)[k] = At(h, L, k + 1)
  BY <1>1, WalkValues
<1>3. /\ Len(L) <= Cardinality(Clients) /\ Len(L) \in Nat
      /\ Cardinality(Clients) \in Nat
  BY <1>1, QueueFits DEF Links
<1>4. ASSUME NEW k \in 0..Cardinality(Clients), Walk(h)[k] # h
      PROVE  Walk(h)[k] \in S
  BY <1>1, <1>2, <1>4 DEF At, Elements
<1>5. ASSUME NEW c \in S
      PROVE  c # h /\ \E k \in 0..Cardinality(Clients) : Walk(h)[k] = c
  <2>1. PICK i \in 1..Len(L) : L[i] = c
    BY <1>1 DEF Elements
  <2>2. At(h, L, i) = c /\ c # h
    BY <2>1, AtFacts
  <2>3. i - 1 \in 0..Cardinality(Clients) /\ (i - 1) + 1 = i
    BY <1>3
  <2> QED BY <1>2, <2>2, <2>3
<1> QED BY <1>4, <1>5 DEF Members

-----------------------------------------------------------------------------
(* The links as they will be when the threads have finished the list_add   *)
(* or the list_del they are in.                                            *)
NextLinks ==
    IF rx_pc = "add2"
    THEN [nxt EXCEPT ![rx_child] = nxt["accept"], !["accept"] = rx_child]
    ELSE IF rx_pc = "add3" THEN [nxt EXCEPT !["accept"] = rx_child]
    ELSE nxt

PrevLinks ==
    IF rx_pc = "add2" THEN [prv EXCEPT ![rx_child] = "accept"]
    ELSE IF app_pc = "relink" THEN [prv EXCEPT ![after] = before]
    ELSE prv

(* What they will hold: a child leaves listen_queue with list_del, enters  *)
(* accept_queue with the first statement of list_add and leaves it with    *)
(* the first one that removes it.                                          *)
Opening ==
    {c \in Clients : cstate[c] = "SYN_RECEIVED"
                         /\ ~(rx_pc # "idle" /\ c = rx_child)}

Entering == {c \in Clients : rx_pc \in {"add2", "add3"} /\ c = rx_child}

Taken == {c \in Nodes : app_pc \in {"relink", "init"} /\ c = newtsk}

Waiting == (Queued \cup Entering) \ (Returned \cup Taken)

(* The queues are whole, but for what the threads have still to do.        *)
QueuesWhole ==
    /\ Ring(NextLinks, PrevLinks, "accept", Waiting)
    /\ Ring(NextLinks, PrevLinks, "listen", Opening)

(* No child is taken or returned twice, or before it is in the queue.      *)
OutOnce ==
    /\ \A j, k \in DOMAIN accepted : accepted[j] = accepted[k] => j = k
    /\ Returned \subseteq Queued
    /\ Taken \subseteq Queued \ Returned

(* What the threads have read is still so.                                 *)
ReadsHold ==
    /\ app_pc = "first" => nxt["accept"] # "accept"
    /\ app_pc \in {"links", "unlink"} => newtsk \in Waiting
    /\ app_pc = "unlink" => before = prv[newtsk] /\ after = nxt[newtsk]
    /\ app_pc = "relink" => after \in Waiting \cup {"accept"}
    /\ rx_pc = "add3" => nxt[rx_child] = nxt["accept"]

Intact == QueuesWhole /\ OutOnce /\ ReadsHold /\ ~Overlapping

QueueInv == ~clash => Intact

-----------------------------------------------------------------------------
(* The sets of children do not meet.                                       *)
LEMMA SetFacts ==
    ASSUME TypeInv, ListenInv, Intact
    PROVE  /\ Waiting \subseteq Clients /\ Opening \subseteq Clients
           /\ Waiting \cap Opening = {}
           /\ "accept" \notin Opening \cup {"listen"}
           /\ "listen" \notin Waiting \cup {"accept"}
           /\ rx_pc \in {"add1", "add2", "add3"} => rx_child \notin Queued
           /\ rx_pc # "idle" => rx_child \notin Opening /\ rx_child \in Clients
           /\ rx_pc \in {"add2", "add3"} => rx_child \in Waiting
           /\ rx_pc = "add1" => rx_child \notin Waiting
           /\ Taken \cap Waiting = {} /\ Taken \cap Opening = {}
<1>1. rx_pc # "idle" => cstate[rx_child] = "SYN_RECEIVED" /\ rx_child \in Clients
  BY DEF ListenInv, Completing, TypeInv
<1>2. Waiting \subseteq Clients /\ Opening \subseteq Clients
  BY DEF Waiting, Opening, Queued, Entering
<1>3. (Queued \cup Entering) \cap Opening = {}
  BY DEF Opening, Queued, Entering
<1>4. rx_pc \in {"add1", "add2", "add3"} => rx_child \notin Queued
  BY <1>1 DEF Queued
<1>5. /\ Returned \subseteq Queued /\ Taken \subseteq Queued
  BY DEF Intact, OutOnce
<1>6. rx_pc \in {"add2", "add3"} => rx_child \in Entering
  BY <1>1 DEF Entering
<1>7. rx_pc = "add1" => Entering = {}
  BY DEF Entering
<1>8. rx_pc # "idle" => rx_child \notin Opening
  BY DEF Opening
<1> QED BY <1>1, <1>2, <1>3, <1>4, <1>5, <1>6, <1>7, <1>8, NodeFacts
        DEF Waiting, Heads

(* While no thread is in the middle of it, the links are what they are.    *)
LEMMA LinksPlain ==
    /\ rx_pc \notin {"add2", "add3"} => NextLinks = nxt
    /\ rx_pc # "add2" /\ app_pc # "relink" => PrevLinks = prv
BY DEF NextLinks, PrevLinks

LEMMA LinksPlainNext ==
    /\ rx_pc' \notin {"add2", "add3"} => NextLinks' = nxt'
    /\ rx_pc' # "add2" /\ app_pc' # "relink" => PrevLinks' = prv'
BY DEF NextLinks, PrevLinks

(* What the head leads to is in the queue, also when a child is just being *)
(* linked there.                                                           *)
LEMMA FrontNode ==
    ASSUME TypeInv, ListenInv, Intact
    PROVE  nxt["accept"] \in Waiting \cup {"accept"}
<1>1. /\ \A x \in Waiting \cup {"accept"} :
             NextLinks[x] \in Waiting \cup {"accept"}
  BY RingClosed DEF Intact, QueuesWhole, Heads
<1>2. CASE rx_pc \notin {"add2", "add3"}
  BY <1>1, <1>2, LinksPlain
<1>3. CASE rx_pc \in {"add2", "add3"}
  <2>1. /\ rx_child \in Waiting /\ rx_child # "accept" /\ rx_child \in Nodes
        /\ nxt \in [Nodes -> Nodes] /\ "accept" \in Nodes
    BY <1>3, SetFacts, NodeFacts DEF TypeInv, TypeOK, Heads
  <2>2. NextLinks[rx_child] = nxt["accept"]
    BY <1>3, <2>1 DEF NextLinks, Intact, ReadsHold
  <2> QED BY <1>1, <2>1, <2>2
<1> QED BY <1>2, <1>3

(* A step that leaves the lists and the children alone.                    *)
LEMMA IntactSame ==
    ASSUME Intact,
           UNCHANGED <<nxt, prv, cstate, rx_pc, rx_child, accepted, newtsk,
                       before, after>>,
           app_pc' = app_pc
               \/ (/\ app_pc \notin {"first", "links", "unlink", "relink", "init"}
                   /\ app_pc' \notin {"first", "links", "unlink", "relink", "init"})
    PROVE  Intact'
<1>1. /\ NextLinks' = NextLinks /\ PrevLinks' = PrevLinks
      /\ Taken' = Taken /\ Queued' = Queued /\ Entering' = Entering
      /\ Returned' = Returned /\ Opening' = Opening
      /\ Overlapping' = Overlapping
  BY DEF NextLinks, PrevLinks, Taken, Queued, Entering, Returned, Opening,
         Overlapping
<1>2. Waiting' = Waiting
  BY <1>1 DEF Waiting
<1>3. QueuesWhole'
  BY <1>1, <1>2 DEF Intact, QueuesWhole
<1>4. OutOnce'
  BY <1>1 DEF Intact, OutOnce
<1>5. ReadsHold'
  BY <1>2 DEF Intact, ReadsHold
<1> QED BY <1>1, <1>3, <1>4, <1>5 DEF Intact

-----------------------------------------------------------------------------
(* accept finds the queue filled, and takes the first child.               *)
LEMMA IntactFirst ==
    ASSUME TypeInv, ListenInv, Intact, tcp_accept \/ DequeueFirst
    PROVE  Intact'
<1>1. /\ UNCHANGED <<nxt, prv, cstate, rx_pc, rx_child, accepted, before, after>>
      /\ app_pc \in {"check", "first"} /\ app_pc' \in {"sleep", "first", "links"}
  BY DEF tcp_accept, DequeueFirst, linkVars, rxVars
<1>2. /\ NextLinks' = NextLinks /\ PrevLinks' = PrevLinks
      /\ Taken = {} /\ Taken' = {} /\ Queued' = Queued
      /\ Entering' = Entering /\ Returned' = Returned /\ Opening' = Opening
      /\ ~Overlapping'
  BY <1>1 DEF NextLinks, PrevLinks, Taken, Queued, Entering, Returned, Opening,
              Overlapping
<1>3. Waiting' = Waiting
  BY <1>2 DEF Waiting
<1>4. QueuesWhole'
  BY <1>2, <1>3 DEF Intact, QueuesWhole
<1>5. OutOnce'
  BY <1>1, <1>2 DEF Intact, OutOnce
<1>6. /\ app_pc' = "first" => nxt["accept"] # "accept"
      /\ app_pc' = "links" => newtsk' \in Waiting
  <2>1. CASE tcp_accept
    BY <2>1 DEF tcp_accept, list_empty
  <2>2. CASE DequeueFirst
    <3>1. app_pc = "first" /\ newtsk' = nxt["accept"] /\ app_pc' = "links"
      BY <2>2 DEF DequeueFirst, list_first_entry
    <3>2. nxt["accept"] # "accept"
      BY <3>1 DEF Intact, ReadsHold
    <3> QED BY <3>1, <3>2, FrontNode
  <2> QED BY <2>1, <2>2
<1>7. ReadsHold'
  BY <1>1, <1>3, <1>6 DEF Intact, ReadsHold
<1> QED BY <1>2, <1>4, <1>5, <1>7 DEF Intact

LEMMA IntactLinks ==
    ASSUME Intact, DequeueLinks, ~Overlapping'
    PROVE  Intact'
<1>1. /\ UNCHANGED <<nxt, prv, cstate, rx_pc, rx_child, accepted, newtsk>>
      /\ app_pc = "links" /\ app_pc' = "unlink"
      /\ before' = prv[newtsk] /\ after' = nxt[newtsk]
  BY DEF DequeueLinks, linkVars, rxVars
<1>2. /\ NextLinks' = NextLinks /\ PrevLinks' = PrevLinks
      /\ Taken' = Taken /\ Queued' = Queued
      /\ Entering' = Entering /\ Returned' = Returned /\ Opening' = Opening
  BY <1>1 DEF NextLinks, PrevLinks, Taken, Queued, Entering, Returned, Opening
<1>3. Waiting' = Waiting
  BY <1>2 DEF Waiting
<1>4. QueuesWhole'
  BY <1>2, <1>3 DEF Intact, QueuesWhole
<1>5. OutOnce'
  BY <1>1, <1>2 DEF Intact, OutOnce
<1>6. ReadsHold'
  BY <1>1, <1>3 DEF Intact, ReadsHold
<1> QED BY <1>4, <1>5, <1>6 DEF Intact

(* The first statement of list_del takes the child out: the second is as   *)
(* good as done.                                                           *)
LEMMA IntactUnlink ==
    ASSUME TypeInv, ListenInv, Intact, DequeueUnlink, ~Overlapping'
    PROVE  Intact'
<1>1. /\ UNCHANGED <<prv, cstate, rx_pc, rx_child, accepted, newtsk, before, after>>
      /\ app_pc = "unlink" /\ app_pc' = "relink"
      /\ nxt' = [nxt EXCEPT ![before] = after]
      /\ rx_pc \notin {"add2", "add3"}
  BY DEF DequeueUnlink, rxVars, Intact, Overlapping
<1>2. /\ NextLinks = nxt /\ PrevLinks = prv
      /\ NextLinks' = nxt' /\ PrevLinks' = [prv EXCEPT ![after] = before]
  BY <1>1 DEF NextLinks, PrevLinks
<1>3. /\ newtsk \in Waiting /\ before = prv[newtsk] /\ after = nxt[newtsk]
  BY <1>1 DEF Intact, ReadsHold
<1>4. /\ Ring(nxt, prv, "accept", Waiting) /\ Ring(nxt, prv, "listen", Opening)
  BY <1>2 DEF Intact, QueuesWhole
<1>5. /\ before \in Waiting \cup {"accept"} /\ after \in Waiting \cup {"accept"}
      /\ after # newtsk /\ Waiting \subseteq Clients
  BY <1>3, <1>4, RingClosed DEF Heads
<1>6. /\ before \in Nodes /\ after \in Nodes
      /\ nxt \in [Nodes -> Nodes] /\ prv \in [Nodes -> Nodes]
      /\ Waiting \cup {"accept"} \subseteq Nodes
      /\ Opening \cup {"listen"} \subseteq Nodes
  BY <1>5, NodeFacts, SetFacts DEF TypeInv, TypeOK, Heads
<1>7. Ring(NextLinks', PrevLinks', "accept", Waiting \ {newtsk})
  <2> DEFINE ny == [nxt EXCEPT ![before] = after]
             pw == [prv EXCEPT ![after] = before]
  <2>1. /\ ny[prv[newtsk]] = nxt[newtsk] /\ pw[nxt[newtsk]] = prv[newtsk]
        /\ \A x \in (Waiting \cup {"accept"}) \ {newtsk} :
               /\ x # prv[newtsk] => ny[x] = nxt[x]
               /\ x # nxt[newtsk] => pw[x] = prv[x]
    BY <1>3, <1>6
  <2> HIDE DEF ny, pw
  <2>2. Ring(ny, pw, "accept", Waiting \ {newtsk})
    BY <1>3, <1>4, <2>1, RingDel DEF Heads
  <2> QED BY <1>1, <1>2, <2>2 DEF ny, pw
<1>8. Ring(NextLinks', PrevLinks', "listen", Opening)
  <2> DEFINE ny == [nxt EXCEPT ![before] = after]
             pw == [prv EXCEPT ![after] = before]
  <2>1. before \notin Opening \cup {"listen"} /\ after \notin Opening \cup {"listen"}
    BY <1>5, SetFacts
  <2>2. \A x \in Opening \cup {"listen"} : ny[x] = nxt[x] /\ pw[x] = prv[x]
    BY <1>6, <2>1
  <2> HIDE DEF ny, pw
  <2>3. Ring(ny, pw, "listen", Opening)
    BY <1>4, <2>2, RingSame DEF Heads
  <2> QED BY <1>1, <1>2, <2>3 DEF ny, pw
<1>9. /\ Queued' = Queued /\ Entering' = Entering /\ Returned' = Returned
      /\ Opening' = Opening /\ Taken = {} /\ Taken' = {newtsk} /\ Entering = {}
  BY <1>1 DEF Taken, Queued, Entering, Returned, Opening, TypeInv, TypeOK
<1>10. Waiting' = Waiting \ {newtsk} /\ newtsk \in Queued \ Returned
  BY <1>3, <1>9 DEF Waiting
<1>11. QueuesWhole'
  BY <1>7, <1>8, <1>9, <1>10 DEF QueuesWhole
<1>12. OutOnce'
  BY <1>1, <1>9, <1>10 DEF Intact, OutOnce
<1>13. ReadsHold'
  BY <1>1, <1>5, <1>10 DEF ReadsHold
<1> QED BY <1>11, <1>12, <1>13 DEF Intact

LEMMA IntactRelink ==
    ASSUME TypeInv, Intact, DequeueRelink
    PROVE  Intact'
<1>1. /\ UNCHANGED <<nxt, cstate, rx_pc, rx_child, accepted, newtsk, before, after>>
      /\ app_pc = "relink" /\ app_pc' = "init"
      /\ prv' = [prv EXCEPT ![after] = before]
      /\ rx_pc \notin {"add2", "add3"}
  BY DEF DequeueRelink, rxVars, Intact, Overlapping
<1>2. /\ NextLinks' = NextLinks /\ PrevLinks' = PrevLinks
      /\ Taken' = Taken /\ Queued' = Queued /\ Entering' = Entering
      /\ Returned' = Returned /\ Opening' = Opening /\ ~Overlapping'
  BY <1>1 DEF NextLinks, PrevLinks, Taken, Queued, Entering, Returned, Opening,
              Overlapping
<1>3. Waiting' = Waiting
  BY <1>2 DEF Waiting
<1>4. QueuesWhole'
  BY <1>2, <1>3 DEF Intact, QueuesWhole
<1>5. OutOnce'
  BY <1>1, <1>2 DEF Intact, OutOnce
<1>6. ReadsHold'
  BY <1>1 DEF ReadsHold
<1> QED BY <1>2, <1>4, <1>5, <1>6 DEF Intact

(* The child is out of the queue already when its links are reset.         *)
LEMMA IntactInit ==
    ASSUME TypeInv, ListenInv, Intact, DequeueInit
    PROVE  Intact'
<1>1. /\ UNCHANGED <<cstate, rx_pc, rx_child>>
      /\ app_pc = "init" /\ app_pc' = "ready"
      /\ nxt' = [nxt EXCEPT ![newtsk] = newtsk]
      /\ prv' = [prv EXCEPT ![newtsk] = newtsk]
      /\ accepted' = Append(accepted, newtsk)
  BY DEF DequeueInit, rxVars
<1>2. /\ Queued' = Queued /\ Entering' = Entering /\ Opening' = Opening
      /\ Taken = {newtsk} /\ Taken' = {} /\ ~Overlapping'
  BY <1>1 DEF Taken, Queued, Entering, Opening, Overlapping, TypeInv, TypeOK
<1>3. newtsk \in Queued \ Returned
  BY <1>2 DEF Intact, OutOnce
<1>4. /\ accepted \in Seq(Nodes) /\ Len(accepted) \in Nat
      /\ Len(accepted') = Len(accepted) + 1
      /\ DOMAIN accepted' = 1..(Len(accepted) + 1)
      /\ \A k \in 1..Len(accepted) : accepted'[k] = accepted[k]
      /\ accepted'[Len(accepted) + 1] = newtsk
      /\ DOMAIN accepted = 1..Len(accepted)
  BY <1>1 DEF TypeInv, TypeOK
<1>5. Returned' = Returned \cup {newtsk}
  BY <1>4 DEF Returned
<1>6. Waiting' = Waiting
  BY <1>2, <1>5 DEF Waiting
<1>7. OutOnce'
  <2>1. \A k \in DOMAIN accepted : accepted[k] # newtsk
    BY <1>3 DEF Returned
  <2>2. \A j, k \in DOMAIN accepted : accepted[j] = accepted[k] => j = k
    BY DEF Intact, OutOnce
  <2>3. \A j \in DOMAIN accepted' :
            j \in DOMAIN accepted \/ j = Len(accepted) + 1
    BY <1>4
  <2>4. \A j, k \in DOMAIN accepted' : accepted'[j] = accepted'[k] => j = k
    BY <1>4, <2>1, <2>2, <2>3
  <2>5. Returned' \subseteq Queued'
    BY <1>2, <1>3, <1>5 DEF Intact, OutOnce
  <2> QED BY <1>2, <2>4, <2>5 DEF OutOnce
<1>8. /\ newtsk \in Nodes /\ newtsk \in Clients
      /\ newtsk \notin Waiting /\ newtsk \notin Opening
      /\ newtsk \notin {"accept", "listen"}
      /\ rx_pc \in {"add1", "add2", "add3"} => newtsk # rx_child
      /\ nxt \in [Nodes -> Nodes] /\ prv \in [Nodes -> Nodes]
      /\ rx_pc # "idle" => rx_child \in Nodes
      /\ "accept" \in Nodes
      /\ Waiting \cup {"accept"} \subseteq Nodes
      /\ Opening \cup {"listen"} \subseteq Nodes
  <2>1. newtsk \in Clients /\ newtsk \in Nodes
    BY <1>3 DEF Queued, TypeInv, TypeOK
  <2> QED BY <1>2, <1>3, <2>1, SetFacts, NodeFacts DEF TypeInv, TypeOK, Heads
<1>9. \A x \in Nodes \ {newtsk} :
          NextLinks'[x] = NextLinks[x] /\ PrevLinks'[x] = PrevLinks[x]
  <2>1. CASE rx_pc = "add2"
    BY <1>1, <1>8, <2>1 DEF NextLinks, PrevLinks
  <2>2. CASE rx_pc = "add3"
    BY <1>1, <1>8, <2>2 DEF NextLinks, PrevLinks
  <2>3. CASE rx_pc \notin {"add2", "add3"}
    BY <1>1, <1>8, <2>3 DEF NextLinks, PrevLinks
  <2> QED BY <2>1, <2>2, <2>3
<1>10. QueuesWhole'
  <2>1. /\ \A x \in Waiting \cup {"accept"} :
               NextLinks'[x] = NextLinks[x] /\ PrevLinks'[x] = PrevLinks[x]
        /\ \A x \in Opening \cup {"listen"} :
               NextLinks'[x] = NextLinks[x] /\ PrevLinks'[x] = PrevLinks[x]
    BY <1>8, <1>9
  <2>2. /\ Ring(NextLinks', PrevLinks', "accept", Waiting)
        /\ Ring(NextLinks', PrevLinks', "listen", Opening)
    BY <2>1, RingSame DEF Intact, QueuesWhole, Heads
  <2> QED BY <1>2, <1>6, <2>2 DEF QueuesWhole
<1>11. ReadsHold'
  <2>1. rx_pc = "add3" => nxt'[rx_child] = nxt'["accept"]
    BY <1>1, <1>8 DEF Intact, ReadsHold
  <2> QED BY <1>1, <2>1 DEF ReadsHold
<1> QED BY <1>2, <1>7, <1>10, <1>11 DEF Intact

LEMMA IntactApp ==
    ASSUME TypeInv, ListenInv, Intact, App, ~Overlapping'
    PROVE  Intact'
<1>1. CASE \/ \E a \in {"any", "stack", "other"}, p \in {0, Port} \cup Busy :
                  inet_bind(a, p)
           \/ tcp_listen \/ CloseListener \/ RemoveListener \/ inet_accept
           \/ wait_sleep \/ WakeUp
  <2>1. /\ UNCHANGED <<nxt, prv, cstate, rx_pc, rx_child, accepted, newtsk,
                       before, after>>
        /\ app_pc \in {"ready", "closing", "sleep", "asleep"}
        /\ app_pc' \in {"ready", "closing", "stuck", "check", "asleep"}
    BY <1>1 DEF inet_bind, tcp_listen, CloseListener, RemoveListener,
        inet_accept, wait_sleep, WakeUp, appVars, linkVars, rxVars
  <2> QED BY <2>1, IntactSame
<1> QED BY <1>1, IntactFirst, IntactLinks, IntactUnlink, IntactRelink, IntactInit
    DEF App, Accept, tcp_accept_dequeue

-----------------------------------------------------------------------------
(* While the receive thread is idle the links of listen_queue are what     *)
(* they are, and what it does there does not reach the other queue.        *)
LEMMA IdleLinks ==
    ASSUME TypeInv, ListenInv, Intact, rx_pc = "idle"
    PROVE  /\ NextLinks = nxt /\ Ring(nxt, prv, "listen", Opening)
           /\ \A x \in Opening \cup {"listen"} :
                  /\ nxt[x] \in Opening \cup {"listen"}
                  /\ prv[x] \in Opening \cup {"listen"}
           /\ Entering = {}
<1>1. NextLinks = nxt
  BY DEF NextLinks
<1>2. /\ \A x \in Opening \cup {"listen"} : PrevLinks[x] = prv[x]
      /\ \A x \in Opening \cup {"listen"} : x \in Nodes
  <2>1. app_pc = "relink" => after \notin Opening \cup {"listen"}
    BY SetFacts DEF Intact, ReadsHold
  <2>2. \A x \in Opening \cup {"listen"} : x \in Nodes
    BY SetFacts, NodeFacts DEF Heads
  <2> QED BY <2>1, <2>2 DEF PrevLinks, TypeInv, TypeOK
<1>3. Ring(nxt, prv, "listen", Opening)
  <2>1. Ring(nxt, PrevLinks, "listen", Opening)
    BY <1>1 DEF Intact, QueuesWhole
  <2> QED BY <1>2, <2>1, RingSame DEF Heads
<1>4. Entering = {}
  BY DEF Entering
<1> QED BY <1>1, <1>3, <1>4, RingClosed DEF Heads

(* A step on listen_queue that makes it the ring of the children in it     *)
(* keeps everything intact.                                                *)
LEMMA IntactListening ==
    ASSUME TypeInv, ListenInv, Intact, rx_pc = "idle",
           UNCHANGED <<app_pc, newtsk, before, after, accepted>>,
           rx_pc' \in {"idle", "add1"},
           Queued' = Queued, nxt' \in [Nodes -> Nodes], prv' \in [Nodes -> Nodes],
           \A x \in Nodes : (x \in Waiting \/ x \in Taken \/ x = "accept") =>
               nxt'[x] = nxt[x] /\ prv'[x] = prv[x],
           Ring(nxt', prv', "listen", Opening')
    PROVE  Intact'
<1>1. /\ NextLinks = nxt /\ NextLinks' = nxt' /\ Entering = {} /\ Entering' = {}
      /\ Taken' = Taken /\ Returned' = Returned
  BY DEF NextLinks, Entering, Taken, Returned
<1>2. Waiting' = Waiting
  BY <1>1 DEF Waiting
<1>3. /\ PrevLinks =
             IF app_pc = "relink" THEN [prv EXCEPT ![after] = before] ELSE prv
      /\ PrevLinks' =
             IF app_pc = "relink" THEN [prv' EXCEPT ![after] = before] ELSE prv'
  BY DEF PrevLinks
<1>4. \A x \in Waiting \cup {"accept"} : x \in Nodes
  BY SetFacts, NodeFacts DEF Heads
<1>5. Ring(NextLinks', PrevLinks', "accept", Waiting')
  <2>1. \A x \in Waiting \cup {"accept"} :
            NextLinks'[x] = NextLinks[x] /\ PrevLinks'[x] = PrevLinks[x]
    BY <1>1, <1>3, <1>4 DEF TypeInv, TypeOK
  <2> QED BY <1>2, <2>1, RingSame DEF Intact, QueuesWhole, Heads
<1>6. Ring(NextLinks', PrevLinks', "listen", Opening')
  <2>1. app_pc = "relink" => after \notin Opening' \cup {"listen"}
    <3>1. Opening' \cap (Queued \cup {"accept"}) = {}
      <4>1. Opening' \cap Queued' = {} /\ Opening' \subseteq Clients
        BY DEF Opening, Queued
      <4> QED BY <4>1, NodeFacts DEF Heads
    <3>2. Waiting \subseteq Queued
      BY <1>1 DEF Waiting
    <3>3. "listen" \notin Waiting \cup {"accept"}
      BY SetFacts
    <3> QED BY <3>1, <3>2, <3>3 DEF Intact, ReadsHold
  <2>2. \A x \in Opening' \cup {"listen"} : x \in Nodes
    BY NodeFacts DEF Opening, Heads
  <2>3. \A x \in Opening' \cup {"listen"} :
            NextLinks'[x] = nxt'[x] /\ PrevLinks'[x] = prv'[x]
    BY <1>1, <1>3, <2>1, <2>2
  <2> QED BY <2>3, RingSame DEF Heads
<1>7. QueuesWhole'
  BY <1>5, <1>6 DEF QueuesWhole
<1>8. OutOnce'
  BY <1>1 DEF Intact, OutOnce
<1>9. ReadsHold'
  BY <1>2, <1>4 DEF Intact, ReadsHold
<1>10. ~Overlapping'
  BY DEF Overlapping
<1> QED BY <1>7, <1>8, <1>9, <1>10 DEF Intact

LEMMA IntactListen ==
    ASSUME TypeInv, ListenInv, Intact, NEW s \in to_server, NEW i \in ISNs,
           cstate[s.from] = "CLOSE", tcp_handle_listen(s, i), rx_pc = "idle",
           UNCHANGED appVars
    PROVE  Intact'
<1> DEFINE c == s.from
<1>1. /\ c \in Clients /\ c \in Nodes /\ c # "listen" /\ c # "accept"
      /\ nxt \in [Nodes -> Nodes] /\ prv \in [Nodes -> Nodes]
      /\ "listen" \in Nodes /\ nxt["listen"] \in Nodes
      /\ cstate \in [Clients -> {"CLOSE", "SYN_RECEIVED", "ESTABLISHED"}]
  BY NodeFacts DEF TypeInv, TypeOK, Segment, Heads
<1>2. /\ UNCHANGED <<app_pc, newtsk, before, after, accepted, rx_pc, rx_child>>
      /\ nxt' = [nxt EXCEPT !["listen"] = c, ![c] = nxt["listen"]]
      /\ prv' = [prv EXCEPT ![nxt["listen"]] = c, ![c] = "listen"]
      /\ cstate' = [cstate EXCEPT ![c] = "SYN_RECEIVED"]
  BY DEF tcp_handle_listen, LinkListening, appVars, rxVars
<1>3. /\ Ring(nxt, prv, "listen", Opening)
      /\ nxt["listen"] \in Opening \cup {"listen"}
  BY IdleLinks
<1>4. /\ c \notin Opening /\ c \notin Queued
      /\ Opening' = Opening \cup {c} /\ Queued' = Queued
  BY <1>1, <1>2 DEF Opening, Queued
<1> HIDE DEF c
<1>5. Ring(nxt', prv', "listen", Opening \cup {c})
  <2>1. \A x \in Opening \cup {"listen"} : x \in Nodes
    BY SetFacts, NodeFacts DEF Heads
  <2>2. /\ nxt'["listen"] = c /\ nxt'[c] = nxt["listen"]
        /\ prv'[nxt["listen"]] = c /\ prv'[c] = "listen"
        /\ \A x \in Opening : nxt'[x] = nxt[x]
        /\ \A x \in Opening \cup {"listen"} : x # nxt["listen"] => prv'[x] = prv[x]
    BY <1>1, <1>2, <1>3, <1>4, <2>1, SetFacts, NodeFacts DEF Heads
  <2> QED BY <1>1, <1>3, <1>4, <2>2, RingAdd DEF Heads
<1>6. \A x \in Nodes : (x \in Waiting \/ x \in Taken \/ x = "accept") =>
          nxt'[x] = nxt[x] /\ prv'[x] = prv[x]
  <2>1. Taken \subseteq Queued /\ Waiting \subseteq Queued
    BY IdleLinks DEF Intact, OutOnce, Waiting
  <2>2. /\ nxt["listen"] \notin Waiting /\ nxt["listen"] \notin Taken
        /\ nxt["listen"] # "accept"
    <3>1. Taken \subseteq Clients
      BY <2>1 DEF Queued
    <3> QED BY <1>3, <3>1, SetFacts, NodeFacts DEF Heads
  <2>3. "listen" \notin Queued /\ "listen" # "accept"
    BY NodeFacts DEF Queued, Heads
  <2> QED BY <1>1, <1>2, <1>4, <2>1, <2>2, <2>3
<1>7. nxt' \in [Nodes -> Nodes] /\ prv' \in [Nodes -> Nodes]
  BY <1>1, <1>2
<1> QED BY <1>2, <1>4, <1>5, <1>6, <1>7, IntactListening

LEMMA IntactCompleted ==
    ASSUME TypeInv, ListenInv, Intact, NEW s \in to_server,
           cstate[s.from] = "SYN_RECEIVED", SynRecvAck(s.from, s),
           rx_pc = "idle", UNCHANGED appVars
    PROVE  Intact'
<1> DEFINE c == s.from
<1>1. /\ c \in Clients /\ c \in Nodes
      /\ nxt \in [Nodes -> Nodes] /\ prv \in [Nodes -> Nodes]
  BY NodeFacts DEF TypeInv, TypeOK, Segment
<1>2. /\ UNCHANGED <<app_pc, newtsk, before, after, accepted, cstate>>
      /\ nxt' = [nxt EXCEPT ![prv[c]] = nxt[c]]
      /\ prv' = [prv EXCEPT ![nxt[c]] = prv[c]]
      /\ rx_pc' = "add1" /\ rx_child' = c
  BY DEF SynRecvAck, list_del, appVars
<1>3. c \in Opening /\ Opening' = Opening \ {c} /\ Queued' = Queued
  BY <1>1, <1>2 DEF Opening, Queued
<1>4. /\ Ring(nxt, prv, "listen", Opening)
      /\ nxt[c] \in Opening \cup {"listen"} /\ prv[c] \in Opening \cup {"listen"}
  BY <1>3, IdleLinks
<1> HIDE DEF c
<1>5. /\ \A x \in Opening \cup {"listen"} : x \in Nodes
      /\ nxt[c] \in Nodes /\ prv[c] \in Nodes
  BY <1>4, SetFacts, NodeFacts DEF Heads
<1>6. Ring(nxt', prv', "listen", Opening \ {c})
  <2>1. /\ nxt'[prv[c]] = nxt[c] /\ prv'[nxt[c]] = prv[c]
        /\ \A x \in (Opening \cup {"listen"}) \ {c} :
               /\ x # prv[c] => nxt'[x] = nxt[x]
               /\ x # nxt[c] => prv'[x] = prv[x]
    BY <1>1, <1>2, <1>5
  <2> QED BY <1>3, <1>4, <2>1, RingDel DEF Heads
<1>7. \A x \in Nodes : (x \in Waiting \/ x \in Taken \/ x = "accept") =>
          nxt'[x] = nxt[x] /\ prv'[x] = prv[x]
  <2>1. Taken \subseteq Clients
    BY DEF Intact, OutOnce, Queued
  <2>2. \A x : (x \in Waiting \/ x \in Taken \/ x = "accept") =>
                    x \notin Opening \cup {"listen"}
    BY <2>1, SetFacts, NodeFacts DEF Heads
  <2>3. \A x : (x \in Waiting \/ x \in Taken \/ x = "accept") =>
                    x # nxt[c] /\ x # prv[c]
    BY <1>4, <2>2
  <2> QED BY <1>1, <1>2, <2>3
<1>8. nxt' \in [Nodes -> Nodes] /\ prv' \in [Nodes -> Nodes]
  BY <1>1, <1>2, <1>5
<1> QED BY <1>2, <1>3, <1>6, <1>7, <1>8, IntactListening

LEMMA IntactReceive ==
    ASSUME TypeInv, ListenInv, Intact, NEW s \in to_server, tcp_in(s)
    PROVE  Intact'
<1>1. UNCHANGED appVars /\ rx_pc = "idle"
  BY DEF tcp_in
<1>2. ASSUME SynRecvReset(s.from, s) PROVE Intact'
  BY <1>1, <1>2, IntactSame DEF SynRecvReset, linkVars, rxVars, appVars
<1> QED BY <1>1, <1>2, IntactListen, IntactCompleted DEF tcp_in, tcp_process

-----------------------------------------------------------------------------
(* The first statement of list_add puts the child into the queue: the      *)
(* others are as good as done.                                             *)
LEMMA IntactAdd ==
    ASSUME TypeInv, ListenInv, Intact, EnqueuePrev, UNCHANGED appVars,
           ~Overlapping'
    PROVE  Intact'
<1>1. /\ UNCHANGED <<app_pc, newtsk, before, after, accepted, nxt, cstate, rx_child>>
      /\ rx_pc = "add1" /\ rx_pc' = "add2"
      /\ prv' = [prv EXCEPT ![nxt["accept"]] = rx_child]
      /\ app_pc \notin {"unlink", "relink"}
  BY DEF EnqueuePrev, appVars, Overlapping
<1>2. /\ rx_child \in Clients /\ rx_child \in Nodes
      /\ rx_child # "accept" /\ rx_child # "listen"
      /\ rx_child \notin Waiting /\ rx_child \notin Opening
      /\ nxt \in [Nodes -> Nodes] /\ prv \in [Nodes -> Nodes]
      /\ \A x \in Waiting \cup {"accept"} : x \in Nodes
      /\ \A x \in Opening \cup {"listen"} : x \in Nodes
  BY <1>1, SetFacts, NodeFacts DEF TypeInv, TypeOK, Heads
<1>3. nxt["accept"] \in Waiting \cup {"accept"}
  BY FrontNode
<1>4. /\ Ring(nxt, prv, "accept", Waiting) /\ Ring(nxt, prv, "listen", Opening)
  BY <1>1, LinksPlain DEF Intact, QueuesWhole
<1>5. /\ NextLinks' = [nxt EXCEPT ![rx_child] = nxt["accept"],
                                  !["accept"] = rx_child]
      /\ PrevLinks' = [[prv EXCEPT ![nxt["accept"]] = rx_child]
                           EXCEPT ![rx_child] = "accept"]
  BY <1>1 DEF NextLinks, PrevLinks
<1>6. /\ Queued' = Queued /\ Returned' = Returned /\ Taken' = Taken
      /\ Opening' = Opening /\ Entering = {} /\ Entering' = {rx_child}
  BY <1>1, <1>2 DEF Queued, Returned, Taken, Opening, Entering
<1>7. Waiting' = Waiting \cup {rx_child}
  <2>1. rx_child \notin Returned \cup Taken
    BY <1>1, SetFacts DEF Intact, OutOnce
  <2> QED BY <1>6, <2>1 DEF Waiting
<1> DEFINE ny == [nxt EXCEPT ![rx_child] = nxt["accept"], !["accept"] = rx_child]
           pw == [[prv EXCEPT ![nxt["accept"]] = rx_child]
                      EXCEPT ![rx_child] = "accept"]
<1>8. /\ ny["accept"] = rx_child /\ ny[rx_child] = nxt["accept"]
      /\ pw[nxt["accept"]] = rx_child /\ pw[rx_child] = "accept"
      /\ \A x \in Nodes : x # "accept" /\ x # rx_child => ny[x] = nxt[x]
      /\ \A x \in Nodes : x # nxt["accept"] /\ x # rx_child => pw[x] = prv[x]
  BY <1>2, <1>3
<1> HIDE DEF ny, pw
<1>9. Ring(ny, pw, "accept", Waiting \cup {rx_child})
  <2>1. /\ \A x \in Waiting : ny[x] = nxt[x]
        /\ \A x \in Waiting \cup {"accept"} : x # nxt["accept"] => pw[x] = prv[x]
    BY <1>2, <1>8, SetFacts, NodeFacts DEF Heads
  <2> QED BY <1>2, <1>4, <1>8, <2>1, RingAdd DEF Heads
<1>10. Ring(ny, pw, "listen", Opening)
  <2>1. \A x \in Opening \cup {"listen"} : ny[x] = nxt[x] /\ pw[x] = prv[x]
    BY <1>2, <1>3, <1>8, SetFacts
  <2> QED BY <1>4, <2>1, RingSame DEF Heads
<1>11. QueuesWhole'
  BY <1>5, <1>6, <1>7, <1>9, <1>10 DEF QueuesWhole, ny, pw
<1>12. OutOnce'
  BY <1>1, <1>6 DEF Intact, OutOnce
<1>13. ReadsHold'
  BY <1>1, <1>7 DEF Intact, ReadsHold
<1> QED BY <1>11, <1>12, <1>13 DEF Intact

LEMMA IntactAdding ==
    ASSUME TypeInv, ListenInv, Intact, EnqueueOwn \/ EnqueueHead,
           UNCHANGED appVars, ~Overlapping'
    PROVE  Intact'
<1>1. /\ UNCHANGED <<app_pc, newtsk, before, after, accepted, cstate, rx_child>>
      /\ rx_pc \in {"add2", "add3"} /\ rx_pc' \in {"add3", "wake"}
      /\ app_pc # "relink"
  BY DEF EnqueueOwn, EnqueueHead, appVars, Intact, Overlapping
<1>2. /\ rx_child \in Clients /\ rx_child \in Nodes /\ rx_child # "accept"
      /\ nxt \in [Nodes -> Nodes] /\ prv \in [Nodes -> Nodes]
      /\ "accept" \in Nodes
  BY <1>1, SetFacts, NodeFacts DEF TypeInv, TypeOK, Heads
<1>3. /\ NextLinks' = NextLinks /\ PrevLinks' = PrevLinks
      /\ rx_pc' = "add3" => nxt'[rx_child] = nxt'["accept"]
      /\ nxt["accept"] # "accept" => nxt'["accept"] # "accept"
  <2>1. CASE EnqueueOwn
    <3>1. /\ rx_pc = "add2" /\ rx_pc' = "add3"
          /\ nxt' = [nxt EXCEPT ![rx_child] = nxt["accept"]]
          /\ prv' = [prv EXCEPT ![rx_child] = "accept"]
      BY <2>1 DEF EnqueueOwn
    <3>2. NextLinks' = [[nxt EXCEPT ![rx_child] = nxt["accept"]]
                            EXCEPT !["accept"] = rx_child]
      BY <1>1, <3>1 DEF NextLinks
    <3>3. NextLinks = [nxt EXCEPT ![rx_child] = nxt["accept"],
                                  !["accept"] = rx_child]
      BY <3>1 DEF NextLinks
    <3>4. PrevLinks' = PrevLinks
      BY <1>1, <3>1 DEF PrevLinks
    <3> QED BY <1>1, <1>2, <3>1, <3>2, <3>3, <3>4
  <2>2. CASE EnqueueHead
    <3>1. /\ rx_pc = "add3" /\ rx_pc' = "wake" /\ prv' = prv
          /\ nxt' = [nxt EXCEPT !["accept"] = rx_child]
      BY <2>2 DEF EnqueueHead
    <3> QED BY <1>1, <1>2, <3>1 DEF NextLinks, PrevLinks
  <2> QED BY <2>1, <2>2
<1>4. /\ Queued' \cup Entering' = Queued \cup Entering
      /\ Queued \subseteq Queued'
      /\ Returned' = Returned /\ Taken' = Taken /\ Opening' = Opening
  BY <1>1 DEF Queued, Returned, Taken, Opening, Entering, EnqueueOwn, EnqueueHead
<1>5. Waiting' = Waiting
  BY <1>4 DEF Waiting
<1>6. QueuesWhole'
  BY <1>3, <1>4, <1>5 DEF Intact, QueuesWhole
<1>7. OutOnce'
  BY <1>1, <1>4 DEF Intact, OutOnce
<1>8. ReadsHold'
  BY <1>1, <1>3, <1>5 DEF Intact, ReadsHold, Overlapping
<1> QED BY <1>6, <1>7, <1>8 DEF Intact

LEMMA IntactEstablish ==
    ASSUME TypeInv, ListenInv, Intact, WakeAccept \/ Establish,
           UNCHANGED appVars
    PROVE  Intact'
<1>1. /\ UNCHANGED <<app_pc, newtsk, before, after, accepted, nxt, prv>>
      /\ rx_pc \in {"wake", "establish"}
      /\ rx_pc' \in {"establish", "idle"}
  BY DEF WakeAccept, Establish, appVars, linkVars
<1>2. cstate[rx_child] = "SYN_RECEIVED" /\ rx_child \in Clients
  BY <1>1 DEF ListenInv, Completing, TypeInv
<1>3. /\ Queued' = Queued /\ Opening' = Opening /\ Entering' = {} /\ Entering = {}
  <2>1. CASE WakeAccept
    BY <1>1, <2>1 DEF WakeAccept, Queued, Opening, Entering
  <2>2. CASE Establish
    <3>1. /\ rx_pc = "establish" /\ rx_pc' = "idle"
          /\ cstate' = [cstate EXCEPT ![rx_child] = "ESTABLISHED"]
          /\ cstate \in [Clients -> {"CLOSE", "SYN_RECEIVED", "ESTABLISHED"}]
      BY <2>2 DEF Establish, TypeInv, TypeOK
    <3> QED BY <1>2, <3>1 DEF Queued, Opening, Entering
  <2> QED BY <2>1, <2>2
<1>4. /\ NextLinks' = NextLinks /\ PrevLinks' = PrevLinks
      /\ Returned' = Returned /\ Taken' = Taken /\ ~Overlapping'
  BY <1>1 DEF NextLinks, PrevLinks, Returned, Taken, Overlapping
<1>5. Waiting' = Waiting
  BY <1>3, <1>4 DEF Waiting
<1>6. QueuesWhole'
  BY <1>3, <1>4, <1>5 DEF Intact, QueuesWhole
<1>7. OutOnce'
  BY <1>1, <1>3, <1>4 DEF Intact, OutOnce
<1>8. ReadsHold'
  BY <1>1, <1>5 DEF Intact, ReadsHold
<1> QED BY <1>4, <1>6, <1>7, <1>8 DEF Intact

LEMMA IntactInitial == Init => QueueInv
<1> SUFFICES ASSUME Init PROVE Intact
  BY DEF QueueInv
<1>1. /\ NextLinks = [n \in Nodes |-> n] /\ PrevLinks = [n \in Nodes |-> n]
  BY DEF Init, NextLinks, PrevLinks
<1>2. /\ Waiting = {} /\ Opening = {} /\ Taken = {} /\ Returned = {}
  BY DEF Init, Waiting, Opening, Queued, Entering, Taken, Returned
<1>3. ASSUME NEW h \in Heads PROVE Ring(NextLinks, PrevLinks, h, {})
  <2> DEFINE L == << >>
  <2>1. L \in Seq(Clients) /\ Len(L) = 0 /\ Elements(L) = {}
    BY DEF Elements
  <2>2. \A i \in Int : At(h, L, i) = h
    BY <2>1 DEF At
  <2>3. h \in Nodes
    BY <1>3, NodeFacts
  <2> HIDE DEF L
  <2>4. Links(NextLinks, PrevLinks, h, L)
    BY <1>1, <2>1, <2>2, <2>3 DEF Links, Distinct, Forth, Back
  <2> QED BY <2>1, <2>4 DEF Ring
<1>4. QueuesWhole
  BY <1>2, <1>3 DEF QueuesWhole, Heads
<1>5. OutOnce
  BY <1>2 DEF Init, OutOnce
<1>6. ReadsHold /\ ~Overlapping
  BY DEF Init, ReadsHold, Overlapping
<1> QED BY <1>4, <1>5, <1>6 DEF Intact

LEMMA QueueStep ==
    ASSUME TypeInv, ListenInv, QueueInv, [Next]_vars
    PROVE  QueueInv'
<1> SUFFICES ASSUME ~clash' PROVE Intact'
  BY DEF QueueInv
<1>1. CASE UNCHANGED vars
  <2>1. /\ UNCHANGED <<nxt, prv, cstate, rx_pc, rx_child, accepted, newtsk,
                       before, after>>
        /\ app_pc' = app_pc /\ ~clash
    BY <1>1 DEF vars, stackVars, appVars, linkVars, rxVars
  <2> QED BY <2>1, IntactSame DEF QueueInv
<1>2. CASE Next
  <2>1. Step /\ ~clash /\ ~Overlapping'
    BY <1>2 DEF Next, Noting
  <2>2. Intact
    BY <2>1 DEF QueueInv
  <2>3. ASSUME NEW c \in Clients, Client(c) PROVE Intact'
    <3>1. /\ UNCHANGED <<nxt, prv, cstate, rx_pc, rx_child, accepted, newtsk,
                         before, after>>
          /\ app_pc' = app_pc
      BY <2>3 DEF Client, stackVars, appVars, linkVars, rxVars
    <3> QED BY <2>2, <3>1, IntactSame
  <2>4. CASE App
    BY <2>1, <2>2, <2>4, IntactApp
  <2>5. CASE tcp_synrecv_ack
    BY <2>1, <2>2, <2>5, IntactAdd, IntactAdding, IntactEstablish
    DEF tcp_synrecv_ack
  <2>6. ASSUME NEW c \in Clients, From(c) PROVE Intact'
    BY <2>2, <2>6, IntactReceive DEF From
  <2> QED BY <2>1, <2>3, <2>4, <2>5, <2>6 DEF Step
<1> QED BY <1>1, <1>2

(* No connection is handed out twice, and every child is in the queue that *)
(* the comments of struct tcp_sock give it, for any number of clients and  *)
(* of calls of accept, as long as no insertion into accept_queue overlaps  *)
(* a removal (tcp_accept_enqueue, tcp_accept_dequeue).                     *)
THEOREM ListsIntactHolds == Spec => []ListsIntact
<1>1. ASSUME TypeInv, QueueInv PROVE ListsIntact
  <2> DEFINE Handshaking == {c \in Clients : cstate[c] = "SYN_RECEIVED"}
  <2> SUFFICES ASSUME ~clash
               PROVE  /\ OutOnce
                      /\ ListsAtRest =>
                             /\ Members("accept") = Queued \ Returned
                             /\ Members("listen") = Handshaking \ Queued
    BY DEF ListsIntact, OutOnce
  <2>1. Intact
    BY <1>1 DEF QueueInv
  <2>2. ASSUME ListsAtRest
        PROVE  /\ NextLinks = nxt /\ PrevLinks = prv
               /\ Waiting = Queued \ Returned
               /\ Opening = Handshaking \ Queued
    <3>1. NextLinks = nxt /\ PrevLinks = prv /\ Entering = {} /\ Taken = {}
      BY <2>2 DEF ListsAtRest, NextLinks, PrevLinks, Entering, Taken
    <3>2. rx_pc \in {"idle", "wake", "establish"}
      BY <1>1, <2>2 DEF ListsAtRest, TypeInv, TypeOK
    <3>3. Opening = Handshaking \ Queued
      BY <3>2 DEF Opening, Queued
    <3> QED BY <3>1, <3>3 DEF Waiting
  <2>3. ListsAtRest => Members("accept") = Queued \ Returned
    BY <2>1, <2>2, RingMembers DEF Intact, QueuesWhole, Heads
  <2>4. ListsAtRest => Members("listen") = Handshaking \ Queued
    BY <2>1, <2>2, RingMembers DEF Intact, QueuesWhole, Heads
  <2> QED BY <2>1, <2>3, <2>4 DEF Intact
<1> QED BY <1>1, ListenInvHolds, IntactInitial, QueueStep, PTL DEF Spec

-----------------------------------------------------------------------------
(* The promise of Backlog.                                                 *)
Opened == {c \in Clients : cstate[c] # "CLOSE"}

AnsweredSet == {c \in Clients : Answered(c)}

(* What a step is for Backlog when it changes one thing only, or nothing.  *)
LEMMA PromiseNothing ==
    ASSUME UNCHANGED <<Opened, AnsweredSet, Queued, accepted>>,
           clash' \in {clash, TRUE}
    PROVE  Promise!Next
<1>1. Promise!Break
  BY DEF Promise!Break, Promise!connVars, Opened, AnsweredSet
<1> QED BY <1>1 DEF Promise!Next

LEMMA PromiseApp ==
    ASSUME TypeInv, QueueInv, App, clash' \in {clash, TRUE}
    PROVE  Promise!Next
<1>1. UNCHANGED <<cstate, client, rx_pc, rx_child>>
  BY DEF App, clientVars, inet_bind, tcp_listen, CloseListener, RemoveListener,
         inet_accept, Accept, tcp_accept, wait_sleep, WakeUp,
         tcp_accept_dequeue, DequeueFirst, DequeueLinks, DequeueUnlink,
         DequeueRelink, DequeueInit, rxVars
<1>2. UNCHANGED <<Opened, AnsweredSet, Queued>>
  BY <1>1 DEF Opened, AnsweredSet, Answered, Queued
<1>3. CASE DequeueInit
  <2>1. app_pc = "init" /\ accepted' = Append(accepted, newtsk)
    BY <1>3 DEF DequeueInit
  <2>2. newtsk \in Nodes
    BY DEF TypeInv, TypeOK
  <2>3. ASSUME ~clash
        PROVE  newtsk \in Queued /\ \A k \in DOMAIN accepted : accepted[k] # newtsk
    <3>1. newtsk \in Taken
      BY <2>1, <2>2 DEF Taken
    <3> QED BY <2>3, <3>1 DEF QueueInv, Intact, OutOnce, Returned
  <2>4. Promise!HandOut(newtsk)
    BY <1>2, <2>1, <2>3
    DEF Promise!HandOut, Promise!connVars, Opened, AnsweredSet
  <2> QED BY <2>2, <2>4 DEF Promise!Next
<1>4. CASE UNCHANGED accepted
  BY <1>2, <1>4, PromiseNothing
<1> QED BY <1>3, <1>4
        DEF App, inet_bind, tcp_listen, CloseListener, RemoveListener,
            inet_accept, Accept, tcp_accept, wait_sleep, WakeUp,
            tcp_accept_dequeue, DequeueFirst, DequeueLinks, DequeueUnlink,
            DequeueRelink, appVars

LEMMA PromiseComplete ==
    ASSUME TypeInv, ListenInv, tcp_synrecv_ack, clash' \in {clash, TRUE}
    PROVE  Promise!Next
<1>1. UNCHANGED <<client, accepted>>
  BY DEF tcp_synrecv_ack, clientVars, appVars
<1>2. rx_pc # "idle"
  BY DEF tcp_synrecv_ack, EnqueuePrev, EnqueueOwn, EnqueueHead, WakeAccept,
         Establish
<1>3. /\ rx_child \in Clients /\ cstate[rx_child] = "SYN_RECEIVED"
      /\ Answered(rx_child)
      /\ cstate \in [Clients -> {"CLOSE", "SYN_RECEIVED", "ESTABLISHED"}]
  BY <1>2 DEF TypeInv, TypeOK, ListenInv, Completing
<1>4. UNCHANGED AnsweredSet
  BY <1>1 DEF AnsweredSet, Answered
<1>5. CASE EnqueuePrev \/ EnqueueOwn \/ WakeAccept
  <2>1. UNCHANGED <<cstate, rx_child>>
        /\ (rx_pc' \in {"wake", "establish"} <=> rx_pc \in {"wake", "establish"})
    BY <1>5 DEF EnqueuePrev, EnqueueOwn, WakeAccept
  <2>2. UNCHANGED <<Opened, Queued>>
    BY <2>1 DEF Opened, Queued
  <2> QED BY <1>1, <1>4, <2>2, PromiseNothing
<1>6. CASE EnqueueHead
  <2>1. UNCHANGED <<cstate, rx_child>> /\ rx_pc = "add3" /\ rx_pc' = "wake"
    BY <1>6 DEF EnqueueHead
  <2>2. UNCHANGED Opened /\ Queued' = Queued \cup {rx_child}
    BY <1>3, <2>1 DEF Opened, Queued
  <2>3. rx_child \in AnsweredSet \ Queued
    BY <1>3, <2>1 DEF AnsweredSet, Queued
  <2>4. Promise!Complete(rx_child)
    BY <1>1, <1>4, <2>2, <2>3 DEF Promise!Complete, Opened, AnsweredSet
  <2> QED BY <1>3, <2>4 DEF Promise!Next
<1>7. CASE Establish
  <2>1. /\ rx_pc = "establish" /\ rx_pc' = "idle"
        /\ cstate' = [cstate EXCEPT ![rx_child] = "ESTABLISHED"]
    BY <1>7 DEF Establish
  <2>2. UNCHANGED <<Opened, Queued>>
    BY <1>3, <2>1 DEF Opened, Queued
  <2> QED BY <1>1, <1>4, <2>2, PromiseNothing
<1> QED BY <1>5, <1>6, <1>7 DEF tcp_synrecv_ack

LEMMA PromiseReceive ==
    ASSUME TypeInv, NEW s \in to_server, tcp_in(s), clash' \in {clash, TRUE}
    PROVE  Promise!Next
<1>1. /\ rx_pc = "idle" /\ UNCHANGED <<client, accepted>>
      /\ s.from \in Clients
      /\ cstate \in [Clients -> {"CLOSE", "SYN_RECEIVED", "ESTABLISHED"}]
  BY DEF tcp_in, clientVars, appVars, TypeInv, TypeOK, Segment
<1>2. UNCHANGED AnsweredSet
  BY <1>1 DEF AnsweredSet, Answered
<1>3. CASE cstate[s.from] # "CLOSE"
  <2>1. tcp_process(s.from, s)
    BY <1>3 DEF tcp_in
  <2>2. UNCHANGED cstate /\ rx_pc' \in {"idle", "add1"}
    BY <1>1, <2>1 DEF tcp_process, SynRecvAck, SynRecvReset, rxVars
  <2>3. UNCHANGED <<Opened, Queued>>
    BY <1>1, <2>2 DEF Opened, Queued
  <2> QED BY <1>1, <1>2, <2>3, PromiseNothing
<1>4. CASE cstate[s.from] = "CLOSE"
  <2>1. PICK i \in ISNs : tcp_handle_listen(s, i)
    BY <1>4 DEF tcp_in
  <2>2. /\ cstate' = [cstate EXCEPT ![s.from] = "SYN_RECEIVED"]
        /\ rx_pc' = rx_pc
    BY <2>1 DEF tcp_handle_listen, rxVars
  <2>3. Queued' = Queued /\ Opened' = Opened \cup {s.from}
    BY <1>1, <1>4, <2>2 DEF Queued, Opened
  <2>4. s.from \notin Opened
    BY <1>4 DEF Opened
  <2>5. Promise!Open(s.from)
    BY <1>1, <1>2, <2>3, <2>4 DEF Promise!Open, Opened, AnsweredSet
  <2> QED BY <1>1, <2>5 DEF Promise!Next
<1> QED BY <1>3, <1>4

LEMMA PromiseClient ==
    ASSUME TypeInv, ListenInv, NEW c \in Clients, Client(c),
           clash' \in {clash, TRUE}
    PROVE  Promise!Next
<1>1. /\ UNCHANGED <<cstate, rx_pc, rx_child, accepted>>
      /\ client \in [Clients -> {"CLOSED", "SYN_SENT", "ESTABLISHED",
                                 "ABORTED", "RESET"}]
  BY DEF Client, stackVars, rxVars, appVars, TypeInv, TypeOK
<1>2. UNCHANGED <<Opened, Queued>>
  BY <1>1 DEF Opened, Queued
<1>3. ASSUME NEW s \in from_server, ClientHearsSynAck(c, s)
      PROVE  Promise!Next
  <2>1. /\ client[c] = "SYN_SENT" /\ s.to = c /\ s.kind = "SYNACK"
        /\ client' = [client EXCEPT ![c] = "ESTABLISHED"]
    BY <1>3 DEF ClientHearsSynAck
  <2>2. c \in Opened
    BY <2>1 DEF ListenInv, SentByChildren, Opened
  <2>3. c \notin AnsweredSet /\ AnsweredSet' = AnsweredSet \cup {c}
    BY <1>1, <2>1 DEF AnsweredSet, Answered
  <2>4. Promise!Answer(c)
    BY <1>1, <1>2, <2>2, <2>3 DEF Promise!Answer, Opened, AnsweredSet
  <2> QED BY <2>4 DEF Promise!Next
<1>4. ASSUME NEW v,
             client' = [client EXCEPT ![c] = v],
             \/ client[c] = "CLOSED" /\ v = "SYN_SENT"
             \/ client[c] = "ESTABLISHED" /\ v \in {"ABORTED", "RESET"}
      PROVE  Promise!Next
  <2>1. UNCHANGED AnsweredSet
    BY <1>1, <1>4 DEF AnsweredSet, Answered
  <2> QED BY <1>1, <1>2, <2>1, PromiseNothing
<1>5. CASE ClientWrites(c)
  <2>1. UNCHANGED AnsweredSet
    BY <1>5 DEF ClientWrites, AnsweredSet, Answered
  <2> QED BY <1>1, <1>2, <2>1, PromiseNothing
<1>6. CASE ClientOpens(c)
  BY <1>4, <1>6 DEF ClientOpens
<1>7. ASSUME NEW s \in from_server, ClientHearsRst(c, s)
      PROVE  Promise!Next
  BY <1>4, <1>7 DEF ClientHearsRst
<1>8. CASE ClientAborts(c)
  BY <1>4, <1>8 DEF ClientAborts
<1> QED BY <1>3, <1>5, <1>6, <1>7, <1>8 DEF Client

LEMMA PromiseStep ==
    ASSUME TypeInv, ListenInv, QueueInv, [Next]_vars
    PROVE  [Promise!Next]_(Promise!vars)
<1>1. CASE UNCHANGED vars
  <2>1. UNCHANGED <<cstate, client, rx_pc, rx_child, accepted, clash>>
    BY <1>1 DEF vars, stackVars, appVars, rxVars, clientVars
  <2>2. UNCHANGED <<Opened, AnsweredSet, Queued>>
    BY <2>1 DEF Opened, AnsweredSet, Answered, Queued
  <2> QED BY <2>1, <2>2
          DEF Promise!vars, Promise!connVars, Opened, AnsweredSet
<1>2. CASE Next
  <2>1. Step /\ clash' \in {clash, TRUE}
    BY <1>2 DEF Next, Noting, TypeInv, TypeOK
  <2>2. Promise!Next
    BY <2>1, PromiseApp, PromiseComplete, PromiseReceive, PromiseClient
    DEF Step, From
  <2> QED BY <2>2
<1> QED BY <1>1, <1>2

(* The listening sock keeps the promise of Backlog, for any number of      *)
(* clients, calls of accept and leftover segments: a child is completed    *)
(* once, after its client took the connection for established, and accept  *)
(* hands it out once and only then, unless an insertion into accept_queue  *)
(* overlapped a removal (tcp_handle_listen, tcp_synrecv_ack, tcp_accept).  *)
THEOREM ImplementsBacklog == Spec => BacklogKept
<1>1. ASSUME Init PROVE Promise!Init
  <2>1. /\ cstate = [c \in Clients |-> "CLOSE"] /\ rx_pc = "idle"
        /\ client = [c \in Clients |-> "CLOSED"]
        /\ accepted = << >> /\ clash = FALSE
    BY <1>1 DEF Init
  <2>2. Opened = {} /\ AnsweredSet = {} /\ Queued = {}
    BY <2>1 DEF Opened, AnsweredSet, Answered, Queued
  <2> QED BY <2>1, <2>2 DEF Promise!Init, Opened, AnsweredSet
<1>2. Spec => [](TypeInv /\ ListenInv /\ QueueInv)
  BY ListenInvHolds, IntactInitial, QueueStep, PTL DEF Spec
<1> QED BY <1>1, <1>2, PromiseStep, PTL DEF Spec, Promise!Spec, BacklogKept
=============================================================================
