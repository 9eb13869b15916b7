------------------------------- MODULE TcpSend -------------------------------
(***************************************************************************)
(* The sending half of an established ToyIP connection: tcp_output.c, the  *)
(* acknowledgement branch of tcp_process (tcp_input.c) and the             *)
(* retransmission timer of tcp.c / timer.c.                                *)
(*                                                                         *)
(* Four threads meet here:                                                 *)
(*   - the IPC thread of the application runs tcp_write -> tcp_send ->     *)
(*     tcp_queue_transmit_skb, holding write_queue.lock from the queueing  *)
(*     to the update of snd_nxt;                                           *)
(*   - the receive thread runs tcp_process on an ACK: it stores snd_una    *)
(*     WITHOUT a lock and only then takes write_queue.lock to clean up;    *)
(*   - the timer thread marks a timer as fired and then runs its handler,  *)
(*     which takes write_queue.lock;                                       *)
(*   - the peer (external) is an ideal cumulative receiver, behind a       *)
(*     network that loses, duplicates and reorders.                        *)
(*                                                                         *)
(* Sequence numbers are offsets from the first data byte; wrapping at 2^32 *)
(* is not modelled here.  A byte is named by its offset in the stream the  *)
(* application wrote, so that a byte delivered at a wrong place is seen.   *)
(***************************************************************************)
EXTENDS Integers, Sequences, FiniteSets

CONSTANTS
    MSS,        \* tsk->smss: the largest payload of one segment
    MaxBytes,   \* bound: bytes the application writes in all
    Pipelined,  \* FALSE: the application writes one segment at a time, and
                \* only when everything it wrote before is acknowledged
    AckRace     \* FALSE: the timer handler never gets the lock between the
                \* store of snd_una and the cleaning of the queue

ASSUME SendAssumption ==
    /\ MSS \in Nat \ {0}
    /\ MaxBytes \in Nat
    /\ Pipelined \in BOOLEAN
    /\ AckRace \in BOOLEAN

VARIABLES
    snd_una,      \* tcb->snd_una
    snd_nxt,      \* tcb->snd_nxt
    write_queue,  \* sk->write_queue: skbs with first byte, dlen and end_seq
    slen,         \* bytes tcp_send has still to cut into segments
    app_pc,       \* "idle", or "locked": in tcp_queue_transmit_skb after the
                  \* transmission, before snd_nxt is advanced
    rx_pc,        \* "idle", or "clean": snd_una stored, queue not yet cleaned
    retransmit,   \* tsk->retransmit: "null", "live" (points to an armed
                  \* timer) or "fired" (its handler is about to run)
    orphans,      \* armed timers nothing points to any more
    timer_pc,     \* "idle", or "handler": a timer fired, handler pending
    net,          \* segments on the way to the peer
    acks,         \* acknowledgement numbers on the way back
    peer          \* external: the bytes the peer has received in order

vars == <<snd_una, snd_nxt, write_queue, slen, app_pc, rx_pc,
          retransmit, orphans, timer_pc, net, acks, peer>>

Skb     == [first : Nat, dlen : 1..MSS, end_seq : Nat]
Segment == [seq : Nat, first : Nat, dlen : 1..MSS]

Init ==
    /\ snd_una = 0
    /\ snd_nxt = 0
    /\ write_queue = <<>>
    /\ slen = 0
    /\ app_pc = "idle"
    /\ rx_pc = "idle"
    /\ retransmit = "null"
    /\ orphans = 0
    /\ timer_pc = "idle"
    /\ net = {}
    /\ acks = {}
    /\ peer = <<>>

(* timer_release only drops a reference: a timer that is still armed stays *)
(* in the list of timers and will fire.                                    *)
AfterRelease == IF retransmit = "live" THEN orphans + 1 ELSE orphans

tcp_reset_retransmission_timer ==
    orphans' = AfterRelease /\ retransmit' = "live"

(* tcp_transmit_skb stamps the skb from snd_una, not from the sequence     *)
(* number it is sent with.                                                 *)
EndSeqOffByOne(dlen) == snd_una + dlen + 1

EndSeq(dlen) == snd_una + dlen

(* No thread is between lock and unlock of write_queue.lock.  Only the     *)
(* application is ever seen inside: the other critical sections are single *)
(* steps of this model.                                                    *)
Unlocked == app_pc = "idle"

-----------------------------------------------------------------------------
(* The application's IPC thread.                                           *)

tcp_write(len) ==
    /\ app_pc = "idle" /\ slen = 0
    /\ snd_nxt + len <= MaxBytes
    /\ ~Pipelined => /\ len <= MSS
                     /\ write_queue = <<>> /\ rx_pc = "idle"
    /\ slen' = len
    /\ UNCHANGED <<snd_una, snd_nxt, write_queue, app_pc, rx_pc,
                   retransmit, orphans, timer_pc, net, acks, peer>>

(* One segment carries at most mss bytes.                                  *)
Payload == IF slen > MSS THEN MSS ELSE slen

(* One round of tcp_send's loop, up to the return of tcp_transmit_skb: the *)
(* segment leaves with seq = snd_nxt.                                      *)
tcp_queue_transmit_skb ==
    LET dlen == Payload IN
    /\ app_pc = "idle" /\ slen > 0
    /\ IF write_queue = <<>>
       THEN tcp_reset_retransmission_timer
       ELSE UNCHANGED <<orphans, retransmit>>
    /\ write_queue' = Append(write_queue,
           [first |-> snd_nxt, dlen |-> dlen, end_seq |-> EndSeq(dlen)])
    /\ net' = net \cup {[seq |-> snd_nxt, first |-> snd_nxt, dlen |-> dlen]}
    /\ slen' = slen - dlen
    /\ app_pc' = "locked"
    /\ UNCHANGED <<snd_una, snd_nxt, rx_pc, timer_pc, acks, peer>>

(* snd_nxt += skb->dlen; unlock.                                           *)
tcp_queue_transmit_done ==
    /\ app_pc = "locked"
    /\ snd_nxt' = snd_nxt + write_queue[Len(write_queue)].dlen
    /\ app_pc' = "idle"
    /\ UNCHANGED <<snd_una, write_queue, slen, rx_pc, retransmit, orphans,
                   timer_pc, net, acks, peer>>

-----------------------------------------------------------------------------
(* The receive thread: tcp_process on a pure ACK in ESTABLISHED.           *)

AcceptableUnsent(a) == snd_una < a
AcceptableStale(a) == a <= snd_nxt
AcceptableNotLast(a) == snd_una < a /\ a < snd_nxt

(* The acknowledgement covers something sent and not yet acknowledged.     *)
Acceptable(a) == snd_una < a /\ a <= snd_nxt

(* The network may keep a copy of what it delivers.                        *)
AckAccept(a, left) ==
    /\ rx_pc = "idle"
    /\ Acceptable(a)
    /\ snd_una' = a
    /\ rx_pc' = "clean"
    /\ acks' = left
    /\ UNCHANGED <<snd_nxt, write_queue, slen, app_pc, retransmit, orphans,
                   timer_pc, net, peer>>

AckIgnore(a, left) ==
    /\ rx_pc = "idle"
    /\ ~Acceptable(a)
    /\ acks' = left
    /\ UNCHANGED <<snd_una, snd_nxt, write_queue, slen, app_pc, rx_pc,
                   retransmit, orphans, timer_pc, net, peer>>

(* n skbs at the head of the queue have end_seq <= una, and the next one,  *)
(* if there is one, has not: the loop of tcp_clean_retransmission_queue.   *)
Acknowledged(n) ==
    /\ \A i \in 1..n : write_queue[i].end_seq <= snd_una
    /\ n < Len(write_queue) => write_queue[n + 1].end_seq > snd_una

(* The timer is stopped when the queue has been emptied.                   *)
StopAlways(queue) == "null"

StopWhenDrained(queue) == IF queue = <<>> THEN "null" ELSE retransmit

tcp_clean_retransmission_queue ==
    /\ rx_pc = "clean" /\ Unlocked
    /\ \E n \in 0..Len(write_queue) :
         /\ Acknowledged(n)
         /\ write_queue' = SubSeq(write_queue, n + 1, Len(write_queue))
    /\ retransmit' = StopWhenDrained(write_queue')
    /\ rx_pc' = "idle"
    /\ UNCHANGED <<snd_una, snd_nxt, slen, app_pc, orphans, timer_pc,
                   net, acks, peer>>

-----------------------------------------------------------------------------
(* The timer thread: timers_tick sets t->cancelled and calls the handler.  *)

FireCurrent ==
    /\ timer_pc = "idle" /\ retransmit = "live"
    /\ retransmit' = "fired"
    /\ timer_pc' = "handler"
    /\ UNCHANGED <<snd_una, snd_nxt, write_queue, slen, app_pc, rx_pc,
                   orphans, net, acks, peer>>

FireOrphan ==
    /\ timer_pc = "idle" /\ orphans > 0
    /\ orphans' = orphans - 1
    /\ timer_pc' = "handler"
    /\ UNCHANGED <<snd_una, snd_nxt, write_queue, slen, app_pc, rx_pc,
                   retransmit, net, acks, peer>>

(* The handler releases whatever tsk->retransmit points to now, sends the  *)
(* head of the queue again with seq = snd_una (which also stamps its       *)
(* end_seq anew) and arms the next timer.                                  *)
tcp_retransmission_timeout ==
    /\ timer_pc = "handler" /\ Unlocked
    /\ AckRace \/ rx_pc = "idle"
    /\ timer_pc' = "idle"
    /\ orphans' = AfterRelease
    /\ IF write_queue = <<>>
       THEN /\ retransmit' = "null"
            /\ UNCHANGED <<write_queue, net>>
       ELSE LET skb == write_queue[1] IN
            /\ retransmit' = "live"
            /\ write_queue' = [write_queue EXCEPT ![1] =
                   [skb EXCEPT !.end_seq = EndSeq(skb.dlen)]]
            /\ net' = net \cup {[seq |-> snd_una, first |-> skb.first,
                                 dlen |-> skb.dlen]}
    /\ UNCHANGED <<snd_una, snd_nxt, slen, app_pc, rx_pc, acks, peer>>

-----------------------------------------------------------------------------
(* External: the peer and the network.                                     *)

(* What the peer has after a segment: the bytes beyond the ones it already *)
(* received, if the segment overlaps or touches them.                      *)
Received(m) ==
    LET have == Len(peer)
        end  == m.seq + m.dlen
    IN  IF m.seq <= have /\ have < end
        THEN peer \o [j \in 1..(end - have) |-> m.first + have - m.seq + j - 1]
        ELSE peer

PeerReceive(m, left) ==
    /\ peer' = Received(m)
    /\ acks' = acks \cup {Len(peer')}
    /\ net' = left
    /\ UNCHANGED <<snd_una, snd_nxt, write_queue, slen, app_pc, rx_pc,
                   retransmit, orphans, timer_pc>>

LoseSegment(m) ==
    /\ net' = net \ {m}
    /\ UNCHANGED <<snd_una, snd_nxt, write_queue, slen, app_pc, rx_pc,
                   retransmit, orphans, timer_pc, acks, peer>>

LoseAck(a) ==
    /\ acks' = acks \ {a}
    /\ UNCHANGED <<snd_una, snd_nxt, write_queue, slen, app_pc, rx_pc,
                   retransmit, orphans, timer_pc, net, peer>>

-----------------------------------------------------------------------------

App     == tcp_queue_transmit_skb \/ tcp_queue_transmit_done
AckIn   == \E a \in acks : \E left \in {acks, acks \ {a}} :
               AckAccept(a, left) \/ AckIgnore(a, left)
Timer   == FireCurrent \/ FireOrphan \/ tcp_retransmission_timeout
Deliver == \E m \in net : \E left \in {net, net \ {m}} : PeerReceive(m, left)
Lose    == \/ \E m \in net : LoseSegment(m)
           \/ \E a \in acks : LoseAck(a)

Next ==
    \/ \E len \in 1..MaxBytes : tcp_write(len)
    \/ App
    \/ AckIn
    \/ tcp_clean_retransmission_queue
    \/ Timer
    \/ Deliver
    \/ Lose

Spec == Init /\ [][Next]_vars

(* Threads that can go on do go on; the network delivers infinitely many   *)
(* of the segments, and of the acknowledgements, that keep being sent.     *)
Fairness ==
    /\ WF_vars(App)
    /\ WF_vars(tcp_clean_retransmission_queue)
    /\ WF_vars(Timer)
    /\ SF_vars(\E m \in net : PeerReceive(m, net \ {m}))
    /\ SF_vars(\E a \in acks : AckAccept(a, acks \ {a}))

FairSpec == Spec /\ Fairness

-----------------------------------------------------------------------------
(* Type invariant of the sender's state (tcb, write_queue and the timer).  *)
TypeOK ==
    /\ snd_una \in Nat /\ snd_nxt \in Nat
    /\ write_queue \in Seq(Skb)
    /\ slen \in Nat
    /\ app_pc \in {"idle", "locked"}
    /\ rx_pc \in {"idle", "clean"}
    /\ retransmit \in {"null", "live", "fired"}
    /\ orphans \in Nat
    /\ timer_pc \in {"idle", "handler"}
    /\ net \in SUBSET Segment
    /\ acks \in SUBSET Nat
    /\ peer \in Seq(Nat)

(* Something that waits for its acknowledgement is never left without a    *)
(* retransmission: whatever ACKs, writes and expiries interleave, a timer  *)
(* of this connection is armed or its handler is about to run              *)
(* (tcp_queue_transmit_skb, tcp_clean_retransmission_queue and             *)
(* tcp_retransmission_timeout each start or stop it).                      *)
PendingHasTimer ==
    write_queue # <<>> => retransmit = "live" \/ timer_pc = "handler"

(* The sender never takes for acknowledged what the peer has not received  *)
(* or what was not sent, although stale and duplicate ACKs arrive at any   *)
(* moment of a write or of a retransmission (tcp_process, lines 319-327).  *)
AckSound == snd_una <= snd_nxt /\ snd_una <= Len(peer)

(* What the peer's application reads is what was written: the byte at      *)
(* every position is the byte written there ("retransmit that packet",     *)
(* tcp_output.c:286).                                                      *)
StreamIntact == \A i \in 1..Len(peer) : peer[i] = i - 1

(* A byte that is sent and not acknowledged is still in the write queue,   *)
(* from where it can be retransmitted (tcp_output.c:102).                  *)
UnackedQueued ==
    rx_pc = "idle" =>
        \A b \in snd_una..(snd_nxt - 1) :
            \E i \in 1..Len(write_queue) :
                /\ write_queue[i].first <= b
                /\ b < write_queue[i].first + write_queue[i].dlen

(* While the cleaned queue holds something, the peer gets past snd_una:    *)
(* loss of segments and ACKs cannot stop the connection for ever.          *)
UnackedGetsThrough ==
    \A k \in 0..MaxBytes :
        (write_queue # <<>> /\ rx_pc = "idle" /\ snd_una = k)
            ~> Len(peer) > k

(* Everything sent is eventually acknowledged and leaves the queue.        *)
EventuallyAcked == write_queue # <<>> ~> write_queue = <<>>
=============================================================================
