---------------------------- MODULE TcpSendProofs ----------------------------
(***************************************************************************)
(* Proofs about TcpSend, for every MSS, every amount of data, pipelined or *)
(* not, with and without the race between the ACK and the timer.           *)
(***************************************************************************)
EXTENDS TcpSend, SequenceTheorems, TLAPS

(* While tcp_queue_transmit_skb holds the lock, the skb it appended is     *)
(* still in the queue.                                                     *)
LockedNonempty == app_pc = "locked" => write_queue # <<>>

TypeInv == TypeOK /\ LockedNonempty

(* The retransmission timer, strengthened to what each step preserves: a   *)
(* nonempty queue has a timer that tsk->retransmit points to, and if that  *)
(* timer has fired its handler has not run yet.                            *)
TimerInv ==
    /\ write_queue # <<>> => retransmit # "null"
    /\ retransmit = "fired" => timer_pc = "handler"

(* Acknowledgements on the way never exceed what the peer received.        *)
AckInv == AckSound /\ \A a \in acks : a <= Len(peer)

-----------------------------------------------------------------------------
(* A segment only ever extends what the peer has.                          *)
LEMMA ReceivedGrows ==
    ASSUME TypeOK, NEW m \in Segment
    PROVE  Received(m) \in Seq(Nat) /\ Len(peer) <= Len(Received(m))
<1> DEFINE have == Len(peer)
           end  == m.seq + m.dlen
           new  == [j \in 1..(end - have) |-> m.first + have - m.seq + j - 1]
<1>1. /\ peer \in Seq(Nat) /\ have \in Nat /\ m.seq \in Nat
      /\ m.first \in Nat /\ m.dlen \in Nat /\ end \in Nat
  BY SendAssumption DEF TypeOK, Segment
<1>2. CASE m.seq <= have /\ have < end
  <2>1. new \in Seq(Nat)
    <3>1. end - have \in Nat
      BY <1>1, <1>2
    <3>2. \A j \in 1..(end - have) : m.first + have - m.seq + j - 1 \in Nat
      BY <1>1, <1>2
    <3> QED BY <3>1, <3>2
  <2>2. Received(m) = peer \o new
    BY <1>2 DEF Received
  <2> HIDE DEF new
  <2>3. /\ peer \o new \in Seq(Nat)
        /\ Len(peer \o new) = Len(peer) + Len(new)
        /\ Len(new) \in Nat
    BY <1>1, <2>1, ConcatProperties
  <2> QED BY <1>1, <2>2, <2>3
<1>3. CASE ~(m.seq <= have /\ have < end)
  <2>1. Received(m) = peer
    BY <1>3 DEF Received
  <2> QED BY <2>1, <1>1
<1> QED BY <1>2, <1>3

(* A segment cut by tcp_send has between 1 and MSS bytes.                  *)
LEMMA PayloadCut ==
    ASSUME TypeOK, slen > 0
    PROVE  Payload \in 1..MSS /\ slen - Payload \in Nat
BY SendAssumption DEF TypeOK, Payload

-----------------------------------------------------------------------------
LEMMA TypeInit == Init => TypeInv
BY SendAssumption DEF Init, TypeInv, TypeOK, LockedNonempty

LEMMA TypeStep == TypeInv /\ [Next]_vars => TypeInv'
<1> SUFFICES ASSUME TypeInv, [Next]_vars
             PROVE  TypeInv'
  OBVIOUS
<1> USE SendAssumption
<1>1. ASSUME NEW len \in 1..MaxBytes, tcp_write(len)
      PROVE  TypeInv'
  BY <1>1 DEF tcp_write, TypeInv, TypeOK, LockedNonempty
<1>2. ASSUME tcp_queue_transmit_skb
      PROVE  TypeInv'
  <2> DEFINE skb == [first |-> snd_nxt, dlen |-> Payload,
                     end_seq |-> EndSeq(Payload)]
  <2>1. Payload \in 1..MSS /\ slen - Payload \in Nat
    BY <1>2, PayloadCut DEF TypeInv, tcp_queue_transmit_skb
  <2>2. skb \in Skb
    BY <2>1 DEF TypeInv, TypeOK, Skb, EndSeq
  <2>3. write_queue' = Append(write_queue, skb)
    BY <1>2 DEF tcp_queue_transmit_skb
  <2>4. write_queue' \in Seq(Skb) /\ write_queue' # <<>>
    BY <2>2, <2>3 DEF TypeInv, TypeOK
  <2>5. net' \in SUBSET Segment
    <3>1. [seq |-> snd_nxt, first |-> snd_nxt, dlen |-> Payload] \in Segment
      BY <2>1 DEF TypeInv, TypeOK, Segment
    <3> QED BY <1>2, <3>1 DEF tcp_queue_transmit_skb, TypeInv, TypeOK
  <2>6. orphans' \in Nat /\ retransmit' \in {"null", "live", "fired"}
    BY <1>2 DEF tcp_queue_transmit_skb, tcp_reset_retransmission_timer, TypeInv,
                TypeOK, AfterRelease
  <2> QED
    BY <1>2, <2>1, <2>4, <2>5, <2>6
    DEF tcp_queue_transmit_skb, TypeInv, TypeOK, LockedNonempty
<1>3. ASSUME tcp_queue_transmit_done
      PROVE  TypeInv'
  <2>1. write_queue[Len(write_queue)] \in Skb
    BY <1>3 DEF tcp_queue_transmit_done, TypeInv, TypeOK, LockedNonempty
  <2>2. snd_nxt' \in Nat
    BY <1>3, <2>1 DEF tcp_queue_transmit_done, TypeInv, TypeOK, Skb
  <2> QED
    BY <1>3, <2>2 DEF tcp_queue_transmit_done, TypeInv, TypeOK, LockedNonempty
<1>4. ASSUME AckIn
      PROVE  TypeInv'
  BY <1>4 DEF AckIn, AckAccept, AckIgnore, TypeInv, TypeOK, LockedNonempty
<1>5. ASSUME tcp_clean_retransmission_queue
      PROVE  TypeInv'
  <2>1. PICK n \in 0..Len(write_queue) :
            write_queue' = SubSeq(write_queue, n + 1, Len(write_queue))
    BY <1>5 DEF tcp_clean_retransmission_queue
  <2>2. write_queue' \in Seq(Skb)
    BY <2>1 DEF TypeInv, TypeOK
  <2>3. retransmit' \in {"null", "live", "fired"}
    BY <1>5 DEF tcp_clean_retransmission_queue, StopWhenDrained, TypeInv,
                TypeOK
  <2>4. /\ app_pc' = "idle" /\ rx_pc' = "idle"
        /\ UNCHANGED <<snd_una, snd_nxt, slen, orphans, timer_pc, net, acks,
                       peer>>
    BY <1>5 DEF tcp_clean_retransmission_queue, Unlocked
  <2>5. TypeOK'
    BY <2>2, <2>3, <2>4 DEF TypeInv, TypeOK
  <2>6. LockedNonempty'
    BY <2>4 DEF LockedNonempty
  <2> QED
    BY <2>5, <2>6 DEF TypeInv
<1>6. ASSUME Timer
      PROVE  TypeInv'
  <2>1. CASE FireCurrent
    BY <2>1 DEF FireCurrent, TypeInv, TypeOK, LockedNonempty
  <2>3. CASE FireOrphan
    <3>1. orphans' \in Nat
      BY <2>3 DEF FireOrphan, TypeInv, TypeOK
    <3> QED BY <2>3, <3>1 DEF FireOrphan, TypeInv, TypeOK, LockedNonempty
  <2>2. CASE tcp_retransmission_timeout
    <3>1. CASE write_queue = <<>>
      BY <2>2, <3>1 DEF tcp_retransmission_timeout, AfterRelease, TypeInv,
                        TypeOK, LockedNonempty
    <3>2. CASE write_queue # <<>>
      <4> DEFINE skb == write_queue[1]
                 new == [skb EXCEPT !.end_seq = EndSeq(skb.dlen)]
      <4>1. skb \in Skb /\ 1 \in 1..Len(write_queue)
        BY <3>2 DEF TypeInv, TypeOK
      <4>2. new \in Skb
        <5>1. EndSeq(skb.dlen) \in Nat
          BY <4>1 DEF TypeInv, TypeOK, Skb, EndSeq
        <5> QED BY <4>1, <5>1 DEF Skb
      <4>3. [write_queue EXCEPT ![1] = new] \in Seq(Skb)
        BY <4>1, <4>2 DEF TypeInv, TypeOK
      <4>4. write_queue' = [write_queue EXCEPT ![1] = new]
        BY <2>2, <3>2 DEF tcp_retransmission_timeout
      <4>5. net' \in SUBSET Segment
        <5>1. [seq |-> snd_una, first |-> skb.first, dlen |-> skb.dlen]
                \in Segment
          BY <4>1 DEF TypeInv, TypeOK, Skb, Segment
        <5> QED
          BY <2>2, <3>2, <5>1 DEF tcp_retransmission_timeout, TypeInv, TypeOK
      <4>6. orphans' \in Nat
        BY <2>2 DEF tcp_retransmission_timeout, AfterRelease, TypeInv, TypeOK
      <4> QED
        BY <2>2, <3>2, <4>3, <4>4, <4>5, <4>6
        DEF tcp_retransmission_timeout, Unlocked, TypeInv, TypeOK,
            LockedNonempty
    <3> QED BY <3>1, <3>2
  <2> QED BY <1>6, <2>1, <2>2, <2>3 DEF Timer
<1>7. ASSUME Deliver
      PROVE  TypeInv'
  <2>0. PICK m \in net :
            \E left \in {net, net \ {m}} : PeerReceive(m, left)
    BY <1>7 DEF Deliver
  <2>1. PICK left \in {net, net \ {m}} : PeerReceive(m, left)
    BY <2>0
  <2>2. m \in Segment /\ left \in SUBSET Segment
    BY <2>1 DEF TypeInv, TypeOK
  <2>3. peer' \in Seq(Nat)
    BY <2>1, <2>2, ReceivedGrows DEF TypeInv, PeerReceive
  <2>4. acks' \in SUBSET Nat
    <3>1. Len(peer') \in Nat
      BY <2>3
    <3> QED BY <2>1, <3>1 DEF PeerReceive, TypeInv, TypeOK
  <2> QED
    BY <2>1, <2>2, <2>3, <2>4
    DEF PeerReceive, TypeInv, TypeOK, LockedNonempty
<1>8. ASSUME Lose
      PROVE  TypeInv'
  BY <1>8 DEF Lose, LoseSegment, LoseAck, TypeInv, TypeOK, LockedNonempty
<1>9. CASE UNCHANGED vars
  BY <1>9 DEF vars, TypeInv, TypeOK, LockedNonempty
<1> QED
  BY <1>1, <1>2, <1>3, <1>4, <1>5, <1>6, <1>7, <1>8, <1>9 DEF Next, App

(* The sender's state keeps its type: segments are never empty or longer   *)
(* than the MSS, and the count of forgotten timers never goes negative.    *)
THEOREM TypeCorrect == Spec => []TypeOK
<1>1. TypeInv => TypeOK
  BY DEF TypeInv
<1> QED
  BY <1>1, TypeInit, TypeStep, PTL DEF Spec

-----------------------------------------------------------------------------
LEMMA TimerStep == TypeInv /\ TimerInv /\ [Next]_vars => TimerInv'
<1> SUFFICES ASSUME TypeInv, TimerInv, [Next]_vars
             PROVE  TimerInv'
  OBVIOUS
<1>1. ASSUME NEW len \in 1..MaxBytes, tcp_write(len)
      PROVE  TimerInv'
  BY <1>1 DEF tcp_write, TimerInv
<1>2. ASSUME tcp_queue_transmit_skb
      PROVE  TimerInv'
  \* The timer is armed when the queue was empty; otherwise there is one.
  BY <1>2 DEF tcp_queue_transmit_skb, tcp_reset_retransmission_timer, TimerInv
<1>3. ASSUME tcp_queue_transmit_done
      PROVE  TimerInv'
  BY <1>3 DEF tcp_queue_transmit_done, TimerInv
<1>4. ASSUME AckIn
      PROVE  TimerInv'
  BY <1>4 DEF AckIn, AckAccept, AckIgnore, TimerInv
<1>5. ASSUME tcp_clean_retransmission_queue
      PROVE  TimerInv'
  <2>1. PICK n \in 0..Len(write_queue) :
            write_queue' = SubSeq(write_queue, n + 1, Len(write_queue))
    BY <1>5 DEF tcp_clean_retransmission_queue
  <2>2. CASE write_queue' = <<>>
    BY <1>5, <2>2 DEF tcp_clean_retransmission_queue, StopWhenDrained, TimerInv
  <2>3. CASE write_queue' # <<>>
    \* Cleaning leaves something only if something was there.
    <3>1. write_queue # <<>>
      BY <2>1, <2>3 DEF TypeInv, TypeOK
    <3>2. UNCHANGED <<retransmit, timer_pc>>
      BY <1>5, <2>3 DEF tcp_clean_retransmission_queue, StopWhenDrained
    <3> QED BY <3>1, <3>2 DEF TimerInv
  <2> QED BY <2>2, <2>3
<1>6. ASSUME Timer
      PROVE  TimerInv'
  <2>1. CASE FireCurrent
    BY <2>1 DEF FireCurrent, TimerInv
  <2>2. CASE FireOrphan
    BY <2>2 DEF FireOrphan, TimerInv
  <2>3. CASE tcp_retransmission_timeout
    <3>1. CASE write_queue = <<>>
      BY <2>3, <3>1 DEF tcp_retransmission_timeout, TimerInv
    <3>2. CASE write_queue # <<>>
      BY <2>3, <3>2 DEF tcp_retransmission_timeout, TimerInv
    <3> QED BY <3>1, <3>2
  <2> QED BY <1>6, <2>1, <2>2, <2>3 DEF Timer
<1>7. ASSUME Deliver
      PROVE  TimerInv'
  BY <1>7 DEF Deliver, PeerReceive, TimerInv
<1>8. ASSUME Lose
      PROVE  TimerInv'
  BY <1>8 DEF Lose, LoseSegment, LoseAck, TimerInv
<1>9. CASE UNCHANGED vars
  BY <1>9 DEF vars, TimerInv
<1> QED
  BY <1>1, <1>2, <1>3, <1>4, <1>5, <1>6, <1>7, <1>8, <1>9 DEF Next, App

(* Unacknowledged data always has a timer armed or a handler on its way,   *)
(* in every interleaving of the three threads that start and stop it.      *)
THEOREM PendingTimerHolds == Spec => []PendingHasTimer
<1>1. Init => TimerInv
  BY DEF Init, TimerInv
<1>2. TypeInv /\ TimerInv => PendingHasTimer
  BY DEF TypeInv, TypeOK, TimerInv, PendingHasTimer
<1> QED
  BY <1>1, <1>2, TypeInit, TypeStep, TimerStep, PTL DEF Spec

-----------------------------------------------------------------------------
LEMMA AckStep == TypeInv /\ AckInv /\ [Next]_vars => AckInv'
<1> SUFFICES ASSUME TypeInv, AckInv, [Next]_vars
             PROVE  AckInv'
  OBVIOUS
<1> USE SendAssumption
<1>1. ASSUME NEW len \in 1..MaxBytes, tcp_write(len)
      PROVE  AckInv'
  BY <1>1 DEF tcp_write, AckInv, AckSound
<1>2. ASSUME tcp_queue_transmit_skb
      PROVE  AckInv'
  BY <1>2 DEF tcp_queue_transmit_skb, AckInv, AckSound
<1>3. ASSUME tcp_queue_transmit_done
      PROVE  AckInv'
  <2>1. write_queue[Len(write_queue)] \in Skb
    BY <1>3 DEF tcp_queue_transmit_done, TypeInv, TypeOK, LockedNonempty
  <2>2. snd_una <= snd_nxt'
    BY <1>3, <2>1 DEF tcp_queue_transmit_done, TypeInv, TypeOK, Skb, AckInv,
                      AckSound
  <2> QED BY <1>3, <2>2 DEF tcp_queue_transmit_done, AckInv, AckSound
<1>4. ASSUME AckIn
      PROVE  AckInv'
  BY <1>4 DEF AckIn, AckAccept, AckIgnore, Acceptable, AckInv, AckSound
<1>5. ASSUME tcp_clean_retransmission_queue
      PROVE  AckInv'
  BY <1>5 DEF tcp_clean_retransmission_queue, AckInv, AckSound
<1>6. ASSUME Timer
      PROVE  AckInv'
  BY <1>6 DEF Timer, FireCurrent, FireOrphan, tcp_retransmission_timeout,
              AckInv, AckSound
<1>7. ASSUME Deliver
      PROVE  AckInv'
  <2>0. PICK m \in net :
            \E left \in {net, net \ {m}} : PeerReceive(m, left)
    BY <1>7 DEF Deliver
  <2>1. PICK left \in {net, net \ {m}} : PeerReceive(m, left)
    BY <2>0
  <2>2. peer' \in Seq(Nat) /\ Len(peer) <= Len(peer')
    BY <2>1, ReceivedGrows DEF TypeInv, TypeOK, PeerReceive
  <2>3. /\ Len(peer) \in Nat /\ Len(peer') \in Nat
        /\ acks \in SUBSET Nat /\ snd_una \in Nat
    BY <2>2 DEF TypeInv, TypeOK
  <2>4. /\ acks' = acks \cup {Len(peer')}
        /\ snd_una' = snd_una /\ snd_nxt' = snd_nxt
    BY <2>1 DEF PeerReceive
  <2> QED BY <2>2, <2>3, <2>4 DEF AckInv, AckSound
<1>8. ASSUME Lose
      PROVE  AckInv'
  BY <1>8 DEF Lose, LoseSegment, LoseAck, AckInv, AckSound
<1>9. CASE UNCHANGED vars
  BY <1>9 DEF vars, AckInv, AckSound
<1> QED
  BY <1>1, <1>2, <1>3, <1>4, <1>5, <1>6, <1>7, <1>8, <1>9 DEF Next, App

(* Nothing is taken for acknowledged that the peer does not have, whatever *)
(* stale, duplicated or early ACKs arrive.                                 *)
THEOREM AckSoundHolds == Spec => []AckSound
<1>1. Init => AckInv
  BY DEF Init, AckInv, AckSound
<1>2. AckInv => AckSound
  BY DEF AckInv
<1> QED
  BY <1>1, <1>2, TypeInit, TypeStep, AckStep, PTL DEF Spec

-----------------------------------------------------------------------------
(***************************************************************************)
(* The application that waits for its acknowledgement before it writes     *)
(* again, and a timer handler that does not slip in between the store of   *)
(* snd_una and the cleaning of the queue: then the stream arrives intact.  *)
(* At most one skb is in the queue; PendingEnd is where it ends.  Segments, ACKs  *)
(* and the peer are either at or below snd_una, or exactly at that skb.    *)
(***************************************************************************)
Pending == write_queue[1]
PendingEnd  == Pending.first + Pending.dlen

(* Where a sequence number of the connection can lie.                      *)
AtBoundary(n) == n <= snd_una \/ (write_queue # <<>> /\ n = PendingEnd)

StopWaitInv ==
    /\ Len(write_queue) <= 1
    /\ slen <= MSS
    /\ slen > 0 => write_queue = <<>> /\ rx_pc = "idle"
    /\ write_queue = <<>> => snd_una = snd_nxt
    /\ app_pc = "locked" => snd_nxt = Pending.first /\ rx_pc = "idle"
    /\ write_queue # <<>> =>
         /\ Pending.end_seq = PendingEnd
         /\ app_pc = "idle" => snd_nxt = PendingEnd
         /\ rx_pc = "idle" => snd_una = Pending.first
         /\ rx_pc = "clean" => snd_una = PendingEnd
    /\ \A m \in net :
         /\ m.first = m.seq
         /\ AtBoundary(m.seq + m.dlen)
    /\ \A a \in acks : AtBoundary(a)
    /\ AtBoundary(Len(peer))
    /\ StreamIntact

LEMMA PendingType == TypeInv /\ write_queue # <<>> =>
    /\ Pending \in Skb /\ Pending.first \in Nat /\ Pending.dlen \in Nat
    /\ Pending.dlen > 0 /\ PendingEnd \in Nat
<1> SUFFICES ASSUME TypeInv, write_queue # <<>>
             PROVE  /\ Pending \in Skb /\ Pending.first \in Nat /\ Pending.dlen \in Nat
                    /\ Pending.dlen > 0 /\ PendingEnd \in Nat
  OBVIOUS
<1>1. Pending \in Skb
  BY DEF Pending, TypeInv, TypeOK
<1> QED BY <1>1, SendAssumption DEF Skb, PendingEnd

(* A segment whose bytes are the ones of its place keeps the stream        *)
(* intact, and takes the peer exactly to the segment's end or nowhere.     *)
LEMMA ReceivedIntact ==
    ASSUME TypeOK, StreamIntact, NEW m \in Segment, m.first = m.seq
    PROVE  /\ \A i \in 1..Len(Received(m)) : Received(m)[i] = i - 1
           /\ Received(m) = peer \/ Len(Received(m)) = m.seq + m.dlen
<1> DEFINE have == Len(peer)
           end  == m.seq + m.dlen
           new  == [j \in 1..(end - have) |-> m.first + have - m.seq + j - 1]
<1>1. /\ peer \in Seq(Nat) /\ have \in Nat /\ m.seq \in Nat
      /\ m.first \in Nat /\ m.dlen \in Nat /\ end \in Nat
  BY SendAssumption DEF TypeOK, Segment
<1>2. CASE m.seq <= have /\ have < end
  <2>1. /\ end - have \in Nat
        /\ \A j \in 1..(end - have) :
              /\ m.first + have - m.seq + j - 1 \in Nat
              /\ m.first + have - m.seq + j - 1 = have + j - 1
    BY <1>1, <1>2
  <2>2. /\ new \in Seq(Nat) /\ Len(new) = end - have
        /\ \A j \in 1..(end - have) : new[j] = have + j - 1
    BY <2>1
  <2>3. Received(m) = peer \o new
    BY <1>2 DEF Received
  <2> HIDE DEF new
  <2>4. /\ Len(peer \o new) = Len(peer) + Len(new)
        /\ \A i \in 1..(Len(peer) + Len(new)) : (peer \o new)[i] =
               IF i <= Len(peer) THEN peer[i] ELSE new[i - Len(peer)]
    BY <1>1, <2>2, ConcatProperties
  <2>5. \A i \in 1..Len(peer \o new) : (peer \o new)[i] = i - 1
    <3> SUFFICES ASSUME NEW i \in 1..Len(peer \o new)
                 PROVE  (peer \o new)[i] = i - 1
      OBVIOUS
    <3>1. i \in 1..(Len(peer) + Len(new)) /\ i \in Nat
      BY <2>4, <2>2, <1>1
    <3>2. CASE i <= Len(peer)
      <4>1. i \in 1..Len(peer)
        BY <3>1, <3>2, <1>1
      <4> QED BY <3>1, <3>2, <4>1, <2>4 DEF StreamIntact
    <3>3. CASE ~(i <= Len(peer))
      <4>1. i - Len(peer) \in 1..(end - have)
        BY <3>1, <3>3, <1>1, <2>1, <2>2
      <4>2. new[i - Len(peer)] = have + (i - Len(peer)) - 1
        BY <4>1, <2>2
      <4> QED BY <3>1, <3>3, <4>2, <2>4, <1>1
    <3> QED BY <3>2, <3>3
  <2> QED BY <1>1, <2>1, <2>2, <2>3, <2>4, <2>5
<1>3. CASE ~(m.seq <= have /\ have < end)
  <2>1. Received(m) = peer
    BY <1>3 DEF Received
  <2> QED BY <2>1 DEF StreamIntact
<1> QED BY <1>2, <1>3

LEMMA StopWaitStep ==
    ASSUME ~Pipelined, ~AckRace
    PROVE  TypeInv /\ AckInv /\ StopWaitInv /\ [Next]_vars => StopWaitInv'
<1> SUFFICES ASSUME TypeInv, AckInv, StopWaitInv, [Next]_vars
             PROVE  StopWaitInv'
  OBVIOUS
<1> USE SendAssumption
<1>n. /\ snd_una \in Nat /\ snd_nxt \in Nat /\ Len(peer) \in Nat
      /\ Len(write_queue) \in Nat /\ slen \in Nat
      /\ \A m \in net : m \in Segment /\ m.seq + m.dlen \in Nat
      /\ \A a \in acks : a \in Nat
  BY DEF TypeInv, TypeOK, Segment
<1>m. write_queue # <<>> => Len(write_queue) = 1
  <2>1. write_queue \in Seq(Skb) /\ Len(write_queue) <= 1
    BY DEF TypeInv, TypeOK, StopWaitInv
  <2>2. ASSUME write_queue # <<>>
        PROVE  Len(write_queue) = 1
    <3>1. Len(write_queue) \in Nat /\ Len(write_queue) # 0
      BY <2>1, <2>2, EmptySeq
    <3>2. \A k \in Nat : k # 0 /\ k <= 1 => k = 1
      OBVIOUS
    <3> QED BY <2>1, <3>1, <3>2, Zenon
  <2> QED BY <2>2
<1>1. ASSUME NEW len \in 1..MaxBytes, tcp_write(len)
      PROVE  StopWaitInv'
  BY <1>1 DEF tcp_write, StopWaitInv, StreamIntact, AtBoundary, Pending,
              PendingEnd
<1>2. ASSUME tcp_queue_transmit_skb
      PROVE  StopWaitInv'
  <2>1. /\ write_queue = <<>> /\ rx_pc = "idle" /\ snd_una = snd_nxt
        /\ Payload = slen /\ slen > 0 /\ slen <= MSS
    BY <1>2, <1>n DEF tcp_queue_transmit_skb, StopWaitInv, Payload
  <2> DEFINE skb == [first |-> snd_nxt, dlen |-> slen,
                     end_seq |-> snd_una + slen]
             seg == [seq |-> snd_nxt, first |-> snd_nxt, dlen |-> slen]
  <2>2. write_queue' = Append(<<>>, skb)
    BY <1>2, <2>1 DEF tcp_queue_transmit_skb, EndSeq
  <2>3. /\ write_queue' # <<>> /\ Len(write_queue') = 1
        /\ Pending' = skb /\ PendingEnd' = snd_nxt + slen
    BY <2>2 DEF Pending, PendingEnd
  <2>4. /\ slen' = 0 /\ app_pc' = "locked" /\ net' = net \cup {seg}
        /\ UNCHANGED <<snd_una, snd_nxt, rx_pc, acks, peer>>
    BY <1>2, <2>1, <1>n DEF tcp_queue_transmit_skb
  <2>5. \A k \in Nat : AtBoundary(k) => AtBoundary(k)'
    BY <2>1, <2>4 DEF AtBoundary
  <2>6. \A m \in net' : m.first = m.seq /\ AtBoundary(m.seq + m.dlen)'
    <3> SUFFICES ASSUME NEW m \in net'
                 PROVE  m.first = m.seq /\ AtBoundary(m.seq + m.dlen)'
      OBVIOUS
    <3>1. CASE m \in net
      BY <3>1, <2>5, <1>n DEF StopWaitInv
    <3>2. CASE m = seg
      BY <3>2, <2>3 DEF AtBoundary
    <3> QED BY <3>1, <3>2, <2>4
  <2>7. (\A a \in acks : AtBoundary(a))' /\ AtBoundary(Len(peer))'
    BY <2>4, <2>5, <1>n DEF StopWaitInv, AtBoundary
  <2> HIDE DEF seg
  <2> QED
    BY <2>1, <2>3, <2>4, <2>6, <2>7, <1>n DEF StopWaitInv, StreamIntact
<1>3. ASSUME tcp_queue_transmit_done
      PROVE  StopWaitInv'
  <2>1. write_queue # <<>> /\ Len(write_queue) = 1
    BY <1>3, <1>m DEF tcp_queue_transmit_done, TypeInv, LockedNonempty
  <2>2. snd_nxt' = PendingEnd
    BY <1>3, <2>1 DEF tcp_queue_transmit_done, StopWaitInv, Pending, PendingEnd
  <2> QED
    BY <1>3, <2>1, <2>2
    DEF tcp_queue_transmit_done, StopWaitInv, StreamIntact, AtBoundary,
        Pending, PendingEnd
<1>4. ASSUME AckIn
      PROVE  StopWaitInv'
  <2>1. PICK a \in acks : \E left \in {acks, acks \ {a}} :
            AckAccept(a, left) \/ AckIgnore(a, left)
    BY <1>4 DEF AckIn
  <2>2. PICK left \in {acks, acks \ {a}} :
            AckAccept(a, left) \/ AckIgnore(a, left)
    BY <2>1
  <2>3. CASE AckAccept(a, left)
    <3>1. /\ rx_pc = "idle" /\ snd_una < a /\ a <= snd_nxt /\ a \in Nat
          /\ write_queue # <<>> /\ a = PendingEnd
      BY <2>3, <1>n DEF AckAccept, Acceptable, StopWaitInv, AtBoundary
    <3>2. app_pc = "idle" /\ slen = 0
      BY <3>1, <1>n DEF StopWaitInv, TypeInv, TypeOK
    <3>3. /\ snd_una' = PendingEnd /\ rx_pc' = "clean" /\ acks' \subseteq acks
          /\ UNCHANGED <<snd_nxt, write_queue, slen, app_pc, net, peer>>
      BY <2>3, <3>1 DEF AckAccept
    <3>4. UNCHANGED Pending /\ UNCHANGED PendingEnd
      BY <3>3 DEF Pending, PendingEnd
    <3>5. \A k \in Nat : AtBoundary(k) => AtBoundary(k)'
      BY <3>1, <3>3, <3>4, <1>n DEF AtBoundary
    <3>6. (\A m \in net : m.first = m.seq /\ AtBoundary(m.seq + m.dlen))'
      BY <3>3, <3>5, <1>n DEF StopWaitInv, AtBoundary
    <3>7. (\A b \in acks : AtBoundary(b))' /\ AtBoundary(Len(peer))'
      BY <3>3, <3>5, <1>n DEF StopWaitInv, AtBoundary
    <3> QED
      BY <3>1, <3>2, <3>3, <3>4, <3>6, <3>7 DEF StopWaitInv, StreamIntact
  <2>4. CASE AckIgnore(a, left)
    BY <2>4 DEF AckIgnore, StopWaitInv, StreamIntact, AtBoundary, Pending,
                PendingEnd
  <2> QED BY <2>2, <2>3, <2>4
<1>5. ASSUME tcp_clean_retransmission_queue
      PROVE  StopWaitInv'
  <2>1. PICK n \in 0..Len(write_queue) :
            /\ Acknowledged(n)
            /\ write_queue' = SubSeq(write_queue, n + 1, Len(write_queue))
    BY <1>5 DEF tcp_clean_retransmission_queue
  <2>2. /\ rx_pc = "clean" /\ app_pc = "idle" /\ slen = 0 /\ rx_pc' = "idle"
        /\ UNCHANGED <<snd_una, snd_nxt, slen, app_pc, net, acks, peer>>
    BY <1>5, <1>n DEF tcp_clean_retransmission_queue, Unlocked, StopWaitInv
  <2>3. write_queue' = <<>>
    <3>1. CASE write_queue = <<>>
      BY <3>1, <2>1
    <3>2. CASE write_queue # <<>>
      <4>1. Len(write_queue) = 1 /\ write_queue[1].end_seq = snd_una
        BY <3>2, <2>2, <1>m DEF StopWaitInv, Pending
      <4>2. n = 1
        BY <4>1, <2>1, <1>n DEF Acknowledged
      <4> QED BY <4>1, <4>2, <2>1 DEF TypeInv, TypeOK
    <3> QED BY <3>1, <3>2
  <2>4. snd_una = snd_nxt
    BY <2>2 DEF StopWaitInv
  <2>5. \A k \in Nat : AtBoundary(k) => k <= snd_una
    BY <2>2, <1>n DEF AtBoundary, StopWaitInv
  <2>6. (\A m \in net : m.first = m.seq /\ AtBoundary(m.seq + m.dlen))'
    BY <2>2, <2>5, <1>n DEF StopWaitInv, AtBoundary
  <2>7. (\A b \in acks : AtBoundary(b))' /\ AtBoundary(Len(peer))'
    BY <2>2, <2>5, <1>n DEF StopWaitInv, AtBoundary
  <2> QED
    BY <2>2, <2>3, <2>4, <2>6, <2>7 DEF StopWaitInv, StreamIntact
<1>6. ASSUME Timer
      PROVE  StopWaitInv'
  <2>1. CASE FireCurrent
    BY <2>1 DEF FireCurrent, StopWaitInv, StreamIntact, AtBoundary, Pending,
                PendingEnd
  <2>2. CASE FireOrphan
    BY <2>2 DEF FireOrphan, StopWaitInv, StreamIntact, AtBoundary, Pending,
                PendingEnd
  <2>3. CASE tcp_retransmission_timeout /\ write_queue = <<>>
    BY <2>3 DEF tcp_retransmission_timeout, StopWaitInv, StreamIntact,
                AtBoundary, Pending, PendingEnd
  <2>4. CASE tcp_retransmission_timeout /\ write_queue # <<>>
    <3> DEFINE new == [Pending EXCEPT !.end_seq = snd_una + Pending.dlen]
               seg == [seq |-> snd_una, first |-> Pending.first,
                       dlen |-> Pending.dlen]
    <3>1. rx_pc = "idle" /\ app_pc = "idle" /\ snd_una = Pending.first
      BY <2>4 DEF tcp_retransmission_timeout, Unlocked, StopWaitInv
    <3>2. /\ write_queue' = [write_queue EXCEPT ![1] = new]
          /\ net' = net \cup {seg}
          /\ UNCHANGED <<snd_una, snd_nxt, slen, app_pc, rx_pc, acks, peer>>
      BY <2>4 DEF tcp_retransmission_timeout, Pending, EndSeq
    <3>3. /\ Pending \in Skb /\ Pending.first \in Nat /\ Pending.dlen \in Nat
          /\ PendingEnd \in Nat
      BY <2>4, PendingType
    <3>4. new.first = Pending.first /\ new.dlen = Pending.dlen
          /\ new.end_seq = PendingEnd
      BY <3>1, <3>3 DEF Skb, PendingEnd
    <3>5. /\ Len(write_queue') = Len(write_queue) /\ write_queue' # <<>>
          /\ write_queue'[1] = new
      BY <2>4, <3>2 DEF TypeInv, TypeOK
    <3>6. Pending' = new /\ PendingEnd' = PendingEnd
      BY <3>4, <3>5 DEF Pending, PendingEnd
    <3> HIDE DEF new
    <3>7. \A k \in Nat : AtBoundary(k) => AtBoundary(k)'
      BY <2>4, <3>2, <3>5, <3>6 DEF AtBoundary
    <3>8. (\A m \in net : m.first = m.seq /\ AtBoundary(m.seq + m.dlen))'
      <4> SUFFICES ASSUME NEW m \in net'
                   PROVE  m.first = m.seq /\ AtBoundary(m.seq + m.dlen)'
        BY DEF AtBoundary
      <4>1. CASE m \in net
        BY <4>1, <3>7, <1>n DEF StopWaitInv
      <4>2. CASE m = seg
        BY <4>2, <3>1, <3>5, <3>6 DEF AtBoundary, PendingEnd
      <4> QED BY <4>1, <4>2, <3>2
    <3>9. (\A b \in acks : AtBoundary(b))' /\ AtBoundary(Len(peer))'
      BY <3>2, <3>7, <1>n DEF StopWaitInv, AtBoundary
    <3> HIDE DEF seg
    <3> QED
      BY <2>4, <3>1, <3>2, <3>4, <3>5, <3>6, <3>8, <3>9, <1>n
      DEF StopWaitInv, StreamIntact
  <2> QED BY <1>6, <2>1, <2>2, <2>3, <2>4 DEF Timer
<1>7. ASSUME Deliver
      PROVE  StopWaitInv'
  <2>0. PICK m \in net :
            \E left \in {net, net \ {m}} : PeerReceive(m, left)
    BY <1>7 DEF Deliver
  <2>1. PICK left \in {net, net \ {m}} : PeerReceive(m, left)
    BY <2>0
  <2>2. /\ peer' = Received(m) /\ acks' = acks \cup {Len(peer')}
        /\ net' \subseteq net
        /\ UNCHANGED <<snd_una, snd_nxt, write_queue, slen, app_pc, rx_pc>>
    BY <2>1 DEF PeerReceive
  <2>3. StreamIntact' /\ (peer' = peer \/ Len(peer') = m.seq + m.dlen)
    BY <2>2, <1>n, ReceivedIntact DEF TypeInv, StopWaitInv, StreamIntact
  <2>4. UNCHANGED Pending /\ UNCHANGED PendingEnd
    BY <2>2 DEF Pending, PendingEnd
  <2>5. \A k \in Nat : AtBoundary(k) => AtBoundary(k)'
    BY <2>2, <2>4 DEF AtBoundary
  <2>6. AtBoundary(Len(peer))'
    <3>1. AtBoundary(Len(peer)) /\ AtBoundary(m.seq + m.dlen)
      BY DEF StopWaitInv
    <3> QED BY <3>1, <2>2, <2>3, <2>4, <1>n DEF AtBoundary
  <2>7. (\A k \in net : k.first = k.seq /\ AtBoundary(k.seq + k.dlen))'
    BY <2>2, <2>5, <1>n DEF StopWaitInv, AtBoundary
  <2>8. (\A b \in acks : AtBoundary(b))'
    BY <2>2, <2>5, <2>6, <1>n DEF StopWaitInv, AtBoundary
  <2> QED
    BY <2>2, <2>3, <2>4, <2>6, <2>7, <2>8 DEF StopWaitInv, AtBoundary
<1>8. ASSUME Lose
      PROVE  StopWaitInv'
  BY <1>8 DEF Lose, LoseSegment, LoseAck, StopWaitInv, StreamIntact,
              AtBoundary, Pending, PendingEnd
<1>9. CASE UNCHANGED vars
  BY <1>9 DEF vars, StopWaitInv, StreamIntact, AtBoundary, Pending, PendingEnd
<1> QED
  BY <1>1, <1>2, <1>3, <1>4, <1>5, <1>6, <1>7, <1>8, <1>9 DEF Next, App

(* What the invariant says of a queue that is not being cleaned: every     *)
(* byte sent and not acknowledged is in the skb that waits.                *)
LEMMA StopWaitQueued == TypeInv /\ StopWaitInv => UnackedQueued
<1> SUFFICES ASSUME TypeInv, StopWaitInv, rx_pc = "idle",
                    NEW b \in snd_una..(snd_nxt - 1)
             PROVE  \E i \in 1..Len(write_queue) :
                        /\ write_queue[i].first <= b
                        /\ b < write_queue[i].first + write_queue[i].dlen
  BY DEF UnackedQueued
<1>1. snd_una \in Nat /\ snd_nxt \in Nat /\ write_queue \in Seq(Skb)
  BY DEF TypeInv, TypeOK
<1>2. write_queue # <<>>
  BY <1>1 DEF StopWaitInv
<1>3. 1 \in 1..Len(write_queue)
  BY <1>1, <1>2
<1>4. Pending.first \in Nat /\ Pending.dlen \in Nat
  BY <1>2, PendingType
<1>5. Pending.first <= b /\ b < Pending.first + Pending.dlen
  <2>1. app_pc \in {"idle", "locked"}
    BY DEF TypeInv, TypeOK
  <2> QED BY <1>1, <1>2, <1>4, <2>1 DEF StopWaitInv, PendingEnd
<1> QED BY <1>3, <1>5 DEF Pending

(* Stop-and-wait writing, timer not inside the ACK's window: the peer's    *)
(* application reads exactly the bytes that were written, in order, in     *)
(* spite of lost, duplicated and reordered segments and acknowledgements.  *)
THEOREM StopWaitStream ==
    ASSUME ~Pipelined, ~AckRace
    PROVE  Spec => []StreamIntact
<1>1. Init => StopWaitInv
  BY SendAssumption DEF Init, StopWaitInv, AtBoundary, StreamIntact
<1>2. Init => AckInv
  BY DEF Init, AckInv, AckSound
<1>3. TypeInv /\ AckInv /\ StopWaitInv /\ [Next]_vars => StopWaitInv'
  BY StopWaitStep
<1>4. StopWaitInv => StreamIntact
  BY DEF StopWaitInv
<1> QED
  BY <1>1, <1>2, <1>3, <1>4, TypeInit, TypeStep, AckStep, PTL DEF Spec

(* Under the same conditions no byte is forgotten: what is sent and not    *)
(* acknowledged is in the write queue.                                     *)
THEOREM StopWaitKeepsUnacked ==
    ASSUME ~Pipelined, ~AckRace
    PROVE  Spec => []UnackedQueued
<1>1. Init => StopWaitInv
  BY SendAssumption DEF Init, StopWaitInv, AtBoundary, StreamIntact
<1>2. Init => AckInv
  BY DEF Init, AckInv, AckSound
<1>3. TypeInv /\ AckInv /\ StopWaitInv /\ [Next]_vars => StopWaitInv'
  BY StopWaitStep
<1> QED
  BY <1>1, <1>2, <1>3, StopWaitQueued, TypeInit, TypeStep, AckStep, PTL
  DEF Spec
=============================================================================
