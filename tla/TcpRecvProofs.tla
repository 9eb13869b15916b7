---------------------------- MODULE TcpRecvProofs ----------------------------
(***************************************************************************)
(* Proofs about TcpRecv, for every stream, segment size, window and length *)
(* of the queues: whatever the network does to the peer's segments, and    *)
(* however the reader interleaves, the application reads the stream.       *)
(***************************************************************************)
EXTENDS TcpRecv, SequenceTheorems, TLAPS

(* The bounds of one read, and of rcv_nxt before and after the FIN.        *)
Bounds ==
    /\ want + got <= MaxRead
    /\ state = "ESTABLISHED" => rcv_nxt <= N

RecvInv == TypeOK /\ Bounds /\ StreamIntact /\ FinLast

-----------------------------------------------------------------------------
LEMMA SegmentType ==
    ASSUME NEW s \in Segments
    PROVE  /\ s.seq \in 0..N /\ s.dlen \in 0..RMSS
           /\ s.psh \in BOOLEAN /\ s.fin \in BOOLEAN
           /\ s.seq + s.dlen <= N
           /\ s.fin => s.seq + s.dlen = N
           /\ s.dlen = 0 => s.fin
BY DEF Segments

LEMMA SkbType ==
    ASSUME NEW k \in Skb
    PROVE  /\ k.seq \in Nat /\ k.dlen \in Nat /\ k.dlen > 0
           /\ k.psh \in BOOLEAN /\ EndSeq(k) \in Nat /\ EndSeq(k) <= N
BY RecvAssumption DEF Skb, EndSeq

(* Inserting a skb anywhere leaves a queue of skbs.                        *)
LEMMA InsertAtType ==
    ASSUME NEW S, NEW q \in Seq(S), NEW e \in S, NEW i \in 1..Len(q)
    PROVE  InsertAt(q, i + 1, e) \in Seq(S)
<1>1. SubSeq(q, 1, i) \in Seq(S) /\ SubSeq(q, i + 1, Len(q)) \in Seq(S)
  OBVIOUS
<1>2. <<e>> \in Seq(S)
  OBVIOUS
<1>3. SubSeq(q, 1, i) \o <<e>> \in Seq(S)
  BY <1>1, <1>2, ConcatProperties
<1>4. SubSeq(q, 1, i) \o <<e>> \o SubSeq(q, i + 1, Len(q)) \in Seq(S)
  BY <1>1, <1>3, ConcatProperties
<1>5. i + 1 - 1 = i
  OBVIOUS
<1> QED BY <1>4, <1>5 DEF InsertAt

(* A function on 1..d is a sequence of length d.                           *)
LEMMA FunctionSeq ==
    ASSUME NEW S, NEW d \in Nat, NEW r \in [1..d -> S]
    PROVE  r \in Seq(S) /\ Len(r) = d
OBVIOUS

(* One byte of the stream with its mark.                                   *)
LEMMA ByteRecord ==
    ASSUME NEW b \in 0..(N - 1), NEW f \in BOOLEAN
    PROVE  [byte |-> b, psh |-> f] \in Byte
BY DEF Byte

(* The bytes of a skb in sequence extend the queue by exactly the bytes    *)
(* that follow; so do the bytes taken over from ofo_queue.                 *)
LEMMA ExtendBytes ==
    ASSUME NEW q \in Seq(Byte), NEW add \in Seq(Byte), NEW base \in Nat,
           \A i \in 1..Len(q) : q[i].byte = base + i - 1,
           \A j \in 1..Len(add) : add[j].byte = base + Len(q) + j - 1
    PROVE  /\ q \o add \in Seq(Byte)
           /\ Len(q \o add) = Len(q) + Len(add)
           /\ \A i \in 1..Len(q \o add) : (q \o add)[i].byte = base + i - 1
<1>1. /\ q \o add \in Seq(Byte)
      /\ Len(q \o add) = Len(q) + Len(add)
      /\ \A i \in 1..(Len(q) + Len(add)) :
            (q \o add)[i] = IF i <= Len(q) THEN q[i] ELSE add[i - Len(q)]
  BY ConcatProperties
<1>2. ASSUME NEW i \in 1..Len(q \o add)
      PROVE  (q \o add)[i].byte = base + i - 1
  <2>0. Len(q) \in Nat /\ Len(add) \in Nat /\ i \in 1..(Len(q) + Len(add))
    BY <1>1
  <2>1. CASE i <= Len(q)
    <3>1. i \in 1..Len(q) /\ (q \o add)[i] = q[i]
      BY <1>1, <2>0, <2>1
    <3> QED BY <3>1
  <2>2. CASE ~(i <= Len(q))
    <3>1. i - Len(q) \in 1..Len(add) /\ (q \o add)[i] = add[i - Len(q)]
      BY <1>1, <2>0, <2>2
    <3>2. add[i - Len(q)].byte = base + Len(q) + (i - Len(q)) - 1
      BY <3>1
    <3> QED BY <3>1, <3>2, <2>0
  <2> QED BY <2>1, <2>2
<1> QED BY <1>1, <1>2

(* Text queued in or out of sequence (tcp_data_queue) keeps the queue the  *)
(* continuation of what was delivered, up to the new rcv_nxt.              *)
LEMMA TextStep ==
    ASSUME RecvInv, state = "ESTABLISHED", NEW s \in Segments, s.dlen > 0,
           NEW nxt \in rcv_nxt..N, tcp_data_queue(s, nxt)
    PROVE  /\ receive_queue' \in Seq(Byte)
           /\ Len(delivered) + Len(receive_queue') = nxt
           /\ \A i \in 1..Len(receive_queue') :
                  receive_queue'[i].byte = Len(delivered) + i - 1
           /\ ofo_queue' \in Seq(Skb)
           /\ delacks' \in 0..1 /\ delack' \in {"null", "live", "fired"}
<1> DEFINE skb == [seq |-> s.seq, dlen |-> s.dlen, psh |-> s.psh]
           end == s.seq + s.dlen
<1> USE RecvAssumption
<1>1. /\ s.seq \in Nat /\ s.dlen \in Nat /\ end \in Nat /\ end <= N
      /\ rcv_nxt \in Nat /\ nxt \in Nat /\ s.psh \in BOOLEAN
  BY SegmentType DEF RecvInv, TypeOK
<1>2. skb \in Skb /\ EndSeq(skb) = end
  BY <1>1, SegmentType DEF Skb, EndSeq
<1>3. /\ receive_queue \in Seq(Byte) /\ ofo_queue \in Seq(Skb)
      /\ Len(delivered) \in Nat /\ Len(receive_queue) \in Nat
      /\ Len(delivered) + Len(receive_queue) = rcv_nxt
      /\ \A i \in 1..Len(receive_queue) :
             receive_queue[i].byte = Len(delivered) + i - 1
  BY DEF RecvInv, TypeOK, StreamIntact, InSequence
<1>4. CASE Expected(s)
  <2>1. PICK n \in 0..Len(ofo_queue) :
          /\ Continues(n, EndSeq(skb))
          /\ nxt = After(n, EndSeq(skb))
          /\ receive_queue' = receive_queue \o Bytes(skb)
                                            \o OfoBytes(n, EndSeq(skb))
          /\ ofo_queue' = SubSeq(ofo_queue, n + 1, Len(ofo_queue))
    BY <1>4 DEF tcp_data_queue
  <2>2. s.seq = rcv_nxt /\ end <= nxt /\ nxt - end \in Nat
    BY <1>1, <1>2, <1>4, <2>1 DEF Expected, Continues
  <2>3. /\ Bytes(skb) \in Seq(Byte) /\ Len(Bytes(skb)) = s.dlen
        /\ \A j \in 1..s.dlen : Bytes(skb)[j].byte = s.seq + j - 1
    <3> DEFINE f(j) == s.psh /\ j = s.dlen
               r    == Bytes(skb)
    <3>1. r = [j \in 1..s.dlen |-> [byte |-> s.seq + j - 1, psh |-> f(j)]]
      BY DEF Bytes
    <3>2. \A j \in 1..s.dlen : f(j) \in BOOLEAN /\ s.seq + j - 1 \in 0..(N - 1)
      BY <1>1
    <3> HIDE DEF f, r
    <3>3. r \in [1..s.dlen -> Byte]
      BY <3>1, <3>2, ByteRecord
    <3>4. \A j \in 1..s.dlen : r[j].byte = s.seq + j - 1
      BY <3>1
    <3>5. r \in Seq(Byte) /\ Len(r) = s.dlen
      BY <1>1, <3>3, FunctionSeq
    <3> QED BY <3>4, <3>5 DEF r
  <2>4. /\ OfoBytes(n, end) \in Seq(Byte) /\ Len(OfoBytes(n, end)) = nxt - end
        /\ \A j \in 1..(nxt - end) : OfoBytes(n, end)[j].byte = end + j - 1
    <3> DEFINE k    == nxt - end
               f(j) == \E i \in 1..n : /\ EndSeq(ofo_queue[i]) = end + j
                                       /\ ofo_queue[i].psh
               r    == OfoBytes(n, end)
    <3>1. nxt = After(n, end)
      BY <1>2, <2>1
    <3>2. r = [j \in 1..k |-> [byte |-> end + j - 1, psh |-> f(j)]]
      BY <3>1 DEF OfoBytes
    <3>3. \A j \in 1..k : f(j) \in BOOLEAN /\ end + j - 1 \in 0..(N - 1)
      <4>1. \A j \in 1..k : f(j) \in BOOLEAN
        OBVIOUS
      <4> HIDE DEF f, end
      <4>2. \A j \in 1..k : end + j - 1 \in 0..(N - 1)
        BY <1>1, <2>2
      <4> QED BY <4>1, <4>2
    <3> HIDE DEF f, r, end
    <3>4. r \in [1..k -> Byte]
      BY <3>2, <3>3, ByteRecord
    <3>5. \A j \in 1..k : r[j].byte = end + j - 1
      BY <3>2
    <3>6. r \in Seq(Byte) /\ Len(r) = k
      BY <2>2, <3>4, FunctionSeq
    <3> QED BY <3>5, <3>6 DEF r
  <2> DEFINE new  == Bytes(skb)
             more == OfoBytes(n, end)
             mid  == receive_queue \o new
             base == Len(delivered)
  <2>5. /\ mid \in Seq(Byte) /\ Len(mid) = Len(receive_queue) + s.dlen
        /\ \A i \in 1..Len(mid) : mid[i].byte = base + i - 1
    <3>1. \A j \in 1..Len(new) : new[j].byte = base + Len(receive_queue) + j - 1
      BY <1>3, <2>2, <2>3
    <3>2. new \in Seq(Byte) /\ Len(new) = s.dlen /\ base \in Nat
      BY <1>3, <2>3
    <3>3. \A i \in 1..Len(receive_queue) : receive_queue[i].byte = base + i - 1
      BY <1>3
    <3> HIDE DEF new, base
    <3>4. /\ mid \in Seq(Byte) /\ Len(mid) = Len(receive_queue) + Len(new)
          /\ \A i \in 1..Len(mid) : mid[i].byte = base + i - 1
      BY <1>3, <3>1, <3>2, <3>3, ExtendBytes
    <3> QED BY <3>2, <3>4
  <2>6. base + Len(mid) = end /\ Len(mid) \in Nat
    <3>1. Len(mid) = Len(receive_queue) + s.dlen
      BY <2>5
    <3>2. /\ base + Len(receive_queue) = s.seq /\ base \in Nat
          /\ Len(receive_queue) \in Nat
      BY <1>3, <2>2
    <3>3. \A b, l, d \in Nat : b + (l + d) = (b + l) + d
      OBVIOUS
    <3> HIDE DEF mid, base
    <3>4. s.dlen \in Nat /\ end = s.seq + s.dlen
      BY <1>1
    <3>5. base + (Len(receive_queue) + s.dlen) = s.seq + s.dlen
      BY <3>2, <3>3, <3>4
    <3>6. Len(receive_queue) + s.dlen \in Nat
      BY <3>2, <3>4
    <3> QED BY <3>1, <3>4, <3>5, <3>6
  <2>7. /\ mid \o more \in Seq(Byte)
        /\ Len(mid \o more) = Len(mid) + (nxt - end)
        /\ \A i \in 1..Len(mid \o more) : (mid \o more)[i].byte = base + i - 1
    <3>1. \A j \in 1..Len(more) : more[j].byte = base + Len(mid) + j - 1
      BY <2>4, <2>6
    <3>2. \A i \in 1..Len(mid) : mid[i].byte = base + i - 1
      BY <2>5
    <3>3. more \in Seq(Byte) /\ Len(more) = nxt - end /\ base \in Nat
          /\ mid \in Seq(Byte)
      BY <1>3, <2>4, <2>5
    <3> HIDE DEF mid, more, base
    <3>4. /\ mid \o more \in Seq(Byte)
          /\ Len(mid \o more) = Len(mid) + Len(more)
          /\ \A i \in 1..Len(mid \o more) : (mid \o more)[i].byte = base + i - 1
      BY <3>1, <3>2, <3>3, ExtendBytes
    <3> QED BY <3>3, <3>4
  <2>8. receive_queue' = mid \o more
    BY <1>2, <2>1
  <2>9. ofo_queue' \in Seq(Skb)
    BY <1>3, <2>1
  <2>10. delacks' \in 0..1 /\ delack' \in {"null", "live", "fired"}
    BY <1>4 DEF tcp_data_queue, RestartDelack, AckAtOnce, RecvInv, TypeOK
  <2>11. base + (Len(mid) + (nxt - end)) = nxt
    <3> HIDE DEF mid
    <3> QED BY <1>1, <1>3, <2>6
  <2> HIDE DEF mid, more, end
  <2> QED BY <2>7, <2>8, <2>9, <2>10, <2>11
<1>5. CASE ~Expected(s)
  <2>1. /\ nxt = rcv_nxt /\ tcp_data_insert_ordered(skb)
        /\ UNCHANGED <<receive_queue, delacks, delack>>
    BY <1>5 DEF tcp_data_queue
  <2>2. ofo_queue' \in Seq(Skb)
    <3> HIDE DEF skb
    <3>1. CASE ofo_queue' = Append(ofo_queue, skb)
      BY <3>1, <1>2, <1>3
    <3>2. CASE ofo_queue' = ofo_queue
      BY <3>2, <1>3
    <3>3. ASSUME NEW i \in 1..Len(ofo_queue),
                 ofo_queue' = InsertAt(ofo_queue, i + 1, skb)
          PROVE  ofo_queue' \in Seq(Skb)
      BY <3>3, <1>2, <1>3, InsertAtType
    <3> QED BY <3>1, <3>2, <3>3, <2>1 DEF tcp_data_insert_ordered
  <2> QED BY <2>1, <2>2, <1>3 DEF RecvInv, TypeOK
<1> QED BY <1>4, <1>5

-----------------------------------------------------------------------------
LEMMA RecvInit == Init => RecvInv
<1> SUFFICES ASSUME Init PROVE RecvInv
  OBVIOUS
<1> USE RecvAssumption
<1>1. /\ Len(receive_queue) = 0 /\ Len(delivered) = 0
      /\ receive_queue \in Seq(Byte) /\ ofo_queue \in Seq(Skb)
      /\ delivered \in Seq(0..(N - 1))
  BY DEF Init
<1>2. TypeOK
  <2>1. /\ rcv_nxt \in 0..(N + 1) /\ acked \in 0..(N + 1) /\ orphans \in Nat
        /\ delacks \in 0..1 /\ want \in 0..MaxRead /\ got \in 0..MaxRead
    BY DEF Init
  <2>2. /\ state \in {"ESTABLISHED", "CLOSE_WAIT"}
        /\ delack \in {"null", "live", "fired"}
        /\ timer_pc \in {"idle", "fired", "send"}
        /\ app_pc \in {"idle", "dequeue", "check", "clear", "presleep",
                       "asleep"}
    BY DEF Init
  <2>3. /\ fin_flag \in BOOLEAN /\ psh_flag \in BOOLEAN
        /\ fin_loaded \in BOOLEAN /\ eof \in BOOLEAN
    BY DEF Init
  <2> QED BY <1>1, <2>1, <2>2, <2>3 DEF TypeOK
<1>3. Bounds /\ FinLast
  BY DEF Init, Bounds, FinLast
<1>4. StreamIntact
  BY <1>1 DEF Init, StreamIntact, InSequence
<1> QED BY <1>2, <1>3, <1>4 DEF RecvInv

(* A segment the filter lets through.                                      *)
LEMMA RxAcceptedStep ==
    ASSUME RecvInv, NEW s \in Segments, RxAccepted(s)
    PROVE  RecvInv'
<1> USE RecvAssumption
<1>1. PICK nxt \in rcv_nxt..N :
        /\ \/ s.dlen > 0 /\ tcp_data_queue(s, nxt)
           \/ s.dlen = 0 /\ nxt = rcv_nxt
              /\ UNCHANGED <<queueVars, delacks, delack>>
        /\ rcv_nxt' = IF FinInSequence(s, nxt) THEN nxt + 1 ELSE nxt
        /\ fin_flag' = (fin_flag \/ FinInSequence(s, nxt))
        /\ state' = IF FinInSequence(s, nxt) THEN "CLOSE_WAIT" ELSE state
        /\ acked' = IF FinInSequence(s, nxt)
                       \/ (s.dlen > 0 /\ (~Expected(s) \/ AckAtOnce(s)))
                    THEN rcv_nxt' ELSE acked
        /\ IF FinInSequence(s, nxt) \/ s.dlen > 0
           THEN recv_notify ELSE UNCHANGED app_pc
  BY DEF RxAccepted
<1>2. /\ state = "ESTABLISHED"
      /\ UNCHANGED <<orphans, timer_pc, psh_flag, fin_loaded, want, got,
                     delivered, eof>>
  BY DEF RxAccepted, readVars
<1>3. /\ s.seq \in Nat /\ s.dlen \in Nat /\ rcv_nxt \in Nat /\ nxt \in Nat
      /\ nxt <= N
      /\ s.fin => s.seq + s.dlen = N
  BY SegmentType DEF RecvInv, TypeOK
<1>4. /\ receive_queue' \in Seq(Byte)
      /\ Len(delivered) + Len(receive_queue') = nxt
      /\ \A i \in 1..Len(receive_queue') :
             receive_queue'[i].byte = Len(delivered) + i - 1
      /\ ofo_queue' \in Seq(Skb)
      /\ delacks' \in 0..1 /\ delack' \in {"null", "live", "fired"}
  <2>1. CASE s.dlen > 0 /\ tcp_data_queue(s, nxt)
    BY <2>1, <1>2, TextStep
  <2>2. CASE /\ s.dlen = 0 /\ nxt = rcv_nxt
             /\ UNCHANGED <<queueVars, delacks, delack>>
    BY <2>2, <1>2 DEF queueVars, RecvInv, TypeOK, StreamIntact, InSequence
  <2> QED BY <1>1, <2>1, <2>2
<1>5. FinInSequence(s, nxt) => nxt = N
  BY <1>3 DEF FinInSequence
<1>6. FinInSequence(s, nxt) \in BOOLEAN
  <2>1. s.fin \in BOOLEAN
    BY SegmentType
  <2> QED BY <2>1 DEF FinInSequence
<1>7. /\ rcv_nxt' \in 0..(N + 1) /\ acked' \in 0..(N + 1)
      /\ state' \in {"ESTABLISHED", "CLOSE_WAIT"}
      /\ state' = "ESTABLISHED" => rcv_nxt' = nxt
      /\ state' = "CLOSE_WAIT" => rcv_nxt' = nxt + 1 /\ nxt = N
  <2>1. CASE FinInSequence(s, nxt)
    BY <2>1, <1>1, <1>2, <1>3, <1>5 DEF RecvInv, TypeOK
  <2>2. CASE ~FinInSequence(s, nxt)
    BY <2>2, <1>1, <1>2, <1>3 DEF RecvInv, TypeOK
  <2> QED BY <2>1, <2>2
<1>8. fin_flag' \in BOOLEAN
  BY <1>1, <1>6 DEF RecvInv, TypeOK
<1>9. app_pc' \in
         {"idle", "dequeue", "check", "clear", "presleep", "asleep"}
  BY <1>1 DEF recv_notify, RecvInv, TypeOK
<1>10. TypeOK'
  BY <1>2, <1>4, <1>7, <1>8, <1>9 DEF RecvInv, TypeOK
<1>11. Bounds' /\ FinLast'
  BY <1>2, <1>3, <1>7 DEF RecvInv, Bounds, FinLast
<1>12. StreamIntact'
  <2>1. InSequence' = nxt
    <3>1. CASE state' = "ESTABLISHED"
      BY <3>1, <1>7 DEF InSequence
    <3>2. CASE state' = "CLOSE_WAIT"
      <4>1. rcv_nxt' - 1 = nxt
        BY <3>2, <1>3, <1>7
      <4> QED BY <3>2, <4>1 DEF InSequence
    <3> QED BY <1>7, <3>1, <3>2
  <2> QED BY <2>1, <1>2, <1>4 DEF RecvInv, StreamIntact
<1> QED BY <1>10, <1>11, <1>12 DEF RecvInv

(* The reader takes the first k bytes of the queue.                        *)
LEMMA DequeueStep ==
    ASSUME RecvInv, tcp_data_dequeue
    PROVE  /\ RecvInv'
           /\ \E k \in 0..Len(receive_queue) :
                delivered' = delivered \o
                               [j \in 1..k |-> Len(delivered) + j - 1]
<1> USE RecvAssumption
<1> DEFINE q    == receive_queue
           k    == IF want < Len(q) THEN want ELSE Len(q)
           take == [j \in 1..k |-> q[j].byte]
           rest == SubSeq(q, k + 1, Len(q))
<1>1. /\ q \in Seq(Byte) /\ Len(q) \in Nat /\ want \in Nat /\ got \in Nat
      /\ delivered \in Seq(0..(N - 1)) /\ Len(delivered) \in Nat
      /\ k \in 0..Len(q) /\ k <= want /\ k \in Nat
  BY DEF RecvInv, TypeOK
<1>2. /\ delivered' = delivered \o take /\ q' = rest
      /\ want' = want - k /\ got' = got + k /\ app_pc' = "check"
      /\ UNCHANGED <<state, rcv_nxt, ofo_queue, fin_flag, timerVars, acked,
                     fin_loaded, eof>>
      /\ psh_flag' \in BOOLEAN
  BY DEF tcp_data_dequeue, RecvInv, TypeOK
<1>3. /\ Len(delivered) + Len(q) = InSequence
      /\ \A i \in 1..Len(delivered) : delivered[i] = i - 1
      /\ \A i \in 1..Len(q) : q[i].byte = Len(delivered) + i - 1
  BY DEF RecvInv, StreamIntact
<1> HIDE DEF k
<1>4. /\ take \in Seq(0..(N - 1)) /\ Len(take) = k
      /\ \A j \in 1..k : take[j] = Len(delivered) + j - 1
  <2>1. \A j \in 1..k : j \in 1..Len(q) /\ q[j] \in Byte
    BY <1>1
  <2>2. \A j \in 1..k : q[j].byte \in 0..(N - 1)
    BY <2>1 DEF Byte
  <2>3. take \in [1..k -> 0..(N - 1)]
    BY <2>2
  <2>4. take \in Seq(0..(N - 1)) /\ Len(take) = k
    BY <1>1, <2>3, FunctionSeq
  <2>5. \A j \in 1..k : take[j] = Len(delivered) + j - 1
    BY <2>1, <1>3
  <2> QED BY <2>4, <2>5
<1>5. take = [j \in 1..k |-> Len(delivered) + j - 1]
  BY <1>1, <1>3
<1>6. /\ rest \in Seq(Byte) /\ Len(rest) = Len(q) - k
      /\ \A i \in 1..(Len(q) - k) : rest[i] = q[k + i]
  BY <1>1
<1> HIDE DEF take, rest
<1>7. /\ delivered' \in Seq(0..(N - 1)) /\ Len(delivered') = Len(delivered) + k
      /\ \A i \in 1..(Len(delivered) + k) : delivered'[i] =
            IF i <= Len(delivered) THEN delivered[i] ELSE take[i - Len(delivered)]
  BY <1>1, <1>2, <1>4, ConcatProperties
<1>8. \A i \in 1..Len(delivered') : delivered'[i] = i - 1
  <2> SUFFICES ASSUME NEW i \in 1..Len(delivered')
               PROVE  delivered'[i] = i - 1
    OBVIOUS
  <2>0. i \in 1..(Len(delivered) + k)
    BY <1>7
  <2>1. CASE i <= Len(delivered)
    <3>1. i \in 1..Len(delivered)
      BY <1>1, <2>0, <2>1
    <3> QED BY <3>1, <2>0, <2>1, <1>3, <1>7
  <2>2. CASE ~(i <= Len(delivered))
    <3>1. i - Len(delivered) \in 1..k
      BY <1>1, <2>0, <2>2
    <3>2. take[i - Len(delivered)] = Len(delivered) + (i - Len(delivered)) - 1
      BY <1>4, <3>1
    <3> QED BY <1>1, <1>7, <2>0, <2>2, <3>2
  <2> QED BY <2>1, <2>2
<1>9. \A i \in 1..Len(q') : q'[i].byte = Len(delivered') + i - 1
  <2> SUFFICES ASSUME NEW i \in 1..(Len(q) - k)
               PROVE  rest[i].byte = Len(delivered) + k + i - 1
    BY <1>1, <1>2, <1>6, <1>7
  <2>1. k + i \in 1..Len(q) /\ rest[i] = q[k + i]
    BY <1>1, <1>6
  <2>2. q[k + i].byte = Len(delivered) + (k + i) - 1
    BY <1>3, <2>1
  <2> QED BY <1>1, <2>1, <2>2
<1>10. InSequence' = InSequence
  BY <1>2 DEF InSequence
<1>11. Len(delivered') + Len(q') = InSequence'
  BY <1>1, <1>2, <1>3, <1>6, <1>7, <1>10
<1>12. StreamIntact'
  BY <1>8, <1>9, <1>11 DEF StreamIntact
<1>13. TypeOK'
  <2>1. want' \in 0..MaxRead /\ got' \in 0..MaxRead
    BY <1>1, <1>2 DEF RecvInv, TypeOK, Bounds
  <2> QED
    BY <1>2, <1>6, <1>7, <2>1 DEF RecvInv, TypeOK, timerVars
<1>14. Bounds' /\ FinLast'
  BY <1>1, <1>2 DEF RecvInv, Bounds, FinLast
<1>15. \E m \in 0..Len(receive_queue) :
          delivered' = delivered \o [j \in 1..m |-> Len(delivered) + j - 1]
  BY <1>1, <1>2, <1>5
<1> QED BY <1>12, <1>13, <1>14, <1>15 DEF RecvInv

(* The steps that touch neither the queues nor rcv_nxt.                    *)
LEMMA FrameStep ==
    ASSUME RecvInv, TypeOK', want' + got' <= MaxRead,
           UNCHANGED <<state, rcv_nxt, queueVars, delivered>>
    PROVE  RecvInv'
<1>1. StreamIntact'
  BY DEF RecvInv, StreamIntact, InSequence, queueVars
<1>2. Bounds' /\ FinLast'
  BY DEF RecvInv, Bounds, FinLast
<1> QED BY <1>1, <1>2 DEF RecvInv

LEMMA RecvStep == RecvInv /\ [Next]_vars => RecvInv'
<1> SUFFICES ASSUME RecvInv, [Next]_vars PROVE RecvInv'
  OBVIOUS
<1> USE RecvAssumption
<1>0. /\ want \in Nat /\ got \in Nat /\ want + got <= MaxRead
      /\ rcv_nxt \in 0..(N + 1)
  BY DEF RecvInv, TypeOK, Bounds
<1>1. ASSUME NEW s \in Segments, RxAccepted(s) PROVE RecvInv'
  BY <1>1, RxAcceptedStep
<1>2. ASSUME NEW s \in Segments, RxRejected(s) PROVE RecvInv'
  <2>1. TypeOK'
    BY <1>0, <1>2 DEF RxRejected, RecvInv, TypeOK, queueVars, timerVars, readVars
  <2> QED BY <1>0, <1>2, <2>1, FrameStep DEF RxRejected, readVars
<1>3. CASE FireDelack
  <2>1. TypeOK'
    BY <1>3 DEF FireDelack, RecvInv, TypeOK, queueVars, readVars
  <2> QED BY <1>0, <1>3, <2>1, FrameStep DEF FireDelack, readVars
<1>4. CASE DelackRelease
  <2>1. TypeOK'
    BY <1>4 DEF DelackRelease, RecvInv, TypeOK, queueVars, readVars
  <2> QED BY <1>0, <1>4, <2>1, FrameStep DEF DelackRelease, readVars
<1>5. CASE DelackSend
  <2>1. TypeOK'
    BY <1>0, <1>5 DEF DelackSend, RecvInv, TypeOK, queueVars, readVars
  <2> QED BY <1>0, <1>5, <2>1, FrameStep DEF DelackSend, readVars
<1>6. ASSUME NEW len \in 1..MaxRead, tcp_read(len) PROVE RecvInv'
  <2>1. /\ want' \in 0..MaxRead /\ got' \in 0..MaxRead
        /\ want' + got' <= MaxRead
    BY <1>0, <1>6 DEF tcp_read, RecvInv, TypeOK
  <2>2. /\ app_pc' \in {"idle", "dequeue", "check", "clear", "presleep",
                        "asleep"}
        /\ fin_flag' \in BOOLEAN /\ eof' \in BOOLEAN
    BY <1>6 DEF tcp_read, RecvInv, TypeOK
  <2>3. UNCHANGED <<state, rcv_nxt, queueVars, timerVars, acked, psh_flag,
                    fin_loaded, delivered>>
    BY <1>6 DEF tcp_read
  <2>4. TypeOK'
    BY <2>1, <2>2, <2>3 DEF RecvInv, TypeOK, queueVars, timerVars
  <2> QED BY <2>1, <2>3, <2>4, FrameStep
<1>7. CASE tcp_data_dequeue
  BY <1>7, DequeueStep
<1>8. CASE ReadCheck
  <2>1. /\ app_pc' \in {"idle", "dequeue", "check", "clear", "presleep",
                        "asleep"}
        /\ fin_loaded' \in BOOLEAN /\ eof' \in BOOLEAN
    BY <1>8 DEF ReadCheck, RecvInv, TypeOK
  <2>2. UNCHANGED <<state, rcv_nxt, queueVars, fin_flag, timerVars, acked,
                    psh_flag, want, got, delivered>>
    BY <1>8 DEF ReadCheck
  <2>3. TypeOK'
    BY <2>1, <2>2 DEF RecvInv, TypeOK, queueVars, timerVars
  <2> QED BY <1>0, <2>2, <2>3, FrameStep
<1>9. CASE ReadClearPsh
  <2>1. /\ app_pc' = "idle" /\ psh_flag' \in BOOLEAN
        /\ fin_flag' \in BOOLEAN /\ eof' \in BOOLEAN
    BY <1>9 DEF ReadClearPsh, RecvInv, TypeOK
  <2>2. UNCHANGED <<state, rcv_nxt, queueVars, timerVars, acked, fin_loaded,
                    want, got, delivered>>
    BY <1>9 DEF ReadClearPsh
  <2>3. TypeOK'
    BY <2>1, <2>2 DEF RecvInv, TypeOK, queueVars, timerVars
  <2> QED BY <1>0, <2>2, <2>3, FrameStep
<1>10. CASE wait_sleep
  <2>1. TypeOK'
    BY <1>10 DEF wait_sleep, RecvInv, TypeOK, queueVars, timerVars, readVars
  <2> QED BY <1>0, <1>10, <2>1, FrameStep DEF wait_sleep, readVars
<1>11. CASE UNCHANGED vars
  <2>1. TypeOK'
    BY <1>11 DEF vars, RecvInv, TypeOK, queueVars, timerVars, readVars
  <2> QED BY <1>0, <1>11, <2>1, FrameStep DEF vars, readVars
<1> QED
  BY <1>1, <1>2, <1>3, <1>4, <1>5, <1>6, <1>7, <1>8, <1>9, <1>10, <1>11
  DEF Next, tcp_process, Timer, Reader

LEMMA RecvInvariant == Spec => []RecvInv
BY RecvInit, RecvStep, PTL DEF Spec

(* Every state of the receiver is well typed.                              *)
THEOREM RecvTypeCorrect == Spec => []TypeOK
<1>1. RecvInv => TypeOK
  BY DEF RecvInv
<1> QED BY <1>1, RecvInvariant, PTL

(* The application reads the peer's stream: no byte lost, repeated or out  *)
(* of place (tcp_data_queue, tcp_consume_ofo_queue, tcp_data_dequeue),     *)
(* although ofo_queue is neither sorted nor free of duplicates.            *)
THEOREM RecvStreamIntact == Spec => []StreamIntact
<1>1. RecvInv => StreamIntact
  BY DEF RecvInv
<1> QED BY <1>1, RecvInvariant, PTL

(* The FIN is acted on only when all text before it is in (tcp_process).   *)
THEOREM FinLastHolds == Spec => []FinLast
<1>1. RecvInv => FinLast
  BY DEF RecvInv
<1> QED BY <1>1, RecvInvariant, PTL

-----------------------------------------------------------------------------
(* What keeps a read from returning 0 too early: both copies of TCP_FIN    *)
(* mean what the state says, and PSH is only seen by a read that has got   *)
(* something.                                                              *)
ZeroInv ==
    /\ ZeroAfterFin
    /\ fin_flag \/ fin_loaded => state = "CLOSE_WAIT"
    /\ psh_flag => app_pc \in {"check", "clear"} /\ got > 0
    /\ app_pc = "clear" => got > 0
    /\ app_pc = "check" => want > 0 \/ got > 0
    /\ app_pc \in {"dequeue", "presleep", "asleep"} => want > 0
    /\ eof => app_pc = "idle"

LEMMA ZeroStep ==
    TypeOK /\ TypeOK' /\ ZeroInv /\ [Next]_vars => ZeroInv'
<1> SUFFICES ASSUME TypeOK, TypeOK', ZeroInv, [Next]_vars
             PROVE  ZeroInv'
  OBVIOUS
<1>0. /\ want \in Nat /\ got \in Nat /\ want' \in Nat /\ got' \in Nat
      /\ psh_flag \in BOOLEAN /\ fin_flag \in BOOLEAN /\ fin_loaded \in BOOLEAN
      /\ eof \in BOOLEAN /\ receive_queue \in Seq(Byte)
  BY RecvAssumption DEF TypeOK
<1>1. CASE \E s \in Segments : RxAccepted(s)
  <2> PICK s \in Segments : RxAccepted(s)
    BY <1>1
  <2>1. /\ state = "ESTABLISHED"
        /\ fin_flag' => fin_flag \/ state' = "CLOSE_WAIT"
        /\ app_pc' = app_pc \/ (app_pc = "asleep" /\ app_pc' = "dequeue")
        /\ UNCHANGED readVars
    BY DEF RxAccepted, recv_notify
  <2>2. ~fin_flag /\ ~fin_loaded /\ ~eof
    BY <2>1 DEF ZeroInv, ZeroAfterFin
  <2> QED BY <1>0, <2>1, <2>2 DEF ZeroInv, ZeroAfterFin, readVars
<1>2. CASE \/ \E s \in Segments : RxRejected(s)
           \/ Timer \/ UNCHANGED vars
  <2>1. UNCHANGED <<state, fin_flag, app_pc, readVars>>
    BY <1>2 DEF RxRejected, Timer, FireDelack, DelackRelease, DelackSend, vars
  <2> QED BY <2>1 DEF ZeroInv, ZeroAfterFin, readVars
<1>3. CASE \E len \in 1..MaxRead : tcp_read(len)
  <2> PICK len \in 1..MaxRead : tcp_read(len)
    BY <1>3
  <2>1. /\ app_pc = "idle" /\ ~eof
        /\ UNCHANGED <<state, psh_flag, fin_loaded>>
        /\ \/ state = "CLOSE_WAIT" /\ fin_flag' = FALSE /\ app_pc' = "idle"
           \/ app_pc' = "dequeue" /\ want' > 0 /\ UNCHANGED <<fin_flag, eof>>
    BY RecvAssumption DEF tcp_read
  <2> QED BY <2>1 DEF ZeroInv, ZeroAfterFin
<1>4. CASE tcp_data_dequeue
  <2> DEFINE k == IF want < Len(receive_queue) THEN want
                  ELSE Len(receive_queue)
  <2>1. /\ app_pc = "dequeue" /\ app_pc' = "check"
        /\ psh_flag' = (psh_flag \/ \E j \in 1..k : receive_queue[j].psh)
        /\ want' = want - k /\ got' = got + k
        /\ UNCHANGED <<state, fin_flag, fin_loaded, eof>>
    BY <1>4 DEF tcp_data_dequeue
  <2>2. k \in Nat /\ want > 0
    BY <1>0, <2>1 DEF ZeroInv
  <2>3. want' > 0 \/ got' > 0
    BY <1>0, <2>1, <2>2
  <2>4. psh_flag' => got' > 0
    BY <1>0, <2>1, <2>2 DEF ZeroInv
  <2> QED BY <2>1, <2>3, <2>4 DEF ZeroInv, ZeroAfterFin
<1>5. CASE ReadCheck
  <2>1. /\ app_pc = "check"
        /\ UNCHANGED <<state, fin_flag, psh_flag, want, got>>
    BY <1>5 DEF ReadCheck
  <2>2. CASE psh_flag /\ fin_loaded' = fin_flag /\ app_pc' = "clear"
             /\ UNCHANGED eof
    BY <2>1, <2>2 DEF ZeroInv, ZeroAfterFin
  <2>3. CASE ~psh_flag /\ ReadDone /\ app_pc' = "idle" /\ eof' = (got = 0)
             /\ UNCHANGED fin_loaded
    <3>1. eof' => state = "CLOSE_WAIT"
      BY <1>0, <2>1, <2>3 DEF ZeroInv, ReadDone
    <3> QED BY <2>1, <2>3, <3>1 DEF ZeroInv, ZeroAfterFin
  <2>4. CASE ~psh_flag /\ ~ReadDone /\ app_pc' = "presleep"
             /\ UNCHANGED <<fin_loaded, eof>>
    <3>1. want > 0
      BY <1>0, <2>4 DEF ReadDone
    <3> QED BY <2>1, <2>4, <3>1 DEF ZeroInv, ZeroAfterFin
  <2> QED BY <1>5, <2>2, <2>3, <2>4 DEF ReadCheck
<1>6. CASE ReadClearPsh
  <2>1. /\ app_pc = "clear" /\ app_pc' = "idle"
        /\ psh_flag' = FALSE /\ fin_flag' = fin_loaded /\ eof' = (got = 0)
        /\ UNCHANGED <<state, fin_loaded, got>>
    BY <1>6 DEF ReadClearPsh
  <2>2. got # 0
    BY <1>0, <2>1 DEF ZeroInv
  <2>3. ~eof'
    BY <2>1, <2>2
  <2> QED BY <2>1, <2>3 DEF ZeroInv, ZeroAfterFin
<1>7. CASE wait_sleep
  BY <1>7 DEF wait_sleep, readVars, ZeroInv, ZeroAfterFin
<1> QED
  BY <1>1, <1>2, <1>3, <1>4, <1>5, <1>6, <1>7
  DEF Next, tcp_process, Reader

LEMMA ZeroInvariant == Spec => []ZeroInv
<1>1. Init => ZeroInv
  BY DEF Init, ZeroInv, ZeroAfterFin
<1> QED BY <1>1, ZeroStep, RecvTypeCorrect, PTL DEF Spec

(* A read reports the end only after the peer's FIN, although the flags    *)
(* are read and written without the lock (tcp_receive, tcp_read).          *)
THEOREM ZeroAfterFinHolds == Spec => []ZeroAfterFin
<1>1. ZeroInv => ZeroAfterFin
  BY DEF ZeroInv
<1> QED BY <1>1, ZeroInvariant, PTL

-----------------------------------------------------------------------------
LEMMA AckDebtStep ==
    ASSUME TypeOK, TypeOK', AckDebt, [Next]_vars
    PROVE  AckDebt'
<1>0. /\ rcv_nxt \in Int /\ acked \in Int /\ rcv_nxt' \in Int /\ acked' \in Int
      /\ orphans \in Nat
  BY RecvAssumption DEF TypeOK
<1>1. ASSUME NEW s \in Segments, RxAccepted(s) PROVE AckDebt'
  <2>1. PICK nxt \in rcv_nxt..N :
          /\ \/ s.dlen > 0 /\ tcp_data_queue(s, nxt)
             \/ s.dlen = 0 /\ nxt = rcv_nxt
                /\ UNCHANGED <<queueVars, delacks, delack>>
          /\ rcv_nxt' = IF FinInSequence(s, nxt) THEN nxt + 1 ELSE nxt
          /\ acked' = IF FinInSequence(s, nxt)
                         \/ (s.dlen > 0 /\ (~Expected(s) \/ AckAtOnce(s)))
                      THEN rcv_nxt' ELSE acked
    BY <1>1 DEF RxAccepted
  <2>2. UNCHANGED <<orphans, timer_pc>>
    BY <1>1 DEF RxAccepted
  <2>3. CASE acked' = rcv_nxt'
    BY <2>3, <1>0 DEF AckDebt
  <2>4. CASE /\ ~FinInSequence(s, nxt) /\ s.dlen > 0
             /\ Expected(s) /\ ~AckAtOnce(s)
    <3>1. delack' = "live"
      BY <2>1, <2>4 DEF tcp_data_queue, RestartDelack
    <3> QED BY <3>1 DEF AckDebt
  <2>5. CASE ~FinInSequence(s, nxt) /\ ~(s.dlen > 0)
    BY <2>1, <2>2, <2>5 DEF AckDebt
  <2> QED BY <2>1, <2>3, <2>4, <2>5
<1>2. ASSUME NEW s \in Segments, RxRejected(s) PROVE AckDebt'
  BY <1>0, <1>2 DEF RxRejected, AckDebt
<1>3. CASE FireDelack
  BY <1>3 DEF FireDelack, AckDebt
<1>4. CASE DelackRelease
  BY <1>4 DEF DelackRelease, AckDebt
<1>5. CASE DelackSend
  BY <1>0, <1>5 DEF DelackSend, AckDebt
<1>6. ASSUME UNCHANGED <<rcv_nxt, acked, timerVars>> PROVE AckDebt'
  BY <1>6 DEF AckDebt, timerVars
<1>7. ASSUME NEW len \in 1..MaxRead, tcp_read(len) PROVE AckDebt'
  BY <1>6, <1>7 DEF tcp_read
<1>8. CASE Reader
  BY <1>6, <1>8
  DEF Reader, tcp_data_dequeue, ReadCheck, ReadClearPsh, wait_sleep
<1>9. CASE UNCHANGED vars
  BY <1>6, <1>9 DEF vars
<1> QED
  BY <1>1, <1>2, <1>3, <1>4, <1>5, <1>7, <1>8, <1>9
  DEF Next, tcp_process, Timer

(* No acknowledgement that is owed is forgotten, although tcp_send_delack  *)
(* runs without a lock beside the restart of its timer in tcp_data_queue.  *)
THEOREM AckDebtHolds == Spec => []AckDebt
<1>1. Init => AckDebt
  BY DEF Init, AckDebt
<1>2. AckDebt /\ TypeOK /\ TypeOK' /\ [Next]_vars => AckDebt'
  BY AckDebtStep
<1> QED BY <1>1, <1>2, RecvTypeCorrect, PTL DEF Spec

-----------------------------------------------------------------------------
(* A step of the receiver is a step of the byte stream or a stutter.       *)
LEMMA StreamStep ==
    ASSUME RecvInv, RecvInv', ZeroInv, ZeroInv', [Next]_vars
    PROVE  [Stream!Next]_(Stream!vars)
<1> USE RecvAssumption
<1>0. /\ N \in Nat /\ rcv_nxt \in Nat /\ rcv_nxt' \in Nat
      /\ state' = "ESTABLISHED" \/ state' = "CLOSE_WAIT"
      /\ state' = "ESTABLISHED" => rcv_nxt' <= N
      /\ state' = "CLOSE_WAIT" => rcv_nxt' = N + 1
  BY DEF RecvInv, TypeOK, Bounds, FinLast
<1>1. ASSUME NEW s \in Segments, RxAccepted(s) PROVE Stream!Next
  <2>1. /\ state = "ESTABLISHED" /\ rcv_nxt' >= rcv_nxt
        /\ UNCHANGED <<delivered, eof>>
    <3>1. PICK nxt \in rcv_nxt..N :
            rcv_nxt' = IF FinInSequence(s, nxt) THEN nxt + 1 ELSE nxt
      BY <1>1 DEF RxAccepted
    <3>2. rcv_nxt' >= rcv_nxt
      BY <1>0, <3>1
    <3> QED BY <1>1, <3>2 DEF RxAccepted, readVars
  <2>2. InSequence = rcv_nxt
    BY <2>1 DEF InSequence
  <2>3. rcv_nxt <= N
    BY <2>1 DEF RecvInv, Bounds
  <2>4. InSequence' \in rcv_nxt..N /\ (state' = "CLOSE_WAIT" => InSequence' = N)
    <3>1. CASE state' = "ESTABLISHED"
      BY <1>0, <2>1, <3>1 DEF InSequence
    <3>2. CASE state' = "CLOSE_WAIT"
      <4>1. rcv_nxt' - 1 = N
        BY <1>0, <3>2
      <4>2. InSequence' = N
        BY <3>2, <4>1 DEF InSequence
      <4> QED BY <1>0, <2>3, <4>2
    <3> QED BY <1>0, <3>1, <3>2
  <2>5. (state' = "CLOSE_WAIT") \in BOOLEAN
    OBVIOUS
  <2>6. ~(state = "CLOSE_WAIT")
    BY <2>1
  <2>7. Stream!Arrive
    BY <2>1, <2>2, <2>4, <2>5, <2>6 DEF Stream!Arrive
  <2> QED BY <2>7 DEF Stream!Next
<1>2. ASSUME tcp_data_dequeue PROVE [Stream!Next]_(Stream!vars)
  <2>1. UNCHANGED <<state, rcv_nxt, eof>> /\ ~eof
    BY <1>2 DEF tcp_data_dequeue, ZeroInv
  <2>2. InSequence' = InSequence
    BY <2>1 DEF InSequence
  <2>3. PICK k \in 0..Len(receive_queue) :
          delivered' = delivered \o [j \in 1..k |-> Len(delivered) + j - 1]
    BY <1>2, DequeueStep
  <2>4. /\ delivered \in Seq(0..(N - 1))
        /\ Len(receive_queue) \in Nat /\ Len(delivered) \in Nat
        /\ Len(receive_queue) = InSequence - Len(delivered)
    <3>1. /\ delivered \in Seq(0..(N - 1)) /\ receive_queue \in Seq(Byte)
          /\ Len(delivered) + Len(receive_queue) = InSequence
      BY DEF RecvInv, TypeOK, StreamIntact
    <3>2. Len(receive_queue) \in Nat /\ Len(delivered) \in Nat
      BY <3>1
    <3> QED BY <3>1, <3>2
  <2>5. CASE k = 0
    <3>1. [j \in 1..0 |-> Len(delivered) + j - 1] = <<>>
      OBVIOUS
    <3>2. delivered' = delivered
      BY <2>3, <2>4, <2>5, <3>1, ConcatEmptySeq
    <3> QED BY <2>1, <2>2, <3>2 DEF Stream!vars
  <2>6. CASE k # 0
    <3>1. k \in 1..(InSequence - Len(delivered))
      BY <2>4, <2>6
    <3>2. Stream!Take
      BY <2>1, <2>2, <2>3, <3>1 DEF Stream!Take
    <3> QED BY <3>2 DEF Stream!Next
  <2> QED BY <2>5, <2>6
<1>3. ASSUME UNCHANGED <<state, rcv_nxt, delivered, eof>>
      PROVE  UNCHANGED Stream!vars
  BY <1>3 DEF Stream!vars, InSequence
<1>4. ASSUME NEW s \in Segments, RxRejected(s) PROVE UNCHANGED Stream!vars
  BY <1>3, <1>4 DEF RxRejected, readVars
<1>5. CASE Timer
  BY <1>3, <1>5 DEF Timer, FireDelack, DelackRelease, DelackSend, readVars
<1>6. ASSUME UNCHANGED <<state, rcv_nxt, delivered>>, ~eof
      PROVE  [Stream!Next]_(Stream!vars)
  <2> SUFFICES ASSUME eof' # eof PROVE Stream!Next
    BY <1>3, <1>6
  <2>1. eof' = TRUE /\ state = "CLOSE_WAIT"
    BY <1>6 DEF ZeroInv, ZeroAfterFin, RecvInv, TypeOK
  <2>2. InSequence' = InSequence
    BY <1>6 DEF InSequence
  <2>3. Stream!Tell
    BY <1>6, <2>1, <2>2 DEF Stream!Tell
  <2> QED BY <2>3 DEF Stream!Next
<1>7. ASSUME NEW len \in 1..MaxRead, tcp_read(len)
      PROVE  [Stream!Next]_(Stream!vars)
  BY <1>6, <1>7 DEF tcp_read
<1>8. CASE ReadCheck \/ ReadClearPsh \/ wait_sleep
  <2>1. CASE ReadCheck \/ ReadClearPsh
    BY <1>6, <2>1 DEF ReadCheck, ReadClearPsh, ZeroInv
  <2>2. CASE wait_sleep
    BY <1>3, <2>2 DEF wait_sleep, readVars
  <2> QED BY <1>8, <2>1, <2>2
<1>9. CASE UNCHANGED vars
  BY <1>3, <1>9 DEF vars, readVars
<1> QED
  BY <1>1, <1>2, <1>4, <1>5, <1>7, <1>8, <1>9 DEF Next, tcp_process, Reader

(* The receiver implements the reliable byte stream: in any order,         *)
(* duplication and cutting of the peer's segments, and any interleaving    *)
(* with the reader, text is handed over in order and exactly once, and the *)
(* end is reported after the FIN (tcp_process, tcp_receive).               *)
THEOREM ImplementsByteStream == Spec => StreamRefined
<1>1. Init => Stream!Init
  BY DEF Init, Stream!Init, InSequence
<1>2. RecvInv /\ RecvInv' /\ ZeroInv /\ ZeroInv' /\ [Next]_vars
          => [Stream!Next]_(Stream!vars)
  BY StreamStep
<1> QED BY <1>1, <1>2, RecvInvariant, ZeroInvariant, PTL DEF Spec, Stream!Spec, StreamRefined
=============================================================================
