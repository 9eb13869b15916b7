---------------------------- MODULE TcpCloseProofs ----------------------------
(***************************************************************************)
(* Proofs about TcpClose and the timers it runs on, for any number of      *)
(* timers, any width of the tick counter and any amount of data.           *)
(***************************************************************************)
EXTENDS TcpClose, TLAPS

(* No timer is linked twice.                                               *)
Distinct == \A j, k \in DOMAIN timers : timers[j] = timers[k] => j = k

ListOK == timers \in Seq(TimerIds) /\ Distinct

-----------------------------------------------------------------------------
(* What the operations on the list do to it.                               *)

LEMMA Positioned ==
    ASSUME ListOK, NEW t \in Allocated
    PROVE  /\ Position(t) \in 1..Len(timers) /\ timers[Position(t)] = t
           /\ \A k \in 1..Len(timers) : timers[k] = t => k = Position(t)
<1>1. DOMAIN timers = 1..Len(timers)
  BY DEF ListOK
<1>2. \E k \in DOMAIN timers : timers[k] = t
  BY DEF Allocated
<1>3. Position(t) \in DOMAIN timers /\ timers[Position(t)] = t
  BY <1>2 DEF Position
<1> QED BY <1>1, <1>3 DEF ListOK, Distinct

(* list_add_tail.                                                          *)
LEMMA AddedTimer ==
    ASSUME ListOK, NEW t \in TimerIds \ Allocated,
           timers' = Append(timers, t)
    PROVE  ListOK' /\ Allocated' = Allocated \cup {t}
<1> DEFINE n == Len(timers)
<1>1. /\ timers \in Seq(TimerIds) /\ n \in Nat /\ DOMAIN timers = 1..n
      /\ \A k \in 1..n : timers[k] \in Allocated
  BY DEF ListOK, Allocated
<1>2. /\ timers' \in Seq(TimerIds) /\ Len(timers') = n + 1
      /\ DOMAIN timers' = 1..(n + 1)
      /\ timers'[n + 1] = t
      /\ \A k \in 1..n : timers'[k] = timers[k]
  BY <1>1
<1>3. ASSUME NEW j \in 1..(n + 1), NEW k \in 1..(n + 1),
             timers'[j] = timers'[k]
      PROVE  j = k
  <2>1. CASE j \in 1..n /\ k \in 1..n
    BY <1>1, <1>2, <1>3, <2>1 DEF ListOK, Distinct
  <2>2. CASE j = n + 1 /\ k \in 1..n
    BY <1>1, <1>2, <1>3, <2>2
  <2>3. CASE k = n + 1 /\ j \in 1..n
    BY <1>1, <1>2, <1>3, <2>3
  <2> QED BY <1>1, <2>1, <2>2, <2>3
<1>4. Allocated' = Allocated \cup {t}
  <2>1. Allocated' = {timers'[k] : k \in 1..(n + 1)}
    BY <1>2 DEF Allocated
  <2>2. Allocated = {timers[k] : k \in 1..n}
    BY <1>1 DEF Allocated
  <2>3. ASSUME NEW x \in Allocated' PROVE x \in Allocated \cup {t}
    <3>1. PICK k \in 1..(n + 1) : x = timers'[k]
      BY <2>1
    <3>2. k \in 1..n \/ k = n + 1
      BY <1>1
    <3> QED BY <1>2, <2>2, <3>1, <3>2
  <2>4. ASSUME NEW x \in Allocated PROVE x \in Allocated'
    <3>1. PICK k \in 1..n : x = timers[k]
      BY <2>2
    <3>2. k \in 1..(n + 1)
      BY <1>1
    <3> QED BY <1>2, <2>1, <3>1, <3>2
  <2>5. t \in Allocated'
    <3>1. n + 1 \in 1..(n + 1)
      BY <1>1
    <3> QED BY <1>2, <2>1, <3>1
  <2> QED BY <2>3, <2>4, <2>5
<1> QED BY <1>2, <1>3, <1>4 DEF ListOK, Distinct

(* list_del.                                                               *)
LEMMA DeletedTimer ==
    ASSUME ListOK, NEW t \in Allocated, list_del(t)
    PROVE  ListOK' /\ Allocated' = Allocated \ {t}
<1> DEFINE n == Len(timers)
           p == Position(t)
           from(k) == IF k < p THEN k ELSE k + 1
<1>1. /\ timers \in Seq(TimerIds) /\ n \in Nat /\ DOMAIN timers = 1..n
      /\ Allocated = {timers[k] : k \in 1..n}
  BY DEF ListOK, Allocated
<1>2. /\ p \in 1..n /\ timers[p] = t
      /\ \A k \in 1..n : timers[k] = t => k = p
  BY Positioned
<1>3. ASSUME NEW k \in 1..(n - 1) PROVE from(k) \in 1..n /\ from(k) # p
  BY <1>1, <1>2
<1>4. timers' = [k \in 1..(n - 1) |-> timers[from(k)]]
  BY DEF list_del
<1>5. n - 1 \in Nat
  BY <1>1, <1>2
<1>6. \A k \in 1..(n - 1) : timers[from(k)] \in TimerIds
  BY <1>1, <1>3
<1> HIDE DEF from, p
<1>7. timers' \in Seq(TimerIds) /\ DOMAIN timers' = 1..(n - 1)
  BY <1>4, <1>5, <1>6
<1>8. \A j, k \in 1..(n - 1) : from(j) = from(k) => j = k
  BY <1>1, <1>2 DEF from
<1>9. Distinct'
  <2> SUFFICES ASSUME NEW j \in 1..(n - 1), NEW k \in 1..(n - 1),
                      timers'[j] = timers'[k]
               PROVE  j = k
    BY <1>7 DEF Distinct
  <2>1. timers[from(j)] = timers[from(k)]
    BY <1>4
  <2>2. from(j) = from(k)
    BY <1>1, <1>3, <2>1 DEF ListOK, Distinct
  <2> QED BY <1>8, <2>2
<1>10. Allocated' = {timers'[k] : k \in 1..(n - 1)}
  BY <1>7 DEF Allocated
<1>11. ASSUME NEW x \in Allocated' PROVE x \in Allocated /\ x # t
  <2>1. PICK k \in 1..(n - 1) : x = timers[from(k)]
    BY <1>4, <1>10
  <2> QED BY <1>1, <1>2, <1>3, <2>1
<1>12. ASSUME NEW x \in Allocated, x # t PROVE x \in Allocated'
  <2>1. PICK k \in 1..n : x = timers[k]
    BY <1>1
  <2>2. k # p
    BY <1>2, <1>12, <2>1
  <2>3. PICK j \in 1..(n - 1) : from(j) = k
    <3>1. CASE k < p
      BY <1>1, <1>2, <2>1, <3>1 DEF from
    <3>2. CASE k > p
      <4>1. k - 1 \in 1..(n - 1) /\ from(k - 1) = k
        BY <1>1, <1>2, <2>1, <3>2 DEF from
      <4> QED BY <4>1
    <3> QED BY <1>1, <1>2, <2>1, <2>2, <3>1, <3>2
  <2>4. timers'[j] = x
    BY <1>4, <2>1, <2>3
  <2> QED BY <1>10, <2>4
<1> QED BY <1>7, <1>9, <1>11, <1>12 DEF ListOK

(* pos->next.                                                              *)
LEMMA NextTimer ==
    ASSUME ListOK, NEW t \in Allocated
    PROVE  NextOf(t) \in Allocated \cup {0, Null} /\ NextOf(t) # t
<1>1. /\ Position(t) \in 1..Len(timers) /\ timers[Position(t)] = t
      /\ \A k \in 1..Len(timers) : timers[k] = t => k = Position(t)
  BY Positioned
<1>2. timers \in Seq(TimerIds) /\ DOMAIN timers = 1..Len(timers)
      /\ Len(timers) \in Nat
  BY DEF ListOK
<1>3. t \in Nat /\ t > 0
  <2>1. t \in TimerIds
    BY <1>1, <1>2
  <2> QED BY <2>1, TimersAssumption DEF TimerIds
<1>4. CASE t = half \/ Position(t) = Len(timers)
  BY <1>3, <1>4 DEF NextOf, Null
<1>5. CASE t # half /\ Position(t) # Len(timers)
  <2>1. Position(t) + 1 \in 1..Len(timers)
    BY <1>1, <1>2, <1>5
  <2>2. Position(t) + 1 # Position(t)
    BY <1>1, <1>2
  <2>3. NextOf(t) = timers[Position(t) + 1]
    BY <1>5 DEF NextOf
  <2>4. NextOf(t) \in Allocated
    BY <1>2, <2>1, <2>3 DEF Allocated
  <2> QED BY <1>1, <2>1, <2>2, <2>3, <2>4
<1> QED BY <1>4, <1>5

-----------------------------------------------------------------------------
(* The walk stands on timers that exist, and the one it goes to next is    *)
(* another one: it is never the one timer_free takes away.                 *)
Linked ==
    /\ Distinct
    /\ half # 0 => half \in Allocated
    /\ half # 0 <=> app_pc = "link"
    /\ tm_pc \in {"visit", "mark", "handler", "after"} => item \in Allocated
    /\ tm_pc # "idle" => tmp \in Allocated \cup {0, Null} /\ tmp # item

(* write_queue.lock keeps the application out of the handler's way, and    *)
(* whoever holds it has dropped the sock's timer before it adds one.       *)
Locked ==
    /\ app_pc \in {"release", "add", "link", "send"} => wq_lock = "app"
    /\ app_pc = "count" /\ app_skb = "data" => wq_lock = "app"
    /\ app_pc \notin {"open", "closed"} => app_skb \in {"data", "fin"}
    /\ app_pc \in {"add", "link"} => retransmit = 0
    /\ mem = "freed" => app_pc = "closed"
    /\ rto_pc = "resend" => tm_pc = "handler" /\ retransmit = 0
    /\ rto_pc = "resend" /\ mem = "live" => wq_lock = "timer"
    /\ app_pc \in {"set", "free"} => app_skb = "fin"

CloseInv == TypeOK /\ Linked /\ Locked /\ RefsCounted

(* What a step leaves alone keeps its type.                                *)
LEMMA TimersTypeKept ==
    ASSUME TimersTypeOK, UNCHANGED tmVars
    PROVE  TimersTypeOK'
BY DEF TimersTypeOK, tmVars, timerVars, walkVars

LEMMA SockTypeKept ==
    ASSUME SockTypeOK, UNCHANGED <<state, mem, tcbVars, wq_lock, retransmit>>
    PROVE  SockTypeOK'
BY DEF SockTypeOK, tcbVars

LEMMA ThreadsTypeKept ==
    ASSUME ThreadsTypeOK,
           UNCHANGED <<app_pc, app_skb, app_state, rxVars, rto_pc>>
    PROVE  ThreadsTypeOK'
BY DEF ThreadsTypeOK, rxVars

LEMMA LinkTypeKept ==
    ASSUME LinkTypeOK,
           UNCHANGED <<sent, peer_nxt, written, alone, overlap, used>>
    PROVE  LinkTypeOK'
BY DEF LinkTypeOK

LEMMA CloseInit == Init => CloseInv
<1> SUFFICES ASSUME Init PROVE CloseInv
  OBVIOUS
<1> USE TimersAssumption, CloseAssumption
<1>1. Allocated = {} /\ timers = << >> /\ half = 0 /\ tm_pc = "idle"
  BY DEF Init, TimersInit, Allocated
<1>2. TypeOK
  <2>1. TimersTypeOK
    <3>1. 0 \in 0..(TickMod - 1)
      OBVIOUS
    <3>2. /\ expires \in [TimerIds -> 0..(TickMod - 1)]
          /\ refcnt \in [TimerIds -> {0, 1}]
          /\ cancelled \in [TimerIds -> BOOLEAN]
          /\ age \in [TimerIds -> Nat] /\ delay \in [TimerIds -> Nat]
          /\ runs \in [TimerIds -> Nat]
      BY <3>1 DEF Init, TimersInit
    <3>3. timers \in Seq(TimerIds)
      BY <1>1
    <3> QED BY <1>1, <3>2, <3>3 DEF Init, TimersInit, TimersTypeOK
  <2>2. SockTypeOK
    BY DEF Init, SockTypeOK, States
  <2>3. ThreadsTypeOK
    <3>1. flag_fin \in BOOLEAN
      BY DEF Init
    <3> QED BY <3>1 DEF Init, ThreadsTypeOK
  <2>4. LinkTypeOK
    <3>1. /\ sent = {} /\ peer_nxt = 0 /\ written = 0 /\ used = {}
          /\ alone \in BOOLEAN /\ overlap \in BOOLEAN
      BY DEF Init
    <3> QED BY <3>1 DEF LinkTypeOK
  <2> QED BY <2>1, <2>2, <2>3, <2>4 DEF TypeOK
<1>3. Linked
  BY <1>1 DEF Init, Linked, Distinct
<1>4. Locked
  BY DEF Init, Locked
<1>5. RefsCounted
  BY <1>1 DEF Init, TimersInit, RefsCounted
<1> QED BY <1>2, <1>3, <1>4, <1>5 DEF CloseInv

(* What leaves the timers, the sock's pointer and the step of              *)
(* tcp_reset_retransmission_timer alone.                                   *)
LEMMA TimersUntouched ==
    ASSUME CloseInv, UNCHANGED <<tmVars, retransmit>>,
           app_pc' = "link" <=> app_pc = "link"
    PROVE  Linked' /\ RefsCounted'
<1>1. UNCHANGED <<timers, half, refcnt, tm_pc, item, tmp>>
  BY DEF tmVars, timerVars, walkVars
<1>2. Allocated' = Allocated /\ (Distinct' <=> Distinct)
  BY <1>1 DEF Allocated, Distinct
<1>3. Linked'
  BY <1>1, <1>2 DEF CloseInv, Linked
<1>4. RefsCounted'
  BY <1>1, <1>2 DEF CloseInv, RefsCounted
<1> QED BY <1>3, <1>4

(* The fields of a timer, as timer_add sets them.                          *)
FieldsTyped ==
    /\ expires \in [TimerIds -> 0..(TickMod - 1)]
    /\ refcnt \in [TimerIds -> {0, 1}] /\ cancelled \in [TimerIds -> BOOLEAN]
    /\ age \in [TimerIds -> Nat] /\ delay \in [TimerIds -> Nat]
    /\ runs \in [TimerIds -> Nat]

LEMMA FieldsType ==
    ASSUME TimersTypeOK, NEW t \in TimerIds, Fields(t, RTO)
    PROVE  FieldsTyped'
<1>1. (tick + RTO) % TickMod \in 0..(TickMod - 1) /\ RTO \in Nat
  <2>1. TickMod \in Nat \ {0} /\ tick \in Nat /\ RTO \in Nat
    BY TimersAssumption, CloseAssumption DEF TimersTypeOK
  <2>2. tick + RTO \in Int
    BY <2>1
  <2> DEFINE a == tick + RTO
  <2> HIDE DEF a
  <2>3. a \in Int
    BY <2>2 DEF a
  <2>4. a % TickMod \in 0..(TickMod - 1)
    BY <2>1, <2>3
  <2> QED BY <2>1, <2>4 DEF a
<1> DEFINE e == (tick + RTO) % TickMod
<1>2. /\ expires' = [expires EXCEPT ![t] = e]
      /\ refcnt' = [refcnt EXCEPT ![t] = 1]
      /\ cancelled' = [cancelled EXCEPT ![t] = FALSE]
      /\ age' = [age EXCEPT ![t] = 0] /\ delay' = [delay EXCEPT ![t] = RTO]
      /\ runs' = [runs EXCEPT ![t] = 0]
  BY DEF Fields
<1>3. e \in 0..(TickMod - 1)
  BY <1>1
<1> HIDE DEF e
<1>4. /\ expires' \in [TimerIds -> 0..(TickMod - 1)]
      /\ refcnt' \in [TimerIds -> {0, 1}]
  BY <1>2, <1>3 DEF TimersTypeOK
<1>5. cancelled' \in [TimerIds -> BOOLEAN]
  BY <1>2 DEF TimersTypeOK
<1>6. /\ age' \in [TimerIds -> Nat] /\ delay' \in [TimerIds -> Nat]
      /\ runs' \in [TimerIds -> Nat]
  BY <1>1, <1>2 DEF TimersTypeOK
<1> QED BY <1>4, <1>5, <1>6 DEF FieldsTyped

(* The application's steps outside tcp_reset_retransmission_timer.         *)
LEMMA AppStep ==
    ASSUME CloseInv, tcp_write \/ tcp_close \/ QueueLock \/ Transmit
                        \/ Count \/ SetState \/ inet_free
    PROVE  CloseInv'
<1>1. UNCHANGED <<tmVars, retransmit>> /\ (app_pc' = "link" <=> app_pc = "link")
  BY DEF tcp_write, tcp_close, QueueLock, Transmit, Count, SetState, inet_free
<1>2. Linked' /\ RefsCounted' /\ TimersTypeOK'
  BY <1>1, TimersUntouched, TimersTypeKept DEF CloseInv, TypeOK
<1>3. Locked'
  BY <1>1 DEF CloseInv, TypeOK, ThreadsTypeOK, SockTypeOK, Locked, tcp_write,
              tcp_close, QueueLock, Transmit, Count, SetState, inet_free,
              tmVars, walkVars, endVars, appVars
<1>4. ThreadsTypeOK'
  BY DEF CloseInv, TypeOK, SockTypeOK, ThreadsTypeOK, States, tcp_write,
         tcp_close, QueueLock, Transmit, Count, SetState, inet_free, rxVars
<1>5. CASE tcp_write
  <2>1. SockTypeOK'
    BY <1>5, SockTypeKept DEF CloseInv, TypeOK, tcp_write, endVars
  <2>2. written' \in 0..MaxBytes
    BY <1>5, CloseAssumption DEF CloseInv, TypeOK, LinkTypeOK, tcp_write
  <2>3. LinkTypeOK'
    BY <1>5, <2>2 DEF CloseInv, TypeOK, LinkTypeOK, tcp_write, endVars
  <2> QED BY <1>2, <1>3, <1>4, <2>1, <2>3 DEF CloseInv, TypeOK
<1>6. CASE tcp_close \/ QueueLock
  <2>1. SockTypeOK'
    BY <1>6 DEF CloseInv, TypeOK, SockTypeOK, tcp_close, QueueLock, endVars,
                tcbVars
  <2>2. LinkTypeOK'
    BY <1>6, LinkTypeKept DEF CloseInv, TypeOK, tcp_close, QueueLock, endVars
  <2> QED BY <1>2, <1>3, <1>4, <2>1, <2>2 DEF CloseInv, TypeOK
<1>7. CASE Transmit
  <2> DEFINE fin == app_skb = "fin"
             skb == [fin |-> fin, end_seq |-> snd_una + DataLen(fin)]
             seg == [fin |-> fin, seq |-> snd_nxt]
  <2>1. skb \in [fin : BOOLEAN, end_seq : Nat] /\ seg \in [fin : BOOLEAN, seq : Nat]
    <3>1. fin \in BOOLEAN /\ snd_nxt \in Nat /\ snd_una + DataLen(fin) \in Nat
      BY DEF DataLen, CloseInv, TypeOK, SockTypeOK
    <3> HIDE DEF fin
    <3> QED BY <3>1
  <2>2. /\ write_queue' = Append(write_queue, skb)
        /\ sent' = sent \cup {seg}
    BY <1>7 DEF Transmit
  <2>3. alone' \in BOOLEAN
    BY <1>7 DEF Transmit
  <2>4. /\ wq_lock' \in {"none", wq_lock}
        /\ UNCHANGED <<state, endVars, snd_una, snd_nxt, retransmit, written,
                       peer_nxt, overlap>>
    BY <1>7 DEF Transmit
  <2> HIDE DEF skb, seg
  <2>5. SockTypeOK'
    BY <2>1, <2>2, <2>4 DEF CloseInv, TypeOK, SockTypeOK, endVars
  <2>6. LinkTypeOK'
    BY <2>1, <2>2, <2>3, <2>4 DEF CloseInv, TypeOK, LinkTypeOK, endVars
  <2> QED BY <1>2, <1>3, <1>4, <2>5, <2>6 DEF CloseInv, TypeOK
<1>8. CASE Count \/ inet_free
  <2>1. SockTypeOK'
    <3>1. CASE Count
      BY <3>1 DEF CloseInv, TypeOK, SockTypeOK, Count, endVars
    <3>2. CASE inet_free
      <4>1. write_queue' = << >> /\ mem' = "freed"
            /\ UNCHANGED <<state, snd_una, snd_nxt, wq_lock, retransmit>>
        BY <3>2 DEF inet_free
      <4>2. write_queue' \in Seq([fin : BOOLEAN, end_seq : Nat])
        BY <4>1
      <4> QED BY <4>1, <4>2 DEF CloseInv, TypeOK, SockTypeOK
    <3> QED BY <1>8, <3>1, <3>2
  <2>2. LinkTypeOK'
    BY <1>8 DEF CloseInv, TypeOK, LinkTypeOK, Count, inet_free, endVars
  <2> QED BY <1>2, <1>3, <1>4, <2>1, <2>2 DEF CloseInv, TypeOK
<1>9. CASE SetState
  <2>1. SockTypeOK'
    BY <1>9 DEF CloseInv, TypeOK, SockTypeOK, SetState, AfterClose, States,
                endVars, tcbVars
  <2>2. overlap' \in BOOLEAN
    BY <1>9 DEF CloseInv, TypeOK, LinkTypeOK, SetState
  <2>3. LinkTypeOK'
    BY <1>9, <2>2 DEF CloseInv, TypeOK, LinkTypeOK, SetState, endVars
  <2> QED BY <1>2, <1>3, <1>4, <2>1, <2>3 DEF CloseInv, TypeOK
<1> QED BY <1>5, <1>6, <1>7, <1>8, <1>9

(* The peer.                                                               *)
LEMMA PeerStep ==
    ASSUME CloseInv, NEW s \in sent, PeerReceive(s)
    PROVE  CloseInv'
<1>1. UNCHANGED <<tmVars, retransmit, appVars>>
  BY DEF PeerReceive
<1>2. Linked' /\ RefsCounted' /\ TimersTypeOK'
  BY <1>1, TimersUntouched, TimersTypeKept DEF appVars, CloseInv, TypeOK
<1>3. Locked'
  BY DEF CloseInv, Locked, PeerReceive, tmVars, walkVars, endVars, appVars
<1>4. SockTypeOK' /\ ThreadsTypeOK'
  BY SockTypeKept, ThreadsTypeKept
  DEF CloseInv, TypeOK, PeerReceive, endVars, appVars
<1>5. LinkTypeOK'
  BY DEF CloseInv, TypeOK, LinkTypeOK, PeerReceive, endVars, appVars
<1> QED BY <1>2, <1>3, <1>4, <1>5 DEF CloseInv, TypeOK

(* The sock's reference moves: no other timer has one.                     *)
LEMMA Unreferenced ==
    ASSUME CloseInv, half = 0, retransmit' = 0, half' = 0,
           refcnt' = IF retransmit # 0 THEN Dropped(retransmit) ELSE refcnt,
           UNCHANGED timers
    PROVE  RefsCounted' /\ refcnt' \in [TimerIds -> {0, 1}]
<1>1. Allocated' = Allocated
  BY DEF Allocated
<1>2. 0 \notin TimerIds
  BY TimersAssumption DEF TimerIds
<1>3. /\ refcnt \in [TimerIds -> {0, 1}] /\ retransmit \in TimerIds \cup {0}
      /\ \A t \in TimerIds : refcnt[t] = IF t \in Allocated /\ t = retransmit
                                         THEN 1 ELSE 0
      /\ retransmit # 0 => retransmit \in Allocated
  BY <1>2 DEF CloseInv, TypeOK, TimersTypeOK, SockTypeOK, RefsCounted
<1>4. refcnt' \in [TimerIds -> {0, 1}] /\ \A t \in TimerIds : refcnt'[t] = 0
  <2>1. CASE retransmit = 0
    BY <1>2, <1>3, <2>1
  <2>2. CASE retransmit # 0
    <3>1. retransmit \in TimerIds /\ refcnt[retransmit] = 1
      BY <1>3, <2>2
    <3>2. refcnt' = [refcnt EXCEPT ![retransmit] = 0]
      BY <2>2, <3>1 DEF Dropped
    <3> QED BY <1>3, <3>1, <3>2
  <2> QED BY <2>1, <2>2
<1>5. ASSUME NEW t \in TimerIds PROVE t # retransmit' /\ t # half'
  BY <1>2
<1>6. \A t \in TimerIds :
          refcnt'[t] = IF t \in Allocated' /\ (t = retransmit' \/ t = half')
                       THEN 1 ELSE 0
  BY <1>4, <1>5
<1> QED BY <1>4, <1>6 DEF RefsCounted

(* tcp_reset_retransmission_timer, under write_queue.lock.                 *)
LEMMA ResetStep ==
    ASSUME CloseInv, ResetRelease \/ ResetAdd \/ ResetDone
    PROVE  CloseInv'
<1>1. ThreadsTypeOK' /\ LinkTypeOK'
  BY LinkTypeKept DEF CloseInv, TypeOK, ThreadsTypeOK, ResetRelease, ResetAdd,
                      ResetDone, rxVars, endVars
<1>2. CASE ResetRelease
  <2>1. /\ app_pc = "release" /\ half = 0 /\ app_pc' = "add"
        /\ retransmit' = 0
        /\ refcnt' = IF retransmit # 0 THEN Dropped(retransmit) ELSE refcnt
        /\ UNCHANGED <<timers, half, expires, cancelled, age, delay, runs>>
        /\ UNCHANGED <<tickVars, state, endVars, tcbVars, wq_lock, app_skb,
                       rto_pc>>
    BY <1>2 DEF ResetRelease, timer_release, LockFree
  <2>2. Allocated' = Allocated /\ (Distinct' <=> Distinct)
    BY <2>1 DEF Allocated, Distinct
  <2>3. RefsCounted' /\ refcnt' \in [TimerIds -> {0, 1}]
    BY <2>1, Unreferenced
  <2>4. TimersTypeOK'
    BY <2>1, <2>3 DEF CloseInv, TypeOK, TimersTypeOK, tickVars, walkVars
  <2>5. SockTypeOK'
    BY <2>1 DEF CloseInv, TypeOK, SockTypeOK, endVars, tcbVars
  <2>6. Linked'
    BY <2>1, <2>2 DEF CloseInv, Linked, tickVars, walkVars
  <2>7. Locked'
    BY <2>1 DEF CloseInv, Locked, tickVars, walkVars, endVars
  <2> QED BY <1>1, <2>3, <2>4, <2>5, <2>6, <2>7 DEF CloseInv, TypeOK
<1>3. CASE ResetAdd
  <2>1. PICK t \in TimerIds : timer_add(t, RTO)
    BY <1>3 DEF ResetAdd
  <2>2. half = 0 /\ t \in TimerIds \ Allocated /\ half' = t /\ Fields(t, RTO)
    BY <2>1 DEF timer_add, timer_alloc, LockFree
  <2>3. /\ app_pc = "add" /\ app_pc' = "link"
        /\ UNCHANGED <<tickVars, state, endVars, tcbVars, wq_lock, retransmit,
                       app_skb, rto_pc>>
    BY <1>3 DEF ResetAdd
  <2>4. ListOK' /\ Allocated' = Allocated \cup {t}
    BY <2>2, AddedTimer DEF CloseInv, TypeOK, TimersTypeOK, Linked, ListOK,
                            Fields
  <2>5. t # 0 /\ retransmit = 0
    BY <2>2, <2>3, TimersAssumption DEF CloseInv, Locked, TimerIds
  <2>6. TimersTypeOK'
    <3>1. /\ timers' \in Seq(TimerIds) /\ half' \in TimerIds \cup {0}
          /\ UNCHANGED tickVars
      BY <2>2, <2>3, <2>4 DEF ListOK
    <3>2. FieldsTyped'
      BY <2>2, FieldsType DEF CloseInv, TypeOK
    <3> QED BY <3>1, <3>2 DEF CloseInv, TypeOK, TimersTypeOK, FieldsTyped,
                              tickVars, walkVars
  <2>7. SockTypeOK'
    BY <2>3, SockTypeKept DEF CloseInv, TypeOK, endVars
  <2>8. Linked'
    BY <2>2, <2>3, <2>4, <2>5 DEF CloseInv, Linked, ListOK, tickVars, walkVars
  <2>9. Locked'
    BY <2>3, <2>5 DEF CloseInv, Locked, tickVars, walkVars, endVars
  <2>10. RefsCounted'
    BY <2>2, <2>3, <2>4, <2>5
    DEF CloseInv, TypeOK, TimersTypeOK, RefsCounted, Fields
  <2> QED BY <1>1, <2>6, <2>7, <2>8, <2>9, <2>10 DEF CloseInv, TypeOK
<1>4. CASE ResetDone
  <2>1. /\ app_pc = "link" /\ half # 0 /\ half' = 0 /\ retransmit' = half
        /\ app_pc' = "send"
        /\ UNCHANGED <<timers, refcnt, expires, cancelled, age, delay, runs>>
        /\ UNCHANGED <<tickVars, state, endVars, tcbVars, wq_lock, app_skb,
                       rto_pc>>
    BY <1>4 DEF ResetDone, list_add_tail
  <2>2. Allocated' = Allocated /\ (Distinct' <=> Distinct)
    BY <2>1 DEF Allocated, Distinct
  <2>3. /\ half \in Allocated /\ half \in TimerIds /\ retransmit = 0
        /\ wq_lock = "app" /\ mem = "live" /\ 0 \notin TimerIds
    BY <2>1, TimersAssumption
    DEF CloseInv, Linked, Locked, TypeOK, TimersTypeOK, SockTypeOK, TimerIds
  <2>4. TimersTypeOK'
    BY <2>1 DEF CloseInv, TypeOK, TimersTypeOK, tickVars, walkVars
  <2>5. SockTypeOK'
    BY <2>1, <2>3 DEF CloseInv, TypeOK, SockTypeOK, endVars, tcbVars
  <2>6. Linked'
    BY <2>1, <2>2 DEF CloseInv, Linked, tickVars, walkVars
  <2>7. Locked'
    BY <2>1, <2>3 DEF CloseInv, Locked, tickVars, walkVars, endVars
  <2>8. RefsCounted'
    BY <2>1, <2>2, <2>3 DEF CloseInv, RefsCounted
  <2> QED BY <1>1, <2>4, <2>5, <2>6, <2>7, <2>8 DEF CloseInv, TypeOK
<1> QED BY <1>2, <1>3, <1>4

(* The receive thread.                                                     *)
LEMMA RxStep ==
    ASSUME CloseInv, \/ \E ack \in 0..peer_nxt, fin \in BOOLEAN :
                            Receive(ack, fin)
                     \/ Rx \/ ReceiveFreed
    PROVE  CloseInv'
<1>1. ASSUME NEW ack \in 0..peer_nxt, NEW fin \in BOOLEAN, Receive(ack, fin)
      PROVE  CloseInv'
  <2>1. UNCHANGED <<tmVars, retransmit, appVars>>
    BY <1>1 DEF Receive, appSide
  <2>2. Linked' /\ RefsCounted' /\ TimersTypeOK'
    BY <2>1, TimersUntouched, TimersTypeKept DEF appVars, CloseInv, TypeOK
  <2>3. Locked'
    BY <1>1 DEF CloseInv, Locked, Receive, tmVars, walkVars, endVars, appSide,
                appVars
  <2>4. snd_una' \in Nat
    BY <1>1 DEF Receive, CloseInv, TypeOK, SockTypeOK, LinkTypeOK
  <2>5. SockTypeOK' /\ ThreadsTypeOK' /\ LinkTypeOK'
    BY <1>1, <2>4 DEF CloseInv, TypeOK, SockTypeOK, ThreadsTypeOK, LinkTypeOK,
                      Receive, endVars, appSide, appVars
  <2> QED BY <2>2, <2>3, <2>5 DEF CloseInv, TypeOK
<1>2. CASE tcp_clean_retransmission_queue
  <2>1. PICK n \in 0..Len(write_queue) :
           /\ write_queue' = SubSeq(write_queue, n + 1, Len(write_queue))
           /\ \/ timer_cancel(retransmit) /\ retransmit' = 0
              \/ UNCHANGED <<noTimer, retransmit>>
    BY <1>2 DEF tcp_clean_retransmission_queue
  <2>2. /\ rx_pc = "clean" /\ wq_lock = "none" /\ mem = "live"
        /\ rx_pc' \in {"fin", "idle"}
        /\ UNCHANGED <<tickVars, state, endVars, snd_una, snd_nxt, wq_lock,
                       appSide, rx_fin, rx_state, flag_fin, overlap>>
    BY <1>2 DEF tcp_clean_retransmission_queue
  <2>3. write_queue' \in Seq([fin : BOOLEAN, end_seq : Nat])
    <3> DEFINE Skbs == [fin : BOOLEAN, end_seq : Nat]
    <3>1. write_queue \in Seq(Skbs)
      BY DEF CloseInv, TypeOK, SockTypeOK
    <3> HIDE DEF Skbs
    <3>2. write_queue' \in Seq(Skbs)
      BY <2>1, <3>1
    <3> QED BY <3>2 DEF Skbs
  <2>4. app_pc \notin {"release", "add", "link", "send"} /\ half = 0
    BY <2>2 DEF CloseInv, Locked, Linked
  <2>5. /\ UNCHANGED <<timers, half, expires, age, delay, runs>>
        /\ \/ UNCHANGED <<refcnt, cancelled, retransmit>>
           \/ /\ retransmit' = 0
              /\ refcnt' = IF retransmit # 0 THEN Dropped(retransmit)
                           ELSE refcnt
              /\ cancelled' = IF retransmit # 0
                              THEN [cancelled EXCEPT ![retransmit] = TRUE]
                              ELSE cancelled
    BY <2>1 DEF timer_cancel, noTimer, timerVars
  <2>6. Allocated' = Allocated /\ (Distinct' <=> Distinct)
    BY <2>5 DEF Allocated, Distinct
  <2>7. RefsCounted' /\ refcnt' \in [TimerIds -> {0, 1}]
    <3>1. CASE UNCHANGED <<refcnt, retransmit>>
      BY <2>5, <2>6, <3>1 DEF CloseInv, RefsCounted, TypeOK, TimersTypeOK
    <3>2. CASE /\ retransmit' = 0
               /\ refcnt' = IF retransmit # 0 THEN Dropped(retransmit)
                            ELSE refcnt
      BY <2>4, <2>5, <3>2, Unreferenced
    <3> QED BY <2>5, <3>1, <3>2
  <2>8. /\ cancelled' \in [TimerIds -> BOOLEAN]
        /\ retransmit' \in TimerIds \cup {0}
    BY <2>5 DEF CloseInv, TypeOK, TimersTypeOK, SockTypeOK
  <2>9. TimersTypeOK'
    BY <2>2, <2>5, <2>7, <2>8 DEF CloseInv, TypeOK, TimersTypeOK, tickVars,
                                  walkVars
  <2>10. SockTypeOK' /\ ThreadsTypeOK' /\ LinkTypeOK'
    BY <2>2, <2>3, <2>8 DEF CloseInv, TypeOK, SockTypeOK, ThreadsTypeOK,
                            LinkTypeOK, endVars, appSide, appVars
  <2>11. Linked'
    BY <2>2, <2>5, <2>6 DEF CloseInv, Linked, tickVars, walkVars, appSide,
                            appVars
  <2>12. Locked'
    BY <2>2, <2>4, <2>5 DEF CloseInv, Locked, tickVars, walkVars, endVars,
                            appSide, appVars
  <2> QED BY <2>7, <2>9, <2>10, <2>11, <2>12 DEF CloseInv, TypeOK
<1>3. CASE FinTest \/ FinSet \/ ReceiveFreed
  <2>1. UNCHANGED <<tmVars, retransmit, appVars>>
    BY <1>3 DEF FinTest, FinSet, ReceiveFreed, appSide
  <2>2. Linked' /\ RefsCounted' /\ TimersTypeOK'
    BY <2>1, TimersUntouched, TimersTypeKept DEF appVars, CloseInv, TypeOK
  <2>3. Locked'
    BY <1>3 DEF CloseInv, Locked, FinTest, FinSet, ReceiveFreed, tmVars,
                walkVars, endVars, appSide, appVars
  <2>4. SockTypeOK'
    BY <1>3 DEF CloseInv, TypeOK, SockTypeOK, ThreadsTypeOK, FinTest, FinSet,
                ReceiveFreed, AfterFin, States, endVars, tcbVars
  <2>5. ThreadsTypeOK'
    BY <1>3 DEF CloseInv, TypeOK, SockTypeOK, ThreadsTypeOK, FinTest, FinSet,
                ReceiveFreed, endVars, appSide, appVars
  <2>6. overlap' \in BOOLEAN
    BY <1>3 DEF CloseInv, TypeOK, LinkTypeOK, FinTest, FinSet, ReceiveFreed
  <2>7. LinkTypeOK'
    BY <1>3, <2>6 DEF CloseInv, TypeOK, LinkTypeOK, FinTest, FinSet,
                      ReceiveFreed, endVars, appSide, appVars
  <2> QED BY <2>2, <2>3, <2>4, <2>5, <2>7 DEF CloseInv, TypeOK
<1> QED BY <1>1, <1>2, <1>3 DEF Rx

(* The timer thread: the tick, and the walk over the list.                 *)
LEMMA WalkStep ==
    ASSUME CloseInv, timers_start \/ timers_tick, UNCHANGED closeVars
    PROVE  CloseInv'
<1>1. /\ UNCHANGED <<state, endVars, tcbVars, wq_lock, retransmit, appVars,
                     rxVars, rto_pc, sent, peer_nxt, overlap>>
  BY DEF closeVars
<1>2. SockTypeOK' /\ ThreadsTypeOK' /\ LinkTypeOK'
  BY <1>1, SockTypeKept, ThreadsTypeKept, LinkTypeKept
  DEF CloseInv, TypeOK, endVars, appVars
<1>4. 0 \notin TimerIds /\ Null \notin TimerIds /\ Null # 0
  BY TimersAssumption DEF TimerIds, Null
<1>5. /\ Allocated \subseteq TimerIds /\ ListOK
      /\ (half # 0 <=> app_pc = "link") /\ (half # 0 => half \in Allocated)
      /\ app_pc' = app_pc /\ retransmit' = retransmit
  BY <1>1 DEF CloseInv, TypeOK, TimersTypeOK, Linked, Allocated, ListOK,
              appVars
<1>6. CASE timers_start
  <2>1. /\ tm_pc = "idle" /\ UNCHANGED <<timerVars, tm_up>>
        /\ tick' = (tick + 1) % TickMod
        /\ age' = [t \in TimerIds |-> IF t \in Allocated /\ age[t] <= delay[t]
                                      THEN age[t] + 1 ELSE age[t]]
    BY <1>6 DEF timers_start
  <2>2. Allocated' = Allocated /\ (Distinct' <=> Distinct)
    BY <2>1 DEF Allocated, Distinct, timerVars
  <2>3. /\ tm_pc' \in {"idle", "visit"} /\ item' \in TimerIds \cup {0}
        /\ tmp' \in TimerIds \cup {0, Null}
        /\ tm_pc' # "idle" => /\ item' \in Allocated /\ tmp' # item'
                              /\ tmp' \in Allocated \cup {0, Null}
    <3>1. CASE timers = << >>
      BY <1>6, <2>1, <3>1 DEF timers_start, walkVars, CloseInv, TypeOK,
                              TimersTypeOK
    <3>2. CASE timers # << >>
      <4>1. timers[1] \in Allocated
        <5>1. 1 \in DOMAIN timers
          BY <1>5, <3>2 DEF ListOK
        <5> QED BY <5>1 DEF Allocated
      <4>2. item' = timers[1] /\ tmp' = NextOf(timers[1]) /\ tm_pc' = "visit"
        BY <1>6, <3>2 DEF timers_start
      <4> QED BY <1>5, <4>1, <4>2, NextTimer
    <3> QED BY <3>1, <3>2
  <2>4. tick' \in 0..(TickMod - 1)
    <3> DEFINE a == tick + 1
    <3>1. a \in Int /\ TickMod \in Nat \ {0}
      BY TimersAssumption DEF CloseInv, TypeOK, TimersTypeOK
    <3> HIDE DEF a
    <3>2. a % TickMod \in 0..(TickMod - 1)
      BY <3>1
    <3> QED BY <2>1, <3>2 DEF a
  <2>5. age' \in [TimerIds -> Nat]
    <3>1. age \in [TimerIds -> Nat]
      BY DEF CloseInv, TypeOK, TimersTypeOK
    <3>2. \A t \in TimerIds : age[t] \in Nat /\ age[t] + 1 \in Nat
      BY <3>1
    <3> QED BY <2>1, <3>2
  <2>6. TimersTypeOK'
    BY <2>1, <2>3, <2>4, <2>5 DEF CloseInv, TypeOK, TimersTypeOK, timerVars
  <2>7. Linked'
    BY <1>5, <2>1, <2>2, <2>3 DEF CloseInv, Linked, timerVars
  <2>8. RefsCounted'
    BY <1>5, <2>1, <2>2 DEF CloseInv, RefsCounted, timerVars
  <2>9. Locked'
    BY <1>1, <2>1 DEF CloseInv, Locked, endVars, appVars
  <2> QED BY <1>2, <2>6, <2>7, <2>8, <2>9 DEF CloseInv, TypeOK
<1>7. CASE Visit
  <2>1. /\ tm_pc = "visit" /\ tm_pc' \in {"mark", "after"}
        /\ UNCHANGED <<tick, timerVars, item, tmp, age, tm_up>>
    BY <1>7 DEF Visit
  <2>2. Allocated' = Allocated /\ (Distinct' <=> Distinct)
    BY <2>1 DEF Allocated, Distinct, timerVars
  <2>3. TimersTypeOK'
    BY <2>1 DEF CloseInv, TypeOK, TimersTypeOK, timerVars
  <2>4. Linked'
    BY <1>5, <2>1, <2>2 DEF CloseInv, Linked, timerVars
  <2>5. RefsCounted'
    BY <1>5, <2>1, <2>2 DEF CloseInv, RefsCounted, timerVars
  <2>6. Locked'
    BY <1>1, <2>1 DEF CloseInv, Locked, endVars, appVars
  <2> QED BY <1>2, <2>3, <2>4, <2>5, <2>6 DEF CloseInv, TypeOK
<1>8. CASE Mark
  <2>1. /\ tm_pc = "mark" /\ tm_pc' = "handler"
        /\ cancelled' = [cancelled EXCEPT ![item] = TRUE]
        /\ runs' = [runs EXCEPT ![item] = @ + 1]
        /\ UNCHANGED <<tick, timers, half, expires, refcnt, delay, item, tmp,
                       age, tm_up>>
    BY <1>8 DEF Mark
  <2>2. Allocated' = Allocated /\ (Distinct' <=> Distinct)
    BY <2>1 DEF Allocated, Distinct
  <2>3. item \in TimerIds
    BY <1>5, <2>1 DEF CloseInv, Linked
  <2>4. cancelled' \in [TimerIds -> BOOLEAN]
    BY <2>1 DEF CloseInv, TypeOK, TimersTypeOK
  <2>5. runs' \in [TimerIds -> Nat]
    BY <2>1, <2>3 DEF CloseInv, TypeOK, TimersTypeOK
  <2>6. TimersTypeOK'
    BY <2>1, <2>4, <2>5 DEF CloseInv, TypeOK, TimersTypeOK
  <2>7. Linked'
    BY <1>5, <2>1, <2>2 DEF CloseInv, Linked
  <2>8. RefsCounted'
    BY <1>5, <2>1, <2>2 DEF CloseInv, RefsCounted
  <2>9. Locked'
    BY <1>1, <2>1 DEF CloseInv, Locked, endVars, appVars
  <2> QED BY <1>2, <2>6, <2>7, <2>8, <2>9 DEF CloseInv, TypeOK
<1>9. CASE timer_free
  <2>1. /\ tm_pc = "after" /\ tm_pc' = "next"
        /\ UNCHANGED <<tick, half, refcnt, item, tmp, tm_up>>
    BY <1>9 DEF timer_free
  <2>2. item \in Allocated /\ item \in TimerIds
    BY <1>5, <2>1 DEF CloseInv, Linked
  <2>3. Locked'
    BY <1>1, <2>1 DEF CloseInv, Locked, endVars, appVars
  <2>4. CASE Freeable(item) /\ LockFree
    <3>1. /\ half = 0 /\ refcnt[item] = 0 /\ list_del(item)
          /\ expires' = [expires EXCEPT ![item] = 0]
          /\ cancelled' = [cancelled EXCEPT ![item] = FALSE]
          /\ age' = [age EXCEPT ![item] = 0]
          /\ delay' = [delay EXCEPT ![item] = 0]
          /\ runs' = [runs EXCEPT ![item] = 0]
      BY <1>9, <2>4 DEF timer_free, Freeable, LockFree
    <3>2. ListOK' /\ Allocated' = Allocated \ {item}
      BY <1>5, <2>2, <3>1, DeletedTimer
    <3>3. item # retransmit
      BY <1>4, <2>2, <3>1 DEF CloseInv, RefsCounted
    <3>4. expires' \in [TimerIds -> 0..(TickMod - 1)]
      <4>1. 0 \in 0..(TickMod - 1)
        BY TimersAssumption
      <4> QED BY <3>1, <4>1 DEF CloseInv, TypeOK, TimersTypeOK
    <3>5. cancelled' \in [TimerIds -> BOOLEAN]
      BY <3>1 DEF CloseInv, TypeOK, TimersTypeOK
    <3>6. /\ age' \in [TimerIds -> Nat] /\ delay' \in [TimerIds -> Nat]
          /\ runs' \in [TimerIds -> Nat]
      BY <3>1 DEF CloseInv, TypeOK, TimersTypeOK
    <3>7. TimersTypeOK'
      BY <2>1, <3>2, <3>4, <3>5, <3>6 DEF CloseInv, TypeOK, TimersTypeOK, ListOK
    <3>8. Linked'
      BY <1>5, <2>1, <3>1, <3>2 DEF CloseInv, Linked, ListOK
    <3>9. RefsCounted'
      BY <1>4, <1>5, <2>1, <3>1, <3>2, <3>3 DEF CloseInv, RefsCounted
    <3> QED BY <1>2, <2>3, <3>7, <3>8, <3>9 DEF CloseInv, TypeOK
  <2>5. CASE ~(Freeable(item) /\ LockFree)
    <3>1. UNCHANGED <<timers, expires, cancelled, age, delay, runs>>
      BY <1>9, <2>5 DEF timer_free
    <3>2. Allocated' = Allocated /\ (Distinct' <=> Distinct)
      BY <3>1 DEF Allocated, Distinct
    <3>3. TimersTypeOK'
      BY <2>1, <3>1 DEF CloseInv, TypeOK, TimersTypeOK
    <3>4. Linked'
      BY <1>5, <2>1, <3>1, <3>2 DEF CloseInv, Linked
    <3>5. RefsCounted'
      BY <1>5, <2>1, <3>1, <3>2 DEF CloseInv, RefsCounted
    <3> QED BY <1>2, <2>3, <3>3, <3>4, <3>5 DEF CloseInv, TypeOK
  <2> QED BY <2>4, <2>5
<1>10. CASE Advance
  <2>1. tm_pc = "next" /\ UNCHANGED <<tick, timerVars, age>>
    BY <1>10 DEF Advance
  <2>2. Allocated' = Allocated /\ (Distinct' <=> Distinct)
    BY <2>1 DEF Allocated, Distinct, timerVars
  <2>3. /\ tm_pc' \in {"idle", "visit", "next"} /\ item' \in TimerIds \cup {0}
        /\ tmp' \in TimerIds \cup {0, Null} /\ tm_up' \in BOOLEAN
        /\ tm_pc' = "visit" => item' \in Allocated
        /\ tm_pc' # "idle" => tmp' \in Allocated \cup {0, Null} /\ tmp' # item'
    <3>1. CASE tmp \notin TimerIds
      BY <1>4, <1>10, <2>1, <3>1
      DEF Advance, walkVars, CloseInv, TypeOK, TimersTypeOK, Linked
    <3>2. CASE tmp \in TimerIds
      <4>1. tmp \in Allocated
        BY <1>4, <2>1, <3>2 DEF CloseInv, Linked
      <4>2. /\ tm_pc' = "visit" /\ item' = tmp /\ tmp' = NextOf(tmp)
            /\ tm_up' = tm_up
        BY <1>4, <1>10, <3>2 DEF Advance
      <4> QED BY <1>5, <4>1, <4>2, NextTimer DEF CloseInv, TypeOK, TimersTypeOK
    <3> QED BY <3>1, <3>2
  <2>4. TimersTypeOK'
    BY <2>1, <2>3 DEF CloseInv, TypeOK, TimersTypeOK, timerVars
  <2>5. Linked'
    BY <1>5, <2>1, <2>2, <2>3 DEF CloseInv, Linked, timerVars
  <2>6. RefsCounted'
    BY <1>5, <2>1, <2>2 DEF CloseInv, RefsCounted, timerVars
  <2>7. Locked'
    BY <1>1, <2>1 DEF CloseInv, Locked, endVars, appVars
  <2> QED BY <1>2, <2>4, <2>5, <2>6, <2>7 DEF CloseInv, TypeOK
<1> QED BY <1>6, <1>7, <1>8, <1>9, <1>10 DEF timers_tick

(* The timer thread in tcp_retransmission_timeout.                         *)
LEMMA TimeoutStep ==
    ASSUME CloseInv, tcp_retransmission_timeout
    PROVE  CloseInv'
<1>0. 0 \notin TimerIds /\ Allocated \subseteq TimerIds
  <2>1. 0 \notin TimerIds
    BY TimersAssumption DEF TimerIds
  <2>2. timers \in Seq(TimerIds)
    BY DEF CloseInv, TypeOK, TimersTypeOK
  <2> QED BY <2>1, <2>2 DEF Allocated
<1>1. CASE TimeoutRelease
  <2>1. /\ tm_pc = "handler" /\ rto_pc = "idle" /\ mem = "live"
        /\ wq_lock = "none" /\ wq_lock' = "timer" /\ rto_pc' = "resend"
        /\ half = 0 /\ retransmit' = 0
        /\ refcnt' = IF retransmit # 0 THEN Dropped(retransmit) ELSE refcnt
        /\ UNCHANGED <<timers, half, expires, cancelled, age, delay, runs>>
        /\ UNCHANGED <<tickVars, state, endVars, tcbVars, rtoSide, sent,
                       overlap>>
    BY <1>1 DEF TimeoutRelease, timer_release, LockFree
  <2>2. Allocated' = Allocated /\ (Distinct' <=> Distinct)
    BY <2>1 DEF Allocated, Distinct
  <2>3. RefsCounted' /\ refcnt' \in [TimerIds -> {0, 1}]
    BY <2>1, Unreferenced
  <2>4. TimersTypeOK'
    BY <2>1, <2>3 DEF CloseInv, TypeOK, TimersTypeOK, tickVars, walkVars
  <2>5. SockTypeOK' /\ ThreadsTypeOK' /\ LinkTypeOK'
    BY <2>1 DEF CloseInv, TypeOK, SockTypeOK, ThreadsTypeOK, LinkTypeOK,
                endVars, tcbVars, rtoSide, appVars, rxVars
  <2>6. Linked'
    BY <2>1, <2>2 DEF CloseInv, Linked, tickVars, walkVars, rtoSide, appVars
  <2>7. Locked'
    BY <2>1 DEF CloseInv, Locked, tickVars, walkVars, endVars, rtoSide,
                appVars
  <2> QED BY <2>3, <2>4, <2>5, <2>6, <2>7 DEF CloseInv, TypeOK
<1>2. CASE TimeoutResend
  <2>1. /\ rto_pc = "resend" /\ mem = "live" /\ wq_lock' = "none"
        /\ rto_pc' = "idle" /\ tm_pc' = "after"
        /\ UNCHANGED <<tick, item, tmp, tm_up, endVars, snd_una, snd_nxt,
                       rtoSide, overlap>>
    BY <1>2 DEF TimeoutResend
  <2>2. /\ tm_pc = "handler" /\ retransmit = 0 /\ wq_lock = "timer"
        /\ app_pc \notin {"release", "add", "link", "send"} /\ half = 0
        /\ item \in Allocated /\ tmp # item
        /\ tmp \in Allocated \cup {0, Null}
    BY <2>1 DEF CloseInv, Linked, Locked
  <2>3. ThreadsTypeOK'
    BY <2>1 DEF CloseInv, TypeOK, ThreadsTypeOK, rtoSide, appVars, rxVars
  <2>4. Locked'
    BY <2>1, <2>2 DEF CloseInv, Locked, endVars, rtoSide, appVars
  <2>5. CASE NothingQueued
    <3>1. UNCHANGED <<state, write_queue, timerVars, age, retransmit, sent>>
      BY <2>5 DEF NothingQueued, noTimer
    <3>2. Allocated' = Allocated /\ (Distinct' <=> Distinct)
      BY <3>1 DEF Allocated, Distinct, timerVars
    <3>3. TimersTypeOK'
      BY <2>1, <3>1 DEF CloseInv, TypeOK, TimersTypeOK, timerVars
    <3>4. SockTypeOK' /\ LinkTypeOK'
      BY <2>1, <3>1 DEF CloseInv, TypeOK, SockTypeOK, LinkTypeOK, endVars,
                        rtoSide, appVars
    <3>5. Linked'
      BY <2>1, <2>2, <3>1, <3>2 DEF CloseInv, Linked, timerVars, rtoSide,
                                    appVars
    <3>6. RefsCounted'
      BY <3>1, <3>2 DEF CloseInv, RefsCounted, timerVars
    <3> QED BY <2>3, <2>4, <3>3, <3>4, <3>5, <3>6 DEF CloseInv, TypeOK
  <2>6. CASE ResendHead
    <3>1. PICK t \in TimerIds : AddInHandler(t, RTO) /\ retransmit' = t
      BY <2>6 DEF ResendHead, Rearm
    <3>2. /\ t \in TimerIds \ Allocated /\ Fields(t, RTO) /\ half' = half
          /\ retransmit' = t
      BY <3>1 DEF AddInHandler, timer_alloc
    <3>3. ListOK' /\ Allocated' = Allocated \cup {t}
      BY <3>2, AddedTimer DEF CloseInv, TypeOK, TimersTypeOK, Linked, ListOK,
                              Fields
    <3>4. FieldsTyped'
      BY <3>2, FieldsType DEF CloseInv, TypeOK
    <3>5. TimersTypeOK'
      BY <2>1, <2>2, <3>2, <3>3, <3>4
      DEF CloseInv, TypeOK, TimersTypeOK, FieldsTyped, ListOK
    <3>6. /\ write_queue' \in Seq([fin : BOOLEAN, end_seq : Nat])
          /\ sent' \subseteq [fin : BOOLEAN, seq : Nat]
          /\ state' \in States
      <4> DEFINE b == write_queue[1]
                 e == snd_una + DataLen(b.fin)
      <4>1. /\ write_queue # << >>
            /\ sent' = sent \cup {[fin |-> b.fin, seq |-> snd_una]}
            /\ write_queue' = [write_queue EXCEPT ![1].end_seq = e]
            /\ state' = IF b.fin THEN tcp_handle_fin_state(state) ELSE state
        BY <2>6 DEF ResendHead
      <4>2. /\ write_queue \in Seq([fin : BOOLEAN, end_seq : Nat])
            /\ 1 \in DOMAIN write_queue
            /\ b \in [fin : BOOLEAN, end_seq : Nat]
        <5> DEFINE R == [fin : BOOLEAN, end_seq : Nat]
        <5>1. write_queue \in Seq(R) /\ write_queue # << >>
          BY <4>1 DEF CloseInv, TypeOK, SockTypeOK
        <5> HIDE DEF R
        <5>2. 1 \in DOMAIN write_queue /\ write_queue[1] \in R
          BY <5>1
        <5> QED BY <5>1, <5>2 DEF R
      <4>3. e \in Nat /\ snd_una \in Nat
        <5>1. DataLen(b.fin) \in Nat
          BY DEF DataLen
        <5>2. snd_una \in Nat
          BY DEF CloseInv, TypeOK, SockTypeOK
        <5> HIDE DEF b
        <5> QED BY <5>1, <5>2
      <4>4. state' \in States
        BY <4>1 DEF tcp_handle_fin_state, States, CloseInv, TypeOK, SockTypeOK
      <4>5. sent' \subseteq [fin : BOOLEAN, seq : Nat]
        <5>1. [fin |-> b.fin, seq |-> snd_una] \in [fin : BOOLEAN, seq : Nat]
          BY <4>2, <4>3
        <5> QED BY <4>1, <5>1 DEF CloseInv, TypeOK, LinkTypeOK
      <4> HIDE DEF e
      <4>6. [b EXCEPT !.end_seq = e] \in [fin : BOOLEAN, end_seq : Nat]
        BY <4>2, <4>3
      <4>7. write_queue' \in Seq([fin : BOOLEAN, end_seq : Nat])
        BY <4>1, <4>2, <4>6
      <4> QED BY <4>4, <4>5, <4>7
    <3>7. SockTypeOK' /\ LinkTypeOK'
      BY <2>1, <3>2, <3>6 DEF CloseInv, TypeOK, SockTypeOK, LinkTypeOK,
                              endVars, rtoSide, appVars
    <3>8. Linked'
      BY <1>0, <2>1, <2>2, <3>2, <3>3 DEF CloseInv, Linked, ListOK, rtoSide,
                                          appVars
    <3>9. RefsCounted'
      BY <1>0, <2>2, <3>2, <3>3
      DEF CloseInv, TypeOK, TimersTypeOK, RefsCounted, Fields
    <3> QED BY <2>3, <2>4, <3>5, <3>7, <3>8, <3>9 DEF CloseInv, TypeOK
  <2> QED BY <1>2, <2>5, <2>6 DEF TimeoutResend
<1>3. CASE TimeoutFreed
  <2>1. /\ tm_pc = "handler" /\ mem = "freed" /\ rto_pc' = "idle"
        /\ tm_pc' = "after" /\ used' = used \cup {"timer"}
        /\ UNCHANGED <<tick, item, tmp, tm_up, timerVars, age, state, mem,
                       tcbVars, wq_lock, retransmit, rtoSide, sent, overlap>>
    BY <1>3 DEF TimeoutFreed, noTimer
  <2>2. Allocated' = Allocated /\ (Distinct' <=> Distinct)
    BY <2>1 DEF Allocated, Distinct, timerVars
  <2>3. TimersTypeOK'
    BY <2>1 DEF CloseInv, TypeOK, TimersTypeOK, timerVars
  <2>4. SockTypeOK' /\ ThreadsTypeOK' /\ LinkTypeOK'
    BY <2>1 DEF CloseInv, TypeOK, SockTypeOK, ThreadsTypeOK, LinkTypeOK,
                tcbVars, rtoSide, appVars, rxVars
  <2>5. Linked'
    BY <2>1, <2>2 DEF CloseInv, Linked, timerVars, rtoSide, appVars
  <2>6. RefsCounted'
    BY <2>1, <2>2 DEF CloseInv, RefsCounted, timerVars
  <2>7. Locked'
    BY <2>1 DEF CloseInv, Locked, rtoSide, appVars
  <2> QED BY <2>3, <2>4, <2>5, <2>6, <2>7 DEF CloseInv, TypeOK
<1> QED BY <1>1, <1>2, <1>3 DEF tcp_retransmission_timeout

LEMMA CloseStep == CloseInv /\ [Next]_vars => CloseInv'
<1> SUFFICES ASSUME CloseInv, [Next]_vars PROVE CloseInv'
  OBVIOUS
<1>1. CASE tcp_write \/ tcp_close \/ App
  BY <1>1, AppStep, ResetStep DEF App
<1>2. CASE \/ \E ack \in 0..peer_nxt, fin \in BOOLEAN : Receive(ack, fin)
           \/ Rx \/ ReceiveFreed
  BY <1>2, RxStep
<1>3. CASE TimerThread
  BY <1>3, WalkStep, TimeoutStep DEF TimerThread
<1>4. CASE \E s \in sent : PeerReceive(s)
  BY <1>4, PeerStep
<1>5. CASE UNCHANGED vars
  <2>1. UNCHANGED <<tmVars, retransmit, app_pc>>
    BY <1>5 DEF vars, closeVars, appVars
  <2>2. Linked' /\ RefsCounted' /\ TimersTypeOK'
    BY <2>1, TimersUntouched, TimersTypeKept DEF CloseInv, TypeOK
  <2>3. SockTypeOK' /\ ThreadsTypeOK' /\ LinkTypeOK'
    BY <1>5, SockTypeKept, ThreadsTypeKept, LinkTypeKept
    DEF CloseInv, TypeOK, vars, closeVars, endVars, appVars
  <2>4. Locked'
    BY <1>5 DEF CloseInv, Locked, vars, closeVars, tmVars, walkVars, endVars,
                appVars
  <2> QED BY <2>2, <2>3, <2>4 DEF CloseInv, TypeOK
<1> QED BY <1>1, <1>2, <1>3, <1>4, <1>5 DEF Next

LEMMA CloseInvariant == Spec => []CloseInv
BY CloseInit, CloseStep, PTL DEF Spec

-----------------------------------------------------------------------------
(* Every state of the timers, the sock and the threads is well typed.      *)
THEOREM CloseTypeCorrect == Spec => []TypeOK
<1>1. CloseInv => TypeOK
  BY DEF CloseInv
<1> QED BY <1>1, CloseInvariant, PTL

(* A timer's reference count is what the sock and the adding thread hold,  *)
(* and the sock never points to a freed timer, with all three threads      *)
(* adding, releasing, cancelling and freeing (timer_release, timer_cancel, *)
(* timer_free).                                                            *)
THEOREM RefsCountedHolds == Spec => []RefsCounted
<1>1. CloseInv => RefsCounted
  BY DEF CloseInv
<1> QED BY <1>1, CloseInvariant, PTL
-----------------------------------------------------------------------------
(* What is known of the two FINs.                                          *)

(* Until the application closes, the peer's FIN alone moves the state, and *)
(* no FIN of ours is queued for the timer thread to find.                  *)
BeforeClose ==
    app_skb # "fin" =>
        /\ app_pc # "closed" /\ ~overlap
        /\ \A k \in DOMAIN write_queue : ~write_queue[k].fin
        /\ state = IF flag_fin /\ rx_pc # "set" THEN "CLOSE_WAIT"
                   ELSE "ESTABLISHED"
        /\ rx_pc = "set" => rx_state = "ESTABLISHED"

(* What close has read of the state, until it sets it.                     *)
InClose ==
    /\ app_pc = "open" => app_skb # "fin"
    /\ app_skb = "fin" /\ app_pc \notin {"free", "closed"} =>
           app_state \in {"ESTABLISHED", "CLOSE_WAIT"}
    /\ app_state = "CLOSE_WAIT" => flag_fin /\ rx_pc # "set"

(* The peer's FIN is processed once.                                       *)
PeerFin ==
    /\ rx_fin => ~flag_fin
    /\ rx_pc = "fin" => rx_fin
    /\ rx_pc = "set" =>
           /\ flag_fin
           /\ ~overlap => rx_state \in {"ESTABLISHED", "FIN_WAIT_1"}

FinInv == BeforeClose /\ InClose /\ PeerFin /\ PeerFinRemembered

LEMMA FinInit == Init => FinInv
<1> SUFFICES ASSUME Init PROVE FinInv
  OBVIOUS
<1>1. /\ state \in {"ESTABLISHED", "CLOSE_WAIT"} /\ write_queue = << >>
      /\ app_pc = "open" /\ app_skb = "none" /\ app_state = "none"
      /\ rx_pc = "idle" /\ rx_fin = FALSE /\ overlap = FALSE
      /\ flag_fin = (state = "CLOSE_WAIT")
  BY DEF Init
<1>2. BeforeClose
  <2>1. state = IF flag_fin THEN "CLOSE_WAIT" ELSE "ESTABLISHED"
    BY <1>1
  <2>2. \A k \in DOMAIN write_queue : ~write_queue[k].fin
    BY <1>1
  <2> QED BY <1>1, <2>1, <2>2 DEF BeforeClose
<1>3. InClose /\ PeerFin
  BY <1>1 DEF InClose, PeerFin
<1>4. PeerFinRemembered
  BY <1>1 DEF PeerFinRemembered
<1> QED BY <1>2, <1>3, <1>4 DEF FinInv

LEMMA FinKeptWhole ==
    ASSUME FinInv,
           UNCHANGED <<state, mem, write_queue, appVars, rxVars, overlap>>
    PROVE  FinInv'
BY DEF FinInv, BeforeClose, InClose, PeerFin, PeerFinRemembered, appVars,
       rxVars

LEMMA FinAppStep ==
    ASSUME CloseInv, FinInv, tcp_write \/ tcp_close \/ App
    PROVE  FinInv'
<1> USE DEF CloseInv, FinInv, BeforeClose, InClose, PeerFin
<1>1. CASE tcp_write
  BY <1>1 DEF tcp_write, PeerFinRemembered, rxVars, endVars, tcbVars
<1>2. CASE tcp_close
  BY <1>2 DEF tcp_close, PeerFinRemembered, rxVars, endVars, tcbVars
<1>3. CASE QueueLock \/ ResetRelease \/ ResetAdd \/ ResetDone
  BY <1>3 DEF QueueLock, ResetRelease, ResetAdd, ResetDone, PeerFinRemembered,
              rxVars, endVars, tcbVars
<1>4. CASE Transmit
  <2> DEFINE skb == [fin |-> app_skb = "fin",
                     end_seq |-> snd_una + DataLen(app_skb = "fin")]
  <2>1. /\ app_pc = "send" /\ app_pc' = "count"
        /\ write_queue' = Append(write_queue, skb)
        /\ UNCHANGED <<state, endVars, app_skb, app_state, rxVars, overlap>>
    BY <1>4 DEF Transmit
  <2>2. ASSUME app_skb # "fin"
        PROVE  \A k \in DOMAIN write_queue' : ~write_queue'[k].fin
    <3>1. write_queue \in Seq([fin : BOOLEAN, end_seq : Nat])
      BY DEF TypeOK, SockTypeOK
    <3>2. ~skb.fin
      BY <2>2
    <3> HIDE DEF skb
    <3>3. \A k \in DOMAIN write_queue' :
              k \in DOMAIN write_queue \/ write_queue'[k] = skb
      BY <2>1, <3>1
    <3>4. \A k \in DOMAIN write_queue : write_queue'[k] = write_queue[k]
      BY <2>1, <3>1
    <3> QED BY <2>2, <3>2, <3>3, <3>4
  <2> HIDE DEF skb
  <2> QED BY <2>1, <2>2 DEF PeerFinRemembered, rxVars, endVars
<1>5. CASE Count
  BY <1>5 DEF Count, PeerFinRemembered, rxVars, endVars
<1>6. CASE SetState
  <2>1. /\ app_pc = "set" /\ app_skb = "fin"
        /\ app_state \in {"ESTABLISHED", "CLOSE_WAIT"}
        /\ state' = AfterClose(app_state)
        /\ overlap' = (overlap \/ (app_state = "ESTABLISHED" /\ flag_fin))
        /\ app_pc' = "free" /\ app_state' = "none"
        /\ UNCHANGED <<mem, app_skb, rxVars>>
    BY <1>6 DEF SetState, Locked, endVars
  <2>2. (BeforeClose /\ InClose)'
    BY <2>1 DEF rxVars
  <2>3. PeerFin'
    BY <2>1 DEF rxVars
  <2>4. PeerFinRemembered'
    BY <2>1 DEF PeerFinRemembered, AfterClose, rxVars
  <2> QED BY <2>2, <2>3, <2>4
<1>7. CASE inet_free
  BY <1>7 DEF inet_free, Locked, PeerFinRemembered, rxVars
<1> QED BY <1>1, <1>2, <1>3, <1>4, <1>5, <1>6, <1>7 DEF App

LEMMA FinRxStep ==
    ASSUME CloseInv, FinInv,
           \/ \E ack \in 0..peer_nxt, fin \in BOOLEAN : Receive(ack, fin)
           \/ Rx \/ ReceiveFreed
    PROVE  FinInv'
<1> USE DEF FinInv, BeforeClose, InClose, PeerFin
<1>1. CASE \E ack \in 0..peer_nxt, fin \in BOOLEAN : Receive(ack, fin)
  <2>1. PICK ack \in 0..peer_nxt, fin \in BOOLEAN : Receive(ack, fin)
    BY <1>1
  <2>2. /\ rx_pc = "idle" /\ rx_pc' \in {"clean", "fin"}
        /\ rx_pc' = "fin" => fin
        /\ fin => ~flag_fin
        /\ rx_fin' = fin
        /\ UNCHANGED <<state, mem, write_queue, app_pc, app_skb, app_state,
                       rx_state, flag_fin, overlap>>
    BY <2>1 DEF Receive, endVars, appSide, appVars
  <2> QED BY <2>2 DEF PeerFinRemembered
<1>2. CASE tcp_clean_retransmission_queue
  <2>1. PICK n \in 0..Len(write_queue) :
            write_queue' = SubSeq(write_queue, n + 1, Len(write_queue))
    BY <1>2 DEF tcp_clean_retransmission_queue
  <2>2. /\ rx_pc = "clean"
        /\ rx_pc' = IF rx_fin THEN "fin" ELSE "idle"
        /\ UNCHANGED <<state, mem, app_pc, app_skb, app_state, rx_fin,
                       rx_state, flag_fin, overlap>>
    BY <1>2 DEF tcp_clean_retransmission_queue, endVars, appSide, appVars
  <2>3. \A k \in DOMAIN write_queue' :
            k + n \in DOMAIN write_queue /\ write_queue'[k] = write_queue[k + n]
    <3>1. write_queue \in Seq([fin : BOOLEAN, end_seq : Nat])
      BY DEF CloseInv, TypeOK, SockTypeOK
    <3> QED BY <2>1, <3>1
  <2> QED BY <2>2, <2>3 DEF PeerFinRemembered
<1>3. CASE FinTest
  <2>1. /\ rx_pc = "fin" /\ mem = "live" /\ flag_fin' = TRUE
        /\ rx_state' = state /\ rx_fin' = FALSE /\ rx_pc' = "set"
        /\ UNCHANGED <<state, mem, write_queue, app_pc, app_skb, app_state,
                       overlap>>
    BY <1>3 DEF FinTest, endVars, tcbVars, appSide, appVars
  <2>2. state \in States
    BY DEF CloseInv, TypeOK, SockTypeOK
  <2>3. ~flag_fin /\ (~overlap => state \in {"ESTABLISHED", "FIN_WAIT_1"})
    BY <2>1, <2>2 DEF PeerFinRemembered, States
  <2>4. (BeforeClose /\ InClose)'
    BY <2>1, <2>3
  <2>5. PeerFin' /\ PeerFinRemembered'
    BY <2>1, <2>3 DEF PeerFinRemembered
  <2> QED BY <2>4, <2>5
<1>4. CASE FinSet
  <2>1. /\ rx_pc = "set"
        /\ state' = IF AfterFin(rx_state) # rx_state THEN AfterFin(rx_state)
                    ELSE state
        /\ overlap' = (overlap \/ state # rx_state)
        /\ rx_pc' = "idle"
        /\ UNCHANGED <<mem, write_queue, app_pc, app_skb, app_state, rx_fin,
                       flag_fin>>
    BY <1>4 DEF FinSet, endVars, tcbVars, appSide, appVars
  <2>2. (BeforeClose /\ InClose /\ PeerFin)'
    BY <2>1 DEF AfterFin
  <2>3. PeerFinRemembered'
    BY <2>1 DEF PeerFinRemembered, AfterFin
  <2> QED BY <2>2, <2>3
<1>5. CASE ReceiveFreed
  <2>1. app_skb = "fin"
    BY <1>5 DEF ReceiveFreed, CloseInv, Locked
  <2> QED BY <1>5, <2>1 DEF ReceiveFreed, PeerFinRemembered, tcbVars, appSide,
                            appVars
<1> QED BY <1>1, <1>2, <1>3, <1>4, <1>5 DEF Rx

(* tcp_retransmission_timeout gives the head another end_seq, no more.     *)
LEMMA ResendKeepsFins ==
    ASSUME CloseInv, ResendHead
    PROVE  /\ DOMAIN write_queue' = DOMAIN write_queue
           /\ \A k \in DOMAIN write_queue :
                  write_queue'[k].fin = write_queue[k].fin
<1> DEFINE e == snd_una + DataLen(write_queue[1].fin)
           R == [fin : BOOLEAN, end_seq : Nat]
<1>1. write_queue' = [write_queue EXCEPT ![1].end_seq = e]
  BY DEF ResendHead
<1>2. write_queue \in Seq(R)
  BY DEF CloseInv, TypeOK, SockTypeOK
<1> HIDE DEF e
<1>3. DOMAIN write_queue' = DOMAIN write_queue
  BY <1>1, <1>2
<1>4. ASSUME NEW k \in DOMAIN write_queue
      PROVE  write_queue'[k].fin = write_queue[k].fin
  <2>1. write_queue[k] \in [fin : BOOLEAN, end_seq : Nat]
    <3> HIDE DEF R
    <3>1. write_queue[k] \in R
      BY <1>2
    <3> QED BY <3>1 DEF R
  <2>2. CASE k = 1
    BY <1>1, <2>1, <2>2
  <2>3. CASE k # 1
    BY <1>1, <2>3
  <2> QED BY <2>2, <2>3
<1> QED BY <1>3, <1>4

LEMMA FinTimerStep ==
    ASSUME CloseInv, FinInv, TimerThread
    PROVE  FinInv'
<1>1. CASE (timers_start \/ timers_tick) /\ UNCHANGED closeVars
  BY <1>1, FinKeptWhole DEF closeVars, endVars, tcbVars
<1>2. CASE TimeoutRelease \/ TimeoutFreed
  BY <1>2, FinKeptWhole DEF TimeoutRelease, TimeoutFreed, endVars, tcbVars,
                            rtoSide
<1>3. CASE TimeoutResend
  <2>1. UNCHANGED <<mem, appVars, rxVars, overlap>>
    BY <1>3 DEF TimeoutResend, endVars, rtoSide
  <2>2. CASE NothingQueued
    BY <2>1, <2>2, FinKeptWhole DEF NothingQueued
  <2>3. CASE ResendHead
    <3>1. /\ DOMAIN write_queue' = DOMAIN write_queue
          /\ \A k \in DOMAIN write_queue :
                 write_queue'[k].fin = write_queue[k].fin
      BY <2>3, ResendKeepsFins
    <3>2. /\ 1 \in DOMAIN write_queue
          /\ state' = IF write_queue[1].fin THEN tcp_handle_fin_state(state)
                      ELSE state
      <4>1. write_queue \in Seq([fin : BOOLEAN, end_seq : Nat])
        BY DEF CloseInv, TypeOK, SockTypeOK
      <4> QED BY <2>3, <4>1 DEF ResendHead
    <3>3. BeforeClose'
      BY <2>1, <3>1, <3>2 DEF FinInv, BeforeClose, appVars, rxVars
    <3>4. (InClose /\ PeerFin)'
      BY <2>1 DEF FinInv, InClose, PeerFin, appVars, rxVars
    <3>5. PeerFinRemembered'
      BY <2>1, <3>2 DEF FinInv, PeerFinRemembered, tcp_handle_fin_state, rxVars
    <3> QED BY <3>3, <3>4, <3>5 DEF FinInv
  <2> QED BY <1>3, <2>2, <2>3 DEF TimeoutResend
<1> QED BY <1>1, <1>2, <1>3 DEF TimerThread, tcp_retransmission_timeout

LEMMA FinStep == CloseInv /\ FinInv /\ [Next]_vars => FinInv'
<1> SUFFICES ASSUME CloseInv, FinInv, [Next]_vars PROVE FinInv'
  OBVIOUS
<1>1. CASE \E s \in sent : PeerReceive(s)
  BY <1>1, FinKeptWhole DEF PeerReceive, endVars, tcbVars
<1>2. CASE UNCHANGED vars
  BY <1>2, FinKeptWhole DEF vars, closeVars, endVars, tcbVars
<1> QED BY <1>1, <1>2, FinAppStep, FinRxStep, FinTimerStep DEF Next

(* The state tells whether the peer has closed as long as the sock lives,  *)
(* unless close and the peer's FIN overlap: resending our FIN from the     *)
(* timer thread, which sets the state too (tcp_handle_fin_state), never    *)
(* makes it forget.                                                        *)
THEOREM PeerFinHolds == Spec => []PeerFinRemembered
<1>1. Spec => []FinInv
  BY FinInit, FinStep, CloseInvariant, PTL DEF Spec
<1>2. FinInv => PeerFinRemembered
  BY DEF FinInv
<1> QED BY <1>1, <1>2, PTL

-----------------------------------------------------------------------------
(* What is known of the write queue and its timer.                         *)

Pending(t) == ~cancelled[t] \/ (t = item /\ tm_pc \in {"mark", "handler"})

(* The timer the sock points to, or is about to, has not fired in vain.    *)
PendingRef ==
    mem = "live" =>
        /\ retransmit # 0 => Pending(retransmit)
        /\ half # 0 => Pending(half)

QueueTimed ==
    /\ write_queue # << >> => retransmit # 0 \/ rto_pc = "resend"
    /\ app_pc = "send" => retransmit # 0
    /\ app_pc \in {"release", "add", "link"} => write_queue = << >>
    /\ mem = "freed" => write_queue = << >>

(* Before our FIN is counted, a byte is one number.                        *)
Counted ==
    /\ app_pc = "open" => snd_nxt = written
    /\ app_pc # "open" /\ app_skb = "data" => snd_nxt + 1 = written
    /\ app_pc \in {"lock", "release", "add", "link", "send"} /\ app_skb = "fin" =>
           snd_nxt = written

(* A FIN sent when everything was acknowledged is not in reach of          *)
(* tcp_clean_retransmission_queue before its own ACK is.                   *)
FinAlone ==
    FinSent /\ alone =>
        /\ snd_una >= written
        /\ snd_una = written =>
               /\ rx_pc # "clean"
               /\ \E k \in DOMAIN write_queue : write_queue[k].fin

KeptInv == PendingRef /\ QueueTimed /\ Counted /\ FinAlone

LEMMA KeptInit == Init => KeptInv
BY DEF Init, TimersInit, KeptInv, PendingRef, QueueTimed, Counted, FinAlone,
       FinSent

(* Whose timers change, and how.                                           *)
LEMMA PendingStep ==
    ASSUME CloseInv, PendingRef, [Next]_vars
    PROVE  PendingRef'
<1>0. /\ cancelled \in [TimerIds -> BOOLEAN]
      /\ Allocated \subseteq TimerIds /\ 0 \notin TimerIds
  <2>1. timers \in Seq(TimerIds)
    BY DEF CloseInv, TypeOK, TimersTypeOK
  <2> QED BY <2>1, TimersAssumption DEF CloseInv, TypeOK, TimersTypeOK,
                                        Allocated, TimerIds
<1>1. ASSUME UNCHANGED <<retransmit, half, cancelled, item, tm_pc>>,
             mem' = "live" => mem = "live"
      PROVE  PendingRef'
  BY <1>1 DEF PendingRef, Pending
<1>2. CASE tcp_write \/ tcp_close \/ QueueLock \/ Transmit \/ Count
           \/ SetState \/ inet_free
  BY <1>1, <1>2 DEF tcp_write, tcp_close, QueueLock, Transmit, Count, SetState,
                    inet_free, tmVars, timerVars, walkVars, endVars
<1>3. CASE ResetRelease
  BY <1>3 DEF ResetRelease, timer_release, LockFree, PendingRef, Pending,
              tickVars, walkVars, endVars
<1>4. CASE ResetAdd
  <2>1. PICK t \in TimerIds : timer_add(t, RTO)
    BY <1>4 DEF ResetAdd
  <2>2. /\ t \in TimerIds \ Allocated /\ half' = t
        /\ cancelled' = [cancelled EXCEPT ![t] = FALSE]
    BY <2>1 DEF timer_add, timer_alloc, Fields
  <2>3. UNCHANGED <<retransmit, item, tm_pc, mem>>
    BY <1>4 DEF ResetAdd, tickVars, walkVars, endVars
  <2>4. retransmit = 0
    BY <1>4 DEF ResetAdd, CloseInv, Locked
  <2> QED BY <1>0, <2>2, <2>3, <2>4 DEF PendingRef, Pending
<1>5. CASE ResetDone
  BY <1>5 DEF ResetDone, list_add_tail, PendingRef, Pending, tickVars,
              walkVars, endVars
<1>6. CASE \E ack \in 0..peer_nxt, fin \in BOOLEAN : Receive(ack, fin)
  BY <1>1, <1>6 DEF Receive, tmVars, timerVars, walkVars, endVars
<1>7. CASE tcp_clean_retransmission_queue
  <2>1. /\ UNCHANGED <<half, item, tm_pc, mem>>
        /\ \/ half = 0 /\ retransmit' = 0
           \/ UNCHANGED <<cancelled, retransmit>>
    BY <1>7 DEF tcp_clean_retransmission_queue, timer_cancel, LockFree,
                noTimer, timerVars, tickVars, walkVars, endVars
  <2> QED BY <2>1 DEF PendingRef, Pending
<1>8. CASE FinTest \/ FinSet \/ ReceiveFreed
  BY <1>1, <1>8 DEF FinTest, FinSet, ReceiveFreed, tmVars, timerVars, walkVars,
                    endVars
<1>9. CASE timers_start /\ UNCHANGED closeVars
  BY <1>9 DEF timers_start, closeVars, endVars, timerVars, walkVars,
              PendingRef, Pending
<1>10. CASE timers_tick /\ UNCHANGED closeVars
  <2>1. UNCHANGED <<retransmit, mem>>
    BY <1>10 DEF closeVars, endVars
  <2>2. CASE Visit
    BY <2>1, <2>2 DEF Visit, timerVars, PendingRef, Pending
  <2>3. CASE Mark
    <3>1. /\ UNCHANGED <<half, item>> /\ tm_pc' = "handler"
          /\ cancelled' = [cancelled EXCEPT ![item] = TRUE]
          /\ tm_pc = "mark"
      BY <2>3 DEF Mark
    <3>2. ASSUME NEW t \in TimerIds, Pending(t)
          PROVE  ~cancelled'[t] \/ (t = item' /\ tm_pc' \in {"mark", "handler"})
      BY <1>0, <3>1, <3>2 DEF Pending
    <3>3. retransmit \in TimerIds \cup {0} /\ half \in TimerIds \cup {0}
      BY DEF CloseInv, TypeOK, TimersTypeOK, SockTypeOK
    <3> QED BY <2>1, <3>1, <3>2, <3>3 DEF PendingRef, Pending
  <2>4. CASE timer_free
    <3>1. /\ UNCHANGED <<half, item>> /\ tm_pc = "after" /\ tm_pc' = "next"
          /\ \/ UNCHANGED cancelled
             \/ cancelled' = [cancelled EXCEPT ![item] = FALSE]
      BY <2>4 DEF timer_free
    <3>2. ASSUME NEW t \in TimerIds, Pending(t) PROVE ~cancelled'[t]
      BY <1>0, <3>1, <3>2 DEF Pending
    <3>3. retransmit \in TimerIds \cup {0} /\ half \in TimerIds \cup {0}
      BY DEF CloseInv, TypeOK, TimersTypeOK, SockTypeOK
    <3> QED BY <2>1, <3>1, <3>2, <3>3 DEF PendingRef, Pending
  <2>5. CASE Advance
    BY <2>1, <2>5 DEF Advance, timerVars, walkVars, PendingRef, Pending
  <2> QED BY <1>10, <2>2, <2>3, <2>4, <2>5 DEF timers_tick
<1>11. CASE TimeoutRelease
  BY <1>11 DEF TimeoutRelease, timer_release, LockFree, PendingRef, endVars
<1>12. CASE TimeoutResend
  <2>1. mem = "live" /\ wq_lock = "timer" /\ retransmit = 0
    BY <1>12 DEF TimeoutResend, CloseInv, Locked
  <2>2. half = 0
    BY <2>1 DEF CloseInv, Linked, Locked
  <2>3. CASE NothingQueued
    BY <2>1, <2>2, <2>3 DEF NothingQueued, noTimer, timerVars, PendingRef
  <2>4. CASE ResendHead
    <3>1. PICK t \in TimerIds : AddInHandler(t, RTO) /\ retransmit' = t
      BY <2>4 DEF ResendHead, Rearm
    <3>2. cancelled' = [cancelled EXCEPT ![t] = FALSE] /\ half' = half
      BY <3>1 DEF AddInHandler, Fields
    <3> QED BY <1>0, <2>2, <3>1, <3>2 DEF PendingRef, Pending
  <2> QED BY <1>12, <2>3, <2>4 DEF TimeoutResend
<1>13. CASE TimeoutFreed
  BY <1>13 DEF TimeoutFreed, PendingRef
<1>14. CASE \E s \in sent : PeerReceive(s)
  BY <1>1, <1>14 DEF PeerReceive, tmVars, timerVars, walkVars, endVars
<1>15. CASE UNCHANGED vars
  BY <1>1, <1>15 DEF vars, closeVars, tmVars, timerVars, walkVars, endVars
<1> QED BY <1>2, <1>3, <1>4, <1>5, <1>6, <1>7, <1>8, <1>9, <1>10, <1>11,
           <1>12, <1>13, <1>14, <1>15
        DEF Next, App, Rx, TimerThread, tcp_retransmission_timeout

(* write_queue.lock keeps the three threads apart.                         *)
LEMMA QueueStep ==
    ASSUME CloseInv, QueueTimed, [Next]_vars
    PROVE  QueueTimed'
<1>0. 0 \notin TimerIds
  BY TimersAssumption DEF TimerIds
<1>1. ASSUME UNCHANGED <<mem, write_queue, retransmit, rto_pc, app_pc>>
      PROVE  QueueTimed'
  BY <1>1 DEF QueueTimed
<1>2. CASE tcp_write \/ tcp_close \/ Count \/ SetState
  BY <1>2 DEF tcp_write, tcp_close, Count, SetState, endVars, tcbVars,
              QueueTimed
<1>3. CASE QueueLock
  <2>1. /\ app_pc = "lock" /\ wq_lock = "none"
        /\ app_pc' = IF write_queue = << >> THEN "release" ELSE "send"
        /\ UNCHANGED <<mem, write_queue, retransmit, rto_pc>>
    BY <1>3 DEF QueueLock, tcbVars, endVars
  <2>2. mem = "live" /\ rto_pc # "resend"
    <3>1. mem = "live"
      BY <2>1 DEF CloseInv, TypeOK, SockTypeOK, Locked
    <3> QED BY <2>1, <3>1 DEF CloseInv, Locked
  <2> QED BY <2>1, <2>2 DEF QueueTimed
<1>4. CASE ResetRelease \/ ResetAdd
  BY <1>4 DEF ResetRelease, ResetAdd, endVars, tcbVars, QueueTimed
<1>5. CASE ResetDone
  BY <1>5 DEF ResetDone, list_add_tail, endVars, tcbVars, QueueTimed
<1>6. CASE Transmit
  <2>1. mem = "live"
    BY <1>6 DEF Transmit, CloseInv, TypeOK, SockTypeOK, Locked
  <2> QED BY <1>6, <2>1 DEF Transmit, endVars, QueueTimed
<1>7. CASE inet_free
  BY <1>7 DEF inet_free, QueueTimed
<1>8. CASE \E ack \in 0..peer_nxt, fin \in BOOLEAN : Receive(ack, fin)
  BY <1>1, <1>8 DEF Receive, endVars, appSide, appVars
<1>9. CASE tcp_clean_retransmission_queue
  <2>1. /\ mem = "live" /\ wq_lock = "none"
        /\ UNCHANGED <<mem, rto_pc, app_pc>>
    BY <1>9 DEF tcp_clean_retransmission_queue, endVars, appSide, appVars
  <2>2. app_pc \notin {"release", "add", "link", "send"}
    BY <2>1 DEF CloseInv, Locked
  <2>3. PICK n \in 0..Len(write_queue) :
            /\ write_queue' = SubSeq(write_queue, n + 1, Len(write_queue))
            /\ \/ n = Len(write_queue)
               \/ n < Len(write_queue) /\ UNCHANGED retransmit
    BY <1>9 DEF tcp_clean_retransmission_queue
  <2>4. write_queue \in Seq([fin : BOOLEAN, end_seq : Nat])
    BY DEF CloseInv, TypeOK, SockTypeOK
  <2>5. CASE n = Len(write_queue)
    <3>1. write_queue' = << >>
      BY <2>3, <2>4, <2>5
    <3> QED BY <2>1, <2>2, <3>1 DEF QueueTimed
  <2>6. CASE n < Len(write_queue) /\ UNCHANGED retransmit
    <3>1. write_queue # << >>
      BY <2>4, <2>6
    <3> QED BY <2>1, <2>2, <2>6, <3>1 DEF QueueTimed
  <2> QED BY <2>3, <2>5, <2>6
<1>10. CASE FinTest \/ FinSet \/ ReceiveFreed
  BY <1>1, <1>10 DEF FinTest, FinSet, ReceiveFreed, endVars, tcbVars, appSide,
                     appVars
<1>11. CASE (timers_start \/ timers_tick) /\ UNCHANGED closeVars
  BY <1>1, <1>11 DEF closeVars, endVars, tcbVars, appVars
<1>12. CASE TimeoutRelease
  BY <1>12 DEF TimeoutRelease, endVars, tcbVars, rtoSide, appVars, QueueTimed,
               CloseInv, Locked
<1>13. CASE TimeoutResend
  <2>1. mem = "live" /\ wq_lock = "timer" /\ UNCHANGED <<mem, app_pc>>
    BY <1>13 DEF TimeoutResend, CloseInv, Locked, endVars, rtoSide, appVars
  <2>2. app_pc \notin {"release", "add", "link", "send"}
    BY <2>1 DEF CloseInv, Locked
  <2>3. write_queue' # << >> => retransmit' # 0
    <3>1. CASE NothingQueued
      BY <3>1 DEF NothingQueued
    <3>2. CASE ResendHead
      BY <1>0, <3>2 DEF ResendHead, Rearm
    <3> QED BY <1>13, <3>1, <3>2 DEF TimeoutResend
  <2> QED BY <2>1, <2>2, <2>3 DEF QueueTimed
<1>14. CASE TimeoutFreed
  <2>1. mem = "freed" /\ UNCHANGED <<mem, write_queue, app_pc>>
    BY <1>14 DEF TimeoutFreed, tcbVars, rtoSide, appVars
  <2> QED BY <2>1 DEF QueueTimed, CloseInv, Locked
<1>15. CASE \E s \in sent : PeerReceive(s)
  BY <1>1, <1>15 DEF PeerReceive, endVars, tcbVars, appVars
<1>16. CASE UNCHANGED vars
  BY <1>1, <1>16 DEF vars, closeVars, endVars, tcbVars, appVars
<1> QED BY <1>2, <1>3, <1>4, <1>5, <1>6, <1>7, <1>8, <1>9, <1>10, <1>11,
           <1>12, <1>13, <1>14, <1>15, <1>16
        DEF Next, App, Rx, TimerThread, tcp_retransmission_timeout

LEMMA CountedStep ==
    ASSUME CloseInv, Counted, [Next]_vars
    PROVE  Counted'
<1>0. written \in Nat /\ snd_nxt \in Nat
  BY CloseAssumption DEF CloseInv, TypeOK, SockTypeOK, LinkTypeOK
<1>1. ASSUME UNCHANGED <<app_pc, app_skb, snd_nxt, written>>
      PROVE  Counted'
  BY <1>1 DEF Counted
<1>2. CASE tcp_write \/ tcp_close
  BY <1>0, <1>2 DEF tcp_write, tcp_close, tcbVars, Counted
<1>3. CASE QueueLock \/ ResetRelease \/ ResetAdd \/ ResetDone
  BY <1>3 DEF QueueLock, ResetRelease, ResetAdd, ResetDone, tcbVars, Counted
<1>4. CASE Transmit \/ SetState
  BY <1>4 DEF Transmit, SetState, tcbVars, Counted, CloseInv, Locked
<1>5. CASE Count
  <2>1. /\ app_pc = "count" /\ snd_nxt' = snd_nxt + 1
        /\ \/ app_skb = "data" /\ app_pc' = "open"
           \/ app_skb = "fin" /\ app_pc' = "set"
        /\ UNCHANGED <<app_skb, written>>
    BY <1>5 DEF Count
  <2> QED BY <1>0, <2>1 DEF Counted
<1>6. CASE inet_free
  BY <1>6 DEF inet_free, Counted, CloseInv, Locked
<1>7. CASE \/ \E ack \in 0..peer_nxt, fin \in BOOLEAN : Receive(ack, fin)
           \/ Rx \/ ReceiveFreed
  BY <1>1, <1>7 DEF Receive, Rx, tcp_clean_retransmission_queue, FinTest,
                    FinSet, ReceiveFreed, tcbVars, appSide, appVars
<1>8. CASE TimerThread
  BY <1>1, <1>8 DEF TimerThread, tcp_retransmission_timeout, TimeoutRelease,
                    TimeoutResend, TimeoutFreed, closeVars, tcbVars, rtoSide,
                    appVars
<1>9. CASE \E s \in sent : PeerReceive(s)
  BY <1>1, <1>9 DEF PeerReceive, tcbVars, appVars
<1>10. CASE UNCHANGED vars
  BY <1>1, <1>10 DEF vars, closeVars, tcbVars, appVars
<1> QED BY <1>2, <1>3, <1>4, <1>5, <1>6, <1>7, <1>8, <1>9, <1>10 DEF Next, App

(* Only the ACK of the FIN itself lets the receive thread at it.           *)
LEMMA AloneStep ==
    ASSUME CloseInv, Counted, FinAlone, [Next]_vars
    PROVE  FinAlone'
<1>0. written \in Nat /\ snd_una \in Nat
      /\ write_queue \in Seq([fin : BOOLEAN, end_seq : Nat])
  BY CloseAssumption DEF CloseInv, TypeOK, SockTypeOK, LinkTypeOK
<1>1. ASSUME UNCHANGED <<app_pc, app_skb, alone, snd_una, written,
                         write_queue>>,
             rx_pc' = "clean" => rx_pc = "clean"
      PROVE  FinAlone'
  BY <1>1 DEF FinAlone, FinSent
<1>2. CASE tcp_write \/ tcp_close \/ QueueLock \/ ResetRelease \/ ResetAdd
           \/ ResetDone \/ inet_free
  BY <1>2 DEF tcp_write, tcp_close, QueueLock, ResetRelease, ResetAdd,
              ResetDone, inet_free, FinAlone, FinSent
<1>3. CASE Transmit
  <2> DEFINE skb == [fin |-> app_skb = "fin",
                     end_seq |-> snd_una + DataLen(app_skb = "fin")]
  <2>1. /\ app_pc = "send" /\ write_queue' = Append(write_queue, skb)
        /\ alone' => app_skb = "fin" /\ snd_una = snd_nxt /\ rx_pc # "clean"
        /\ UNCHANGED <<snd_una, written, rx_pc, app_skb>>
    BY <1>3 DEF Transmit, rxVars
  <2>2. app_skb = "fin" => skb.fin
    OBVIOUS
  <2> HIDE DEF skb
  <2>3. LET k == Len(write_queue) + 1
        IN  k \in DOMAIN write_queue' /\ write_queue'[k] = skb
    BY <1>0, <2>1
  <2>4. alone' => snd_una' = written'
    BY <2>1 DEF Counted
  <2> QED BY <1>0, <2>1, <2>2, <2>3, <2>4 DEF FinAlone
<1>4. CASE Count \/ SetState
  BY <1>4 DEF Count, SetState, tcbVars, rxVars, FinAlone, FinSent, CloseInv,
              Locked
<1>5. CASE \E ack \in 0..peer_nxt, fin \in BOOLEAN : Receive(ack, fin)
  <2>1. PICK ack \in 0..peer_nxt, fin \in BOOLEAN : Receive(ack, fin)
    BY <1>5
  <2>2. /\ UNCHANGED <<app_pc, app_skb, alone, written, write_queue>>
        /\ \/ snd_una < ack /\ snd_una' = ack
           \/ UNCHANGED snd_una /\ rx_pc' = "fin"
    BY <2>1 DEF Receive, appSide, appVars
  <2>3. ack \in Int /\ (FinSent' <=> FinSent)
    BY <2>2 DEF CloseInv, TypeOK, LinkTypeOK, FinSent
  <2>4. CASE snd_una < ack /\ snd_una' = ack
    BY <1>0, <2>2, <2>3, <2>4 DEF FinAlone
  <2>5. CASE UNCHANGED snd_una /\ rx_pc' = "fin"
    BY <2>2, <2>3, <2>5 DEF FinAlone
  <2> QED BY <2>2, <2>4, <2>5
<1>6. CASE tcp_clean_retransmission_queue
  <2>1. rx_pc = "clean"
        /\ UNCHANGED <<app_pc, app_skb, alone, written, snd_una>>
    BY <1>6 DEF tcp_clean_retransmission_queue, appSide, appVars
  <2> QED BY <2>1 DEF FinAlone, FinSent
<1>7. CASE FinTest \/ FinSet \/ ReceiveFreed
  BY <1>1, <1>7 DEF FinTest, FinSet, ReceiveFreed, tcbVars, appSide, appVars
<1>8. CASE (timers_start \/ timers_tick) /\ UNCHANGED closeVars
  BY <1>1, <1>8 DEF closeVars, tcbVars, appVars, rxVars
<1>9. CASE TimeoutRelease \/ TimeoutFreed
  BY <1>1, <1>9 DEF TimeoutRelease, TimeoutFreed, tcbVars, rtoSide, appVars,
                    rxVars
<1>10. CASE TimeoutResend
  <2>1. UNCHANGED <<app_pc, app_skb, alone, snd_una, written, rx_pc>>
    BY <1>10 DEF TimeoutResend, rtoSide, appVars, rxVars
  <2>2. CASE NothingQueued
    BY <1>1, <2>1, <2>2 DEF NothingQueued
  <2>3. CASE ResendHead
    BY <2>1, <2>3, ResendKeepsFins DEF FinAlone, FinSent
  <2> QED BY <1>10, <2>2, <2>3 DEF TimeoutResend
<1>11. CASE \E s \in sent : PeerReceive(s)
  BY <1>1, <1>11 DEF PeerReceive, tcbVars, appVars, rxVars
<1>12. CASE UNCHANGED vars
  BY <1>1, <1>12 DEF vars, closeVars, tcbVars, appVars, rxVars
<1> QED BY <1>2, <1>3, <1>4, <1>5, <1>6, <1>7, <1>8, <1>9, <1>10, <1>11,
           <1>12
        DEF Next, App, Rx, TimerThread, tcp_retransmission_timeout

(* A FIN sent when everything was acknowledged stays queued until it is    *)
(* acknowledged, with a timer that is armed or is being handled, for any   *)
(* number of timers and any width of the tick (tcp_queue_transmit_skb,     *)
(* tcp_clean_retransmission_queue, tcp_retransmission_timeout).            *)
THEOREM FinKeptHolds == Spec => []FinKept
<1>1. CloseInv /\ KeptInv /\ [Next]_vars => KeptInv'
  BY PendingStep, QueueStep, CountedStep, AloneStep DEF KeptInv
<1>2. Spec => [](CloseInv /\ KeptInv)
  BY <1>1, KeptInit, CloseInvariant, PTL DEF Spec
<1>3. CloseInv /\ KeptInv => FinKept
  <2> SUFFICES ASSUME CloseInv, KeptInv, FinSent, alone, snd_una <= written
               PROVE  /\ \E k \in DOMAIN write_queue : write_queue[k].fin
                      /\ TimerPending
    BY DEF FinKept
  <2>1. written \in Nat /\ snd_una \in Nat
    BY CloseAssumption DEF CloseInv, TypeOK, SockTypeOK, LinkTypeOK
  <2>2. \E k \in DOMAIN write_queue : write_queue[k].fin
    BY <2>1 DEF KeptInv, FinAlone
  <2>3. retransmit # 0 \/ rto_pc = "resend"
    BY <2>2 DEF KeptInv, QueueTimed
  <2>4. mem = "live"
    BY DEF FinSent, CloseInv, TypeOK, SockTypeOK, Locked
  <2>5. retransmit # 0 => retransmit \in Allocated /\ Pending(retransmit)
    BY <2>4 DEF KeptInv, PendingRef, CloseInv, RefsCounted
  <2> QED BY <2>2, <2>3, <2>5 DEF TimerPending, Pending
<1> QED BY <1>2, <1>3, PTL

-----------------------------------------------------------------------------
(* A sum that is less than twice the modulus.                              *)
LEMMA ModSmall ==
    ASSUME NEW a \in Nat, NEW m \in Nat \ {0}, a < m + m
    PROVE  a % m = IF a < m THEN a ELSE a - m
<1>1. CASE a < m
  BY <1>1
<1>2. CASE a >= m
  BY <1>2
<1> QED BY <1>1, <1>2

LEMMA AllocatedIds == TimersTypeOK => Allocated \subseteq TimerIds
<1> SUFFICES ASSUME TimersTypeOK, NEW k \in DOMAIN timers
             PROVE  timers[k] \in TimerIds
  BY DEF Allocated
<1> QED BY DEF TimersTypeOK

-----------------------------------------------------------------------------
(* Timers fire in time.                                                    *)

NotBefore(s, t) ==
    \E j, k \in DOMAIN timers : timers[j] = s /\ timers[k] = t /\ j <= k

(* Its time is over and it waits for its handler.                          *)
Due(t) == /\ ~cancelled[t] /\ age[t] > delay[t]
          /\ ~Wrapped(t) /\ expires[t] # TickMod - 1

(* The walk still comes to t, if it does not end at a half-linked timer.   *)
Ahead(t) ==
    /\ tm_pc # "idle"
    /\ \/ t = item /\ tm_pc \in {"visit", "mark"}
       \/ tmp = Null
       \/ tmp \in Allocated /\ NotBefore(tmp, t)

(* Until its time is over the age of a timer tells the tick, unless its    *)
(* expires wrapped.                                                        *)
InStep(t) == ~Wrapped(t) /\ age[t] <= delay[t] =>
                 tick = expires[t] - delay[t] + age[t]

RunOnce(t) ==
    \/ runs[t] = 0
    \/ runs[t] = 1 /\ cancelled[t] /\ (Wrapped(t) \/ age[t] > delay[t])

DueAhead(t) == Due(t) => tick > expires[t] /\ Ahead(t)

Marking ==
    tm_pc = "mark" => /\ runs[item] = 0
                      /\ Wrapped(item) \/ age[item] > delay[item]

FireInv ==
    /\ \A t \in Allocated : InStep(t) /\ RunOnce(t) /\ DueAhead(t)
    /\ Marking

LEMMA FireInit == Init => FireInv
BY DEF Init, TimersInit, FireInv, Allocated, Marking

(* What the application and the receive thread do to timers that exist:    *)
(* they cancel them; and the handler ends.                                 *)
LEMMA FireKept ==
    ASSUME CloseInv, FireInv,
           UNCHANGED <<tick, timers, expires, age, delay, runs, item, tmp>>,
           \A t \in TimerIds : cancelled[t] => cancelled'[t],
           tm_pc' = tm_pc \/ (tm_pc = "handler" /\ tm_pc' = "after")
    PROVE  FireInv'
<1>1. Allocated' = Allocated /\ Allocated \subseteq TimerIds
  BY AllocatedIds DEF Allocated, CloseInv, TypeOK
<1>2. \A s, t : NotBefore(s, t)' <=> NotBefore(s, t)
  BY DEF NotBefore
<1>3. ASSUME NEW t \in Allocated PROVE (InStep(t) /\ RunOnce(t) /\ DueAhead(t))'
  <2>1. InStep(t)' /\ RunOnce(t)'
    BY <1>1, <1>3 DEF FireInv, InStep, RunOnce, Wrapped
  <2>2. Due(t)' => Due(t)
    BY <1>1, <1>3 DEF Due, Wrapped
  <2>3. Ahead(t) => Ahead(t)'
    BY <1>1, <1>2 DEF Ahead
  <2> QED BY <1>3, <2>1, <2>2, <2>3 DEF FireInv, DueAhead
<1>4. Marking'
  BY DEF FireInv, Marking, Wrapped
<1> QED BY <1>1, <1>3, <1>4 DEF FireInv

(* timer_add: the new timer is the last one and its time is to come.       *)
LEMMA FireAdded ==
    ASSUME CloseInv, FireInv, NEW t \in TimerIds \ Allocated, Fields(t, RTO),
           UNCHANGED <<tick, item, tmp>>,
           tm_pc' = tm_pc \/ (tm_pc = "handler" /\ tm_pc' = "after")
    PROVE  FireInv'
<1>1. /\ ListOK /\ Allocated' = Allocated \cup {t}
  BY AddedTimer DEF CloseInv, TypeOK, TimersTypeOK, Linked, ListOK, Fields
<1>2. /\ Allocated \subseteq TimerIds
      /\ tick \in 0..(TickMod - 1) /\ expires \in [TimerIds -> 0..(TickMod - 1)]
      /\ cancelled \in [TimerIds -> BOOLEAN]
      /\ age \in [TimerIds -> Nat] /\ delay \in [TimerIds -> Nat]
      /\ runs \in [TimerIds -> Nat]
      /\ RTO \in 1..(TickMod - 1) /\ TickMod \in Nat \ {0}
  <2>1. Allocated \subseteq TimerIds
    BY AllocatedIds DEF CloseInv, TypeOK
  <2>2. /\ tick \in 0..(TickMod - 1) /\ expires \in [TimerIds -> 0..(TickMod - 1)]
        /\ cancelled \in [TimerIds -> BOOLEAN]
        /\ age \in [TimerIds -> Nat] /\ delay \in [TimerIds -> Nat]
        /\ runs \in [TimerIds -> Nat]
    BY DEF CloseInv, TypeOK, TimersTypeOK
  <2> QED BY <2>1, <2>2, TimersAssumption, CloseAssumption
<1> DEFINE e == (tick + RTO) % TickMod
<1>3. e = IF tick + RTO < TickMod THEN tick + RTO ELSE tick + RTO - TickMod
  <2>1. tick + RTO \in Nat /\ TickMod \in Nat \ {0}
    BY <1>2
  <2>2. tick + RTO < TickMod + TickMod
    BY <1>2
  <2> DEFINE a == tick + RTO
  <2> HIDE DEF a
  <2>3. a % TickMod = IF a < TickMod THEN a ELSE a - TickMod
    BY <2>1, <2>2, ModSmall DEF a
  <2>4. e = a % TickMod
    BY DEF a
  <2>5. a = tick + RTO
    BY DEF a
  <2> HIDE DEF e
  <2>6. e = IF a < TickMod THEN a ELSE a - TickMod
    BY <2>3, <2>4, Zenon
  <2> QED BY <1>2, <2>1, <2>5, <2>6
<1>4. /\ expires' = [expires EXCEPT ![t] = e]
      /\ cancelled' = [cancelled EXCEPT ![t] = FALSE]
      /\ age' = [age EXCEPT ![t] = 0] /\ delay' = [delay EXCEPT ![t] = RTO]
      /\ runs' = [runs EXCEPT ![t] = 0]
  BY DEF Fields
<1> HIDE DEF e
<1>5. /\ expires'[t] = e /\ age'[t] = 0 /\ delay'[t] = RTO /\ runs'[t] = 0
      /\ \A u \in Allocated :
             /\ expires'[u] = expires[u] /\ cancelled'[u] = cancelled[u]
             /\ age'[u] = age[u] /\ delay'[u] = delay[u] /\ runs'[u] = runs[u]
  BY <1>2, <1>4
<1>6. (InStep(t) /\ RunOnce(t) /\ DueAhead(t))'
  <2>1. ~(e < RTO) => tick = e - RTO
    BY <1>2, <1>3
  <2>2. InStep(t)'
    BY <1>2, <1>3, <1>5, <2>1 DEF InStep, Wrapped
  <2>3. RunOnce(t)' /\ ~Due(t)'
    BY <1>2, <1>5 DEF RunOnce, Due
  <2> QED BY <2>2, <2>3 DEF DueAhead
<1>7. ASSUME NEW s \in Allocated, NEW u \in Allocated, NotBefore(s, u)
      PROVE  NotBefore(s, u)'
  <2>1. \A k \in DOMAIN timers : k \in DOMAIN timers' /\ timers'[k] = timers[k]
    BY <1>1 DEF ListOK, Fields
  <2> QED BY <1>7, <2>1 DEF NotBefore
<1>8. ASSUME NEW u \in Allocated PROVE (InStep(u) /\ RunOnce(u) /\ DueAhead(u))'
  <2>1. InStep(u)' /\ RunOnce(u)'
    BY <1>5, <1>8 DEF FireInv, InStep, RunOnce, Wrapped
  <2>2. Due(u)' => Due(u)
    BY <1>5, <1>8 DEF Due, Wrapped
  <2>3. Ahead(u) => Ahead(u)'
    BY <1>1, <1>7 DEF Ahead
  <2>4. DueAhead(u)'
    BY <1>5, <1>8, <2>2, <2>3 DEF FireInv, DueAhead
  <2> QED BY <2>1, <2>4
<1>9. Marking'
  <2>1. tm_pc = "mark" => item \in Allocated
    BY DEF CloseInv, Linked
  <2> QED BY <1>5, <2>1 DEF FireInv, Marking, Wrapped
<1> QED BY <1>1, <1>6, <1>8, <1>9 DEF FireInv

(* The order of the list as the positions tell it.                         *)
LEMMA Ordered ==
    ASSUME ListOK, NEW s \in Allocated, NEW t \in Allocated
    PROVE  NotBefore(s, t) <=> Position(s) <= Position(t)
<1>1. /\ Position(s) \in 1..Len(timers) /\ timers[Position(s)] = s
      /\ \A k \in 1..Len(timers) : timers[k] = s => k = Position(s)
  BY Positioned
<1>2. /\ Position(t) \in 1..Len(timers) /\ timers[Position(t)] = t
      /\ \A k \in 1..Len(timers) : timers[k] = t => k = Position(t)
  BY Positioned
<1>3. DOMAIN timers = 1..Len(timers)
  BY DEF ListOK
<1> QED BY <1>1, <1>2, <1>3 DEF NotBefore

(* Who is not before t is t, or its next one is not before t either.       *)
LEMMA NextNotBefore ==
    ASSUME ListOK, NEW s \in Allocated, NEW t \in Allocated,
           NotBefore(s, t), s # t
    PROVE  NextOf(s) = Null \/ (NextOf(s) \in Allocated /\ NotBefore(NextOf(s), t))
<1>1. /\ Position(s) \in 1..Len(timers) /\ timers[Position(s)] = s
      /\ Position(t) \in 1..Len(timers) /\ timers[Position(t)] = t
      /\ Position(s) <= Position(t)
  BY Positioned, Ordered
<1>2. Len(timers) \in Nat /\ DOMAIN timers = 1..Len(timers)
  BY DEF ListOK
<1>3. Position(s) # Position(t)
  BY <1>1
<1>4. Position(s) + 1 \in 1..Len(timers) /\ Position(s) + 1 <= Position(t)
      /\ Position(s) # Len(timers)
  BY <1>1, <1>2, <1>3
<1>5. CASE s = half
  BY <1>5 DEF NextOf
<1>6. CASE s # half
  <2>1. NextOf(s) = timers[Position(s) + 1]
    BY <1>4, <1>6 DEF NextOf
  <2>2. NextOf(s) \in Allocated
    BY <1>2, <1>4, <2>1 DEF Allocated
  <2>3. NotBefore(NextOf(s), t)
    BY <1>1, <1>2, <1>4, <2>1 DEF NotBefore
  <2> QED BY <2>2, <2>3
<1> QED BY <1>5, <1>6

(* The walk begins at the first timer and misses none.                     *)
LEMMA FireStart ==
    ASSUME CloseInv, FireInv, timers_start, UNCHANGED closeVars
    PROVE  FireInv'
<1>1. ListOK /\ Allocated' = Allocated
  BY DEF CloseInv, TypeOK, TimersTypeOK, Linked, ListOK, timers_start,
         timerVars, Allocated
<1>2. /\ tick \in 0..(TickMod - 1) /\ expires \in [TimerIds -> 0..(TickMod - 1)]
      /\ age \in [TimerIds -> Nat] /\ delay \in [TimerIds -> Nat]
      /\ TickMod \in Nat \ {0} /\ Allocated \subseteq TimerIds
      /\ timers \in Seq(TimerIds)
  BY TimersAssumption, AllocatedIds DEF CloseInv, TypeOK, TimersTypeOK
<1>3. /\ tm_pc = "idle" /\ tick' = (tick + 1) % TickMod
      /\ UNCHANGED <<timers, half, expires, cancelled, delay, runs>>
      /\ age' = [t \in TimerIds |-> IF t \in Allocated /\ age[t] <= delay[t]
                                    THEN age[t] + 1 ELSE age[t]]
      /\ timers # << >> => /\ item' = timers[1] /\ tmp' = NextOf(timers[1])
                           /\ tm_pc' = "visit"
  BY DEF timers_start, timerVars
<1>4. tick + 1 < TickMod => tick' = tick + 1
  <2> SUFFICES ASSUME NEW a, a = tick + 1, a < TickMod PROVE a % TickMod = a
    BY <1>3
  <2>1. a \in Nat /\ a < TickMod + TickMod /\ TickMod \in Nat \ {0}
    BY <1>2
  <2> QED BY <2>1, ModSmall
<1>5. ASSUME NEW t \in Allocated
      PROVE  age'[t] = IF age[t] <= delay[t] THEN age[t] + 1 ELSE age[t]
  BY <1>2, <1>3
<1>6. ASSUME NEW t \in Allocated PROVE InStep(t)' /\ RunOnce(t)'
  <2>0. /\ age[t] \in Nat /\ delay[t] \in Nat /\ expires[t] \in 0..(TickMod - 1)
        /\ age'[t] = IF age[t] <= delay[t] THEN age[t] + 1 ELSE age[t]
    BY <1>2, <1>5
  <2>1. InStep(t)'
    <3> SUFFICES ASSUME ~Wrapped(t), age'[t] <= delay[t]
                 PROVE  tick' = expires[t] - delay[t] + age'[t]
      BY <1>3 DEF InStep, Wrapped
    <3>1. age'[t] = age[t] + 1 /\ age[t] <= delay[t]
      BY <2>0
    <3>2. tick = expires[t] - delay[t] + age[t]
      BY <3>1, <1>6 DEF FireInv, InStep
    <3>3. tick + 1 < TickMod
      BY <1>2, <2>0, <3>1, <3>2
    <3> QED BY <1>2, <1>4, <2>0, <3>1, <3>2, <3>3
  <2>2. RunOnce(t)'
    <3>1. age[t] > delay[t] => age'[t] > delay[t]
      BY <2>0
    <3> QED BY <1>3, <1>6, <3>1 DEF FireInv, RunOnce, Wrapped
  <2> QED BY <2>1, <2>2
<1>7. ASSUME NEW t \in Allocated PROVE DueAhead(t)'
  <2> SUFFICES ASSUME Due(t)' PROVE tick' > expires'[t] /\ Ahead(t)'
    BY DEF DueAhead
  <2>0. /\ age[t] \in Nat /\ delay[t] \in Nat /\ expires[t] \in 0..(TickMod - 1)
        /\ age'[t] = IF age[t] <= delay[t] THEN age[t] + 1 ELSE age[t]
    BY <1>2, <1>5
  <2>1. /\ ~cancelled[t] /\ age'[t] > delay[t] /\ ~Wrapped(t)
        /\ expires[t] # TickMod - 1
    BY <1>3 DEF Due, Wrapped
  <2>2. age[t] <= delay[t]
    <3>1. ~Due(t)
      BY <1>3, <1>7 DEF FireInv, DueAhead, Ahead
    <3> QED BY <2>0, <2>1, <3>1 DEF Due
  <2>3. age[t] = delay[t]
    BY <2>0, <2>1, <2>2
  <2>4. tick = expires[t]
    BY <1>2, <1>7, <2>0, <2>1, <2>2, <2>3 DEF FireInv, InStep
  <2>5. tick' > expires'[t]
    BY <1>2, <1>3, <1>4, <2>0, <2>1, <2>4
  <2>6. timers # << >> /\ Len(timers) >= 1
    BY <1>2, <1>7 DEF Allocated
  <2> DEFINE f == timers[1]
  <2>7. f \in Allocated /\ NotBefore(f, t)
    <3>1. 1 \in DOMAIN timers /\ DOMAIN timers = 1..Len(timers)
      BY <1>2, <2>6
    <3>2. PICK k \in DOMAIN timers : timers[k] = t
      BY <1>7 DEF Allocated
    <3>3. 1 <= k
      BY <3>1, <3>2
    <3> QED BY <3>1, <3>2, <3>3 DEF Allocated, NotBefore
  <2> HIDE DEF f
  <2>8. tm_pc' = "visit" /\ item' = f /\ tmp' = NextOf(f)
    BY <1>3, <2>6 DEF f
  <2>9. Ahead(t)'
    <3>1. CASE f = t
      BY <2>8, <3>1 DEF Ahead
    <3>2. CASE f # t
      <4>1. NextOf(f) = Null \/ (NextOf(f) \in Allocated /\ NotBefore(NextOf(f), t))
        BY <1>1, <1>7, <2>7, <3>2, NextNotBefore
      <4>2. \A s : NotBefore(s, t) => NotBefore(s, t)'
        BY <1>3 DEF NotBefore
      <4> QED BY <1>1, <2>8, <4>1, <4>2 DEF Ahead
    <3> QED BY <3>1, <3>2
  <2> QED BY <2>5, <2>9
<1>8. Marking'
  BY <1>3 DEF timers_start, walkVars, Marking
<1> QED BY <1>1, <1>6, <1>7, <1>8 DEF FireInv

(* timer_free leaves the order of the others as it is.                     *)
LEMMA OrderDeleted ==
    ASSUME ListOK, NEW d \in Allocated, list_del(d),
           NEW s \in Allocated, NEW t \in Allocated,
           s # d, t # d, NotBefore(s, t)
    PROVE  NotBefore(s, t)'
<1> DEFINE n == Len(timers)
           p == Position(d)
           to(k) == IF k < p THEN k ELSE k - 1
<1>1. /\ n \in Nat /\ DOMAIN timers = 1..n
      /\ p \in 1..n /\ timers[p] = d
  BY Positioned DEF ListOK
<1>2. DOMAIN timers' = 1..(n - 1)
      /\ \A k \in 1..(n - 1) :
             timers'[k] = IF k < p THEN timers[k] ELSE timers[k + 1]
  BY DEF list_del
<1>3. PICK j \in 1..n, k \in 1..n : timers[j] = s /\ timers[k] = t /\ j <= k
  BY <1>1 DEF NotBefore
<1> HIDE DEF p, n
<1>4. j # p /\ k # p
  BY <1>1, <1>3
<1>5. /\ to(j) \in 1..(n - 1) /\ to(k) \in 1..(n - 1) /\ to(j) <= to(k)
  BY <1>1, <1>3, <1>4
<1>6. timers'[to(j)] = s
  <2>1. CASE j < p
    BY <1>2, <1>3, <1>5, <2>1
  <2>2. CASE j > p
    <3>1. to(j) = j - 1 /\ ~(j - 1 < p) /\ (j - 1) + 1 = j
      BY <1>1, <1>3, <2>2
    <3> QED BY <1>2, <1>3, <1>5, <3>1
  <2> QED BY <1>1, <1>3, <1>4, <2>1, <2>2
<1>7. timers'[to(k)] = t
  <2>1. CASE k < p
    BY <1>2, <1>3, <1>5, <2>1
  <2>2. CASE k > p
    <3>1. to(k) = k - 1 /\ ~(k - 1 < p) /\ (k - 1) + 1 = k
      BY <1>1, <1>3, <2>2
    <3> QED BY <1>2, <1>3, <1>5, <3>1
  <2> QED BY <1>1, <1>3, <1>4, <2>1, <2>2
<1> HIDE DEF to
<1> QED BY <1>2, <1>5, <1>6, <1>7 DEF NotBefore

(* The walk leaves a timer behind when its handler runs or it is not due.  *)
LEMMA FireVisit ==
    ASSUME CloseInv, FireInv, Visit
    PROVE  FireInv'
<1>1. /\ Allocated' = Allocated /\ item \in Allocated
      /\ \A s, t : NotBefore(s, t)' <=> NotBefore(s, t)
  BY DEF CloseInv, Linked, Visit, timerVars, Allocated, NotBefore
<1>2. /\ tm_pc = "visit"
      /\ UNCHANGED <<tick, timers, expires, cancelled, age, delay, runs, item, tmp>>
      /\ tm_pc' = IF ~cancelled[item] /\ Expired(item) THEN "mark" ELSE "after"
  BY DEF Visit, timerVars
<1>3. /\ tick \in 0..(TickMod - 1) /\ expires[item] \in 0..(TickMod - 1)
      /\ age[item] \in Nat /\ delay[item] \in Nat /\ TickMod \in Nat
  <2>1. item \in TimerIds
    BY <1>1 DEF Allocated, CloseInv, TypeOK, TimersTypeOK
  <2> QED BY <2>1, TimersAssumption DEF CloseInv, TypeOK, TimersTypeOK
<1>4. ASSUME NEW t \in Allocated PROVE (InStep(t) /\ RunOnce(t) /\ DueAhead(t))'
  <2>1. InStep(t)' /\ RunOnce(t)' /\ (Due(t)' <=> Due(t))
    BY <1>1, <1>2, <1>4 DEF FireInv, InStep, RunOnce, Due, Wrapped
  <2>2. ASSUME Due(t) PROVE Ahead(t)'
    <3>1. tick > expires[t] /\ Ahead(t)
      BY <1>1, <1>4, <2>2 DEF FireInv, DueAhead
    <3>2. CASE t = item
      <4>1. tm_pc' = "mark"
        BY <1>2, <1>3, <2>2, <3>1, <3>2 DEF Due, Expired
      <4> QED BY <1>2, <3>2, <4>1 DEF Ahead
    <3>3. CASE t # item
      BY <1>1, <1>2, <3>1, <3>3 DEF Ahead
    <3> QED BY <3>2, <3>3
  <2>3. DueAhead(t)'
    BY <1>1, <1>2, <1>4, <2>1, <2>2 DEF FireInv, DueAhead
  <2> QED BY <2>1, <2>3
<1>5. Marking'
  <2> SUFFICES ASSUME tm_pc' = "mark"
               PROVE  runs[item] = 0 /\ (Wrapped(item) \/ age[item] > delay[item])
    BY <1>2 DEF Marking, Wrapped
  <2>1. ~cancelled[item] /\ expires[item] < tick
    BY <1>2 DEF Expired
  <2>2. runs[item] = 0
    BY <1>1, <2>1 DEF FireInv, RunOnce
  <2>3. ASSUME ~Wrapped(item), ~(age[item] > delay[item]) PROVE FALSE
    <3>1. tick = expires[item] - delay[item] + age[item]
      BY <1>1, <1>3, <2>3 DEF FireInv, InStep
    <3> QED BY <1>3, <2>1, <2>3, <3>1
  <2> QED BY <2>2, <2>3
<1> QED BY <1>1, <1>4, <1>5 DEF FireInv

LEMMA FireMark ==
    ASSUME CloseInv, FireInv, Mark
    PROVE  FireInv'
<1>1. /\ tm_pc = "mark" /\ tm_pc' = "handler"
      /\ UNCHANGED <<tick, timers, expires, age, delay, item, tmp>>
      /\ cancelled' = [cancelled EXCEPT ![item] = TRUE]
      /\ runs' = [runs EXCEPT ![item] = @ + 1]
  BY DEF Mark
<1>2. /\ Allocated' = Allocated /\ item \in Allocated
      /\ \A s, t : NotBefore(s, t)' <=> NotBefore(s, t)
  BY <1>1 DEF CloseInv, Linked, Allocated, NotBefore
<1>3. Allocated \subseteq TimerIds /\ cancelled \in [TimerIds -> BOOLEAN]
      /\ runs \in [TimerIds -> Nat]
  BY AllocatedIds DEF CloseInv, TypeOK, TimersTypeOK
<1>4. cancelled'[item] /\ runs'[item] = 1
  BY <1>1, <1>2, <1>3 DEF FireInv, Marking
<1>5. \A t \in Allocated \ {item} : cancelled'[t] = cancelled[t]
                                    /\ runs'[t] = runs[t]
  BY <1>1, <1>2, <1>3
<1>6. ASSUME NEW t \in Allocated PROVE (InStep(t) /\ RunOnce(t) /\ DueAhead(t))'
  <2>1. InStep(t)'
    BY <1>1, <1>6 DEF FireInv, InStep, Wrapped
  <2>2. CASE t = item
    <3>1. RunOnce(t)'
      BY <1>1, <1>4, <2>2 DEF FireInv, Marking, RunOnce, Wrapped
    <3>2. ~Due(t)'
      BY <1>1, <1>4, <2>2 DEF Due
    <3> QED BY <2>1, <3>1, <3>2 DEF DueAhead
  <2>3. CASE t # item
    <3>1. RunOnce(t)' /\ (Due(t)' <=> Due(t))
      BY <1>1, <1>5, <1>6, <2>3 DEF FireInv, RunOnce, Due, Wrapped
    <3>2. Ahead(t) => Ahead(t)'
      BY <1>1, <1>2, <2>3 DEF Ahead
    <3>3. DueAhead(t)'
      BY <1>1, <1>6, <3>1, <3>2 DEF FireInv, DueAhead
    <3> QED BY <2>1, <3>1, <3>3
  <2> QED BY <2>2, <2>3
<1>7. Marking'
  BY <1>1 DEF Marking
<1> QED BY <1>2, <1>6, <1>7 DEF FireInv

LEMMA FireFree ==
    ASSUME CloseInv, FireInv, timer_free
    PROVE  FireInv'
<1>1. /\ tm_pc = "after" /\ tm_pc' = "next"
      /\ UNCHANGED <<tick, half, item, tmp>>
      /\ item \in Allocated /\ tmp \in Allocated \cup {0, Null} /\ tmp # item
      /\ ListOK
  BY DEF timer_free, CloseInv, Linked, ListOK, TypeOK, TimersTypeOK
<1>2. CASE Freeable(item) /\ LockFree
  <2>1. /\ list_del(item)
        /\ expires' = [expires EXCEPT ![item] = 0]
        /\ cancelled' = [cancelled EXCEPT ![item] = FALSE]
        /\ age' = [age EXCEPT ![item] = 0]
        /\ delay' = [delay EXCEPT ![item] = 0]
        /\ runs' = [runs EXCEPT ![item] = 0]
    BY <1>2 DEF timer_free
  <2>2. Allocated' = Allocated \ {item}
    BY <1>1, <2>1, DeletedTimer
  <2>3. ASSUME NEW t \in Allocated'
        PROVE  (InStep(t) /\ RunOnce(t) /\ DueAhead(t))'
    <3>1. t \in Allocated /\ t # item
      BY <2>2, <2>3
    <3>2. /\ expires'[t] = expires[t] /\ cancelled'[t] = cancelled[t]
          /\ age'[t] = age[t] /\ delay'[t] = delay[t] /\ runs'[t] = runs[t]
      <4>1. t \in TimerIds
        BY <3>1 DEF Allocated, CloseInv, TypeOK, TimersTypeOK
      <4>2. expires'[t] = expires[t] /\ cancelled'[t] = cancelled[t]
        BY <2>1, <3>1, <4>1 DEF CloseInv, TypeOK, TimersTypeOK
      <4>3. /\ age'[t] = age[t] /\ delay'[t] = delay[t] /\ runs'[t] = runs[t]
        BY <2>1, <3>1, <4>1 DEF CloseInv, TypeOK, TimersTypeOK
      <4> QED BY <4>2, <4>3
    <3>3. InStep(t)' /\ RunOnce(t)' /\ (Due(t)' <=> Due(t))
      BY <1>1, <3>1, <3>2 DEF FireInv, InStep, RunOnce, Due, Wrapped
    <3>4. ASSUME Ahead(t) PROVE Ahead(t)'
      <4>1. CASE tmp = Null
        BY <1>1, <4>1 DEF Ahead
      <4>2. CASE tmp \in Allocated /\ NotBefore(tmp, t)
        <5>1. NotBefore(tmp, t)'
          <6>1. \A s \in Allocated \ {item} :
                    NotBefore(s, t) => NotBefore(s, t)'
            BY <1>1, <2>1, <3>1, OrderDeleted
          <6>2. tmp' = tmp
            BY <1>1
          <6> QED BY <1>1, <4>2, <6>1, <6>2 DEF NotBefore
        <5> QED BY <1>1, <2>2, <4>2, <5>1 DEF Ahead
      <4> QED BY <1>1, <3>4, <4>1, <4>2 DEF Ahead
    <3>5. DueAhead(t)'
      BY <1>1, <3>1, <3>2, <3>3, <3>4 DEF FireInv, DueAhead
    <3> QED BY <3>3, <3>5
  <2>4. Marking'
    BY <1>1 DEF Marking
  <2> QED BY <2>3, <2>4 DEF FireInv
<1>3. CASE ~(Freeable(item) /\ LockFree)
  <2>1. UNCHANGED <<timers, expires, cancelled, age, delay, runs>>
    BY <1>3 DEF timer_free
  <2>2. /\ Allocated' = Allocated
        /\ \A s, t : NotBefore(s, t)' <=> NotBefore(s, t)
    BY <2>1 DEF Allocated, NotBefore
  <2>3. ASSUME NEW t \in Allocated
        PROVE  (InStep(t) /\ RunOnce(t) /\ DueAhead(t))'
    <3>1. InStep(t)' /\ RunOnce(t)' /\ (Due(t)' <=> Due(t))
      BY <1>1, <2>1, <2>3 DEF FireInv, InStep, RunOnce, Due, Wrapped
    <3>2. Ahead(t) => Ahead(t)'
      BY <1>1, <2>2 DEF Ahead
    <3>3. DueAhead(t)'
      BY <1>1, <2>1, <2>3, <3>1, <3>2 DEF FireInv, DueAhead
    <3> QED BY <3>1, <3>3
  <2>4. Marking'
    BY <1>1 DEF Marking
  <2> QED BY <2>2, <2>3, <2>4 DEF FireInv
<1> QED BY <1>2, <1>3

LEMMA FireAdvance ==
    ASSUME CloseInv, FireInv, Advance
    PROVE  FireInv'
<1>1. /\ UNCHANGED <<tick, timers, half, expires, cancelled, age, delay, runs>>
      /\ tm_pc = "next" /\ ListOK
  BY DEF Advance, timerVars, CloseInv, Linked, ListOK, TypeOK, TimersTypeOK
<1>2. /\ Allocated' = Allocated
      /\ \A s, t : NotBefore(s, t)' <=> NotBefore(s, t)
  BY <1>1 DEF Allocated, NotBefore
<1>3. Allocated \subseteq TimerIds
  BY AllocatedIds DEF CloseInv, TypeOK
<1>4. /\ tmp \in Allocated \cup {0, Null} /\ Null # 0 /\ Null \notin TimerIds
      /\ 0 \notin TimerIds
  BY <1>1, TimersAssumption DEF CloseInv, Linked, Null, TimerIds
<1>5. ASSUME NEW t \in Allocated, Ahead(t)
      PROVE  Ahead(t)'
  <2>1. CASE tmp = Null
    BY <1>1, <1>4, <2>1 DEF Advance, walkVars, Ahead
  <2>2. CASE tmp \in Allocated /\ NotBefore(tmp, t)
    <3>1. tm_pc' = "visit" /\ item' = tmp /\ tmp' = NextOf(tmp)
      BY <1>3, <1>4, <2>2 DEF Advance
    <3>2. CASE t = tmp
      BY <3>1, <3>2 DEF Ahead
    <3>3. CASE t # tmp
      <4>1. ASSUME NEW s \in Allocated, NotBefore(s, t), s # t
            PROVE  \/ NextOf(s) = Null
                   \/ NextOf(s) \in Allocated /\ NotBefore(NextOf(s), t)
        BY <1>1, <4>1, NextNotBefore
      <4> DEFINE x == NextOf(tmp)
      <4>2. x = Null \/ (x \in Allocated /\ NotBefore(x, t))
        BY <2>2, <3>3, <4>1
      <4> HIDE DEF x
      <4>3. tmp' = x
        BY <3>1 DEF x
      <4>4. x \in Allocated /\ NotBefore(x, t) => NotBefore(tmp, t)'
        BY <1>1, <4>3 DEF NotBefore
      <4> QED BY <1>2, <3>1, <4>2, <4>3, <4>4 DEF Ahead
    <3> QED BY <3>2, <3>3
  <2> QED BY <1>1, <1>5, <2>1, <2>2 DEF Ahead
<1>6. ASSUME NEW t \in Allocated PROVE (InStep(t) /\ RunOnce(t) /\ DueAhead(t))'
  <2>1. InStep(t)' /\ RunOnce(t)' /\ (Due(t)' <=> Due(t))
    BY <1>1, <1>6 DEF FireInv, InStep, RunOnce, Due, Wrapped
  <2>2. DueAhead(t)'
    BY <1>1, <1>5, <1>6, <2>1 DEF FireInv, DueAhead
  <2> QED BY <2>1, <2>2
<1>7. Marking'
  BY <1>1 DEF Advance, walkVars, Marking
<1> QED BY <1>2, <1>6, <1>7 DEF FireInv

LEMMA FireApp ==
    ASSUME CloseInv, FireInv, App
    PROVE  FireInv'
<1>1. ASSUME UNCHANGED tmVars PROVE FireInv'
  <2>1. /\ UNCHANGED <<tick, timers, expires, age, delay, runs, item, tmp>>
        /\ UNCHANGED <<cancelled, tm_pc>>
    BY <1>1 DEF tmVars, timerVars, walkVars
  <2> QED BY <2>1, FireKept
<1>2. CASE QueueLock \/ Transmit \/ Count \/ SetState \/ inet_free
  BY <1>1, <1>2 DEF QueueLock, Transmit, Count, SetState, inet_free
<1>3. CASE ResetRelease
  <2>1. /\ UNCHANGED <<tick, timers, expires, age, delay, runs, item, tmp>>
        /\ UNCHANGED <<cancelled, tm_pc>>
    BY <1>3 DEF ResetRelease, timer_release, tickVars, walkVars
  <2> QED BY <2>1, FireKept
<1>4. CASE ResetAdd
  <2>1. PICK t \in TimerIds : timer_add(t, RTO)
    BY <1>4 DEF ResetAdd
  <2>2. t \in TimerIds \ Allocated /\ Fields(t, RTO)
    BY <2>1 DEF timer_add, timer_alloc
  <2>3. UNCHANGED <<tick, item, tmp>> /\ UNCHANGED tm_pc
    BY <1>4 DEF ResetAdd, tickVars, walkVars
  <2> QED BY <2>2, <2>3, FireAdded
<1>5. CASE ResetDone
  <2>1. /\ UNCHANGED <<tick, timers, expires, age, delay, runs, item, tmp>>
        /\ UNCHANGED <<cancelled, tm_pc>>
    BY <1>5 DEF ResetDone, list_add_tail, tickVars, walkVars
  <2> QED BY <2>1, FireKept
<1> QED BY <1>2, <1>3, <1>4, <1>5 DEF App

LEMMA FireClean ==
    ASSUME CloseInv, FireInv, tcp_clean_retransmission_queue
    PROVE  FireInv'
<1>1. UNCHANGED <<tick, item, tmp>> /\ UNCHANGED tm_pc
  BY DEF tcp_clean_retransmission_queue, tickVars, walkVars
<1>2. timer_cancel(retransmit) \/ UNCHANGED noTimer
  BY DEF tcp_clean_retransmission_queue
<1>3. UNCHANGED <<timers, expires, age, delay, runs>>
  BY <1>2 DEF timer_cancel, noTimer, timerVars
<1>4. ASSUME NEW t \in TimerIds, cancelled[t] PROVE cancelled'[t]
  <2>1. cancelled \in [TimerIds -> BOOLEAN]
    BY DEF CloseInv, TypeOK, TimersTypeOK
  <2>2. \/ UNCHANGED cancelled
        \/ cancelled' = [cancelled EXCEPT ![retransmit] = TRUE]
    BY <1>2 DEF timer_cancel, noTimer, timerVars
  <2> QED BY <1>4, <2>1, <2>2
<1> QED BY <1>1, <1>3, <1>4, FireKept

LEMMA FireTimeout ==
    ASSUME CloseInv, FireInv, tcp_retransmission_timeout
    PROVE  FireInv'
<1>1. CASE TimeoutRelease
  <2>1. /\ UNCHANGED <<tick, timers, expires, age, delay, runs, item, tmp>>
        /\ UNCHANGED <<cancelled, tm_pc>>
    BY <1>1 DEF TimeoutRelease, timer_release, tickVars, walkVars
  <2> QED BY <2>1, FireKept
<1>2. CASE TimeoutResend
  <2>1. /\ UNCHANGED <<tick, item, tmp>>
        /\ tm_pc = "handler" /\ tm_pc' = "after"
    BY <1>2 DEF TimeoutResend, CloseInv, Locked
  <2>2. CASE NothingQueued
    <3>1. UNCHANGED <<timers, expires, age, delay, runs, cancelled>>
      BY <2>2 DEF NothingQueued, noTimer, timerVars
    <3> QED BY <2>1, <3>1, FireKept
  <2>3. CASE ResendHead
    <3>1. PICK t \in TimerIds : AddInHandler(t, RTO)
      BY <2>3 DEF ResendHead, Rearm
    <3>2. t \in TimerIds \ Allocated /\ Fields(t, RTO)
      BY <3>1 DEF AddInHandler, timer_alloc
    <3> QED BY <2>1, <3>2, FireAdded
  <2> QED BY <1>2, <2>2, <2>3 DEF TimeoutResend
<1>3. CASE TimeoutFreed
  <2>1. /\ UNCHANGED <<tick, timers, expires, age, delay, runs, item, tmp>>
        /\ UNCHANGED cancelled
        /\ tm_pc = "handler" /\ tm_pc' = "after"
    BY <1>3 DEF TimeoutFreed, noTimer, timerVars
  <2> QED BY <2>1, FireKept
<1> QED BY <1>1, <1>2, <1>3 DEF tcp_retransmission_timeout

LEMMA FireStep ==
    ASSUME CloseInv, FireInv, [Next]_vars
    PROVE  FireInv'
<1>1. ASSUME UNCHANGED tmVars PROVE FireInv'
  <2>1. /\ UNCHANGED <<tick, timers, expires, age, delay, runs, item, tmp>>
        /\ UNCHANGED <<cancelled, tm_pc>>
    BY <1>1 DEF tmVars, timerVars, walkVars
  <2> QED BY <2>1, FireKept
<1>2. CASE tcp_write \/ tcp_close
  BY <1>1, <1>2 DEF tcp_write, tcp_close
<1>3. CASE \E ack \in 0..peer_nxt, fin \in BOOLEAN : Receive(ack, fin)
  BY <1>1, <1>3 DEF Receive
<1>4. CASE FinTest \/ FinSet \/ ReceiveFreed
  BY <1>1, <1>4 DEF FinTest, FinSet, ReceiveFreed
<1>5. CASE (timers_start \/ timers_tick) /\ UNCHANGED closeVars
  BY <1>5, FireStart, FireVisit, FireMark, FireFree, FireAdvance
  DEF timers_tick
<1>6. CASE \E s \in sent : PeerReceive(s)
  BY <1>1, <1>6 DEF PeerReceive
<1>7. CASE UNCHANGED vars
  BY <1>1, <1>7 DEF vars
<1> QED BY <1>2, <1>3, <1>4, <1>5, <1>6, <1>7, FireApp, FireClean, FireTimeout
        DEF Next, Rx, TimerThread

(* A handler is started once at most and never before its time, and after  *)
(* a tick no timer is left whose time is over, for any number of timers,   *)
(* any delay and any width of the tick, whoever adds, cancels and releases *)
(* timers while the thread walks over them (timers_tick, timer_add,        *)
(* timer_cancel, timer_release, timer_free).                               *)
THEOREM FiresInTimeHolds == Spec => []FiresInTime
<1>1. Spec => [](CloseInv /\ FireInv)
  BY FireInit, FireStep, CloseInvariant, PTL DEF Spec
<1>2. CloseInv /\ FireInv => FiresInTime
  <2> SUFFICES ASSUME CloseInv, FireInv, NEW t \in Allocated
               PROVE  /\ runs[t] <= 1
                      /\ runs[t] = 1 => Wrapped(t) \/ age[t] > delay[t]
                      /\ tm_pc = "idle" /\ ~cancelled[t] =>
                             \/ age[t] <= delay[t]
                             \/ Wrapped(t) \/ expires[t] = TickMod - 1
    BY DEF FiresInTime
  <2>1. RunOnce(t) /\ DueAhead(t)
    BY DEF FireInv
  <2>2. t \in TimerIds /\ age[t] \in Nat /\ delay[t] \in Nat
    BY DEF Allocated, CloseInv, TypeOK, TimersTypeOK
  <2>3. tm_pc = "idle" => ~Due(t)
    BY <2>1 DEF DueAhead, Ahead
  <2>4. tm_pc = "idle" /\ ~cancelled[t] =>
            age[t] <= delay[t] \/ Wrapped(t) \/ expires[t] = TickMod - 1
    BY <2>2, <2>3 DEF Due
  <2> QED BY <2>1, <2>4 DEF RunOnce
<1> QED BY <1>1, <1>2, PTL
=============================================================================
