------------------------------- MODULE TcpRecv -------------------------------
(***************************************************************************)
(* The receiving half of an established ToyIP connection: tcp_data.c, the  *)
(* text and FIN parts of tcp_process, tcp_read / tcp_receive, the delayed  *)
(* acknowledgement and wait.h.                                             *)
(*                                                                         *)
(* tcp_process holds receive_queue.lock while it queues the text and       *)
(* handles the FIN, so one arriving segment is one step.  The reader holds *)
(* the lock only in tcp_data_dequeue: it tests tsk->flags, clears TCP_PSH  *)
(* and goes to sleep without it, so these are steps of their own.          *)
(*                                                                         *)
(* The peer (external) sends the bytes 0 .. N-1 and then a FIN, cut into   *)
(* segments in any way, in any order, any number of times: that is what    *)
(* loss, duplication, reordering and repacketization amount to.  Nothing   *)
(* of our own is in flight, so the ACK branch (see TcpSend) does nothing.  *)
(***************************************************************************)
EXTENDS Integers, Sequences, SequencesExt

CONSTANTS
    N,        \* length of the peer's stream
    RMSS,     \* tsk->rmss: the largest payload the peer sends
    RcvWnd,   \* tcb->rcv_wnd: set once by tcp_begin_connect, never changed;
              \* it stays 0 in a socket made by accept
    MaxRead,  \* bound: largest length passed to read
    MaxOfo    \* bound: length of ofo_queue

ASSUME RecvAssumption ==
    /\ N \in Nat
    /\ RMSS \in Nat \ {0}
    /\ RcvWnd \in Nat
    /\ MaxRead \in Nat \ {0}
    /\ MaxOfo \in Nat

VARIABLES
    state,          \* sk->state: "ESTABLISHED" or "CLOSE_WAIT"
    rcv_nxt,        \* tcb->rcv_nxt
    receive_queue,  \* sk->receive_queue, byte by byte; the last byte of a
                    \* skb remembers whether the segment had PSH
    ofo_queue,      \* tsk->ofo_queue: skbs
    fin_flag,       \* tsk->flags & TCP_FIN
    psh_flag,       \* tsk->flags & TCP_PSH
    delacks,        \* tsk->delacks
    delack,         \* tsk->delack: "null", "live" or "fired"
    orphans,        \* armed delayed-ACK timers nothing points to
    timer_pc,       \* tcp_send_delack: "idle", "fired" or "send"
    acked,          \* the highest acknowledgement sent
    app_pc,         \* the reader: "idle", "dequeue", "check", "clear",
                    \* "presleep" or "asleep"
    fin_loaded,     \* TCP_FIN in the flags loaded to clear TCP_PSH
    want,           \* len - rlen of tcp_receive
    got,            \* rlen of tcp_receive
    delivered,      \* the bytes copied to the application's buffers so far
    eof             \* a read has returned 0

queueVars == <<receive_queue, ofo_queue>>
timerVars == <<delacks, delack, orphans, timer_pc>>
readVars  == <<psh_flag, fin_loaded, want, got, delivered, eof>>
vars == <<state, rcv_nxt, queueVars, fin_flag, timerVars, acked, app_pc,
          readVars>>

(* What the peer may send: text, text with FIN, or FIN alone.              *)
Segments ==
    {s \in [seq : 0..N, dlen : 0..RMSS, psh : BOOLEAN, fin : BOOLEAN] :
        /\ s.seq + s.dlen <= N
        /\ s.fin => s.seq + s.dlen = N
        /\ s.dlen = 0 => s.fin /\ ~s.psh}

EndSeq(skb) == skb.seq + skb.dlen

Skb  == {k \in [seq : 0..N, dlen : 1..RMSS, psh : BOOLEAN] : EndSeq(k) <= N}
Byte == [byte : 0..(N - 1), psh : BOOLEAN]

Init ==
    /\ state = "ESTABLISHED"
    /\ rcv_nxt = 0
    /\ receive_queue = <<>> /\ ofo_queue = <<>>
    /\ fin_flag = FALSE /\ psh_flag = FALSE
    /\ delacks = 0 /\ delack = "null" /\ orphans = 0 /\ timer_pc = "idle"
    /\ acked = 0
    /\ app_pc = "idle" /\ fin_loaded = FALSE
    /\ want = 0 /\ got = 0
    /\ delivered = <<>> /\ eof = FALSE

-----------------------------------------------------------------------------
(* The receive thread.                                                     *)

FilterOffByOne(s) ==
    /\ ~(s.dlen > 0 /\ RcvWnd = 0)
    /\ s.seq > rcv_nxt
    /\ s.seq <= rcv_nxt + RcvWnd

tcp_packet_filter(s) ==
    /\ ~(s.dlen > 0 /\ RcvWnd = 0)
    /\ s.seq >= rcv_nxt
    /\ s.seq <= rcv_nxt + RcvWnd

ExpectedOrLater(s) == s.seq >= rcv_nxt

Expected(s) == s.seq = rcv_nxt

(* tcp_data_insert_ordered: the walk stops at the first queued skb that    *)
(* has the same seq, or that begins at or after the end of the new one; in *)
(* the second case the new skb is linked BEHIND that one.                  *)
StopsAt(skb, i) ==
    \/ skb.seq = ofo_queue[i].seq
    \/ skb.seq < ofo_queue[i].seq /\ EndSeq(skb) <= ofo_queue[i].seq

tcp_data_insert_ordered(skb) ==
    LET stops == {i \in 1..Len(ofo_queue) : StopsAt(skb, i)} IN
    \/ stops = {} /\ ofo_queue' = Append(ofo_queue, skb)
    \/ \E i \in stops :
         /\ \A k \in stops : i <= k
         /\ ofo_queue' = IF skb.seq = ofo_queue[i].seq THEN ofo_queue
                         ELSE InsertAt(ofo_queue, i + 1, skb)

(* The first n skbs of ofo_queue continue each other from nxt on, and the  *)
(* next one does not: the loop of tcp_consume_ofo_queue.  That rcv_nxt     *)
(* does not shrink follows, and is written out for the proofs.             *)
After(n, nxt) == IF n = 0 THEN nxt ELSE EndSeq(ofo_queue[n])

Continues(n, nxt) ==
    /\ \A i \in 1..n : ofo_queue[i].seq = After(i - 1, nxt)
    /\ n < Len(ofo_queue) => ofo_queue[n + 1].seq # After(n, nxt)
    /\ After(n, nxt) >= nxt

(* The bytes of a skb, and of the n skbs that continue from nxt.           *)
Bytes(skb) ==
    [j \in 1..skb.dlen |-> [byte |-> skb.seq + j - 1,
                            psh  |-> skb.psh /\ j = skb.dlen]]

OfoBytes(n, nxt) ==
    [j \in 1..(After(n, nxt) - nxt) |->
        [byte |-> nxt + j - 1,
         psh  |-> \E i \in 1..n : /\ EndSeq(ofo_queue[i]) = nxt + j
                                  /\ ofo_queue[i].psh]]

(* A PSH, or every second full-sized segment, is acknowledged at once.     *)
AckAtOnce(s) == s.psh \/ (s.dlen = RMSS /\ delacks + 1 > 1)

(* Otherwise the acknowledgement is left to a timer.  The timer that was   *)
(* running has been stopped in either case.                                *)
StopOnly(s) == delacks' = 0 /\ delack' = "null"

RestartDelack(s) ==
    IF AckAtOnce(s)
    THEN delacks' = 0 /\ delack' = "null"
    ELSE /\ delacks' = IF s.dlen = RMSS THEN delacks + 1 ELSE delacks
         /\ delack' = "live"

(* tcp_data_queue; nxt is the value it leaves in rcv_nxt.                  *)
tcp_data_queue(s, nxt) ==
    LET skb == [seq |-> s.seq, dlen |-> s.dlen, psh |-> s.psh] IN
    \/ /\ Expected(s)
       /\ \E n \in 0..Len(ofo_queue) :
            /\ Continues(n, EndSeq(skb))
            /\ nxt = After(n, EndSeq(skb))
            /\ receive_queue' = receive_queue \o Bytes(skb)
                                              \o OfoBytes(n, EndSeq(skb))
            /\ ofo_queue' = SubSeq(ofo_queue, n + 1, Len(ofo_queue))
       /\ RestartDelack(s)
    \/ /\ ~Expected(s)
       /\ nxt = rcv_nxt
       /\ tcp_data_insert_ordered(skb)
       /\ Len(ofo_queue') <= MaxOfo
       /\ UNCHANGED <<receive_queue, delacks, delack>>

(* The FIN counts if nothing is missing before it and nothing that was     *)
(* queued follows it.                                                      *)
FinInSequence(s, nxt) == s.fin /\ nxt - s.dlen = s.seq

(* recv_notify: wait_wakeup reaches only a thread that already sleeps.     *)
recv_notify == app_pc' = IF app_pc = "asleep" THEN "dequeue" ELSE app_pc

(* tcp_process on a segment the filter lets through.                       *)
RxAccepted(s) ==
    /\ tcp_packet_filter(s) /\ state = "ESTABLISHED"
    /\ \E nxt \in rcv_nxt..N :
         LET fin    == FinInSequence(s, nxt)
             ackNow == s.dlen > 0 /\ (~Expected(s) \/ AckAtOnce(s))
         IN
         /\ \/ s.dlen > 0 /\ tcp_data_queue(s, nxt)
            \/ s.dlen = 0 /\ nxt = rcv_nxt
               /\ UNCHANGED <<queueVars, delacks, delack>>
         /\ rcv_nxt' = IF fin THEN nxt + 1 ELSE nxt
         /\ fin_flag' = (fin_flag \/ fin)
         /\ state' = IF fin THEN "CLOSE_WAIT" ELSE state
         /\ acked' = IF fin \/ ackNow THEN rcv_nxt' ELSE acked
         /\ IF fin \/ s.dlen > 0 THEN recv_notify ELSE UNCHANGED app_pc
    /\ UNCHANGED <<orphans, timer_pc, readVars>>

(* What the filter rejects is acknowledged again and dropped.              *)
RxRejected(s) ==
    /\ ~tcp_packet_filter(s)
    /\ acked' = rcv_nxt
    /\ UNCHANGED <<state, rcv_nxt, queueVars, fin_flag, timerVars, app_pc,
                   readVars>>

tcp_process(s) == RxAccepted(s) \/ RxRejected(s)

-----------------------------------------------------------------------------
(* The timer thread: tcp_send_delack takes no lock at all.                 *)

FireDelack ==
    /\ timer_pc = "idle"
    /\ \/ delack = "live" /\ delack' = "fired" /\ UNCHANGED orphans
       \/ orphans > 0 /\ orphans' = orphans - 1 /\ UNCHANGED delack
    /\ timer_pc' = "fired"
    /\ UNCHANGED <<state, rcv_nxt, queueVars, fin_flag, delacks, acked,
                   app_pc, readVars>>

(* tcp_release_delack_timer drops whatever tsk->delack points to by now.   *)
DelackRelease ==
    /\ timer_pc = "fired"
    /\ delacks' = 0
    /\ orphans' = IF delack = "live" THEN orphans + 1 ELSE orphans
    /\ delack' = "null"
    /\ timer_pc' = "send"
    /\ UNCHANGED <<state, rcv_nxt, queueVars, fin_flag, acked, app_pc,
                   readVars>>

DelackSend ==
    /\ timer_pc = "send"
    /\ acked' = rcv_nxt
    /\ timer_pc' = "idle"
    /\ UNCHANGED <<state, rcv_nxt, queueVars, fin_flag, delacks, delack,
                   orphans, app_pc, readVars>>

Timer == FireDelack \/ DelackRelease \/ DelackSend

-----------------------------------------------------------------------------
(* The application's IPC thread.  The application stops reading at 0.      *)

tcp_read(len) ==
    /\ app_pc = "idle" /\ ~eof
    /\ IF state = "CLOSE_WAIT" /\ receive_queue = <<>> /\ fin_flag
       THEN /\ fin_flag' = FALSE
            /\ eof' = TRUE
            /\ UNCHANGED <<app_pc, want, got>>
       ELSE /\ app_pc' = "dequeue"
            /\ want' = len /\ got' = 0
            /\ UNCHANGED <<fin_flag, eof>>
    /\ UNCHANGED <<state, rcv_nxt, queueVars, timerVars, acked, psh_flag,
                   fin_loaded, delivered>>

tcp_data_dequeue ==
    LET k == IF want < Len(receive_queue) THEN want ELSE Len(receive_queue) IN
    /\ app_pc = "dequeue"
    /\ delivered' = delivered \o [j \in 1..k |-> receive_queue[j].byte]
    /\ psh_flag' = (psh_flag \/ \E j \in 1..k : receive_queue[j].psh)
    /\ receive_queue' = SubSeq(receive_queue, k + 1, Len(receive_queue))
    /\ want' = want - k /\ got' = got + k
    /\ app_pc' = "check"
    /\ UNCHANGED <<state, rcv_nxt, ofo_queue, fin_flag, timerVars, acked,
                   fin_loaded, eof>>

(* Nothing more to wait for: the end of the stream, or a full buffer.      *)
DoneWhenEmpty == receive_queue = <<>>

ReadDone == fin_flag \/ want = 0

(* tcp_receive looks at the flags; a result of 0 is end of file.           *)
ReadCheck ==
    /\ app_pc = "check"
    /\ \/ /\ psh_flag
          /\ fin_loaded' = fin_flag
          /\ app_pc' = "clear"
          /\ UNCHANGED eof
       \/ /\ ~psh_flag /\ ReadDone
          /\ app_pc' = "idle"
          /\ eof' = (got = 0)
          /\ UNCHANGED fin_loaded
       \/ /\ ~psh_flag /\ ~ReadDone
          /\ app_pc' = "presleep"
          /\ UNCHANGED <<fin_loaded, eof>>
    /\ UNCHANGED <<state, rcv_nxt, queueVars, fin_flag, timerVars, acked,
                   psh_flag, want, got, delivered>>

(* tsk->flags &= ~TCP_PSH outside the lock: a load and a store.            *)
ReadClearPsh ==
    /\ app_pc = "clear"
    /\ psh_flag' = FALSE
    /\ fin_flag' = fin_loaded
    /\ app_pc' = "idle"
    /\ eof' = (got = 0)
    /\ UNCHANGED <<state, rcv_nxt, queueVars, timerVars, acked, fin_loaded,
                   want, got, delivered>>

wait_sleep ==
    /\ app_pc = "presleep"
    /\ app_pc' = "asleep"
    /\ UNCHANGED <<state, rcv_nxt, queueVars, fin_flag, timerVars, acked,
                   readVars>>

Reader == tcp_data_dequeue \/ ReadCheck \/ ReadClearPsh \/ wait_sleep

-----------------------------------------------------------------------------

Next ==
    \/ \E s \in Segments : tcp_process(s)
    \/ Timer
    \/ \E len \in 1..MaxRead : tcp_read(len)
    \/ Reader

Spec == Init /\ [][Next]_vars

(* The timer thread goes on, whether or not anything arrives.              *)
TimerSpec == Spec /\ WF_vars(Timer)

(* What a peer does that retransmits what follows the last acknowledgement *)
(* until that is acknowledged too.                                         *)
Retransmission == \E s \in Segments : s.seq = acked /\ tcp_process(s)

-----------------------------------------------------------------------------
(* Type invariant of the receiver's state.                                 *)
TypeOK ==
    /\ state \in {"ESTABLISHED", "CLOSE_WAIT"}
    /\ rcv_nxt \in 0..(N + 1) /\ acked \in 0..(N + 1)
    /\ receive_queue \in Seq(Byte)
    /\ ofo_queue \in Seq(Skb)
    /\ fin_flag \in BOOLEAN /\ psh_flag \in BOOLEAN /\ fin_loaded \in BOOLEAN
    /\ delacks \in 0..1
    /\ delack \in {"null", "live", "fired"}
    /\ orphans \in Nat
    /\ timer_pc \in {"idle", "fired", "send"}
    /\ app_pc \in {"idle", "dequeue", "check", "clear", "presleep", "asleep"}
    /\ want \in 0..MaxRead /\ got \in 0..MaxRead
    /\ delivered \in Seq(0..(N - 1))
    /\ eof \in BOOLEAN

(* Number of bytes received in sequence; the FIN takes one more number.    *)
InSequence == IF state = "CLOSE_WAIT" THEN rcv_nxt - 1 ELSE rcv_nxt

(* What the application has read, followed by what waits for it, is the    *)
(* beginning of the peer's stream up to rcv_nxt: no byte lost, repeated or *)
(* out of place, whatever order, overlap and duplicates segments arrive in *)
(* (tcp_data_queue, tcp_consume_ofo_queue and tcp_data_dequeue together).  *)
StreamIntact ==
    /\ Len(delivered) + Len(receive_queue) = InSequence
    /\ \A i \in 1..Len(delivered) : delivered[i] = i - 1
    /\ \A i \in 1..Len(receive_queue) :
           receive_queue[i].byte = Len(delivered) + i - 1

(* The connection is half-closed only when all of the peer's text is in:   *)
(* a FIN that overtakes text does not end the stream (line 360).           *)
FinLast == state = "CLOSE_WAIT" => rcv_nxt = N + 1

(* A read returns 0 only after the peer's FIN.                             *)
ZeroAfterFin == eof => state = "CLOSE_WAIT"

(* Text that is received and not acknowledged has a delayed-ACK timer      *)
(* armed or its handler on the way, although the handler runs unlocked     *)
(* beside tcp_data_queue, which stops and restarts that timer.             *)
AckDebt ==
    acked < rcv_nxt => delack = "live" \/ orphans > 0 \/ timer_pc # "idle"

(* Time and again everything received is acknowledged, also when the peer  *)
(* sends nothing more (tcp_send_delack).                                   *)
AllAcked == []<>(acked = rcv_nxt)

(* If the peer keeps retransmitting, the whole stream and the FIN are      *)
(* eventually received: no state of ofo_queue or of the filter stops it    *)
(* ("packets with data pass the filter", tcp_input.c:260).                 *)
EverythingArrives == WF_vars(Retransmission) => <>(state = "CLOSE_WAIT")

(* The receiver implements the reliable byte stream of ByteStream.         *)
Stream == INSTANCE ByteStream WITH arrived <- InSequence,
                                   taken   <- delivered,
                                   ended   <- (state = "CLOSE_WAIT"),
                                   told    <- eof

(* Every step of the receiver, of the reader and of the timer is a step    *)
(* the byte stream allows: text is handed over in order, exactly once,     *)
(* nothing arrives after the end, and a read returns 0 only after the FIN  *)
(* (tcp_process, tcp_receive).                                             *)
StreamRefined == Stream!Spec

(* "Fill the buffer as far as possible unless the FIN has been read"       *)
(* (tcp_input.c:414): 0 is returned only when nothing is left to read.     *)
EofMeansEnd == eof => Len(delivered) = N
=============================================================================
