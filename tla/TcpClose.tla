-------------------------------- MODULE TcpClose --------------------------------
(***************************************************************************)
(* The end of a TCP connection, from the established state on: close in    *)
(* the application's thread, ACKs and the peer's FIN in the receive        *)
(* thread, and the retransmission timer in the timer thread of Timers.     *)
(*                                                                         *)
(* write_queue.lock protects queue and timer; the state is tested and set  *)
(* without a lock.  overlap (history) tells that a state was set that had  *)
(* changed since it was tested.                                            *)
(*                                                                         *)
(* close ends by freeing the sock, which the list of established socks and *)
(* an armed timer still refer to.  used (history) holds the threads that   *)
(* have used the freed memory; what they do to it is not modelled, and the *)
(* behaviour may end there.                                                *)
(***************************************************************************)
EXTENDS Timers

CONSTANTS
    MaxBytes,   \* bound on what is written, one byte at a time
    RTO         \* 500

ASSUME CloseAssumption == MaxBytes \in Nat /\ RTO \in 1..(TickMod - 1)

States == {"ESTABLISHED", "CLOSE_WAIT", "FIN_WAIT_1", "CLOSING", "LAST_ACK"}

VARIABLES
    state, mem,         \* the state of the sock; "live" or "freed"
    snd_una, snd_nxt,
    write_queue,        \* skbs: whether it is the FIN, and end_seq
    wq_lock,            \* write_queue.lock: who holds it, or "none"
    retransmit,         \* the timer, or 0
    app_pc, app_skb, app_state,  \* tcp_send and tcp_close
    rx_pc, rx_fin, rx_state,     \* tcp_process
    rto_pc,             \* tcp_retransmission_timeout
    flag_fin,           \* TCP_FIN: the peer's FIN is processed
    sent,               \* segments on their way or received
    peer_nxt,           \* what the peer has received
    written, alone,     \* history: bytes written; nothing was outstanding
                        \* when the FIN was queued
    overlap, used       \* history

tcbVars  == <<snd_una, snd_nxt, write_queue>>
appVars  == <<app_pc, app_skb, app_state, written, alone>>
rxVars   == <<rx_pc, rx_fin, rx_state, flag_fin>>
endVars  == <<mem, used>>
closeVars == <<state, endVars, tcbVars, wq_lock, retransmit, appVars, rxVars,
               rto_pc, sent, peer_nxt, overlap>>
vars == <<tmVars, closeVars>>

Init ==
    /\ TimersInit
    /\ state \in {"ESTABLISHED", "CLOSE_WAIT"} /\ mem = "live"
    /\ snd_una = 0 /\ snd_nxt = 0 /\ write_queue = << >>
    /\ wq_lock = "none" /\ retransmit = 0
    /\ app_pc = "open" /\ app_skb = "none" /\ app_state = "none"
    /\ rx_pc = "idle" /\ rx_fin = FALSE /\ rx_state = "none"
    /\ rto_pc = "idle"
    /\ flag_fin = (state = "CLOSE_WAIT")
    /\ sent = {} /\ peer_nxt = 0
    /\ written = 0 /\ alone = FALSE
    /\ overlap = FALSE /\ used = {}

DataLen(fin) == IF fin THEN 0 ELSE 1

-----------------------------------------------------------------------------
(* The application's thread.                                               *)

noTimer == <<timerVars, age>>
tickVars == <<tick, walkVars, tm_up>>

tcp_write ==
    /\ app_pc = "open" /\ written < MaxBytes
    /\ state \in {"ESTABLISHED", "CLOSE_WAIT"}
    /\ app_pc' = "lock" /\ app_skb' = "data"
    /\ written' = written + 1
    /\ UNCHANGED <<tmVars, state, endVars, tcbVars, wq_lock, retransmit,
                   app_state, alone, rxVars, rto_pc, sent, peer_nxt, overlap>>

(* The other states refuse, but close ends the socket the first time.      *)
tcp_close ==
    /\ app_pc = "open"
    /\ app_pc' = "lock" /\ app_skb' = "fin"
    /\ app_state' = state
    /\ UNCHANGED <<tmVars, state, endVars, tcbVars, wq_lock, retransmit,
                   written, alone, rxVars, rto_pc, sent, peer_nxt, overlap>>

(* tcp_queue_transmit_skb: lock, and a new timer if the queue is empty.    *)
QueueLock ==
    /\ app_pc = "lock" /\ wq_lock = "none"
    /\ wq_lock' = "app"
    /\ app_pc' = IF write_queue = << >> THEN "release" ELSE "send"
    /\ UNCHANGED <<tmVars, state, endVars, tcbVars, retransmit, app_skb,
                   app_state, written, alone, rxVars, rto_pc, sent, peer_nxt,
                   overlap>>

(* tcp_reset_retransmission_timer.                                         *)
ResetRelease ==
    /\ app_pc = "release"
    /\ timer_release(retransmit)
    /\ retransmit' = 0
    /\ app_pc' = "add"
    /\ UNCHANGED <<tickVars, state, endVars, tcbVars, wq_lock, app_skb,
                   app_state, written, alone, rxVars, rto_pc, sent, peer_nxt,
                   overlap>>

ResetAdd ==
    /\ app_pc = "add"
    /\ \E t \in TimerIds : timer_add(t, RTO)
    /\ app_pc' = "link"
    /\ UNCHANGED <<tickVars, state, endVars, tcbVars, wq_lock, retransmit,
                   app_skb, app_state, written, alone, rxVars, rto_pc, sent,
                   peer_nxt, overlap>>

ResetDone ==
    /\ app_pc = "link"
    /\ list_add_tail
    /\ retransmit' = half
    /\ app_pc' = "send"
    /\ UNCHANGED <<tickVars, state, endVars, tcbVars, wq_lock, app_skb,
                   app_state, written, alone, rxVars, rto_pc, sent, peer_nxt,
                   overlap>>

(* The FIN has no data: its end_seq is snd_una, and the lock is released   *)
(* before it is counted.                                                   *)
Transmit ==
    LET fin == app_skb = "fin"
    IN  /\ app_pc = "send"
        /\ write_queue' = Append(write_queue,
                                 [fin |-> fin, end_seq |-> snd_una + DataLen(fin)])
        /\ sent' = sent \cup {[fin |-> fin, seq |-> snd_nxt]}
        /\ wq_lock' = IF fin THEN "none" ELSE wq_lock
        /\ alone' = (/\ fin /\ write_queue = << >>
                     /\ snd_una = snd_nxt /\ rx_pc # "clean")
        /\ app_pc' = "count"
        /\ UNCHANGED <<tmVars, state, endVars, snd_una, snd_nxt, retransmit,
                       app_skb, app_state, written, rxVars, rto_pc, peer_nxt,
                       overlap>>

Count ==
    /\ app_pc = "count"
    /\ snd_nxt' = snd_nxt + 1
    /\ \/ app_skb = "data" /\ wq_lock' = "none" /\ app_pc' = "open"
       \/ app_skb = "fin" /\ wq_lock' = wq_lock /\ app_pc' = "set"
    /\ UNCHANGED <<tmVars, state, endVars, snd_una, write_queue, retransmit,
                   app_skb, app_state, written, alone, rxVars, rto_pc, sent,
                   peer_nxt, overlap>>

AlwaysActive(s) == "FIN_WAIT_1"

AfterClose(s) == IF s = "CLOSE_WAIT" THEN "LAST_ACK" ELSE "FIN_WAIT_1"

SetState ==
    /\ app_pc = "set"
    /\ state' = AfterClose(app_state)
    /\ overlap' = (overlap \/ (app_state = "ESTABLISHED" /\ flag_fin))
    /\ app_pc' = "free" /\ app_state' = "none"
    /\ UNCHANGED <<tmVars, endVars, tcbVars, wq_lock, retransmit, app_skb,
                   written, alone, rxVars, rto_pc, sent, peer_nxt>>

(* inet_close returns sk->err, which is 0; _close frees the socket, and    *)
(* inet_free the sock with its queues.                                     *)
inet_free ==
    /\ app_pc = "free"
    /\ mem' = "freed" /\ write_queue' = << >>
    /\ app_pc' = "closed"
    /\ UNCHANGED <<tmVars, state, used, snd_una, snd_nxt, wq_lock, retransmit,
                   app_skb, app_state, written, alone, rxVars, rto_pc, sent,
                   peer_nxt, overlap>>

App ==
    \/ QueueLock \/ ResetRelease \/ ResetAdd \/ ResetDone \/ Transmit \/ Count
    \/ SetState \/ inet_free

-----------------------------------------------------------------------------
(* The receive thread in tcp_process.                                      *)

appSide == <<appVars, rto_pc, sent, peer_nxt>>

(* A segment with an ACK in the range, perhaps with the peer's FIN; others *)
(* are dropped.                                                            *)
Receive(ack, fin) ==
    /\ rx_pc = "idle" /\ mem = "live"
    /\ fin => ~flag_fin
    /\ \/ /\ snd_una < ack /\ ack <= snd_nxt
          /\ snd_una' = ack
          /\ rx_pc' = "clean"
       \/ /\ ack = snd_una /\ fin
          /\ rx_pc' = "fin"
          /\ UNCHANGED snd_una
    /\ rx_fin' = fin
    /\ UNCHANGED <<tmVars, state, endVars, snd_nxt, write_queue, wq_lock,
                   retransmit, appSide, rx_state, flag_fin, overlap>>

(* The first n skbs of the queue are all that are acknowledged.            *)
AckedHead(n) ==
    /\ \A k \in 1..n : write_queue[k].end_seq <= snd_una
    /\ n < Len(write_queue) => write_queue[n + 1].end_seq > snd_una

tcp_clean_retransmission_queue ==
    /\ rx_pc = "clean" /\ mem = "live" /\ wq_lock = "none"
    /\ \E n \in 0..Len(write_queue) :
           /\ AckedHead(n)
           /\ write_queue' = SubSeq(write_queue, n + 1, Len(write_queue))
           /\ \/ n = Len(write_queue)
                 /\ timer_cancel(retransmit) /\ retransmit' = 0
              \/ n < Len(write_queue)
                 /\ UNCHANGED <<noTimer, retransmit>>
    /\ rx_pc' = IF rx_fin THEN "fin" ELSE "idle"
    /\ UNCHANGED <<tickVars, state, endVars, snd_una, snd_nxt, wq_lock,
                   appSide, rx_fin, rx_state, flag_fin, overlap>>

FinTest ==
    /\ rx_pc = "fin" /\ mem = "live"
    /\ flag_fin' = TRUE
    /\ rx_state' = state
    /\ rx_fin' = FALSE /\ rx_pc' = "set"
    /\ UNCHANGED <<tmVars, state, endVars, tcbVars, wq_lock, retransmit,
                   appSide, overlap>>

AfterFin(s) ==
    IF s = "ESTABLISHED" THEN "CLOSE_WAIT"
    ELSE IF s = "FIN_WAIT_1" THEN "CLOSING" ELSE s

FinSet ==
    /\ rx_pc = "set" /\ mem = "live"
    /\ state' = IF AfterFin(rx_state) # rx_state THEN AfterFin(rx_state) ELSE state
    /\ overlap' = (overlap \/ state # rx_state)
    /\ rx_state' = "none" /\ rx_pc' = "idle"
    /\ UNCHANGED <<tmVars, endVars, tcbVars, wq_lock, retransmit, appSide,
                   rx_fin, flag_fin>>

(* A segment finds the freed sock, or the sock is freed under its feet.    *)
ReceiveFreed ==
    /\ mem = "freed"
    /\ used' = used \cup {"receive"}
    /\ rx_pc' = "idle" /\ rx_fin' = FALSE /\ rx_state' = "none"
    /\ UNCHANGED <<tmVars, state, mem, tcbVars, wq_lock, retransmit, appSide,
                   flag_fin, overlap>>

Rx == tcp_clean_retransmission_queue \/ FinTest \/ FinSet

-----------------------------------------------------------------------------
(* The timer thread in tcp_retransmission_timeout.                         *)

rtoSide == <<appVars, rxVars, peer_nxt>>

(* Whatever timer the sock refers to is released.                          *)
TimeoutRelease ==
    /\ tm_pc = "handler" /\ rto_pc = "idle" /\ mem = "live"
    /\ wq_lock = "none"
    /\ wq_lock' = "timer"
    /\ timer_release(retransmit)
    /\ retransmit' = 0
    /\ rto_pc' = "resend"
    /\ UNCHANGED <<tickVars, state, endVars, tcbVars, rtoSide, sent, overlap>>

tcp_handle_fin_state(s) ==
    CASE s = "CLOSE_WAIT"  -> "LAST_ACK"
      [] s = "ESTABLISHED" -> "FIN_WAIT_1"
      [] OTHER -> s

NothingQueued ==
    /\ write_queue = << >>
    /\ UNCHANGED <<state, write_queue, noTimer, retransmit, sent>>

(* The timer armed again, by the handler itself.                           *)
NoRearm == UNCHANGED <<noTimer, retransmit>>

Rearm == \E t \in TimerIds : AddInHandler(t, RTO) /\ retransmit' = t

(* The head is sent again, as if it began at snd_una.                      *)
ResendHead ==
    /\ write_queue # << >>
    /\ LET b == write_queue[1]
       IN  /\ sent' = sent \cup {[fin |-> b.fin, seq |-> snd_una]}
           /\ write_queue' = [write_queue EXCEPT
                                  ![1].end_seq = snd_una + DataLen(b.fin)]
           /\ state' = IF b.fin THEN tcp_handle_fin_state(state) ELSE state
    /\ Rearm

TimeoutResend ==
    /\ rto_pc = "resend" /\ mem = "live"
    /\ NothingQueued \/ ResendHead
    /\ wq_lock' = "none"
    /\ rto_pc' = "idle" /\ tm_pc' = "after"
    /\ UNCHANGED <<tick, item, tmp, tm_up, endVars, snd_una, snd_nxt, rtoSide,
                   overlap>>

TimeoutFreed ==
    /\ tm_pc = "handler" /\ mem = "freed"
    /\ used' = used \cup {"timer"}
    /\ rto_pc' = "idle" /\ tm_pc' = "after"
    /\ UNCHANGED <<tick, item, tmp, tm_up, noTimer, state, mem, tcbVars,
                   wq_lock, retransmit, rtoSide, sent, overlap>>

tcp_retransmission_timeout == TimeoutRelease \/ TimeoutResend \/ TimeoutFreed

TimerThread ==
    \/ (timers_start \/ timers_tick) /\ UNCHANGED closeVars
    \/ tcp_retransmission_timeout

-----------------------------------------------------------------------------
(* The peer receives in order and may acknowledge anything it has          *)
(* received; segments are lost, repeated and reordered.                    *)
PeerReceive(s) ==
    /\ s.seq = peer_nxt
    /\ peer_nxt' = peer_nxt + 1
    /\ UNCHANGED <<tmVars, state, endVars, tcbVars, wq_lock, retransmit,
                   appVars, rxVars, rto_pc, sent, overlap>>

Next ==
    /\ tm_up
    /\ \/ tcp_write \/ tcp_close \/ App
       \/ \E ack \in 0..peer_nxt, fin \in BOOLEAN : Receive(ack, fin)
       \/ Rx \/ ReceiveFreed
       \/ TimerThread
       \/ \E s \in sent : PeerReceive(s)

Spec == Init /\ [][Next]_vars

(* The timer thread goes on for ever, the other threads until they have    *)
(* done what they have begun.                                              *)
FairSpec ==
    /\ Spec
    /\ WF_vars(tm_up /\ TimerThread)
    /\ WF_vars(tm_up /\ App) /\ WF_vars(tm_up /\ Rx)

-----------------------------------------------------------------------------
SockTypeOK ==
    /\ state \in States /\ mem \in {"live", "freed"}
    /\ snd_una \in Nat /\ snd_nxt \in Nat
    /\ write_queue \in Seq([fin : BOOLEAN, end_seq : Nat])
    /\ wq_lock \in {"none", "app", "timer"}
    /\ retransmit \in TimerIds \cup {0}

ThreadsTypeOK ==
    /\ app_pc \in {"open", "lock", "release", "add", "link", "send", "count",
                   "set", "free", "closed"}
    /\ app_skb \in {"none", "data", "fin"}
    /\ app_state \in States \cup {"none"}
    /\ rx_pc \in {"idle", "clean", "fin", "set"} /\ rx_fin \in BOOLEAN
    /\ rx_state \in States \cup {"none"} /\ flag_fin \in BOOLEAN
    /\ rto_pc \in {"idle", "resend"}

LinkTypeOK ==
    /\ sent \subseteq [fin : BOOLEAN, seq : Nat] /\ peer_nxt \in Nat
    /\ written \in 0..MaxBytes /\ alone \in BOOLEAN
    /\ overlap \in BOOLEAN /\ used \subseteq {"receive", "timer"}

(* Type invariant: the timers, the sock, the threads, the link and the     *)
(* history variables.                                                      *)
TypeOK == TimersTypeOK /\ SockTypeOK /\ ThreadsTypeOK /\ LinkTypeOK

(* A timer's reference count is the number of pointers to it: the sock's,  *)
(* or that of the thread that has just made it; and the sock never points  *)
(* to a timer that was freed, whichever of the three threads adds,         *)
(* releases and cancels (tcp_reset_retransmission_timer,                   *)
(* tcp_stop_retransmission_timer, tcp_retransmission_timeout).             *)
RefsCounted ==
    /\ \A t \in TimerIds :
           refcnt[t] = IF t \in Allocated /\ (t = retransmit \/ t = half)
                       THEN 1 ELSE 0
    /\ retransmit # 0 => retransmit \in Allocated

FinSent == app_skb = "fin" /\ app_pc \in {"count", "set", "free"}

TimerPending ==
    \/ rto_pc = "resend"
    \/ \E t \in Allocated : \/ ~cancelled[t]
                            \/ t = item /\ tm_pc \in {"mark", "handler"}

(* As long as the sock lives, a FIN sent when everything was acknowledged  *)
(* stays in the write queue until it is acknowledged too, with a timer     *)
(* that sends it again ("if no ack arrives in time it is retransmitted",   *)
(* tcp_output.c:437).  One that follows outstanding data is removed by     *)
(* their ACK, even if the queue had lost them already.                     *)
FinKept ==
    FinSent /\ alone /\ snd_una <= written =>
        /\ \E k \in DOMAIN write_queue : write_queue[k].fin
        /\ TimerPending

(* As long as the sock lives, its state tells whether the peer has closed, *)
(* unless close and the peer's FIN met between a test of the state and the *)
(* assignment that depends on it: then one of the two is forgotten         *)
(* (tcp_close, tcp_process, tcp_handle_fin_state).                         *)
PeerFinRemembered ==
    mem = "live" /\ ~overlap /\ rx_pc # "set" =>
        (flag_fin <=> state \in {"CLOSE_WAIT", "CLOSING", "LAST_ACK"})

(* A timer nobody points to is freed in the end, unless the walk met a     *)
(* half-linked timer, the sock was freed, or the timer expires at the last *)
(* tick (timers_tick, timer_free).                                         *)
TimersReclaimed ==
    \A t \in TimerIds :
        t \in Allocated /\ refcnt[t] = 0 ~>
            \/ t \notin Allocated \/ refcnt[t] > 0
            \/ ~tm_up \/ mem = "freed"
            \/ expires[t] = TickMod - 1 /\ ~cancelled[t]
=============================================================================
