------------------------------- MODULE IpcProofs -------------------------------
(***************************************************************************)
(* Proofs about Ipc, for every set of applications and every bound on      *)
(* connections, descriptors and calls: the types, that no descriptor is    *)
(* given out twice unless two threads raced for it, that every descriptor  *)
(* of the server has its thread unless the listener overtook one or two    *)
(* threads met in ipc_free_thread, and, unless the listener overtook a     *)
(* thread or the end of a write was executed as a call, that an answer is  *)
(* that to the call the application waits for and that library and stack   *)
(* know the same sockets between two calls.                                *)
(***************************************************************************)
EXTENDS Ipc, TLAPS

Executing == {"more", "serve", "fd", "made"}

(* What the fields of a thread are where it uses them.                     *)
ThreadInv(t) ==
    /\ t > started => th_pc[t] = "none"
    /\ th_pc[t] = "start" => datasock \in Conns
    /\ th_pc[t] \in Serving => th_sock[t] \in Conns
    /\ th_pc[t] \in {"reading", "more"} => th_conn[t] \in Conns
    /\ th_pc[t] \in Executing =>
           Len(th_msg[t]) = 1 /\ th_msg[t][1].op \in Ops
    /\ th_pc[t] \in {"fd", "made"} => th_fd[t] \in Fds
    /\ th_pc[t] = "fd" => th_fd[t] < MaxFd

(* A connection is accepted whose thread is yet to come.                   *)
Accepted == IF lst_pc = "alloc" THEN 1 ELSE 0

(* The types, what threads rely on, and that the listener counts.          *)
TypeInv ==
    /\ TypeOK
    /\ \A p \in Procs : app_pc[p] = "wait" => lvlfd[p] \in Conns
    /\ lst_pc = "alloc" => datasock \in Conns
    /\ started + Len(backlog) + Accepted = Len(owner)
    /\ \A t \in Conns : ThreadInv(t)

ThreadPcs == {"none", "start", "reading", "more", "serve", "fd", "made", "fail",
              "free", "walk", "done"}

-----------------------------------------------------------------------------
LEMMA FdFacts == /\ FirstFd \in Fds /\ FirstFd \in Int /\ MaxFd \in Int
                 /\ \A n \in Fds : n \in Int /\ n > 0 /\ n <= MaxFd
BY IpcAssumption DEF Fds, FirstFd

LEMMA ConnFacts == /\ MaxConns \in Nat /\ 0 \in 0..MaxConns
                   /\ \A c \in Conns : c \in Nat /\ c # 0 /\ c \in 0..MaxConns
                   /\ \A c \in 0..MaxConns : c # 0 => c \in Conns
BY IpcAssumption DEF Conns

(* What a read leaves of a stream is its end, of which the first message   *)
(* can be cut to a tail.                                                   *)
Leaves(q, r) ==
    /\ r \in Seq(Request)
    /\ \E d \in 0..Len(q) :
           /\ Len(r) = Len(q) - d
           /\ \A k \in 1..Len(r) :
                  \/ d + k >= 2 /\ r[k] = q[d + k]
                  \/ r[k].op = "tail" /\ r[k].pid = q[d + k].pid

LEMMA TailTyped ==
    ASSUME NEW m \in Request, NEW n \in Nat \ {0}
    PROVE  /\ TailOf(m, n) \in Request /\ TailOf(m, n).op = "tail"
           /\ TailOf(m, n).pid = m.pid /\ TailOf(m, n).size = n
BY DEF TailOf, Request

LEMMA SubLeaves ==
    ASSUME NEW q \in Seq(Request), NEW i \in 1..Len(q)
    PROVE  Leaves(q, SubSeq(q, i + 1, Len(q)))
<1> DEFINE r == SubSeq(q, i + 1, Len(q))
<1>1. /\ r \in Seq(Request) /\ Len(r) = Len(q) - i
      /\ \A k \in 1..Len(r) : r[k] = q[i + k]
    OBVIOUS
<1>2. i \in 0..Len(q) /\ \A k \in 1..Len(r) : i + k >= 2
    BY <1>1
<1> HIDE DEF r
<1>3. Leaves(q, r)
    BY <1>1, <1>2 DEF Leaves
<1> QED
    BY <1>3 DEF r

LEMMA CutElements ==
    ASSUME NEW q \in Seq(Request), NEW i \in 1..Len(q), NEW n
    PROVE  /\ Len(CutTo(q, i, n)) = Len(q) - i + 1
           /\ CutTo(q, i, n)[1] = TailOf(q[i], n)
           /\ Head(CutTo(q, i, n)) = TailOf(q[i], n)
           /\ \A k \in 2..Len(CutTo(q, i, n)) :
                  CutTo(q, i, n)[k] = q[i + k - 1]
<1> DEFINE s == SubSeq(q, i + 1, Len(q))
           x == TailOf(q[i], n)
<1>1. /\ s \in Seq(Request) /\ Len(s) = Len(q) - i
      /\ \A k \in 1..Len(s) : s[k] = q[i + k]
    OBVIOUS
<1>2. CutTo(q, i, n) = <<x>> \o s
    BY DEF CutTo
<1> HIDE DEF s, x
<1>3. /\ Len(<<x>> \o s) = Len(s) + 1 /\ (<<x>> \o s)[1] = x
      /\ Head(<<x>> \o s) = x
      /\ \A k \in 2..(Len(s) + 1) : (<<x>> \o s)[k] = s[k - 1]
    BY <1>1
<1>4. \A k \in 2..(Len(s) + 1) : s[k - 1] = q[i + k - 1]
    BY <1>1
<1> QED
    BY <1>1, <1>2, <1>3, <1>4 DEF x

LEMMA CutLeaves ==
    ASSUME NEW q \in Seq(Request), NEW i \in 1..Len(q), NEW n \in Nat \ {0}
    PROVE  Leaves(q, CutTo(q, i, n))
<1> DEFINE r == CutTo(q, i, n)
           x == TailOf(q[i], n)
<1>1. x \in Request /\ x.op = "tail" /\ x.pid = q[i].pid
    BY TailTyped
<1>2. r \in Seq(Request)
    <2>1. SubSeq(q, i + 1, Len(q)) \in Seq(Request)
        OBVIOUS
    <2>2. <<x>> \in Seq(Request)
        BY <1>1
    <2> QED
        BY <2>1, <2>2 DEF CutTo
<1>3. /\ Len(r) = Len(q) - i + 1 /\ r[1] = x
      /\ \A k \in 2..Len(r) : r[k] = q[i + k - 1]
    BY CutElements
<1> HIDE DEF r, x
<1> DEFINE d == i - 1
<1>4. d \in 0..Len(q) /\ Len(r) = Len(q) - d
    BY <1>3
<1>5. ASSUME NEW k \in 1..Len(r)
      PROVE  \/ d + k >= 2 /\ r[k] = q[d + k]
             \/ r[k].op = "tail" /\ r[k].pid = q[d + k].pid
    <2>1. CASE k = 1
        BY <1>1, <1>3, <2>1
    <2>2. CASE k # 1
        <3>1. k \in 2..Len(r) /\ d + k = i + k - 1 /\ d + k >= 2
            BY <1>4, <2>2
        <3> QED
            BY <1>3, <3>1
    <2> QED
        BY <2>1, <2>2
<1>6. Leaves(q, r)
    BY <1>2, <1>4, <1>5 DEF Leaves
<1> QED
    BY <1>6 DEF r

LEMMA LeftLeaves ==
    ASSUME NEW q \in Seq(Request), q # << >>, NEW r \in LeftInStream(q)
    PROVE  Leaves(q, r)
<1>0. /\ Head(q) = q[1] /\ 1 \in 1..Len(q) /\ Head(q) \in Request
      /\ \A i \in 1..Len(q) : q[i] \in Request
    OBVIOUS
<1>1. CASE Head(q).size > 1
    <2>1. r = CutTo(q, 1, Head(q).size - 1)
        BY <1>1 DEF LeftInStream
    <2>2. Head(q).size - 1 \in Nat \ {0}
        BY <1>0, <1>1 DEF Request
    <2> QED
        BY <1>0, <2>1, <2>2, CutLeaves
<1>2. CASE ~(Head(q).size > 1)
    <2>1. \/ \E i \in 1..Len(q) : r = SubSeq(q, i + 1, Len(q))
          \/ \E i \in 1..Len(q), k \in {0, 1} :
                 r = CutTo(q, i, q[i].size - k) /\ Head(r).size > 0
        BY <1>2 DEF LeftInStream
    <2>2. CASE \E i \in 1..Len(q) : r = SubSeq(q, i + 1, Len(q))
        BY <2>2, SubLeaves
    <2>3. ASSUME NEW i \in 1..Len(q), NEW k \in {0, 1},
                 r = CutTo(q, i, q[i].size - k), Head(r).size > 0
          PROVE  Leaves(q, r)
        <3>1. q[i] \in Request /\ q[i].size \in Nat
            BY <1>0 DEF Request
        <3>2. Head(r) = TailOf(q[i], q[i].size - k)
            BY <2>3, CutElements
        <3>3. Head(r).size = q[i].size - k
            BY <3>1, <3>2 DEF TailOf, Request
        <3>4. q[i].size - k \in Nat \ {0}
            BY <2>3, <3>1, <3>3
        <3> QED
            BY <2>3, <3>4, CutLeaves
    <2> QED
        BY <2>1, <2>2, <2>3
<1> QED
    BY <1>1, <1>2

LEMMA MoreLeaves ==
    ASSUME NEW q \in Seq(Request), q # << >>, NEW m, NEW r \in LeftByMore(m, q)
    PROVE  Leaves(q, r)
<1>0. 1 \in 1..Len(q) /\ DOMAIN q = 1..Len(q)
    OBVIOUS
<1>1. \/ r = CutTo(q, 1, 1)
      \/ \E i \in 1..Len(q) : r = SubSeq(q, i + 1, Len(q))
      \/ \E i \in 1..Len(q) : \E n \in 1..q[i].size : r = CutTo(q, i, n)
    BY <1>0 DEF LeftByMore
<1>2. CASE r = CutTo(q, 1, 1)
    BY <1>0, <1>2, CutLeaves
<1>3. CASE \E i \in 1..Len(q) : r = SubSeq(q, i + 1, Len(q))
    BY <1>3, SubLeaves
<1>4. ASSUME NEW i \in 1..Len(q), NEW n \in 1..q[i].size, r = CutTo(q, i, n)
      PROVE  Leaves(q, r)
    <2>0. q[i] \in Request
        OBVIOUS
    <2>1. q[i].size \in Nat
        BY <2>0 DEF Request
    <2>2. n \in Nat \ {0}
        BY <2>1
    <2> QED
        BY <1>4, <2>2, CutLeaves
<1> QED
    BY <1>1, <1>2, <1>3, <1>4

LEMMA TypeInit == Init => TypeInv
<1> SUFFICES ASSUME Init PROVE TypeInv
    OBVIOUS
<1>1. \A p \in Procs : NoCall(p) \in Request
    BY DEF NoCall, Request
<1>2. /\ call \in [Procs -> Request] /\ lvlfd \in [Procs -> 0..MaxConns]
      /\ app_pc \in [Procs -> {"idle", "wait", "dead"}]
      /\ \A p \in Procs : app_pc[p] = "idle"
    BY <1>1, ConnFacts DEF Init
<1>3. /\ lib \in [Procs -> SUBSET [fd : Fds, conn : Conns]]
      /\ req \in [Conns -> Seq(Request)] /\ resp \in [Conns -> Seq(Response)]
      /\ th_msg \in [Conns -> Seq(Request)]
      /\ \A t \in Conns : Len(th_msg[t]) <= 1
    BY DEF Init
<1>4. /\ owner \in Seq(Procs) /\ Len(owner) = 0 /\ Len(owner) <= MaxConns
      /\ backlog \in Seq(Conns) /\ Len(backlog) = 0 /\ started = 0
      /\ started \in 0..MaxConns /\ datasock \in 0..MaxConns
    BY ConnFacts DEF Init
<1>5. /\ file \in [Conns -> 0..MaxConns] /\ th_sock \in [Conns -> 0..MaxConns]
      /\ th_conn \in [Conns -> 0..MaxConns] /\ connections \in [Conns -> Nat]
      /\ th_fd \in [Conns -> Fds \cup {0}] /\ sockets \in [Socket -> Nat]
      /\ next_fd \in Fds
    BY ConnFacts, FdFacts DEF Init
<1>6. /\ th_pc \in [Conns -> ThreadPcs]
      /\ \A t \in Conns : th_pc[t] = "none"
    BY DEF Init, ThreadPcs
<1>9. /\ overtaken \in BOOLEAN /\ fdrace \in BOOLEAN /\ up \in BOOLEAN
      /\ clash \in BOOLEAN /\ misled \subseteq Procs
      /\ lst_pc = "accept"
    BY DEF Init
<1>10. acts \in 0..MaxActs
    BY IpcAssumption DEF Init
<1>7. \A t \in Conns : ThreadInv(t)
    BY <1>6 DEF ThreadInv, Serving, Executing
<1>8. TypeOK
    BY <1>2, <1>3, <1>4, <1>5, <1>6, <1>9, <1>10 DEF TypeOK, ThreadPcs
<1> QED
    BY <1>2, <1>4, <1>9, <1>7, <1>8 DEF TypeInv, Accepted

-----------------------------------------------------------------------------
(* The library.                                                            *)
LEMMA TypeSend ==
    ASSUME TypeInv, NEW p \in Procs, NEW c \in Conns, NEW m \in Request,
           Transmit(p, c, m)
    PROVE  /\ req' \in [Conns -> Seq(Request)]
           /\ app_pc' \in [Procs -> {"idle", "wait", "dead"}]
           /\ call' \in [Procs -> Request] /\ acts' \in 0..MaxActs
           /\ lvlfd' \in [Procs -> 0..MaxConns]
           /\ \A q \in Procs : app_pc'[q] = "wait" => lvlfd'[q] \in Conns
<1> USE DEF TypeInv, TypeOK, Transmit
<1>1. req' \in [Conns -> Seq(Request)]
    <2>1. Append(req[c], m) \in Seq(Request)
        OBVIOUS
    <2> QED
        BY <2>1
<1>2. /\ app_pc' \in [Procs -> {"idle", "wait", "dead"}]
      /\ call' \in [Procs -> Request]
    OBVIOUS
<1>3. /\ lvlfd' \in [Procs -> 0..MaxConns]
      /\ \A q \in Procs : app_pc'[q] = "wait" => lvlfd'[q] \in Conns
    BY ConnFacts
<1>4. acts' \in 0..MaxActs
    BY IpcAssumption
<1> QED
    BY <1>1, <1>2, <1>3, <1>4

LEMMA TypeClient == ASSUME TypeInv, NEW p \in Procs, Client(p) PROVE TypeInv'
<1> USE DEF TypeInv, TypeOK, serverVars, thVars, tableVars, histVars, netVars
<1>0. UNCHANGED serverVars => \A t \in Conns : ThreadInv(t)'
    BY DEF ThreadInv
<1>a. UNCHANGED serverVars => Accepted' = Accepted
    BY DEF Accepted
<1>1. CASE lvl_socket(p)
    <2> DEFINE c == Len(owner) + 1
               m == [op |-> "SOCKET", pid |-> p, fd |-> 0, 
                     size |-> 1, more |-> FALSE]
    <2>1. m \in Request
        BY DEF Request, Ops
    <2>2. c \in Conns /\ owner' = Append(owner, p)
          /\ backlog' = Append(backlog, c) /\ Transmit(p, c, m)
        BY <1>1 DEF lvl_socket
    <2>3. /\ owner' \in Seq(Procs) /\ Len(owner') = c
          /\ backlog' \in Seq(Conns) /\ Len(backlog') = Len(backlog) + 1
        BY <2>2
    <2>4. Len(owner') <= MaxConns
        BY <2>2, <2>3, IpcAssumption DEF Conns
    <2> HIDE DEF c, m
    <2>5. /\ req' \in [Conns -> Seq(Request)]
          /\ app_pc' \in [Procs -> {"idle", "wait", "dead"}]
          /\ call' \in [Procs -> Request] /\ acts' \in 0..MaxActs
          /\ lvlfd' \in [Procs -> 0..MaxConns]
          /\ \A q \in Procs : app_pc'[q] = "wait" => lvlfd'[q] \in Conns
        BY <2>1, <2>2, TypeSend
    <2>6. started + Len(backlog') + Accepted = Len(owner')
        <3>1. started \in Nat /\ Len(backlog) \in Nat /\ Len(owner) \in Nat
              /\ started + Len(backlog) + Accepted = Len(owner)
              /\ Accepted \in Nat
            BY ConnFacts DEF Accepted
        <3>2. Len(owner') = Len(owner) + 1 /\ Len(backlog') = Len(backlog) + 1
            BY <2>3 DEF c
        <3> HIDE DEF TypeInv, TypeOK
        <3> QED
            BY <3>1, <3>2
    <2> QED
        BY <1>0, <1>a, <1>1, <2>3, <2>4, <2>5, <2>6 DEF lvl_socket
<1>2. ASSUME NEW k \in Calls[p], NEW fd \in Fds, lvl_call(p, k, fd)
      PROVE  TypeInv'
    <2> DEFINE m == [op |-> k[1], pid |-> p, fd |-> fd, 
                     size |-> k[2], more |-> k[3]]
    <2>1. m \in Request
        BY IpcAssumption DEF Request
    <2>2. PICK j \in lib[p] : Transmit(p, j.conn, m)
        BY <1>2 DEF lvl_call, lvlip_get_sock
    <2>3. j.conn \in Conns
        OBVIOUS
    <2> HIDE DEF m
    <2>4. /\ req' \in [Conns -> Seq(Request)]
          /\ app_pc' \in [Procs -> {"idle", "wait", "dead"}]
          /\ call' \in [Procs -> Request] /\ acts' \in 0..MaxActs
          /\ lvlfd' \in [Procs -> 0..MaxConns]
          /\ \A q \in Procs : app_pc'[q] = "wait" => lvlfd'[q] \in Conns
        BY <2>1, <2>2, <2>3, TypeSend
    <2> QED
        BY <1>0, <1>a, <1>2, <2>4 DEF lvl_call
<1>3. NoCall(p) \in Request
    BY DEF NoCall, Request
<1>4. CASE Exit(p)
    <2>1. acts' \in 0..MaxActs
        BY <1>4, IpcAssumption DEF Exit
    <2> QED
        BY <1>0, <1>a, <1>3, <1>4, <2>1, ConnFacts DEF Exit
<1>5. CASE GetResponse(p)
    <2> DEFINE r == Head(resp[lvlfd[p]])
    <2>1. lvlfd[p] \in Conns /\ r \in Response
        BY <1>5 DEF GetResponse
    <2>2. resp' \in [Conns -> Seq(Response)]
        <3>1. PICK j \in DOMAIN resp[lvlfd[p]] :
                  resp' = [resp EXCEPT ![lvlfd[p]] =
                              SubSeq(@, j + 1, Len(@))]
            BY <1>5 DEF GetResponse
        <3>2. resp[lvlfd[p]] \in Seq(Response)
            BY <2>1
        <3> HIDE DEF TypeInv, TypeOK
        <3>3. SubSeq(resp[lvlfd[p]], j + 1, Len(resp[lvlfd[p]]))
              \in Seq(Response)
            BY <3>2
        <3> QED
            BY <3>1, <3>3 DEF TypeInv, TypeOK
    <2>3. LibAfter(p, r) \in SUBSET [fd : Fds, conn : Conns]
        <3>1. r.rc \in Fds \cup {0, -1}
            BY <2>1 DEF Response
        <3> HIDE DEF r
        <3>2. r.rc > 0 => r.rc \in Fds
            BY <3>1, FdFacts
        <3>3. lib[p] \in SUBSET [fd : Fds, conn : Conns]
            OBVIOUS
        <3> HIDE DEF TypeInv, TypeOK
        <3> QED
            BY <2>1, <3>2, <3>3 DEF LibAfter
    <2>4. lib' \in [Procs -> SUBSET [fd : Fds, conn : Conns]]
        BY <1>5, <2>3 DEF GetResponse
    <2> QED
        BY <1>0, <1>a, <1>3, <1>5, <2>2, <2>4, ConnFacts DEF GetResponse, Returns
<1>6. CASE HungUp(p)
    BY <1>0, <1>a, <1>3, <1>6, ConnFacts DEF HungUp, Returns
<1> QED
    BY <1>1, <1>2, <1>4, <1>5, <1>6 DEF Client

-----------------------------------------------------------------------------
-----------------------------------------------------------------------------
(* The listener: it has accepted what the applications opened, in order,   *)
(* so that the thread it starts is a new one.                              *)
LEMMA TypeAccept == ASSUME TypeInv, ListenerAccept PROVE TypeInv'
<1> USE DEF TypeInv, TypeOK
<1>1. PICK n \in Conns :
          datasock' = n /\ file' = [file EXCEPT ![n] = Head(backlog)]
    BY DEF ListenerAccept
<1>2. /\ backlog # << >> /\ backlog' = Tail(backlog)
      /\ lst_pc = "accept" /\ lst_pc' = "alloc"
      /\ overtaken' = (overtaken \/ Unread # {})
      /\ UNCHANGED <<app_pc, call, lvlfd, lib, acts, owner, req, resp, started,
                     connections, th_pc, th_sock, th_conn, th_msg, th_fd,
                     sockets, next_fd, fdrace, clash, misled, up>>
    BY DEF ListenerAccept, clientVars, netVars, thVars, tableVars
<1>3. /\ Head(backlog) \in Conns /\ backlog' \in Seq(Conns)
      /\ Len(backlog) > 0 /\ Len(backlog') = Len(backlog) - 1
    <2>1. backlog \in Seq(Conns) /\ backlog # << >> /\ backlog' = Tail(backlog)
        BY <1>2
    <2> HIDE DEF TypeInv, TypeOK
    <2>2. Head(backlog) \in Conns /\ Tail(backlog) \in Seq(Conns)
        BY <2>1
    <2>3. Len(backlog) > 0 /\ Len(Tail(backlog)) = Len(backlog) - 1
        BY <2>1
    <2> QED
        BY <2>1, <2>2, <2>3
<1>4. file' \in [Conns -> 0..MaxConns] /\ datasock' \in 0..MaxConns
    BY <1>1, <1>3, ConnFacts
<1>5. started' + Len(backlog') + Accepted' = Len(owner)
    <2>1. started \in Nat /\ Len(backlog) \in Nat /\ Len(owner) \in Nat
          /\ started + Len(backlog) + Accepted = Len(owner)
        BY ConnFacts
    <2> HIDE DEF TypeInv, TypeOK
    <2> QED
        BY <1>2, <1>3, <2>1 DEF Accepted
<1>6. ASSUME NEW t \in Conns PROVE ThreadInv(t)'
    BY <1>1, <1>2 DEF ThreadInv
<1> QED
    BY <1>1, <1>2, <1>3, <1>4, <1>5, <1>6

LEMMA TypeAlloc == ASSUME TypeInv, ListenerAlloc PROVE TypeInv'
<1> USE DEF TypeInv, TypeOK
<1>1. /\ lst_pc = "alloc" /\ lst_pc' = "accept" /\ started' = started + 1
      /\ connections' = [connections EXCEPT ![datasock] = @ + 1]
      /\ th_pc' = [th_pc EXCEPT ![started + 1] = "start"]
      /\ UNCHANGED <<app_pc, call, lvlfd, lib, acts, owner, req, resp, backlog,
                     file, datasock, th_sock, th_conn, th_msg, th_fd, sockets,
                     next_fd, overtaken, fdrace, clash, misled, up>>
    BY DEF ListenerAlloc, clientVars, netVars, tableVars, histVars
<1>2. connections' \in [Conns -> Nat]
    BY <1>1
<1>3. /\ started' \in 0..MaxConns /\ started + 1 \in Conns
      /\ started' + Len(backlog') + Accepted' = Len(owner')
    <2>1. started \in Nat /\ Len(backlog) \in Nat /\ Len(owner) \in Nat
          /\ started + Len(backlog) + Accepted = Len(owner)
          /\ Len(owner) <= MaxConns
        BY ConnFacts
    <2> HIDE DEF TypeInv, TypeOK
    <2> QED
        BY <1>1, <2>1, ConnFacts DEF Conns, Accepted
<1>4. /\ th_pc' \in [Conns -> ThreadPcs]
      /\ \A t \in Conns : t > started' => th_pc'[t] = "none"
      /\ \A t \in Conns : th_pc'[t] = th_pc[t] \/ th_pc'[t] = "start"
    <2>1. th_pc \in [Conns -> ThreadPcs] /\ started \in Nat
        BY ConnFacts DEF ThreadPcs
    <2>2. \A t \in Conns : t > started => th_pc[t] = "none"
        BY DEF ThreadInv
    <2> HIDE DEF TypeInv, TypeOK
    <2>3. \A t \in Conns : t > started + 1 => t > started /\ t # started + 1
        BY <2>1, ConnFacts
    <2>4. "start" \in ThreadPcs
        BY DEF ThreadPcs
    <2> QED
        BY <1>1, <1>3, <2>1, <2>2, <2>3, <2>4
<1>5. ASSUME NEW t \in Conns PROVE ThreadInv(t)'
    <2>1. ThreadInv(t) /\ datasock \in Conns
        BY <1>1
    <2>2. /\ th_pc'[t] \in Serving => th_pc[t] = th_pc'[t]
          /\ th_pc'[t] \in Executing => th_pc[t] = th_pc'[t]
          /\ th_pc'[t] \in {"reading", "more", "fd", "made"} =>
                 th_pc[t] = th_pc'[t]
        BY <1>4 DEF Serving, Executing
    <2> HIDE DEF TypeInv, TypeOK
    <2> QED
        BY <1>1, <1>4, <2>1, <2>2 DEF ThreadInv
<1>6. TypeOK'
    BY <1>1, <1>2, <1>3, <1>4 DEF ThreadPcs
<1> HIDE DEF TypeOK
<1> QED
    BY <1>1, <1>3, <1>5, <1>6

-----------------------------------------------------------------------------
(* A thread changes its own fields, to these values.                       *)
Moves(t, pc, sk, cn, msg, fd) ==
    /\ th_pc[t] # "none"
    /\ th_pc' = [th_pc EXCEPT ![t] = pc]
    /\ th_sock' = [th_sock EXCEPT ![t] = sk]
    /\ th_conn' = [th_conn EXCEPT ![t] = cn]
    /\ th_msg' = [th_msg EXCEPT ![t] = msg]
    /\ th_fd' = [th_fd EXCEPT ![t] = fd]
    /\ pc \in ThreadPcs \ {"none", "start"}
    /\ sk \in 0..MaxConns /\ cn \in 0..MaxConns
    /\ msg \in Seq(Request) /\ Len(msg) <= 1
    /\ fd \in Fds \cup {0}
    /\ pc # "done" => sk \in Conns
    /\ pc \in {"reading", "more"} => cn \in Conns
    /\ pc \in Executing => Len(msg) = 1 /\ msg[1].op \in Ops
    /\ pc \in {"fd", "made"} => fd \in Fds
    /\ pc = "fd" => fd < MaxFd

SharedTyped ==
    /\ req \in [Conns -> Seq(Request)] /\ resp \in [Conns -> Seq(Response)]
    /\ file \in [Conns -> 0..MaxConns] /\ connections \in [Conns -> Nat]
    /\ sockets \in [Socket -> Nat] /\ next_fd \in Fds
    /\ overtaken \in BOOLEAN /\ fdrace \in BOOLEAN /\ up \in BOOLEAN
    /\ clash \in BOOLEAN /\ misled \subseteq Procs

LEMMA TypeOneThread ==
    ASSUME TypeInv, NEW t \in Conns,
           NEW pc, NEW sk, NEW cn, NEW msg, NEW fd,
           Moves(t, pc, sk, cn, msg, fd),
           UNCHANGED <<clientVars, accVars>>, SharedTyped'
    PROVE  TypeInv'
<1> USE DEF TypeInv, TypeOK, clientVars, accVars, Moves, SharedTyped, Accepted,
            ThreadPcs
<1>1. th_pc' \in [Conns -> ThreadPcs]
    OBVIOUS
<1>2. th_sock' \in [Conns -> 0..MaxConns] /\ th_conn' \in [Conns -> 0..MaxConns]
    OBVIOUS
<1>3. th_msg' \in [Conns -> Seq(Request)]
    OBVIOUS
<1>4. th_fd' \in [Conns -> Fds \cup {0}]
    OBVIOUS
<1>5. \A u \in Conns : Len(th_msg'[u]) <= 1
    OBVIOUS
<1>6. ASSUME NEW u \in Conns PROVE ThreadInv(u)'
    <2>1. ThreadInv(u) /\ ThreadInv(t)
        OBVIOUS
    <2>2. started' = started /\ datasock' = datasock
        OBVIOUS
    <2>3. CASE u = t
        <3>1. /\ th_pc'[t] = pc /\ th_sock'[t] = sk /\ th_conn'[t] = cn
              /\ th_msg'[t] = msg /\ th_fd'[t] = fd
            OBVIOUS
        <3> HIDE DEF TypeInv, TypeOK
        <3> QED
            BY <2>1, <2>2, <2>3, <3>1 DEF ThreadInv, Serving, Moves, ThreadPcs
    <2>4. CASE u # t
        <3>1. /\ th_pc'[u] = th_pc[u] /\ th_sock'[u] = th_sock[u]
              /\ th_conn'[u] = th_conn[u] /\ th_msg'[u] = th_msg[u]
              /\ th_fd'[u] = th_fd[u]
            BY <2>4
        <3> HIDE DEF TypeInv, TypeOK
        <3> QED
            BY <2>1, <2>2, <3>1 DEF ThreadInv
    <2> QED
        BY <2>3, <2>4
<1> QED
    BY <1>1, <1>2, <1>3, <1>4, <1>5, <1>6

(* Types of what a thread looks at.                                        *)
LEMMA ThreadTypes ==
    ASSUME TypeInv, NEW t \in Conns
    PROVE  /\ th_pc[t] \in ThreadPcs
           /\ th_sock[t] \in 0..MaxConns /\ th_conn[t] \in 0..MaxConns
           /\ th_msg[t] \in Seq(Request) /\ Len(th_msg[t]) <= 1
           /\ th_fd[t] \in Fds \cup {0}
           /\ th_sock = [th_sock EXCEPT ![t] = th_sock[t]]
           /\ th_conn = [th_conn EXCEPT ![t] = th_conn[t]]
           /\ th_msg = [th_msg EXCEPT ![t] = th_msg[t]]
           /\ th_fd = [th_fd EXCEPT ![t] = th_fd[t]]
<1> USE DEF TypeInv, TypeOK, ThreadPcs
<1>1. /\ th_pc[t] \in ThreadPcs
      /\ th_sock[t] \in 0..MaxConns /\ th_conn[t] \in 0..MaxConns
      /\ th_msg[t] \in Seq(Request) /\ Len(th_msg[t]) <= 1
      /\ th_fd[t] \in Fds \cup {0}
    OBVIOUS
<1>2. /\ th_sock = [th_sock EXCEPT ![t] = th_sock[t]]
      /\ th_conn = [th_conn EXCEPT ![t] = th_conn[t]]
    OBVIOUS
<1>3. th_msg = [th_msg EXCEPT ![t] = th_msg[t]]
    OBVIOUS
<1>4. th_fd = [th_fd EXCEPT ![t] = th_fd[t]]
    OBVIOUS
<1> QED
    BY <1>1, <1>2, <1>3, <1>4

(* Types of what the threads share.                                        *)
LEMMA SharedTypes == TypeInv => SharedTyped
BY DEF TypeInv, TypeOK, SharedTyped

(* A read begins, or fails.                                                *)
LEMMA ReadFromTyped ==
    ASSUME TypeInv, NEW t \in Conns, NEW n \in Conns, ReadFrom(t, n)
    PROVE  /\ th_pc' = [th_pc EXCEPT ![t] = IF file[n] = 0 THEN "free"
                                            ELSE "reading"]
           /\ th_conn' = [th_conn EXCEPT ![t] = file[n]]
           /\ file[n] \in 0..MaxConns
           /\ file[n] # 0 => file[n] \in Conns
BY SharedTypes, ConnFacts DEF ReadFrom, SharedTyped

LEMMA TypeStart ==
    ASSUME TypeInv, NEW t \in Conns, ThreadStart(t) PROVE TypeInv'
<1>1. datasock \in Conns /\ datasock \in 0..MaxConns /\ th_pc[t] = "start"
    BY ConnFacts DEF TypeInv, ThreadInv, ThreadStart
<1> DEFINE pc == IF file[datasock] = 0 THEN "free" ELSE "reading"
<1>2. /\ th_pc' = [th_pc EXCEPT ![t] = pc]
      /\ th_sock' = [th_sock EXCEPT ![t] = datasock]
      /\ th_conn' = [th_conn EXCEPT ![t] = file[datasock]]
      /\ th_msg' = [th_msg EXCEPT ![t] = th_msg[t]]
      /\ th_fd' = [th_fd EXCEPT ![t] = th_fd[t]]
      /\ file[datasock] \in 0..MaxConns
      /\ file[datasock] # 0 => file[datasock] \in Conns
    BY <1>1, ReadFromTyped, ThreadTypes DEF ThreadStart
<1>3. UNCHANGED <<clientVars, accVars, req, resp, file, connections, sockets,
                  next_fd, overtaken, fdrace, clash, misled, up>>
    BY DEF ThreadStart, elsewhere, netVars, tableVars, histVars
<1>4. pc \in ThreadPcs \ {"none", "start"}
      /\ pc \notin Executing /\ pc \notin {"fd", "made"} /\ pc # "fd"
      /\ (pc \in {"reading", "more"} => file[datasock] # 0)
    BY DEF Executing, ThreadPcs
<1> HIDE DEF pc
<1>5. /\ th_msg[t] \in Seq(Request) /\ Len(th_msg[t]) <= 1
      /\ th_fd[t] \in Fds \cup {0}
    BY ThreadTypes
<1>6. SharedTyped'
    BY <1>3, SharedTypes DEF SharedTyped
<1>7. Moves(t, pc, datasock, file[datasock], th_msg[t], th_fd[t])
    BY <1>1, <1>2, <1>4, <1>5 DEF Moves
<1> QED
    BY <1>3, <1>6, <1>7, TypeOneThread

(* What the demultiplexer looks at is a request.                           *)
LEMMA ReadAsTyped ==
    ASSUME NEW m \in Request PROVE ReadAs(m) \subseteq Request
BY IpcAssumption DEF ReadAs

LEMMA TypeRead ==
    ASSUME TypeInv, NEW t \in Conns, ReadRequest(t) PROVE TypeInv'
<1> DEFINE q == req[th_conn[t]]
           n == th_sock[t]
<1>1. /\ th_pc[t] = "reading" /\ th_conn[t] \in Conns
      /\ th_sock[t] \in Conns /\ q # << >> /\ q \in Seq(Request)
    BY SharedTypes DEF TypeInv, ThreadInv, Serving, ReadRequest, SharedTyped
<1>2. UNCHANGED <<clientVars, accVars, resp, file, connections, sockets, next_fd,
                  th_sock, th_fd, overtaken, fdrace, clash>>
    BY DEF ReadRequest, tableVars
<1>3. req' \in [Conns -> Seq(Request)]
    <2>1. PICK rest \in LeftInStream(q) :
              req' = [req EXCEPT ![th_conn[t]] = rest]
        BY DEF ReadRequest
    <2>2. rest \in Seq(Request)
        BY <1>1, LeftLeaves DEF Leaves
    <2> QED
        BY <2>1, <2>2, SharedTypes DEF SharedTyped
<1>4. PICK m \in ReadAs(Head(q)) :
          LET misread == Head(q).op = "tail" /\ demux_ipc_socket_call(m)
          IN  /\ IF demux_ipc_socket_call(m)
                 THEN /\ th_pc' = [th_pc EXCEPT ![t] =
                                      IF ~m.more THEN "serve"
                                      ELSE IF file[n] = 0 THEN "fail"
                                      ELSE "more"]
                      /\ th_conn' = [th_conn EXCEPT ![t] = file[n]]
                      /\ th_msg' = [th_msg EXCEPT ![t] = <<m>>]
                 ELSE ReadFrom(t, n) /\ UNCHANGED th_msg
              /\ misled' = misled \cup
                   {p \in Procs : misread /\ p \in {owner[th_conn[t]], m.pid}}
              /\ up' \in (IF misread /\ m.op \in Fragile THEN BOOLEAN
                           ELSE {TRUE})
    BY DEF ReadRequest
<1>a. misled' \subseteq Procs /\ up' \in BOOLEAN
    BY <1>4, SharedTypes DEF SharedTyped
<1>b. SharedTyped'
    BY <1>2, <1>3, <1>a, SharedTypes DEF SharedTyped
<1>5. /\ th_sock' = [th_sock EXCEPT ![t] = th_sock[t]]
      /\ th_fd' = [th_fd EXCEPT ![t] = th_fd[t]]
      /\ th_sock[t] \in 0..MaxConns /\ th_fd[t] \in Fds \cup {0}
    BY <1>2, ThreadTypes
<1>c. /\ file[n] \in 0..MaxConns
      /\ file[n] # 0 => file[n] \in Conns
    BY <1>1, SharedTypes, ConnFacts DEF SharedTyped
<1>6. CASE demux_ipc_socket_call(m)
    <2> DEFINE msg == <<m>>
               pc == IF ~m.more THEN "serve"
                     ELSE IF file[n] = 0 THEN "fail" ELSE "more"
    <2>1. m \in Request /\ m.op \in Ops
        <3>1. Head(q) \in Request
            BY <1>1
        <3> QED
            BY <1>6, <3>1, ReadAsTyped DEF demux_ipc_socket_call
    <2>2. msg \in Seq(Request) /\ Len(msg) = 1 /\ msg[1].op \in Ops
        BY <2>1
    <2>3. /\ th_pc' = [th_pc EXCEPT ![t] = pc]
          /\ th_conn' = [th_conn EXCEPT ![t] = file[n]]
          /\ th_msg' = [th_msg EXCEPT ![t] = msg]
        BY <1>4, <1>6
    <2>4. /\ pc \in ThreadPcs \ {"none", "start"} /\ pc # "done"
          /\ pc \notin {"fd", "made"} /\ pc # "fd"
          /\ (pc \in {"reading", "more"} => file[n] # 0)
        BY DEF ThreadPcs
    <2> HIDE DEF msg, q, pc
    <2>5. Moves(t, pc, th_sock[t], file[n], msg, th_fd[t])
        BY <1>1, <1>5, <1>c, <2>2, <2>3, <2>4 DEF Moves
    <2> QED
        BY <1>2, <1>b, <2>5, TypeOneThread
<1>7. CASE ~demux_ipc_socket_call(m)
    <2> DEFINE pc == IF file[th_sock[t]] = 0 THEN "free" ELSE "reading"
    <2>1. ReadFrom(t, th_sock[t]) /\ th_msg' = th_msg
        BY <1>4, <1>7
    <2>2. /\ th_pc' = [th_pc EXCEPT ![t] = pc]
          /\ th_conn' = [th_conn EXCEPT ![t] = file[th_sock[t]]]
        BY <1>1, <2>1, ReadFromTyped
    <2>3. /\ th_msg' = [th_msg EXCEPT ![t] = th_msg[t]]
          /\ th_msg[t] \in Seq(Request) /\ Len(th_msg[t]) <= 1
        BY <2>1, ThreadTypes
    <2>4. pc \in ThreadPcs \ {"none", "start"}
          /\ pc \notin Executing /\ pc \notin {"fd", "made"} /\ pc # "fd"
          /\ (pc \in {"reading", "more"} => file[th_sock[t]] # 0)
        BY DEF Executing, ThreadPcs
    <2> HIDE DEF pc, q
    <2>5. Moves(t, pc, th_sock[t], file[th_sock[t]], th_msg[t], th_fd[t])
        BY <1>1, <1>5, <1>c, <2>2, <2>3, <2>4 DEF Moves
    <2> QED
        BY <1>2, <1>b, <2>5, TypeOneThread
<1> QED
    BY <1>6, <1>7

LEMMA TypeMore ==
    ASSUME TypeInv, NEW t \in Conns, ReadMore(t) PROVE TypeInv'
<1> DEFINE c == th_conn[t]
<1>1. /\ th_pc[t] = "more" /\ c \in Conns /\ th_sock[t] \in Conns
      /\ Len(th_msg[t]) = 1 /\ th_msg[t][1].op \in Ops
      /\ req[c] \in Seq(Request)
    BY SharedTypes DEF TypeInv, ThreadInv, Serving, Executing, ReadMore,
                       SharedTyped
<1>2. UNCHANGED <<clientVars, accVars, up, resp, file, connections, th_sock,
                  th_conn, th_msg, th_fd, sockets, next_fd, overtaken, fdrace,
                  clash, misled>>
    BY DEF ReadMore, elsewhere, tableVars, histVars
<1>3. req' \in [Conns -> Seq(Request)]
    <2>1. CASE req' = req
        BY <2>1, SharedTypes DEF SharedTyped
    <2>2. ASSUME req[c] # << >>,
                 NEW rest \in LeftByMore(th_msg[t][1], req[c]),
                 req' = [req EXCEPT ![c] = rest]
          PROVE  req' \in [Conns -> Seq(Request)]
        <3>1. rest \in Seq(Request)
            BY <1>1, <2>2, MoreLeaves DEF Leaves
        <3> QED
            BY <2>2, <3>1, SharedTypes DEF SharedTyped
    <2> QED
        BY <2>1, <2>2 DEF ReadMore
<1>4. SharedTyped'
    BY <1>2, <1>3, SharedTypes DEF SharedTyped
<1>5. PICK pc \in {"serve", "fail"} : th_pc' = [th_pc EXCEPT ![t] = pc]
    BY DEF ReadMore
<1>6. /\ th_sock' = [th_sock EXCEPT ![t] = th_sock[t]]
      /\ th_conn' = [th_conn EXCEPT ![t] = th_conn[t]]
      /\ th_msg' = [th_msg EXCEPT ![t] = th_msg[t]]
      /\ th_fd' = [th_fd EXCEPT ![t] = th_fd[t]]
      /\ th_sock[t] \in 0..MaxConns /\ th_conn[t] \in 0..MaxConns
      /\ th_msg[t] \in Seq(Request) /\ Len(th_msg[t]) <= 1
      /\ th_fd[t] \in Fds \cup {0}
    BY <1>2, ThreadTypes
<1>7. /\ pc \in ThreadPcs \ {"none", "start"} /\ pc # "done"
      /\ pc \notin {"fd", "made"} /\ pc # "fd" /\ pc \notin {"reading", "more"}
    BY DEF ThreadPcs
<1>8. Moves(t, pc, th_sock[t], th_conn[t], th_msg[t], th_fd[t])
    BY <1>1, <1>5, <1>6, <1>7 DEF Moves
<1> QED
    BY <1>2, <1>4, <1>8, TypeOneThread

(* An answer, together with a change of the table.                         *)
LEMMA TypeAnswer ==
    ASSUME TypeInv, NEW t \in Conns, th_pc[t] \in Executing,
           NEW rc \in Fds \cup {0, -1}, Answer(t, rc),
           sockets' \in [Socket -> Nat], UNCHANGED <<next_fd, histVars>>
    PROVE  TypeInv'
<1> DEFINE c == file[th_sock[t]]
           m == th_msg[t][1]
           r == [op |-> m.op, pid |-> m.pid, fd |-> m.fd, rc |-> rc]
           pc == IF c = 0 THEN "free" ELSE "reading"
<1>1. /\ th_sock[t] \in Conns /\ m \in Request /\ m.op \in Ops
      /\ th_pc[t] # "none"
    BY ThreadTypes DEF TypeInv, ThreadInv, Serving, Executing
<1>2. r \in Response
    BY <1>1 DEF Request, Response
<1>3. /\ th_pc' = [th_pc EXCEPT ![t] = pc]
      /\ th_conn' = [th_conn EXCEPT ![t] = c]
      /\ c \in 0..MaxConns
      /\ c # 0 => c \in Conns
    BY <1>1, ReadFromTyped DEF Answer
<1>4. resp' \in [Conns -> Seq(Response)]
    <2>1. resp' = IF c = 0 \/ Gone(c) THEN resp
                  ELSE [resp EXCEPT ![c] = Append(resp[c], r)]
        BY DEF Answer, Msg
    <2>2. c # 0 => Append(resp[c], r) \in Seq(Response)
        BY <1>2, <1>3, SharedTypes DEF SharedTyped
    <2> HIDE DEF c, r
    <2> QED
        BY <1>3, <2>1, <2>2, SharedTypes DEF SharedTyped
<1>5. up' \in BOOLEAN
    BY DEF Answer
<1>6. /\ th_sock' = [th_sock EXCEPT ![t] = th_sock[t]]
      /\ th_msg' = [th_msg EXCEPT ![t] = << >>]
      /\ th_fd' = [th_fd EXCEPT ![t] = 0]
      /\ th_sock[t] \in 0..MaxConns /\ << >> \in Seq(Request) /\ Len(<< >>) = 0
    BY ThreadTypes DEF Answer
<1>7. UNCHANGED <<clientVars, accVars, req, file, connections, next_fd,
                  overtaken, fdrace, clash, misled>>
    BY DEF Answer, histVars
<1>8. SharedTyped'
    BY <1>4, <1>5, <1>7, SharedTypes DEF SharedTyped
<1>9. pc \in ThreadPcs \ {"none", "start"}
      /\ pc \notin Executing /\ pc \notin {"fd", "made"} /\ pc # "fd"
      /\ (pc \in {"reading", "more"} => c # 0)
    BY DEF Executing, ThreadPcs
<1> HIDE DEF pc, c, m, r
<1>10. Moves(t, pc, th_sock[t], c, << >>, 0)
    BY <1>1, <1>3, <1>6, <1>9 DEF Moves
<1> QED
    BY <1>7, <1>8, <1>10, TypeOneThread

LEMMA TypeThread ==
    ASSUME TypeInv, NEW t \in Conns, Thread(t) PROVE TypeInv'
<1>0. /\ th_sock = [th_sock EXCEPT ![t] = th_sock[t]]
      /\ th_conn = [th_conn EXCEPT ![t] = th_conn[t]]
      /\ th_msg = [th_msg EXCEPT ![t] = th_msg[t]]
      /\ th_fd = [th_fd EXCEPT ![t] = th_fd[t]]
      /\ th_sock[t] \in 0..MaxConns /\ th_conn[t] \in 0..MaxConns
      /\ th_msg[t] \in Seq(Request) /\ Len(th_msg[t]) <= 1
      /\ th_fd[t] \in Fds \cup {0} /\ 0 \in 0..MaxConns
      /\ SharedTyped /\ ThreadInv(t)
    BY ThreadTypes, SharedTypes, ConnFacts DEF TypeInv
<1>1. CASE ThreadStart(t)
    BY <1>1, TypeStart
<1>2. CASE ReadRequest(t)
    BY <1>2, TypeRead
<1>a. CASE ReadMore(t)
    BY <1>a, TypeMore
<1>3. CASE ReadEof(t)
    <2>1. th_pc[t] = "reading" /\ th_sock[t] \in Conns
        BY <1>0, <1>3 DEF ReadEof, ThreadInv, Serving
    <2>2. Moves(t, "free", th_sock[t], th_conn[t], th_msg[t], th_fd[t])
        BY <1>0, <1>3, <2>1 DEF ReadEof, Moves, Executing,
                                       ThreadPcs
    <2>3. UNCHANGED <<clientVars, accVars>> /\ SharedTyped'
        BY <1>0, <1>3 DEF ReadEof, elsewhere, netVars, tableVars, histVars,
                          SharedTyped
    <2> QED
        BY <2>2, <2>3, TypeOneThread
<1>b. /\ file \in [Conns -> 0..MaxConns] /\ connections \in [Conns -> Nat]
      /\ \A n \in Conns : CloseNumber(n) \in [Conns -> 0..MaxConns]
    BY <1>0, ConnFacts DEF CloseNumber, SharedTyped
<1>c. CASE Fail(t)
    <2>1. th_pc[t] = "fail" /\ th_sock[t] \in Conns
        BY <1>0, <1>c DEF Fail, ThreadInv, Serving
    <2>2. Moves(t, "done", 0, 0, th_msg[t], th_fd[t])
        BY <1>0, <1>c, <2>1 DEF Fail, Ends, Moves, Executing, ThreadPcs
    <2>3. UNCHANGED <<clientVars, accVars>> /\ SharedTyped'
        BY <1>0, <1>b, <1>c, <2>1 DEF Fail, elsewhere, netVars, tableVars,
                                      histVars, SharedTyped
    <2> QED
        BY <2>2, <2>3, TypeOneThread
<1>4. CASE ipc_free_thread(t)
    <2>0. th_pc[t] \in {"free", "walk"} /\ th_sock[t] \in Conns
        BY <1>0, <1>4 DEF ipc_free_thread, FreeBegin, FreeFound, FreeNone,
                          FreeBroken, ThreadInv, Serving
    <2>1. CASE FreeBegin(t)
        <3>1. Moves(t, "walk", th_sock[t], th_conn[t], th_msg[t], th_fd[t])
            BY <1>0, <2>0, <2>1 DEF FreeBegin, Moves, Executing, ThreadPcs
        <3>2. clash' \in BOOLEAN
            BY <2>1 DEF FreeBegin
        <3>3. UNCHANGED <<clientVars, accVars>> /\ SharedTyped'
            BY <1>0, <2>1, <3>2 DEF FreeBegin, elsewhere, netVars, tableVars,
                                    SharedTyped
        <3> QED
            BY <3>1, <3>3, TypeOneThread
    <2>2. CASE FreeFound(t) \/ FreeNone(t) \/ FreeBroken(t)
        <3>1. Moves(t, "done", 0, 0, th_msg[t], th_fd[t])
            BY <1>0, <2>0, <2>2 DEF FreeFound, FreeNone, FreeBroken, Ends,
                                    Moves, Executing, ThreadPcs
        <3>2. file' \in [Conns -> 0..MaxConns]
            BY <1>b, <2>0, <2>2 DEF FreeFound, FreeNone, FreeBroken
        <3>3. connections' \in [Conns -> Nat]
            <4>1. CASE FreeFound(t)
                BY <1>b, <2>0, <4>1 DEF FreeFound
            <4>2. CASE FreeNone(t)
                BY <1>b, <4>2 DEF FreeNone
            <4>3. CASE FreeBroken(t)
                <5>1. PICK lost \in SUBSET {n \in Conns : connections[n] > 0} :
                          connections' =
                              [n \in Conns |-> IF n \in lost
                                               THEN connections[n] - 1
                                               ELSE connections[n]]
                    BY <4>3 DEF FreeBroken
                <5>2. \A n \in Conns : /\ connections[n] \in Nat
                                       /\ n \in lost =>
                                              connections[n] - 1 \in Nat
                    BY <1>b
                <5> QED
                    BY <5>1, <5>2
            <4> QED
                BY <2>2, <4>1, <4>2, <4>3
        <3>4. UNCHANGED <<clientVars, accVars>> /\ SharedTyped'
            BY <1>0, <2>2, <3>2, <3>3 DEF FreeFound, FreeNone, FreeBroken,
                 elsewhere, netVars, tableVars, histVars, SharedTyped
        <3> QED
            BY <3>1, <3>4, TypeOneThread
    <2> QED
        BY <1>4, <2>1, <2>2 DEF ipc_free_thread
<1>5. CASE PlainCall(t)
    <2>1. PICK rc \in {0, -1} : Answer(t, rc)
        BY <1>5 DEF PlainCall
    <2>2. /\ th_pc[t] \in Executing /\ UNCHANGED <<next_fd, histVars>>
          /\ sockets' \in [Socket -> Nat]
        BY <1>0, <1>5 DEF PlainCall, Executing, tableVars, SharedTyped
    <2> QED
        BY <2>1, <2>2, TypeAnswer
<1>6. CASE _close(t)
    <2>1. PICK rc \in {0, -1} :
              /\ Answer(t, rc)
              /\ sockets' = [sockets EXCEPT ![Sock(t)] = @ - RemoveClosed(rc)]
        BY <1>6 DEF _close
    <2>2. th_pc[t] \in Executing /\ UNCHANGED <<next_fd, histVars>>
        BY <1>6 DEF _close, Executing
    <2>3. RemoveClosed(rc) \in {0, 1}
        BY DEF RemoveClosed
    <2>4. Sock(t) \in Socket /\ sockets[Sock(t)] \in Nat /\ sockets[Sock(t)] > 0
        BY <1>0, <1>6 DEF _close, get_socket, SharedTyped
    <2>5. sockets[Sock(t)] - RemoveClosed(rc) \in Nat
        BY <2>3, <2>4
    <2>6. sockets' \in [Socket -> Nat]
        BY <1>0, <2>1, <2>5 DEF SharedTyped
    <2> QED
        BY <2>1, <2>2, <2>6, TypeAnswer
<1>7. CASE FdLoad(t)
    <2>1. /\ th_pc[t] = "serve" /\ next_fd < MaxFd /\ next_fd \in Fds
          /\ th_sock[t] \in Conns
          /\ Len(th_msg[t]) = 1 /\ th_msg[t][1].op \in Ops
        BY <1>0, <1>7 DEF FdLoad, ThreadInv, Serving, Executing, SharedTyped
    <2>2. Moves(t, "fd", th_sock[t], th_conn[t], th_msg[t], next_fd)
        BY <1>0, <1>7, <2>1 DEF FdLoad, Moves, ThreadPcs, Executing
    <2>3. fdrace' \in BOOLEAN
        BY <1>7 DEF FdLoad
    <2>4. UNCHANGED <<clientVars, accVars>> /\ SharedTyped'
        BY <1>0, <1>7, <2>3 DEF FdLoad, elsewhere, netVars, tableVars, SharedTyped
    <2> QED
        BY <2>2, <2>4, TypeOneThread
<1>8. CASE FdStore(t)
    <2>1. /\ th_pc[t] = "fd" /\ th_fd[t] < MaxFd /\ th_fd[t] \in Fds
          /\ th_sock[t] \in Conns
          /\ Len(th_msg[t]) = 1 /\ th_msg[t][1].op \in Ops
        BY <1>0, <1>8 DEF FdStore, ThreadInv, Serving, Executing
    <2>2. Moves(t, "made", th_sock[t], th_conn[t], th_msg[t], th_fd[t])
        BY <1>0, <1>8, <2>1 DEF FdStore, Moves, ThreadPcs, Executing
    <2>3. next_fd' \in Fds
        BY <1>8, <2>1, IpcAssumption DEF FdStore, FdCounted, Fds, FirstFd
    <2>4. UNCHANGED <<clientVars, accVars>> /\ SharedTyped'
        BY <1>0, <1>8, <2>3 DEF FdStore, elsewhere, netVars, histVars, SharedTyped
    <2> QED
        BY <2>2, <2>4, TypeOneThread
<1>9. CASE Enqueue(t)
    <2>1. /\ Answer(t, th_fd[t])
          /\ sockets' = [sockets EXCEPT ![<<Msg(t).pid, th_fd[t]>>] = @ + 1]
          /\ UNCHANGED <<next_fd, histVars>>
        BY <1>9 DEF Enqueue
    <2>2. th_pc[t] \in Executing /\ th_fd[t] \in Fds \cup {0, -1}
        BY <1>0, <1>9 DEF Enqueue, Executing
    <2>a. DEFINE x == <<Msg(t).pid, th_fd[t]>>
    <2>b. sockets \in [Socket -> Nat]
        BY <1>0 DEF SharedTyped
    <2>c. x \in Socket => sockets[x] + 1 \in Nat
        BY <2>b
    <2>d. sockets' = [sockets EXCEPT ![x] = sockets[x] + 1]
        BY <2>1
    <2> HIDE DEF x
    <2>3. sockets' \in [Socket -> Nat]
        BY <2>b, <2>c, <2>d
    <2> QED
        BY <2>1, <2>2, <2>3, TypeAnswer
<1>10. CASE CreateFails(t)
    <2>1. /\ th_pc[t] \in Executing /\ UNCHANGED <<next_fd, histVars>>
          /\ sockets' \in [Socket -> Nat] /\ Answer(t, -1)
        BY <1>0, <1>10 DEF CreateFails, Executing, tableVars, SharedTyped
    <2> QED
        BY <2>1, TypeAnswer
<1> QED
    BY <1>1, <1>2, <1>a, <1>3, <1>c, <1>4, <1>5, <1>6, <1>7, <1>8, <1>9, <1>10 DEF Thread

LEMMA TypeNext == TypeInv /\ [Next]_vars => TypeInv'
<1> SUFFICES ASSUME TypeInv, [Next]_vars PROVE TypeInv'
    OBVIOUS
<1>1. ASSUME NEW p \in Procs, Client(p) PROVE TypeInv'
    BY <1>1, TypeClient
<1>2. CASE Listener
    BY <1>2, TypeAccept, TypeAlloc DEF Listener
<1>a. CASE BrokenList
    BY <1>a DEF BrokenList, TypeInv, TypeOK, ThreadInv, Accepted, clientVars,
                netVars, accVars, thVars, tableVars, histVars
<1>3. ASSUME NEW t \in Conns, Thread(t) PROVE TypeInv'
    BY <1>3, TypeThread
<1>4. CASE UNCHANGED vars
    BY <1>4 DEF TypeInv, TypeOK, ThreadInv, Accepted, vars, clientVars, netVars, accVars,
                thVars, tableVars, histVars
<1> QED
    BY <1>1, <1>2, <1>a, <1>3, <1>4 DEF Next

(* Library, listener, threads and table keep their types: no thread is     *)
(* started beyond those there are connections for, and the descriptors     *)
(* stay in their range (start_ipc_listener, socket_ipc_open,               *)
(* alloc_socket, _close).                                                  *)
THEOREM TypeCorrect == Spec => []TypeOK
<1>1. TypeInv => TypeOK
    BY DEF TypeInv
<1> QED
    BY <1>1, TypeInit, TypeNext, PTL DEF Spec
-----------------------------------------------------------------------------
(* Descriptors of the stack.                                               *)

Numbered == {"fd", "made"}

(* Unless two threads were in the middle of fd++ at a time: one thread at  *)
(* most is there, with the next number, and the numbers of the sockets and *)
(* of the threads that have drawn one are smaller and distinct.            *)
FdInv ==
    ~fdrace =>
        /\ \A t, u \in Conns : th_pc[t] = "fd" /\ th_pc[u] = "fd" => t = u
        /\ \A t \in Conns : th_pc[t] = "fd" => th_fd[t] = next_fd
        /\ \A t \in Conns : th_pc[t] = "made" => th_fd[t] < next_fd
        /\ \A t, u \in Conns :
               th_pc[t] = "made" /\ th_pc[u] = "made" /\ th_fd[t] = th_fd[u]
               => t = u
        /\ \A s \in Socket : sockets[s] > 0 => s[2] < next_fd
        /\ \A s \in Socket, t \in Conns :
               sockets[s] > 0 /\ th_pc[t] = "made" => s[2] # th_fd[t]
        /\ \A s \in Socket : sockets[s] <= 1
        /\ \A s, u \in Socket :
               sockets[s] > 0 /\ sockets[u] > 0 /\ s[2] = u[2] => s = u

(* What the two proofs below need of the types.                            *)
FdTyped ==
    /\ sockets \in [Socket -> Nat] /\ next_fd \in Int
    /\ \A t \in Conns : th_pc[t] \in Numbered => th_fd[t] \in Int
    /\ \A s \in Socket : s[2] \in Int

LEMMA TypeGivesFd == TypeInv => FdTyped
BY FdFacts DEF TypeInv, TypeOK, ThreadInv, FdTyped, Numbered, Socket

(* Steps that draw no number and add no socket.                            *)
NoneDrawn ==
    /\ next_fd' = next_fd /\ fdrace' = fdrace
    /\ \A s \in Socket : sockets'[s] \in Nat /\ sockets'[s] <= sockets[s]
    /\ \A t \in Conns : th_pc'[t] \in Numbered =>
                            th_pc'[t] = th_pc[t] /\ th_fd'[t] = th_fd[t]

LEMMA FdNoneDrawn == FdInv /\ FdTyped /\ NoneDrawn => FdInv'
<1> SUFFICES ASSUME FdInv, FdTyped, NoneDrawn, ~fdrace' PROVE FdInv'
    BY DEF FdInv
<1>1. ~fdrace /\ next_fd' = next_fd
    BY DEF NoneDrawn
<1>2. \A t \in Conns : /\ th_pc'[t] = "fd" => th_pc[t] = "fd" /\ th_fd'[t] = th_fd[t]
                       /\ th_pc'[t] = "made" => th_pc[t] = "made" /\ th_fd'[t] = th_fd[t]
    BY DEF NoneDrawn, Numbered
<1>3. \A s \in Socket : /\ sockets[s] \in Nat /\ sockets'[s] \in Nat
                        /\ sockets'[s] <= sockets[s]
    BY DEF NoneDrawn, FdTyped
<1>4. \A s \in Socket : sockets'[s] > 0 => sockets[s] > 0
    BY <1>3
<1>5. \A s \in Socket : sockets[s] <= 1 => sockets'[s] <= 1
    BY <1>3
<1> QED
    BY <1>1, <1>2, <1>4, <1>5 DEF FdInv

LEMMA FdClient == ASSUME TypeInv, NEW p \in Procs, Client(p) PROVE NoneDrawn
<1>1. UNCHANGED <<thVars, tableVars, histVars>>
    BY DEF Client, lvl_socket, lvl_call, Exit, GetResponse, HungUp, serverVars
<1>2. \A s \in Socket : sockets[s] \in Nat
    BY DEF TypeInv, TypeOK
<1> QED
    BY <1>1, <1>2 DEF NoneDrawn, thVars, tableVars, histVars

LEMMA FdListener == ASSUME TypeInv, Listener PROVE NoneDrawn
<1>1. /\ UNCHANGED <<th_fd, tableVars, fdrace>>
      /\ \/ th_pc' = th_pc
         \/ th_pc' = [th_pc EXCEPT ![started + 1] = "start"]
    BY DEF Listener, ListenerAccept, ListenerAlloc, thVars, histVars
<1>2. th_pc \in [Conns -> ThreadPcs]
      /\ \A s \in Socket : sockets[s] \in Nat
    BY DEF TypeInv, TypeOK, ThreadPcs
<1> QED
    BY <1>1, <1>2 DEF NoneDrawn, tableVars, Numbered

LEMMA FdThread ==
    ASSUME TypeInv, FdInv, NEW t \in Conns, Thread(t) PROVE FdInv'
<1>0. /\ FdTyped
      /\ th_pc \in [Conns -> ThreadPcs]
      /\ th_fd \in [Conns -> Fds \cup {0}]
      /\ \A s \in Socket : sockets[s] \in Nat
    BY TypeGivesFd DEF TypeInv, TypeOK, ThreadPcs
<1>a. ASSUME NEW rc, Answer(t, rc)
      PROVE  \A u \in Conns : th_pc'[u] \in Numbered =>
                 u # t /\ th_pc'[u] = th_pc[u] /\ th_fd'[u] = th_fd[u]
    BY <1>0, <1>a DEF Answer, ReadFrom, Numbered
<1>1. CASE ThreadStart(t)
    <2>1. NoneDrawn
        BY <1>0, <1>1 DEF ThreadStart, ReadFrom, NoneDrawn, Numbered, tableVars, histVars
    <2> QED
        BY <1>0, <2>1, FdNoneDrawn
<1>2. CASE ReadRequest(t)
    <2>1. NoneDrawn
        <3>1. /\ \A u \in Conns \ {t} : th_pc'[u] = th_pc[u]
              /\ th_pc'[t] \in {"free", "reading", "serve", "fail", "more"}
            BY <1>0, <1>2 DEF ReadRequest, ReadFrom
        <3>2. UNCHANGED <<th_fd, tableVars, fdrace>>
            BY <1>2 DEF ReadRequest
        <3> QED
            BY <1>0, <3>1, <3>2 DEF NoneDrawn, Numbered, tableVars
    <2> QED
        BY <1>0, <2>1, FdNoneDrawn
<1>3. CASE ReadEof(t)
    <2>1. NoneDrawn
        BY <1>0, <1>3 DEF ReadEof, NoneDrawn, Numbered, tableVars, histVars
    <2> QED
        BY <1>0, <2>1, FdNoneDrawn
<1>4. CASE ipc_free_thread(t)
    <2>1. NoneDrawn
        BY <1>0, <1>4 DEF ipc_free_thread, FreeBegin, FreeFound, FreeNone,
             FreeBroken, Ends, NoneDrawn, Numbered, tableVars, histVars
    <2> QED
        BY <1>0, <2>1, FdNoneDrawn
<1>b. CASE Fail(t) \/ ReadMore(t)
    <2>1. NoneDrawn
        BY <1>0, <1>b DEF Fail, Ends, ReadMore, NoneDrawn, Numbered, tableVars,
                          histVars
    <2> QED
        BY <1>0, <2>1, FdNoneDrawn
<1>5. CASE PlainCall(t) \/ CreateFails(t)
    <2>1. UNCHANGED <<tableVars, histVars>> /\ \E rc \in {0, -1} : Answer(t, rc)
        BY <1>5 DEF PlainCall, CreateFails
    <2>2. NoneDrawn
        BY <1>0, <1>a, <2>1 DEF NoneDrawn, tableVars, histVars
    <2> QED
        BY <1>0, <2>2, FdNoneDrawn
<1>6. CASE _close(t)
    <2>1. PICK rc \in {0, -1} :
              /\ Answer(t, rc)
              /\ sockets' = [sockets EXCEPT ![Sock(t)] = @ - RemoveClosed(rc)]
        BY <1>6 DEF _close
    <2>2. UNCHANGED <<next_fd, histVars>> /\ Sock(t) \in Socket
          /\ sockets[Sock(t)] > 0
        BY <1>6 DEF _close, get_socket
    <2>3. RemoveClosed(rc) \in {0, 1}
        BY DEF RemoveClosed
    <2>4. sockets[Sock(t)] - RemoveClosed(rc) \in Nat
          /\ sockets[Sock(t)] - RemoveClosed(rc) <= sockets[Sock(t)]
        BY <1>0, <2>2, <2>3
    <2>5. \A s \in Socket : sockets'[s] \in Nat /\ sockets'[s] <= sockets[s]
        BY <1>0, <2>1, <2>4 DEF FdTyped
    <2>6. NoneDrawn
        BY <1>a, <2>1, <2>2, <2>5 DEF NoneDrawn, histVars
    <2> QED
        BY <1>0, <2>6, FdNoneDrawn
<1>7. CASE FdLoad(t)
    <2>1. /\ th_pc' = [th_pc EXCEPT ![t] = "fd"]
          /\ th_fd' = [th_fd EXCEPT ![t] = next_fd]
          /\ fdrace' = (fdrace \/ \E u \in Conns : th_pc[u] = "fd")
          /\ UNCHANGED <<sockets, next_fd>>
        BY <1>7 DEF FdLoad, tableVars
    <2>2. CASE fdrace'
        BY <2>2 DEF FdInv
    <2>3. CASE ~fdrace'
        <3>1. ~fdrace /\ \A u \in Conns : th_pc[u] # "fd"
            BY <2>1, <2>3
        <3>2. /\ \A u \in Conns : th_pc'[u] = "fd" <=> u = t
              /\ th_fd'[t] = next_fd
              /\ \A u \in Conns : th_pc'[u] = "made" =>
                     th_pc[u] = "made" /\ th_fd'[u] = th_fd[u]
            BY <1>0, <2>1, <3>1
        <3> QED
            BY <2>1, <2>3, <3>1, <3>2 DEF FdInv
    <2> QED
        BY <2>2, <2>3
<1>8. CASE FdStore(t)
    <2>1. /\ th_pc[t] = "fd" /\ th_pc' = [th_pc EXCEPT ![t] = "made"]
          /\ next_fd' = th_fd[t] + 1
          /\ UNCHANGED <<th_fd, sockets, fdrace>>
        BY <1>8 DEF FdStore, FdCounted, histVars
    <2>2. CASE fdrace
        BY <2>1, <2>2 DEF FdInv
    <2>3. CASE ~fdrace
        <3>1. th_fd[t] = next_fd /\ next_fd' = next_fd + 1 /\ next_fd \in Int
            BY <1>0, <2>1, <2>3 DEF FdInv, FdTyped
        <3>2. \A u \in Conns : th_pc'[u] # "fd"
            BY <1>0, <2>1, <2>3 DEF FdInv
        <3>3. \A u \in Conns : th_pc'[u] = "made" => u = t \/ th_pc[u] = "made"
            BY <1>0, <2>1
        <3>4. \A u \in Conns : th_pc[u] = "made" =>
                  th_fd[u] \in Int /\ th_fd[u] < next_fd /\ th_fd[u] < next_fd'
            BY <1>0, <2>3, <3>1 DEF FdInv, FdTyped, Numbered
        <3>5. \A s \in Socket : sockets[s] > 0 =>
                  s[2] \in Int /\ s[2] < next_fd /\ s[2] < next_fd'
            BY <1>0, <2>3, <3>1 DEF FdInv, FdTyped
        <3>6. th_fd[t] < next_fd'
            BY <3>1
        <3>7. \A u \in Conns : th_pc[u] = "made" => th_fd[u] # th_fd[t]
            BY <3>1, <3>4
        <3>8. \A s \in Socket : sockets[s] > 0 => s[2] # th_fd[t]
            BY <3>1, <3>5
        <3> QED
            BY <2>1, <2>3, <3>2, <3>3, <3>4, <3>5, <3>6, <3>7, <3>8 DEF FdInv
    <2> QED
        BY <2>2, <2>3
<1>9. CASE Enqueue(t)
    <2> DEFINE x == <<Msg(t).pid, th_fd[t]>>
    <2>1. /\ th_pc[t] = "made" /\ Answer(t, th_fd[t])
          /\ sockets' = [sockets EXCEPT ![x] = sockets[x] + 1]
          /\ UNCHANGED <<next_fd, fdrace>>
        BY <1>9 DEF Enqueue, histVars
    <2>2. x[2] = th_fd[t]
        OBVIOUS
    <2> HIDE DEF x
    <2>3. \A u \in Conns : th_pc'[u] \in Numbered =>
              u # t /\ th_pc'[u] = th_pc[u] /\ th_fd'[u] = th_fd[u]
        BY <1>a, <2>1
    <2>4. CASE fdrace
        BY <2>1, <2>4 DEF FdInv
    <2>5. CASE ~fdrace
        <3>1. \A s \in Socket : s # x => sockets'[s] = sockets[s]
            BY <1>0, <2>1 DEF FdTyped
        <3>2. x \in Socket => sockets[x] = 0 /\ sockets'[x] = 1
            BY <1>0, <2>1, <2>2, <2>5 DEF FdInv, FdTyped
        <3>3. \A u \in Conns : /\ th_pc'[u] = "fd" => th_pc[u] = "fd" /\ th_fd'[u] = th_fd[u]
                               /\ th_pc'[u] = "made" => u # t /\ th_pc[u] = "made"
                                                        /\ th_fd'[u] = th_fd[u]
            BY <2>3 DEF Numbered
        <3>4. \A s \in Socket : sockets'[s] > 0 => s = x \/ sockets[s] > 0
            BY <3>1
        <3>5. \A s \in Socket : sockets'[s] <= 1
            BY <2>5, <3>1, <3>2 DEF FdInv
        <3>6. \A s \in Socket : sockets'[s] > 0 => s[2] < next_fd
            BY <2>1, <2>2, <2>5, <3>4 DEF FdInv
        <3>7. \A s \in Socket, u \in Conns :
                  sockets'[s] > 0 /\ th_pc'[u] = "made" => s[2] # th_fd'[u]
            BY <2>1, <2>2, <2>5, <3>3, <3>4 DEF FdInv
        <3>8. \A s, u \in Socket :
                  sockets'[s] > 0 /\ sockets'[u] > 0 /\ s[2] = u[2] => s = u
            BY <2>1, <2>2, <2>5, <3>4 DEF FdInv
        <3> QED
            BY <2>1, <2>5, <3>3, <3>5, <3>6, <3>7, <3>8 DEF FdInv
    <2> QED
        BY <2>4, <2>5
<1> QED
    BY <1>1, <1>2, <1>3, <1>4, <1>b, <1>5, <1>6, <1>7, <1>8, <1>9 DEF Thread

LEMMA FdInit == Init => FdInv
<1> SUFFICES ASSUME Init PROVE FdInv
    OBVIOUS
<1>1. \A t \in Conns : th_pc[t] = "none"
    BY DEF Init
<1>2. \A s \in Socket : sockets[s] = 0
    BY DEF Init
<1> QED
    BY <1>1, <1>2 DEF FdInv

LEMMA FdNext == TypeInv /\ FdInv /\ [Next]_vars => FdInv'
<1> SUFFICES ASSUME TypeInv, FdInv, [Next]_vars PROVE FdInv'
    OBVIOUS
<1>0. FdTyped
    BY TypeGivesFd
<1>1. ASSUME NEW p \in Procs, Client(p) PROVE FdInv'
    BY <1>0, <1>1, FdClient, FdNoneDrawn
<1>2. CASE Listener
    BY <1>0, <1>2, FdListener, FdNoneDrawn
<1>a. CASE BrokenList
    BY <1>a DEF BrokenList, FdInv, thVars, tableVars, histVars
<1>3. ASSUME NEW t \in Conns, Thread(t) PROVE FdInv'
    BY <1>3, FdThread
<1>4. CASE UNCHANGED vars
    BY <1>4 DEF FdInv, vars, thVars, tableVars, histVars
<1> QED
    BY <1>1, <1>2, <1>a, <1>3, <1>4 DEF Next

(* No descriptor is given out twice, and pid and sockfd determine one      *)
(* socket, unless two threads raced in alloc_socket (socket.c:72).         *)
THEOREM DescriptorsUnique == Spec => []FdUnique
<1>1. FdInv => FdUnique
    BY DEF FdInv, FdUnique
<1> QED
    BY <1>1, TypeInit, TypeNext, FdInit, FdNext, PTL DEF Spec
-----------------------------------------------------------------------------
(* Threads and connections of the server.                                  *)

(* The descriptor accepted last has no thread that has read its number.    *)
Awaited == Unread # {} \/ lst_pc = "alloc"

(* The number has a thread, or will have one.                              *)
Served(n) ==
    \/ \E t \in Conns : th_pc[t] \in Serving /\ th_sock[t] = n
    \/ n = datasock /\ Awaited

(* The number is in the list of connections, or will be.                   *)
Entered(n) == connections[n] > 0 \/ (n = datasock /\ lst_pc = "alloc")

(* Unless datasock was overtaken: one thread at most has not read it, its  *)
(* descriptor is open and served by nobody, and the others serve open      *)
(* descriptors, each its own; and unless two threads were in               *)
(* ipc_free_thread at a time, every open descriptor has its thread and its *)
(* entry in the list, without which the thread would not close it.         *)
ServeInv ==
    ~overtaken =>
        /\ \A t, u \in Unread : t = u
        /\ Unread # {} => lst_pc = "accept"
        /\ Awaited => file[datasock] # 0
        /\ \A t \in Conns : th_pc[t] \in Serving =>
               file[th_sock[t]] # 0 /\ (Awaited => th_sock[t] # datasock)
        /\ \A t, u \in Conns :
               th_pc[t] \in Serving /\ th_pc[u] \in Serving
               /\ th_sock[t] = th_sock[u] => t = u
        /\ ~clash => \A n \in Conns : file[n] # 0 => Served(n) /\ Entered(n)

(* Steps of a thread that goes on serving its descriptor.                  *)
GoesOn ==
    /\ UNCHANGED <<file, connections, lst_pc, datasock, overtaken, th_sock>>
    /\ clash => clash'
    /\ \A t \in Conns : /\ th_pc'[t] \in Serving <=> th_pc[t] \in Serving
                        /\ th_pc'[t] = "start" <=> th_pc[t] = "start"

LEMMA ServeGoesOn == ServeInv /\ GoesOn => ServeInv'
<1> SUFFICES ASSUME ServeInv, GoesOn PROVE ServeInv'
    OBVIOUS
<1>1. Unread' = Unread /\ Awaited' = Awaited
    BY DEF Unread, Awaited, GoesOn
<1>2. \A t \in Conns : /\ th_pc'[t] \in Serving <=> th_pc[t] \in Serving
                       /\ th_pc'[t] = "start" <=> th_pc[t] = "start"
    BY DEF GoesOn
<1>3. /\ UNCHANGED <<file, connections, lst_pc, datasock, overtaken, th_sock>>
      /\ clash => clash'
    BY DEF GoesOn
<1>4. \A n \in Conns : Served(n)' = Served(n) /\ Entered(n)' = Entered(n)
    BY <1>1, <1>2, <1>3 DEF Served, Entered, Serving
<1> HIDE DEF GoesOn, Unread, Serving, Awaited, Served, Entered
<1>5. Serving' = Serving
    BY DEF Serving
<1> QED
    BY <1>1, <1>2, <1>3, <1>4, <1>5 DEF ServeInv

LEMMA ServeAccept ==
    ASSUME TypeInv, ServeInv, ListenerAccept PROVE ServeInv'
<1>1. /\ file \in [Conns -> 0..MaxConns] /\ backlog \in Seq(Conns)
    BY DEF TypeInv, TypeOK
<1>2. PICK n \in Conns :
          /\ file[n] = 0 /\ datasock' = n
          /\ file' = [file EXCEPT ![n] = Head(backlog)]
    BY DEF ListenerAccept, FreeNumber
<1>3. /\ backlog # << >> /\ lst_pc = "accept" /\ lst_pc' = "alloc"
      /\ overtaken' = (overtaken \/ Unread # {})
      /\ UNCHANGED <<connections, th_pc, th_sock, clash>>
    BY DEF ListenerAccept, thVars
<1>4. Head(backlog) \in Conns /\ Head(backlog) # 0
    BY <1>1, <1>3, ConnFacts
<1>5. file'[n] # 0 /\ \A k \in Conns : k # n => file'[k] = file[k]
    BY <1>1, <1>2, <1>4
<1> SUFFICES ASSUME ~overtaken' PROVE ServeInv'
    BY DEF ServeInv
<1>6. ~overtaken /\ Unread = {} /\ ~Awaited /\ Unread' = {} /\ Awaited'
    BY <1>3 DEF Awaited, Unread
<1>7. \A t \in Conns : th_pc[t] \in Serving =>
          th_sock[t] \in Conns /\ file[th_sock[t]] # 0
    BY <1>6 DEF ServeInv, TypeInv, ThreadInv
<1>8. \A t \in Conns : th_pc'[t] \in Serving' =>
          file'[th_sock'[t]] # 0 /\ th_sock'[t] # datasock'
    BY <1>2, <1>3, <1>5, <1>7 DEF Serving
<1>9. ASSUME ~clash', NEW k \in Conns, file'[k] # 0
      PROVE  Served(k)' /\ Entered(k)'
    <2>1. CASE k = n
        BY <1>2, <1>3, <1>6, <2>1 DEF Served, Entered
    <2>2. CASE k # n
        <3>1. file[k] # 0 /\ ~clash
            BY <1>3, <1>5, <1>9, <2>2
        <3>2. Served(k) /\ Entered(k)
            BY <1>6, <3>1 DEF ServeInv
        <3> QED
            BY <1>3, <1>6, <3>2 DEF Served, Entered, Serving
    <2> QED
        BY <2>1, <2>2
<1>10. \A t, u \in Conns :
           th_pc'[t] \in Serving' /\ th_pc'[u] \in Serving'
           /\ th_sock'[t] = th_sock'[u] => t = u
    BY <1>3, <1>6 DEF ServeInv, Serving
<1> HIDE DEF Unread, Serving, Awaited, Served, Entered
<1> QED
    BY <1>2, <1>5, <1>6, <1>8, <1>9, <1>10 DEF ServeInv

LEMMA ServeAlloc ==
    ASSUME TypeInv, ServeInv, ListenerAlloc PROVE ServeInv'
<1> DEFINE new == started + 1
<1>1. /\ th_pc \in [Conns -> ThreadPcs] /\ datasock \in Conns
      /\ connections \in [Conns -> Nat]
    BY DEF TypeInv, TypeOK, ThreadPcs, ListenerAlloc
<1>2. /\ lst_pc = "alloc" /\ lst_pc' = "accept"
      /\ connections' = [connections EXCEPT ![datasock] = @ + 1]
      /\ th_pc' = [th_pc EXCEPT ![new] = "start"]
      /\ UNCHANGED <<file, datasock, th_sock, overtaken, clash>>
    BY DEF ListenerAlloc, histVars
<1>3. new \in Conns /\ th_pc[new] = "none"
    <2>1. /\ started \in Nat /\ Len(backlog) \in Nat /\ Len(owner) \in Nat
          /\ started + Len(backlog) + 1 = Len(owner) /\ Len(owner) <= MaxConns
        BY <1>2, ConnFacts DEF TypeInv, TypeOK, Accepted
    <2>2. new \in Conns /\ new > started
        BY <2>1, ConnFacts DEF Conns
    <2> QED
        BY <2>2 DEF TypeInv, ThreadInv
<1>4. \A k \in Conns : /\ k # datasock => connections'[k] = connections[k]
                       /\ k = datasock => connections'[k] > 0
    BY <1>1, <1>2
<1> HIDE DEF new
<1> SUFFICES ASSUME ~overtaken' PROVE ServeInv'
    BY DEF ServeInv
<1>5. ~overtaken /\ Unread = {} /\ Awaited
    BY <1>2 DEF Awaited, ServeInv
<1>6. /\ \A t \in Conns : th_pc'[t] = "start" <=> t = new
      /\ \A t \in Conns : th_pc'[t] \in Serving' <=> th_pc[t] \in Serving
    BY <1>1, <1>2, <1>3, <1>5 DEF Unread, Serving
<1>7. Unread' = {new} /\ Awaited'
    BY <1>3, <1>6 DEF Unread, Awaited
<1>8. ASSUME ~clash', NEW k \in Conns, file'[k] # 0
      PROVE  Served(k)' /\ Entered(k)'
    <2>1. Served(k) /\ Entered(k)
        BY <1>2, <1>5, <1>8 DEF ServeInv
    <2> QED
        BY <1>2, <1>4, <1>6, <1>7, <2>1 DEF Served, Entered
<1>9. /\ file'[datasock'] # 0
      /\ \A t \in Conns : th_pc'[t] \in Serving' =>
             file'[th_sock'[t]] # 0 /\ th_sock'[t] # datasock'
      /\ \A t, u \in Conns :
             th_pc'[t] \in Serving' /\ th_pc'[u] \in Serving'
             /\ th_sock'[t] = th_sock'[u] => t = u
    BY <1>2, <1>5, <1>6 DEF ServeInv
<1> HIDE DEF Unread, Serving, Awaited, Served, Entered
<1> QED
    BY <1>2, <1>7, <1>8, <1>9 DEF ServeInv

LEMMA ServeStart ==
    ASSUME TypeInv, ServeInv, NEW t \in Conns, ThreadStart(t) PROVE ServeInv'
<1>1. /\ th_pc \in [Conns -> ThreadPcs] /\ th_sock \in [Conns -> 0..MaxConns]
      /\ th_pc[t] = "start" /\ datasock \in Conns
    BY DEF TypeInv, TypeOK, ThreadInv, ThreadStart, ThreadPcs
<1>2. /\ th_sock' = [th_sock EXCEPT ![t] = datasock]
      /\ UNCHANGED <<file, connections, lst_pc, datasock, overtaken, clash>>
    BY DEF ThreadStart, elsewhere, accVars, histVars
<1>3. \A u \in Conns : u # t => th_pc'[u] = th_pc[u] /\ th_sock'[u] = th_sock[u]
    BY <1>1, <1>2 DEF ThreadStart, ReadFrom
<1>4. th_pc'[t] \in Serving /\ th_pc'[t] # "start" /\ th_sock'[t] = datasock
    BY <1>1, <1>2 DEF ThreadStart, ReadFrom, Serving
<1> SUFFICES ASSUME ~overtaken' PROVE ServeInv'
    BY DEF ServeInv
<1>5. /\ ~overtaken /\ t \in Unread /\ Awaited /\ lst_pc = "accept"
      /\ \A u \in Conns : th_pc[u] = "start" => u = t
    BY <1>1, <1>2 DEF ServeInv, Unread, Awaited
<1>6. Unread' = {} /\ ~Awaited'
    BY <1>2, <1>3, <1>4, <1>5 DEF Unread, Awaited
<1>7. /\ file[datasock] # 0
      /\ \A u \in Conns : th_pc[u] \in Serving =>
             file[th_sock[u]] # 0 /\ th_sock[u] # datasock
    BY <1>5 DEF ServeInv
<1>8. \A u, v \in Conns :
          th_pc'[u] \in Serving /\ th_pc'[v] \in Serving
          /\ th_sock'[u] = th_sock'[v] => u = v
    BY <1>3, <1>4, <1>5, <1>7 DEF ServeInv
<1>9. \A u \in Conns : th_pc'[u] \in Serving => file'[th_sock'[u]] # 0
    BY <1>2, <1>3, <1>4, <1>7
<1>10. th_pc[t] \notin Serving /\ Serving' = Serving
    BY <1>1 DEF Serving
<1>11. ASSUME ~clash', NEW n \in Conns, file'[n] # 0
       PROVE  Served(n)' /\ Entered(n)'
    <2>1. Served(n) /\ Entered(n)
        BY <1>2, <1>5, <1>11 DEF ServeInv
    <2>2. Entered(n)'
        BY <1>2, <2>1 DEF Entered
    <2>3. CASE n = datasock
        BY <1>4, <1>10, <2>2, <2>3 DEF Served
    <2>4. CASE n # datasock
        <3>1. PICK u \in Conns : th_pc[u] \in Serving /\ th_sock[u] = n
            BY <2>1, <2>4 DEF Served
        <3>2. u # t
            BY <1>10, <3>1
        <3> QED
            BY <1>3, <1>10, <2>2, <3>1, <3>2 DEF Served
    <2> QED
        BY <2>3, <2>4
<1> HIDE DEF Unread, Serving, Awaited, Served, Entered
<1> QED
    BY <1>6, <1>8, <1>9, <1>10, <1>11 DEF ServeInv

(* A thread ends and closes its descriptor; only after a clash it may leave *)
(* it open, or others without an entry.                                    *)
LEMMA ServeEnds ==
    ASSUME TypeInv, ServeInv, NEW t \in Conns,
           th_pc[t] \in Serving, Ends(t),
           UNCHANGED <<lst_pc, datasock, overtaken, clash>>,
           file' \in {file, CloseNumber(th_sock[t])},
           ~overtaken /\ ~clash =>
               /\ file' = CloseNumber(th_sock[t])
               /\ \A n \in Conns : n # th_sock[t] =>
                      connections'[n] = connections[n]
    PROVE  ServeInv'
<1> DEFINE k == th_sock[t]
<1>1. /\ th_pc \in [Conns -> ThreadPcs] /\ th_sock \in [Conns -> 0..MaxConns]
      /\ k \in Conns /\ file \in [Conns -> 0..MaxConns]
    BY DEF TypeInv, TypeOK, ThreadInv, ThreadPcs
<1>2. /\ \A u \in Conns : u # t => th_pc'[u] = th_pc[u] /\ th_sock'[u] = th_sock[u]
      /\ th_pc'[t] = "done"
    BY <1>1 DEF Ends
<1>3. /\ \A n \in Conns : n # k => file'[n] = file[n]
      /\ file' = CloseNumber(k) => file'[k] = 0
    BY <1>1 DEF CloseNumber
<1> HIDE DEF k
<1>4. /\ th_pc'[t] \notin Serving /\ th_pc'[t] # "start" /\ Serving' = Serving
      /\ th_pc[t] # "start"
    BY <1>2 DEF Serving
<1>5. Unread' = Unread /\ Awaited' = Awaited
    BY <1>2, <1>4 DEF Unread, Awaited
<1> SUFFICES ASSUME ~overtaken' PROVE ServeInv'
    BY DEF ServeInv
<1>6. Awaited => datasock # k /\ datasock \in Conns
    <2>1. Awaited => datasock # k
        BY DEF ServeInv, k
    <2>2. Awaited => datasock \in Conns
        BY DEF Awaited, Unread, TypeInv, ThreadInv
    <2> QED
        BY <2>1, <2>2
<1>7. \A u \in Conns : th_pc'[u] \in Serving =>
          /\ u # t /\ th_pc[u] \in Serving /\ th_sock'[u] = th_sock[u]
          /\ th_sock[u] \in Conns /\ th_sock[u] # k
    BY <1>2, <1>4 DEF TypeInv, ThreadInv, ServeInv, k
<1>8. \A u \in Conns : th_pc'[u] \in Serving' =>
          file'[th_sock'[u]] # 0 /\ (Awaited' => th_sock'[u] # datasock')
    BY <1>3, <1>4, <1>5, <1>7 DEF ServeInv
<1>9. \A u, v \in Conns :
          th_pc'[u] \in Serving' /\ th_pc'[v] \in Serving'
          /\ th_sock'[u] = th_sock'[v] => u = v
    BY <1>4, <1>7 DEF ServeInv
<1>10. Awaited' => file'[datasock'] # 0
    BY <1>3, <1>5, <1>6 DEF ServeInv
<1>11. ASSUME ~clash', NEW n \in Conns, file'[n] # 0
       PROVE  Served(n)' /\ Entered(n)'
    <2>1. n # k /\ file[n] # 0 /\ connections'[n] = connections[n]
        BY <1>3, <1>11 DEF k
    <2>2. Served(n) /\ Entered(n)
        BY <1>11, <2>1 DEF ServeInv
    <2>3. Entered(n)'
        BY <2>1, <2>2 DEF Entered
    <2>4. CASE n = datasock /\ Awaited
        BY <1>5, <2>3, <2>4 DEF Served
    <2>5. CASE \E u \in Conns : th_pc[u] \in Serving /\ th_sock[u] = n
        <3>1. PICK u \in Conns : th_pc[u] \in Serving /\ th_sock[u] = n
            BY <2>5
        <3>2. u # t
            BY <2>1, <3>1 DEF k
        <3> QED
            BY <1>2, <1>4, <2>3, <3>1, <3>2 DEF Served
    <2> QED
        BY <2>2, <2>4, <2>5 DEF Served
<1>12. /\ \A u, v \in Unread' : u = v
       /\ Unread' # {} => lst_pc' = "accept"
    BY <1>5 DEF ServeInv
<1> HIDE DEF Unread, Serving, Awaited, Served, Entered
<1> QED
    BY <1>8, <1>9, <1>10, <1>11, <1>12 DEF ServeInv

LEMMA ServeFree ==
    ASSUME TypeInv, ServeInv, NEW t \in Conns, ipc_free_thread(t) PROVE ServeInv'
<1>1. th_pc \in [Conns -> ThreadPcs] /\ connections \in [Conns -> Nat]
    BY DEF TypeInv, TypeOK, ThreadPcs
<1>2. CASE FreeBegin(t)
    <2>1. GoesOn
        BY <1>1, <1>2 DEF FreeBegin, GoesOn, Serving, elsewhere, accVars
    <2> QED
        BY <2>1, ServeGoesOn
<1>3. ASSUME FreeFound(t) \/ FreeNone(t) \/ FreeBroken(t)
      PROVE  /\ th_pc[t] = "walk" /\ th_pc[t] \in Serving /\ Ends(t)
             /\ UNCHANGED <<lst_pc, datasock, overtaken, clash>>
             /\ file' \in {file, CloseNumber(th_sock[t])}
    BY <1>3 DEF FreeFound, FreeNone, FreeBroken, Serving, elsewhere, accVars,
                histVars
<1>4. CASE FreeFound(t)
    <2>1. \A n \in Conns : n # th_sock[t] => connections'[n] = connections[n]
        BY <1>1, <1>4 DEF FreeFound
    <2>2. file' = CloseNumber(th_sock[t])
        BY <1>4 DEF FreeFound
    <2> QED
        BY <1>3, <1>4, <2>1, <2>2, ServeEnds
<1>5. CASE FreeNone(t)
    <2>1. ~overtaken => clash
        <3> SUFFICES ASSUME ~overtaken, ~clash PROVE FALSE
            OBVIOUS
        <3>1. connections[th_sock[t]] = 0 /\ th_sock[t] \in Conns
            BY <1>3, <1>5 DEF FreeNone, TypeInv, ThreadInv
        <3>2. file[th_sock[t]] # 0 /\ (Awaited => th_sock[t] # datasock)
            BY <1>3, <1>5 DEF ServeInv
        <3>3. Entered(th_sock[t])
            BY <3>1, <3>2 DEF ServeInv
        <3> QED
            BY <3>1, <3>2, <3>3 DEF Entered, Awaited
    <2> QED
        BY <1>3, <1>5, <2>1, ServeEnds
<1>6. CASE FreeBroken(t)
    <2>1. clash
        BY <1>6 DEF FreeBroken
    <2> QED
        BY <1>3, <1>6, <2>1, ServeEnds
<1> QED
    BY <1>2, <1>4, <1>5, <1>6 DEF ipc_free_thread

LEMMA ServeThread ==
    ASSUME TypeInv, ServeInv, NEW t \in Conns, Thread(t) PROVE ServeInv'
<1>0. th_pc \in [Conns -> ThreadPcs]
    BY DEF TypeInv, TypeOK, ThreadPcs
<1>1. CASE ThreadStart(t)
    BY <1>1, ServeStart
<1>2. CASE ipc_free_thread(t)
    BY <1>2, ServeFree
<1>3. CASE ReadRequest(t)
    <2>1. /\ \A u \in Conns \ {t} : th_pc'[u] = th_pc[u]
          /\ th_pc[t] = "reading"
          /\ th_pc'[t] \in {"free", "reading", "serve", "fail", "more"}
        BY <1>0, <1>3 DEF ReadRequest, ReadFrom
    <2>2. UNCHANGED <<file, connections, lst_pc, datasock, overtaken, clash,
                      th_sock>>
        BY <1>3 DEF ReadRequest, accVars
    <2>3. GoesOn
        BY <2>1, <2>2 DEF GoesOn, Serving
    <2> QED
        BY <2>3, ServeGoesOn
<1>4. CASE ReadEof(t) \/ ReadMore(t)
    <2>1. GoesOn
        BY <1>0, <1>4 DEF ReadEof, ReadMore, GoesOn, Serving, elsewhere,
                          accVars, histVars
    <2> QED
        BY <2>1, ServeGoesOn
<1>5. CASE FdLoad(t)
    <2>1. GoesOn
        BY <1>0, <1>5 DEF FdLoad, GoesOn, Serving, elsewhere, accVars
    <2> QED
        BY <2>1, ServeGoesOn
<1>6. CASE FdStore(t)
    <2>1. GoesOn
        BY <1>0, <1>6 DEF FdStore, GoesOn, Serving, elsewhere, accVars, histVars
    <2> QED
        BY <2>1, ServeGoesOn
<1>7. CASE PlainCall(t) \/ _close(t) \/ Enqueue(t) \/ CreateFails(t)
    <2>1. /\ th_pc[t] \in {"serve", "made"} /\ UNCHANGED histVars
          /\ \E rc : Answer(t, rc)
        BY <1>7 DEF PlainCall, _close, Enqueue, CreateFails
    <2>2. PICK rc : Answer(t, rc)
        BY <2>1
    <2>3. GoesOn
        BY <1>0, <2>1, <2>2 DEF Answer, ReadFrom, GoesOn, Serving, accVars, histVars
    <2> QED
        BY <2>3, ServeGoesOn
<1>8. CASE Fail(t)
    <2>1. /\ th_pc[t] \in Serving /\ Ends(t) /\ file' = CloseNumber(th_sock[t])
          /\ UNCHANGED <<connections, lst_pc, datasock, overtaken, clash>>
        BY <1>8 DEF Fail, Serving, elsewhere, accVars, histVars
    <2> QED
        BY <2>1, ServeEnds
<1> QED
    BY <1>1, <1>2, <1>3, <1>4, <1>5, <1>6, <1>7, <1>8 DEF Thread

LEMMA ServeInit == Init => ServeInv
<1> SUFFICES ASSUME Init PROVE ServeInv
    OBVIOUS
<1>1. \A t \in Conns : th_pc[t] \notin Serving /\ th_pc[t] # "start"
    BY DEF Init, Serving
<1>2. lst_pc = "accept" /\ \A n \in Conns : file[n] = 0
    BY DEF Init
<1>3. Unread = {} /\ ~Awaited
    BY <1>1, <1>2 DEF Unread, Awaited
<1> QED
    BY <1>1, <1>2, <1>3 DEF ServeInv

LEMMA ServeNext == TypeInv /\ ServeInv /\ [Next]_vars => ServeInv'
<1> SUFFICES ASSUME TypeInv, ServeInv, [Next]_vars PROVE ServeInv'
    OBVIOUS
<1>1. ASSUME NEW p \in Procs, Client(p) PROVE ServeInv'
    <2>1. UNCHANGED serverVars
        BY <1>1 DEF Client, lvl_socket, lvl_call, Exit, GetResponse, HungUp
    <2>2. GoesOn
        BY <2>1 DEF GoesOn, serverVars, thVars, histVars
    <2> QED
        BY <2>2, ServeGoesOn
<1>2. CASE Listener
    BY <1>2, ServeAccept, ServeAlloc DEF Listener
<1>3. ASSUME NEW t \in Conns, Thread(t) PROVE ServeInv'
    BY <1>3, ServeThread
<1>4. CASE UNCHANGED vars \/ BrokenList
    <2>1. GoesOn
        BY <1>4 DEF GoesOn, BrokenList, vars, thVars, histVars, accVars
    <2> QED
        BY <2>1, ServeGoesOn
<1> QED
    BY <1>1, <1>2, <1>3, <1>4 DEF Next

(* Unless the listener accepted a connection before the thread of the one  *)
(* before had read datasock, no two threads serve one descriptor and none  *)
(* serves a closed one; and unless two threads were in ipc_free_thread at  *)
(* a time, every open descriptor has its own thread or is about to get it  *)
(* (start_ipc_listener, socket_ipc_open, ipc_free_thread).                 *)
THEOREM EachServed == Spec => []ThreadPerConnection
<1>1. TypeInv /\ ServeInv => ThreadPerConnection
    BY DEF ServeInv, ThreadPerConnection, Served, Awaited
<1> QED
    BY <1>1, TypeInit, TypeNext, ServeInit, ServeNext, PTL DEF Spec
-----------------------------------------------------------------------------
(* The ends of a connection: what was never opened is empty, what the      *)
(* server holds was opened, it holds no connection twice, and what the     *)
(* library uses is its own.  Requests carry the process id of the opener.  *)
NetInv ==
    /\ \A c \in Conns : c > Len(owner) => req[c] = << >> /\ resp[c] = << >>
    /\ \A k \in 1..Len(backlog) : backlog[k] \in 1..Len(owner)
    /\ \A j, k \in 1..Len(backlog) : backlog[j] = backlog[k] => j = k
    /\ \A n \in Conns : file[n] # 0 =>
           /\ file[n] \in 1..Len(owner)
           /\ \A k \in 1..Len(backlog) : backlog[k] # file[n]
    /\ \A n, m \in Conns : file[n] # 0 /\ file[n] = file[m] => n = m
    /\ \A p \in Procs :
           /\ \A k \in lib[p] : k.conn \in 1..Len(owner) /\ owner[k.conn] = p
           /\ app_pc[p] = "wait" =>
                  lvlfd[p] \in 1..Len(owner) /\ owner[lvlfd[p]] = p
    /\ \A c \in 1..Len(owner) : \A k \in 1..Len(req[c]) :
           req[c][k].pid = owner[c]

(* A thread reads from the connection its descriptor stands for, and       *)
(* executes a call of the application that opened it; or what it takes for *)
(* a call is the end of a write, and the one that opened the connection    *)
(* and the one the call names are misled.                                  *)
ReadOK(t) ==
    /\ th_pc[t] \in Numbered => Msg(t).op \in {"SOCKET", "ACCEPT"}
    /\ ~overtaken =>
           /\ th_pc[t] \in {"reading", "more"} => th_conn[t] = file[th_sock[t]]
           /\ th_pc[t] \in Executing =>
                  \/ Msg(t).pid = owner[file[th_sock[t]]]
                  \/ {owner[file[th_sock[t]]], Msg(t).pid} \subseteq misled

ReadInv == \A t \in Conns : ReadOK(t)

(* The threads that execute a call that came over the connection.          *)
ExecutesFor(t, c) == th_pc[t] \in Executing /\ file[th_sock[t]] = c

Unserved(c) == \A t \in Conns : ~ExecutesFor(t, c)

(* Nothing is under way over the connection that could become an answer.   *)
(* A connection the server does not hold any more is never read again.     *)
Quiet(c) ==
    /\ Held(c) => \A k \in 1..Len(req[c]) : req[c][k].op = "tail"
    /\ Unserved(c)
    /\ resp[c] = << >>

(* The application waits for the answer to its call: the call is in the    *)
(* stream, or executed, or answered, or lost.                              *)
Pending(c) ==
    LET p == owner[c]
    IN  /\ app_pc[p] = "wait" /\ lvlfd[p] = c
        /\ Held(c) => \A k \in 1..Len(req[c]) : req[c][k].op # "tail" =>
               /\ k = Len(req[c]) /\ req[c][k] = call[p]
               /\ resp[c] = << >> /\ Unserved(c)
        /\ \A t \in Conns : ExecutesFor(t, c) =>
               Msg(t) = call[p] /\ resp[c] = << >>
        /\ resp[c] # << >> =>
               /\ Len(resp[c]) = 1
               /\ SameCall(resp[c][1], call[p]) /\ resp[c][1].fd = call[p].fd

CallOK(c) == app_pc[owner[c]] = "dead" \/ Quiet(c) \/ Pending(c)

CallInv ==
    ~overtaken => \A c \in 1..Len(owner) : owner[c] \notin misled => CallOK(c)

(* What the library will know when it has read the answer that waits.      *)
Expected(p) ==
    IF app_pc[p] = "wait" /\ resp[lvlfd[p]] # << >>
    THEN LibAfter(p, Head(resp[lvlfd[p]])) ELSE lib[p]

Listed(p) == {fd \in Fds : sockets[<<p, fd>>] > 0}

AgreeOK(p) == app_pc[p] # "dead" => {k.fd : k \in Expected(p)} = Listed(p)

AgreeInv ==
    ~fdrace /\ ~overtaken => \A p \in Procs : p \notin misled => AgreeOK(p)

-----------------------------------------------------------------------------
LEMMA NetTyped ==
    ASSUME TypeInv
    PROVE  /\ owner \in Seq(Procs) /\ Len(owner) \in Nat /\ Len(owner) <= MaxConns
           /\ backlog \in Seq(Conns) /\ Len(backlog) \in Nat
           /\ file \in [Conns -> 0..MaxConns]
           /\ req \in [Conns -> Seq(Request)] /\ resp \in [Conns -> Seq(Response)]
           /\ app_pc \in [Procs -> {"idle", "wait", "dead"}]
           /\ lvlfd \in [Procs -> 0..MaxConns] /\ call \in [Procs -> Request]
           /\ lib \in [Procs -> SUBSET [fd : Fds, conn : Conns]]
           /\ \A c \in 1..Len(owner) : c \in Conns /\ c # 0 /\ owner[c] \in Procs
           /\ 1..Len(owner) \subseteq Conns
<1>1. /\ owner \in Seq(Procs) /\ Len(owner) <= MaxConns /\ backlog \in Seq(Conns)
      /\ file \in [Conns -> 0..MaxConns]
      /\ req \in [Conns -> Seq(Request)] /\ resp \in [Conns -> Seq(Response)]
      /\ app_pc \in [Procs -> {"idle", "wait", "dead"}]
      /\ lvlfd \in [Procs -> 0..MaxConns] /\ call \in [Procs -> Request]
      /\ lib \in [Procs -> SUBSET [fd : Fds, conn : Conns]]
    BY DEF TypeInv, TypeOK
<1>2. Len(owner) \in Nat /\ Len(backlog) \in Nat
      /\ \A c \in 1..Len(owner) : owner[c] \in Procs
    BY <1>1
<1>3. \A c \in 1..Len(owner) : c \in Conns /\ c # 0
    BY <1>1, <1>2, IpcAssumption DEF Conns
<1> QED
    BY <1>1, <1>2, <1>3

LEMMA NetInit == Init => NetInv /\ ReadInv /\ CallInv /\ AgreeInv
<1> SUFFICES ASSUME Init PROVE NetInv /\ ReadInv /\ CallInv /\ AgreeInv
    OBVIOUS
<1>1. /\ Len(owner) = 0 /\ Len(backlog) = 0
      /\ \A c \in Conns : req[c] = << >> /\ resp[c] = << >> /\ file[c] = 0
      /\ \A p \in Procs : lib[p] = {} /\ app_pc[p] = "idle"
      /\ \A t \in Conns : th_pc[t] = "none"
      /\ \A s \in Socket : sockets[s] = 0
    BY DEF Init
<1>2. NetInv
    BY <1>1 DEF NetInv
<1>3. ReadInv
    BY <1>1 DEF ReadInv, ReadOK, Executing, Numbered
<1>4. CallInv
    BY <1>1 DEF CallInv
<1>5. \A p \in Procs, fd \in Fds : <<p, fd>> \in Socket
    BY DEF Socket
<1>6. AgreeInv
    BY <1>1, <1>5 DEF AgreeInv, AgreeOK, Listed, Expected
<1> QED
    BY <1>2, <1>3, <1>4, <1>6

-----------------------------------------------------------------------------
(* A call of the library goes out over a connection of its own, which is   *)
(* an old one or the next.                                                 *)
LEMMA NetSend ==
    ASSUME TypeInv, NetInv, NEW p \in Procs, NEW c \in Conns, NEW m \in Request,
           Transmit(p, c, m), m.pid = p,
           UNCHANGED <<lib, resp, file>>,
           \/ UNCHANGED <<owner, backlog>> /\ c \in 1..Len(owner) /\ owner[c] = p
           \/ /\ c = Len(owner) + 1
              /\ owner' = Append(owner, p) /\ backlog' = Append(backlog, c)
    PROVE  NetInv'
<1>1. /\ owner \in Seq(Procs) /\ Len(owner) \in Nat /\ Len(owner) <= MaxConns
      /\ backlog \in Seq(Conns) /\ Len(backlog) \in Nat
      /\ file \in [Conns -> 0..MaxConns]
      /\ req \in [Conns -> Seq(Request)]
      /\ app_pc \in [Procs -> {"idle", "wait", "dead"}]
      /\ lvlfd \in [Procs -> 0..MaxConns]
      /\ \A d \in 1..Len(owner) : d \in Conns
    BY NetTyped
<1>2. /\ req' = [req EXCEPT ![c] = Append(req[c], m)]
      /\ app_pc' = [app_pc EXCEPT ![p] = "wait"]
      /\ lvlfd' = [lvlfd EXCEPT ![p] = c]
      /\ lib' = lib /\ resp' = resp /\ file' = file
    BY DEF Transmit
<1>3. /\ Len(owner') \in Nat /\ Len(owner') >= Len(owner)
      /\ \A d \in 1..Len(owner) : d \in 1..Len(owner') /\ owner'[d] = owner[d]
      /\ c \in 1..Len(owner') /\ owner'[c] = p
      /\ \A d \in 1..Len(owner') : d \in 1..Len(owner) \/ d = c
    <2>1. CASE owner' = owner /\ c \in 1..Len(owner) /\ owner[c] = p
        BY <1>1, <2>1
    <2>2. CASE c = Len(owner) + 1 /\ owner' = Append(owner, p)
        BY <1>1, <2>2
    <2> QED
        BY <2>1, <2>2
<1>4. \A d \in Conns : d > Len(owner') =>
          d > Len(owner) /\ d # c /\ d \in Int
    BY <1>1, <1>3 DEF Conns
<1>5. \A d \in Conns : d > Len(owner') => req'[d] = << >> /\ resp'[d] = << >>
    BY <1>1, <1>2, <1>4 DEF NetInv
<1>6. /\ \A k \in 1..Len(backlog') : backlog'[k] \in 1..Len(owner')
      /\ \A j, k \in 1..Len(backlog') : backlog'[j] = backlog'[k] => j = k
      /\ \A n \in Conns : file[n] # 0 =>
             /\ file[n] \in 1..Len(owner')
             /\ \A k \in 1..Len(backlog') : backlog'[k] # file[n]
    <2>1. /\ \A k \in 1..Len(backlog) : backlog[k] \in 1..Len(owner)
          /\ \A j, k \in 1..Len(backlog) : backlog[j] = backlog[k] => j = k
          /\ \A n \in Conns : file[n] # 0 =>
                 /\ file[n] \in 1..Len(owner)
                 /\ \A k \in 1..Len(backlog) : backlog[k] # file[n]
        BY DEF NetInv
    <2>2. CASE owner' = owner /\ backlog' = backlog
        BY <2>1, <2>2
    <2>3. CASE c = Len(owner) + 1 /\ backlog' = Append(backlog, c)
        <3>1. /\ Len(backlog') = Len(backlog) + 1 /\ backlog'[Len(backlog) + 1] = c
              /\ \A k \in 1..Len(backlog) : backlog'[k] = backlog[k]
            BY <1>1, <2>3
        <3>2. c \notin 1..Len(owner)
            BY <1>1, <2>3
        <3>3. \A k \in 1..Len(backlog') : k \in 1..Len(backlog) \/ k = Len(backlog) + 1
            BY <1>1, <3>1
        <3> DEFINE L == Len(backlog)
                   N == Len(owner)
        <3>4. \A k \in 1..Len(backlog') :
                  \/ k \in 1..L /\ backlog'[k] = backlog[k] /\ backlog[k] \in 1..N
                  \/ k = L + 1 /\ backlog'[k] = c
            BY <2>1, <3>1, <3>3
        <3>5. /\ \A d \in 1..N : d \in 1..Len(owner') /\ d # c
              /\ c \in 1..Len(owner')
              /\ \A j, k \in 1..L : backlog[j] = backlog[k] => j = k
              /\ \A n \in Conns : file[n] # 0 =>
                     file[n] \in 1..N /\ \A k \in 1..L : backlog[k] # file[n]
            BY <1>3, <2>1, <3>2
        <3> HIDE DEF L, N
        <3>6. \A k \in 1..Len(backlog') : backlog'[k] \in 1..Len(owner')
            BY <3>4, <3>5
        <3>7. \A j, k \in 1..Len(backlog') : backlog'[j] = backlog'[k] => j = k
            BY <3>4, <3>5
        <3>8. \A n \in Conns : file[n] # 0 =>
                  /\ file[n] \in 1..Len(owner')
                  /\ \A k \in 1..Len(backlog') : backlog'[k] # file[n]
            BY <3>4, <3>5
        <3> QED
            BY <3>6, <3>7, <3>8
    <2> QED
        BY <2>2, <2>3
<1>7. ASSUME NEW q \in Procs
      PROVE  /\ \A k \in lib[q] : k.conn \in 1..Len(owner') /\ owner'[k.conn] = q
             /\ app_pc'[q] = "wait" =>
                    lvlfd'[q] \in 1..Len(owner') /\ owner'[lvlfd'[q]] = q
    BY <1>1, <1>2, <1>3 DEF NetInv
<1>8. ASSUME NEW d \in 1..Len(owner'), NEW k \in 1..Len(req'[d])
      PROVE  req'[d][k].pid = owner'[d]
    <2>1. CASE d = c
        <3>1. req'[c] = Append(req[c], m) /\ req[c] \in Seq(Request)
            BY <1>1, <1>2
        <3>2. (k \in 1..Len(req[c]) /\ req'[c][k] = req[c][k]) \/ req'[c][k] = m
            BY <2>1, <3>1
        <3>3. k \in 1..Len(req[c]) => c \in 1..Len(owner)
            <4>1. c > Len(owner) => req[c] = << >>
                BY DEF NetInv
            <4>2. c \in 1..Len(owner) \/ c > Len(owner)
                BY <1>1 DEF Conns
            <4> QED
                BY <4>1, <4>2
        <3>4. k \in 1..Len(req[c]) => req[c][k].pid = owner[c]
            BY <3>3 DEF NetInv
        <3> QED
            BY <1>3, <2>1, <3>2, <3>3, <3>4
    <2>2. CASE d # c
        <3>1. d \in 1..Len(owner) /\ req'[d] = req[d] /\ owner'[d] = owner[d]
            BY <1>1, <1>2, <1>3, <2>2
        <3> QED
            BY <3>1 DEF NetInv
    <2> QED
        BY <2>1, <2>2
<1> HIDE DEF NetInv
<1>9. \A n, k \in Conns : file[n] # 0 /\ file[n] = file[k] => n = k
    BY DEF NetInv
<1> QED
    BY <1>2, <1>5, <1>6, <1>7, <1>8, <1>9 DEF NetInv

LEMMA NetClient ==
    ASSUME TypeInv, NetInv, NEW p \in Procs, Client(p) PROVE NetInv'
<1>0. /\ owner \in Seq(Procs) /\ Len(owner) \in Nat /\ Len(owner) <= MaxConns
      /\ resp \in [Conns -> Seq(Response)]
      /\ app_pc \in [Procs -> {"idle", "wait", "dead"}]
      /\ lvlfd \in [Procs -> 0..MaxConns]
      /\ lib \in [Procs -> SUBSET [fd : Fds, conn : Conns]]
      /\ \A d \in 1..Len(owner) : d \in Conns /\ d # 0
    BY NetTyped
<1>1. CASE lvl_socket(p)
    <2> DEFINE c == Len(owner) + 1
               m == [op |-> "SOCKET", pid |-> p, fd |-> 0,
                    size |-> 1, more |-> FALSE]
    <2>1. m \in Request /\ m.pid = p
        BY DEF Request, Ops
    <2>2. /\ c \in Conns /\ Transmit(p, c, m) /\ owner' = Append(owner, p)
          /\ backlog' = Append(backlog, c) /\ UNCHANGED <<lib, resp, file>>
        BY <1>1 DEF lvl_socket, serverVars
    <2> HIDE DEF m
    <2> QED
        BY <2>1, <2>2, NetSend
<1>2. ASSUME NEW k \in Calls[p], NEW fd \in Fds, lvl_call(p, k, fd)
      PROVE  NetInv'
    <2> DEFINE m == [op |-> k[1], pid |-> p, fd |-> fd,
                    size |-> k[2], more |-> k[3]]
    <2>1. m \in Request /\ m.pid = p
        BY IpcAssumption DEF Request, Ops
    <2>2. PICK j \in lib[p] : Transmit(p, j.conn, m)
        BY <1>2 DEF lvl_call, lvlip_get_sock
    <2>3. UNCHANGED <<lib, owner, backlog, resp, file>>
        BY <1>2 DEF lvl_call, serverVars
    <2>4. j.conn \in Conns /\ j.conn \in 1..Len(owner) /\ owner[j.conn] = p
        BY <1>0 DEF NetInv
    <2> HIDE DEF m
    <2> QED
        BY <2>1, <2>2, <2>3, <2>4, NetSend
<1>3. ASSUME UNCHANGED <<owner, backlog, req, file>>,
             \A c \in Conns : resp[c] = << >> => resp'[c] = << >>,
             \A q \in Procs :
                 /\ \A k \in lib'[q] : \/ k \in lib[q]
                                       \/ q = p /\ k.conn = lvlfd[p]
                                          /\ app_pc[p] = "wait"
                 /\ app_pc'[q] = "wait" =>
                        app_pc[q] = "wait" /\ lvlfd'[q] = lvlfd[q]
      PROVE  NetInv'
    <2>1. \A c \in Conns : c > Len(owner) => req[c] = << >> /\ resp'[c] = << >>
        BY <1>3 DEF NetInv
    <2>2. ASSUME NEW q \in Procs
          PROVE  /\ \A k \in lib'[q] : k.conn \in 1..Len(owner) /\ owner[k.conn] = q
                 /\ app_pc'[q] = "wait" =>
                        lvlfd'[q] \in 1..Len(owner) /\ owner[lvlfd'[q]] = q
        BY <1>3 DEF NetInv
    <2> QED
        BY <1>3, <2>1, <2>2 DEF NetInv
<1>4. CASE Exit(p)
    <2>1. \A c \in Conns : resp[c] = << >> => resp'[c] = << >>
        BY <1>4 DEF Exit, netVars
    <2>2. ASSUME NEW q \in Procs
          PROVE  /\ lib'[q] \subseteq lib[q]
                 /\ app_pc'[q] = "wait" =>
                        app_pc[q] = "wait" /\ lvlfd'[q] = lvlfd[q]
        BY <1>0, <1>4 DEF Exit
    <2> QED
        BY <1>3, <1>4, <2>1, <2>2 DEF Exit, netVars, serverVars
<1>5. CASE GetResponse(p)
    <2>1. \A c \in Conns : resp[c] = << >> => resp'[c] = << >>
        <3>1. resp[lvlfd[p]] # << >>
            BY <1>5 DEF GetResponse
        <3>2. \E s : resp' = [resp EXCEPT ![lvlfd[p]] = s]
            BY <1>5 DEF GetResponse
        <3> QED
            BY <1>0, <3>1, <3>2
    <2> DEFINE r == Head(resp[lvlfd[p]])
    <2>2. \A k \in LibAfter(p, r) : k \in lib[p] \/ k.conn = lvlfd[p]
        BY DEF LibAfter
    <2>3. /\ lib' = [lib EXCEPT ![p] = IF SameCall(r, call[p])
                                       THEN LibAfter(p, r) ELSE lib[p]]
          /\ app_pc[p] = "wait"
        BY <1>5 DEF GetResponse
    <2> HIDE DEF r
    <2>4. ASSUME NEW q \in Procs
          PROVE  \A k \in lib'[q] : \/ k \in lib[q]
                                    \/ q = p /\ k.conn = lvlfd[p]
                                       /\ app_pc[p] = "wait"
        <3>1. q # p => lib'[q] = lib[q]
            BY <1>0, <2>3
        <3>2. lib'[p] = LibAfter(p, r) \/ lib'[p] = lib[p]
            BY <1>0, <2>3
        <3> QED
            BY <2>2, <2>3, <3>1, <3>2
    <2>5. ASSUME NEW q \in Procs
          PROVE  app_pc'[q] = "wait" =>
                        app_pc[q] = "wait" /\ lvlfd'[q] = lvlfd[q]
        BY <1>0, <1>5 DEF GetResponse, Returns
    <2>6. UNCHANGED <<owner, backlog, req, file>>
        BY <1>5 DEF GetResponse, serverVars
    <2> QED
        BY <1>3, <2>1, <2>4, <2>5, <2>6
<1>6. CASE HungUp(p)
    <2>1. ASSUME NEW q \in Procs
          PROVE  app_pc'[q] = "wait" =>
                        app_pc[q] = "wait" /\ lvlfd'[q] = lvlfd[q]
        BY <1>0, <1>6 DEF HungUp, Returns
    <2> QED
        BY <1>3, <1>6, <2>1 DEF HungUp, netVars, serverVars
<1> QED
    BY <1>1, <1>2, <1>4, <1>5, <1>6 DEF Client

LEMMA NetAccept == ASSUME TypeInv, NetInv, ListenerAccept PROVE NetInv'
<1> DEFINE h == Head(backlog)
           L == Len(backlog)
<1>1. PICK n \in Conns : file[n] = 0 /\ file' = [file EXCEPT ![n] = h]
    BY DEF ListenerAccept, FreeNumber
<1>2. /\ backlog # << >> /\ backlog' = Tail(backlog)
      /\ UNCHANGED <<owner, req, resp, lib, app_pc, lvlfd>>
    BY DEF ListenerAccept, clientVars, netVars
<1>3. /\ backlog \in Seq(Conns) /\ file \in [Conns -> 0..MaxConns]
      /\ \A d \in 1..Len(owner) : d \in Conns /\ d # 0
    BY NetTyped
<1>4. /\ L \in Nat /\ L >= 1 /\ h = backlog[1] /\ 1 \in 1..L
      /\ Len(backlog') = L - 1
      /\ \A i \in 1..(L - 1) : backlog'[i] = backlog[i + 1]
    BY <1>2, <1>3
<1>5. \A i \in 1..Len(backlog') : /\ i + 1 \in 1..L /\ i + 1 # 1 /\ i \in Int
                                  /\ backlog'[i] = backlog[i + 1]
    BY <1>4
<1>6. /\ \A k \in 1..L : backlog[k] \in 1..Len(owner)
      /\ \A j, k \in 1..L : backlog[j] = backlog[k] => j = k
      /\ \A k \in Conns : file[k] # 0 =>
             /\ file[k] \in 1..Len(owner)
             /\ \A i \in 1..L : backlog[i] # file[k]
      /\ \A i, k \in Conns : file[i] # 0 /\ file[i] = file[k] => i = k
    BY DEF NetInv
<1>7. file'[n] = h /\ \A k \in Conns : k # n => file'[k] = file[k]
    BY <1>1, <1>3
<1> HIDE DEF h, L
<1>8. /\ h \in 1..Len(owner) /\ h # 0
      /\ \A i \in 1..Len(backlog') : backlog'[i] # h
      /\ \A k \in Conns : file[k] # 0 => file[k] # h
    <2>1. h \in 1..Len(owner) /\ h # 0
        BY <1>3, <1>4, <1>6
    <2>2. \A k \in Conns : file[k] # 0 => file[k] # h
        BY <1>4, <1>6
    <2>3. ASSUME NEW i \in 1..Len(backlog') PROVE backlog'[i] # h
        BY <1>4, <1>5, <1>6
    <2> QED
        BY <2>1, <2>2, <2>3
<1>9. /\ \A k \in 1..Len(backlog') : backlog'[k] \in 1..Len(owner)
      /\ \A j, k \in 1..Len(backlog') : backlog'[j] = backlog'[k] => j = k
    <2>1. \A k \in 1..Len(backlog') : backlog'[k] \in 1..Len(owner)
        BY <1>5, <1>6
    <2>2. ASSUME NEW j \in 1..Len(backlog'), NEW k \in 1..Len(backlog'),
                 backlog'[j] = backlog'[k]
          PROVE  j = k
        <3>1. j + 1 = k + 1
            BY <1>5, <1>6, <2>2
        <3> QED
            BY <1>5, <3>1
    <2> QED
        BY <2>1, <2>2
<1>10. ASSUME NEW k \in Conns, file'[k] # 0
       PROVE  /\ file'[k] \in 1..Len(owner)
              /\ \A i \in 1..Len(backlog') : backlog'[i] # file'[k]
    <2>1. CASE k = n
        BY <1>7, <1>8, <2>1
    <2>2. CASE k # n
        BY <1>5, <1>6, <1>7, <1>10, <2>2
    <2> QED
        BY <2>1, <2>2
<1>11. ASSUME NEW i \in Conns, NEW k \in Conns, file'[i] # 0, file'[i] = file'[k]
       PROVE  i = k
    BY <1>6, <1>7, <1>8, <1>11
<1>12. ASSUME NEW c \in Conns, c > Len(owner)
       PROVE  req[c] = << >> /\ resp[c] = << >>
    BY <1>12 DEF NetInv
<1>13. ASSUME NEW q \in Procs
       PROVE  /\ \A k \in lib[q] : k.conn \in 1..Len(owner) /\ owner[k.conn] = q
              /\ app_pc[q] = "wait" =>
                     lvlfd[q] \in 1..Len(owner) /\ owner[lvlfd[q]] = q
    BY DEF NetInv
<1>14. \A c \in 1..Len(owner) : \A k \in 1..Len(req[c]) :
           req[c][k].pid = owner[c]
    BY DEF NetInv
<1> QED
    BY <1>2, <1>9, <1>10, <1>11, <1>12, <1>13, <1>14 DEF NetInv

LEMMA NetListener == ASSUME TypeInv, NetInv, Listener PROVE NetInv'
<1>1. CASE ListenerAlloc
    BY <1>1 DEF ListenerAlloc, NetInv, clientVars, netVars
<1> QED
    BY <1>1, NetAccept DEF Listener

(* Any rest of a stream is made of its messages, or of their ends.         *)
LEMMA LeavesPid ==
    ASSUME TypeInv, NetInv, NEW c \in Conns, NEW r, Leaves(req[c], r)
    PROVE  /\ r \in Seq(Request)
           /\ req[c] = << >> => r = << >>
           /\ c \in 1..Len(owner) => \A k \in 1..Len(r) : r[k].pid = owner[c]
<1> DEFINE q == req[c]
<1>1. q \in Seq(Request) /\ Len(q) \in Nat
    BY NetTyped
<1>2. c \in 1..Len(owner) => \A k \in 1..Len(q) : q[k].pid = owner[c]
    BY DEF NetInv
<1>3. q = << >> => Len(q) = 0
    OBVIOUS
<1> HIDE DEF q
<1>4. /\ r \in Seq(Request)
      /\ \E d \in 0..Len(q) :
             /\ Len(r) = Len(q) - d
             /\ \A k \in 1..Len(r) :
                  \/ d + k >= 2 /\ r[k] = q[d + k]
                  \/ r[k].op = "tail" /\ r[k].pid = q[d + k].pid
    BY DEF Leaves, q
<1>5. PICK d \in 0..Len(q) :
          /\ Len(r) = Len(q) - d
          /\ \A k \in 1..Len(r) :
               \/ d + k >= 2 /\ r[k] = q[d + k]
               \/ r[k].op = "tail" /\ r[k].pid = q[d + k].pid
    BY <1>4
<1>6. \A k \in 1..Len(r) : d + k \in 1..Len(q)
    BY <1>1, <1>4, <1>5
<1>7. ASSUME c \in 1..Len(owner), NEW k \in 1..Len(r)
      PROVE  r[k].pid = owner[c]
    <2>1. q[d + k].pid = owner[c]
        BY <1>2, <1>6, <1>7
    <2>2. r[k] = q[d + k] \/ r[k].pid = q[d + k].pid
        BY <1>5
    <2> QED
        BY <2>1, <2>2
<1>8. q = << >> => r = << >>
    BY <1>1, <1>3, <1>4, <1>5
<1> QED
    BY <1>4, <1>7, <1>8 DEF q

(* A thread closes descriptors, and shortens a stream it has read from;    *)
(* it writes only to the connection its descriptor stands for.             *)
LEMMA NetThread ==
    ASSUME TypeInv, NetInv, NEW t \in Conns, Thread(t)
    PROVE  NetInv' /\ UNCHANGED <<clientVars, backlog>>
<1>0. /\ req \in [Conns -> Seq(Request)] /\ resp \in [Conns -> Seq(Response)]
      /\ file \in [Conns -> 0..MaxConns] /\ Len(owner) \in Nat
      /\ \A d \in 1..Len(owner) : d \in Conns
      /\ \A d \in Conns : d \in Nat
    BY NetTyped, ConnFacts
<1>1. ASSUME UNCHANGED <<clientVars, backlog>>,
             \A n \in Conns : file'[n] = file[n] \/ file'[n] = 0,
             \A c \in Conns : /\ c > Len(owner) => resp'[c] = << >>
                              /\ req[c] = << >> => req'[c] = << >>,
             \A c \in 1..Len(owner) : \A k \in 1..Len(req'[c]) :
                 req'[c][k].pid = owner[c]
      PROVE  NetInv'
    <2>1. UNCHANGED <<owner, lib, app_pc, lvlfd, backlog>>
        BY <1>1 DEF clientVars
    <2>2. \A n \in Conns : file'[n] # 0 => file[n] # 0 /\ file'[n] = file[n]
        BY <1>1
    <2>3. ASSUME NEW n \in Conns, file'[n] # 0
          PROVE  /\ file'[n] \in 1..Len(owner)
                 /\ \A k \in 1..Len(backlog) : backlog[k] # file'[n]
        BY <2>2, <2>3 DEF NetInv
    <2>4. ASSUME NEW n \in Conns, NEW m \in Conns, file'[n] # 0,
                 file'[n] = file'[m]
          PROVE  n = m
        BY <2>2, <2>4 DEF NetInv
    <2>5. ASSUME NEW c \in Conns, c > Len(owner)
          PROVE  req'[c] = << >> /\ resp'[c] = << >>
        BY <1>1, <2>5 DEF NetInv
    <2>6. /\ \A k \in 1..Len(backlog) : backlog[k] \in 1..Len(owner)
          /\ \A j, k \in 1..Len(backlog) : backlog[j] = backlog[k] => j = k
          /\ \A p \in Procs :
               /\ \A k \in lib[p] : k.conn \in 1..Len(owner) /\ owner[k.conn] = p
               /\ app_pc[p] = "wait" =>
                      lvlfd[p] \in 1..Len(owner) /\ owner[lvlfd[p]] = p
        BY DEF NetInv
    <2> QED
        BY <1>1, <2>1, <2>3, <2>4, <2>5, <2>6 DEF NetInv
<1>2. /\ \A c \in Conns : c > Len(owner) => resp[c] = << >>
      /\ \A c \in 1..Len(owner) : \A k \in 1..Len(req[c]) :
             req[c][k].pid = owner[c]
    BY DEF NetInv
<1>3. CASE /\ UNCHANGED <<clientVars, backlog, req, resp>>
           /\ \A n \in Conns : file'[n] = file[n] \/ file'[n] = 0
    BY <1>1, <1>2, <1>3 DEF clientVars
<1>4. CASE ThreadStart(t) \/ ReadEof(t) \/ FdLoad(t) \/ FdStore(t)
    <2>1. UNCHANGED <<clientVars, backlog, req, resp, file>>
        BY <1>4 DEF ThreadStart, ReadEof, FdLoad, FdStore, elsewhere, accVars,
                    netVars
    <2> QED
        BY <1>3, <2>1
<1>5. CASE Fail(t) \/ ipc_free_thread(t)
    <2>1. UNCHANGED <<clientVars, backlog, req, resp>>
        BY <1>5 DEF Fail, ipc_free_thread, FreeBegin, FreeFound, FreeNone,
                    FreeBroken, elsewhere, accVars, netVars
    <2>2. file' = file \/ file' = [file EXCEPT ![th_sock[t]] = 0]
        BY <1>5 DEF Fail, ipc_free_thread, FreeBegin, FreeFound, FreeNone,
                    FreeBroken, CloseNumber
    <2>3. \A n \in Conns : file'[n] = file[n] \/ file'[n] = 0
        BY <1>0, <2>2
    <2> QED
        BY <1>3, <2>1, <2>3
<1>6. ASSUME NEW c \in Conns, NEW r, Leaves(req[c], r),
             req' = [req EXCEPT ![c] = r],
             UNCHANGED <<clientVars, backlog, resp, file>>
      PROVE  NetInv'
    <2>1. req'[c] = r /\ \A d \in Conns : d # c => req'[d] = req[d]
        BY <1>0, <1>6
    <2>2. /\ req[c] = << >> => r = << >>
          /\ c \in 1..Len(owner) => \A k \in 1..Len(r) : r[k].pid = owner[c]
        BY <1>6, LeavesPid
    <2>3. \A d \in Conns : /\ d > Len(owner) => resp'[d] = << >>
                           /\ req[d] = << >> => req'[d] = << >>
        BY <1>2, <1>6, <2>1, <2>2
    <2>4. ASSUME NEW d \in 1..Len(owner), NEW k \in 1..Len(req'[d])
          PROVE  req'[d][k].pid = owner[d]
        <3>1. CASE d = c
            BY <2>1, <2>2, <2>4, <3>1
        <3>2. CASE d # c
            <4>1. req'[d] = req[d]
                BY <1>0, <2>1, <3>2
            <4> QED
                BY <1>2, <2>4, <4>1
        <3> QED
            BY <3>1, <3>2
    <2> QED
        BY <1>1, <1>6, <2>3, <2>4
<1>7. CASE ReadRequest(t)
    <2>1. /\ th_conn[t] \in Conns /\ req[th_conn[t]] # << >>
          /\ req[th_conn[t]] \in Seq(Request)
        BY <1>0, <1>7 DEF TypeInv, ThreadInv, ReadRequest
    <2>2. PICK r \in LeftInStream(req[th_conn[t]]) :
              req' = [req EXCEPT ![th_conn[t]] = r]
        BY <1>7 DEF ReadRequest
    <2>3. UNCHANGED <<clientVars, backlog, resp, file>>
        BY <1>7 DEF ReadRequest, accVars
    <2>4. Leaves(req[th_conn[t]], r)
        BY <2>1, LeftLeaves
    <2> QED
        BY <1>6, <2>1, <2>2, <2>3, <2>4 DEF clientVars
<1>8. CASE ReadMore(t)
    <2>1. th_conn[t] \in Conns /\ req[th_conn[t]] \in Seq(Request)
        BY <1>0, <1>8 DEF TypeInv, ThreadInv, ReadMore
    <2>2. UNCHANGED <<clientVars, backlog, resp, file>>
        BY <1>8 DEF ReadMore, elsewhere, accVars
    <2>3. CASE req' = req
        BY <1>3, <2>2, <2>3
    <2>4. CASE /\ req[th_conn[t]] # << >>
               /\ \E r \in LeftByMore(th_msg[t][1], req[th_conn[t]]) :
                      req' = [req EXCEPT ![th_conn[t]] = r]
        <3>1. PICK r \in LeftByMore(th_msg[t][1], req[th_conn[t]]) :
                  req' = [req EXCEPT ![th_conn[t]] = r]
            BY <2>4
        <3>2. Leaves(req[th_conn[t]], r)
            BY <2>1, <2>4, MoreLeaves
        <3> QED
            BY <1>6, <2>1, <2>2, <3>1, <3>2 DEF clientVars
    <2> QED
        BY <1>8, <2>3, <2>4 DEF ReadMore
<1>9. CASE th_pc[t] \in {"serve", "made"} /\ \E rc : Answer(t, rc)
    <2>1. PICK rc : Answer(t, rc)
        BY <1>9
    <2> DEFINE c == file[th_sock[t]]
    <2>2. /\ UNCHANGED <<clientVars, backlog, req, file>>
          /\ \/ resp' = resp
             \/ c # 0 /\ \E r : resp' = [resp EXCEPT ![c] = r]
        BY <2>1 DEF Answer, accVars
    <2>3. th_sock[t] \in Conns /\ c # 0 => c \in 1..Len(owner)
        BY DEF NetInv
    <2>a. th_sock[t] \in Conns
        BY <1>9 DEF TypeInv, ThreadInv, Serving
    <2>4. \A d \in Conns : d > Len(owner) => resp'[d] = << >>
        <3>1. \A d \in Conns : d > Len(owner) => d \notin 1..Len(owner)
            BY <1>0
        <3> HIDE DEF c
        <3> QED
            BY <1>0, <1>2, <2>2, <2>3, <2>a, <3>1
    <2> QED
        BY <1>1, <1>2, <2>2, <2>4 DEF clientVars
<1>10. CASE PlainCall(t) \/ _close(t) \/ Enqueue(t) \/ CreateFails(t)
    BY <1>9, <1>10 DEF PlainCall, _close, Enqueue, CreateFails
<1>11. UNCHANGED <<clientVars, backlog>>
    BY DEF Thread, ThreadStart, ReadRequest, ReadMore, ReadEof, Fail,
           ipc_free_thread, FreeBegin, FreeFound, FreeNone, FreeBroken, PlainCall,
           _close, FdLoad, FdStore, Enqueue, CreateFails, Answer, elsewhere, accVars
<1> QED
    BY <1>4, <1>5, <1>7, <1>8, <1>10, <1>11 DEF Thread

LEMMA NetNext == TypeInv /\ NetInv /\ [Next]_vars => NetInv'
<1> SUFFICES ASSUME TypeInv, NetInv, [Next]_vars PROVE NetInv'
    OBVIOUS
<1>1. CASE UNCHANGED vars
    BY <1>1 DEF NetInv, vars, clientVars, netVars, accVars
<1>2. CASE BrokenList
    BY <1>2 DEF BrokenList, NetInv, clientVars, netVars, accVars
<1> QED
    BY <1>1, <1>2, NetClient, NetListener, NetThread DEF Next

-----------------------------------------------------------------------------
(* A step of a thread leaves the others alone; where the listener overtook *)
(* none, it does not close a descriptor another one serves.                *)
LEMMA Others ==
    ASSUME TypeInv, ServeInv, NEW t \in Conns, Thread(t), NEW u \in Conns, u # t
    PROVE  /\ th_pc'[u] = th_pc[u] /\ th_sock'[u] = th_sock[u]
           /\ th_conn'[u] = th_conn[u] /\ th_msg'[u] = th_msg[u]
           /\ th_fd'[u] = th_fd[u]
           /\ overtaken' = overtaken /\ misled \subseteq misled'
           /\ ~overtaken /\ th_pc[u] \in Serving =>
                  file'[th_sock[u]] = file[th_sock[u]]
<1>1. /\ \A v \in Conns : th_sock[v] \in 0..MaxConns
      /\ th_pc \in [Conns -> ThreadPcs] /\ th_sock \in [Conns -> 0..MaxConns]
      /\ th_conn \in [Conns -> 0..MaxConns] /\ th_msg \in [Conns -> Seq(Request)]
      /\ th_fd \in [Conns -> Fds \cup {0}] /\ file \in [Conns -> 0..MaxConns]
    BY DEF TypeInv, TypeOK, ThreadPcs
<1> DEFINE Alone == /\ th_pc'[u] = th_pc[u] /\ th_sock'[u] = th_sock[u]
                    /\ th_conn'[u] = th_conn[u] /\ th_msg'[u] = th_msg[u]
                    /\ th_fd'[u] = th_fd[u]
<1>2. ASSUME th_sock' = th_sock \/ \E x : th_sock' = [th_sock EXCEPT ![t] = x],
             th_conn' = th_conn \/ \E x : th_conn' = [th_conn EXCEPT ![t] = x],
             th_msg' = th_msg \/ \E x : th_msg' = [th_msg EXCEPT ![t] = x],
             th_fd' = th_fd \/ \E x : th_fd' = [th_fd EXCEPT ![t] = x],
             \E x : th_pc' = [th_pc EXCEPT ![t] = x]
      PROVE  Alone
    BY <1>1, <1>2
<1> HIDE DEF Alone
<1>3. ASSUME Alone, file' = file, overtaken' = overtaken, misled \subseteq misled'
      PROVE  /\ Alone /\ overtaken' = overtaken /\ misled \subseteq misled'
             /\ ~overtaken /\ th_pc[u] \in Serving =>
                    file'[th_sock[u]] = file[th_sock[u]]
    BY <1>3
<1>4. CASE ThreadStart(t) \/ ReadMore(t) \/ ReadEof(t) \/ FdLoad(t) \/ FdStore(t)
           \/ FreeBegin(t)
    <2>1. /\ UNCHANGED <<file, overtaken, misled>>
          /\ UNCHANGED th_fd \/ \E x : th_fd' = [th_fd EXCEPT ![t] = x]
          /\ UNCHANGED th_msg /\ \E x : th_pc' = [th_pc EXCEPT ![t] = x]
          /\ UNCHANGED th_sock \/ \E x : th_sock' = [th_sock EXCEPT ![t] = x]
          /\ UNCHANGED th_conn \/ \E x : th_conn' = [th_conn EXCEPT ![t] = x]
        BY <1>4 DEF ThreadStart, ReadFrom, ReadMore, ReadEof, FdLoad, FdStore,
                    FreeBegin, histVars
    <2>2. Alone
        BY <1>2, <2>1
    <2> QED
        BY <1>3, <2>1, <2>2 DEF Alone
<1>5. CASE ReadRequest(t)
    <2>1. /\ UNCHANGED <<file, overtaken, th_sock, th_fd>> /\ misled \subseteq misled'
          /\ th_msg' = th_msg \/ \E x : th_msg' = [th_msg EXCEPT ![t] = x]
          /\ \E x : th_pc' = [th_pc EXCEPT ![t] = x]
          /\ \E x : th_conn' = [th_conn EXCEPT ![t] = x]
        BY <1>5 DEF ReadRequest, ReadFrom
    <2>2. Alone
        BY <1>2, <2>1
    <2> QED
        BY <1>3, <2>1, <2>2 DEF Alone
<1>6. CASE PlainCall(t) \/ _close(t) \/ Enqueue(t) \/ CreateFails(t)
    <2>1. (\E rc : Answer(t, rc)) /\ UNCHANGED <<overtaken, misled>>
        BY <1>6 DEF PlainCall, _close, Enqueue, CreateFails, histVars
    <2>2. Alone /\ file' = file
        BY <1>2, <2>1 DEF Answer, ReadFrom
    <2> QED
        BY <1>3, <2>1, <2>2 DEF Alone
<1>7. CASE Fail(t) \/ FreeFound(t) \/ FreeNone(t) \/ FreeBroken(t)
    <2>1. /\ th_pc[t] \in Serving /\ Ends(t)
          /\ UNCHANGED <<th_msg, th_fd, overtaken, misled>>
          /\ file' = file \/ file' = [file EXCEPT ![th_sock[t]] = 0]
        BY <1>7 DEF Fail, FreeFound, FreeNone, FreeBroken, CloseNumber, histVars,
                    Serving
    <2>2. Alone
        BY <1>2, <2>1 DEF Ends
    <2>3. ASSUME ~overtaken, th_pc[u] \in Serving
          PROVE  file'[th_sock[u]] = file[th_sock[u]]
        <3>1. th_sock[u] # th_sock[t] /\ th_sock[u] \in Conns
            BY <2>1, <2>3 DEF ServeInv, TypeInv, ThreadInv
        <3> QED
            BY <1>1, <2>1, <3>1
    <2> QED
        BY <2>1, <2>2, <2>3 DEF Alone
<1> QED
    BY <1>4, <1>5, <1>6, <1>7 DEF Thread, ipc_free_thread, Alone

LEMMA ReadSame ==
    ASSUME NEW u \in Conns, ReadOK(u), NetInv, ServeInv, TypeInv,
           UNCHANGED <<th_pc[u], th_sock[u], th_conn[u], th_msg[u]>>,
           ~overtaken' => ~overtaken, misled \subseteq misled',
           \A c \in 1..Len(owner) : owner'[c] = owner[c],
           ~overtaken /\ th_pc[u] \in Serving =>
               file'[th_sock[u]] = file[th_sock[u]]
    PROVE  ReadOK(u)'
<1>1. th_pc[u] \in Executing \cup {"reading", "more"} => th_pc[u] \in Serving
    BY DEF Executing, Serving
<1>2. Msg(u)' = Msg(u)
    BY DEF Msg
<1>3. th_pc[u] \in Serving /\ ~overtaken =>
          /\ th_sock[u] \in Conns /\ file[th_sock[u]] \in 1..Len(owner)
          /\ file'[th_sock[u]] = file[th_sock[u]]
    BY DEF ServeInv, NetInv, TypeInv, ThreadInv
<1> QED
    BY <1>1, <1>2, <1>3 DEF ReadOK

(* What a thread takes from a stream: a call of the one that opened the    *)
(* connection, or the end of a write; the thread may then serve it, read   *)
(* the rest of its data, or give up.                                       *)
LEMMA ReadTakes ==
    ASSUME TypeInv, NEW t \in Conns, ReadRequest(t)
    PROVE  /\ th_pc[t] = "reading" /\ th_conn[t] \in Conns /\ th_sock[t] \in Conns
           /\ req[th_conn[t]] # << >> /\ req[th_conn[t]] \in Seq(Request)
           /\ UNCHANGED <<clientVars, backlog, resp, file, th_sock, th_fd, sockets,
                          overtaken, fdrace>>
           /\ \E r : Leaves(req[th_conn[t]], r)
                     /\ req' = [req EXCEPT ![th_conn[t]] = r]
           /\ misled \subseteq misled'
           /\ \/ ReadFrom(t, th_sock[t])
              \/ \E m \in Request :
                    /\ m.op \in Ops
                    /\ th_pc'[t] \in {"serve", "more", "fail"}
                    /\ th_conn'[t] = file[th_sock[t]]
                    /\ Msg(t)' = m
                    /\ \/ m = Head(req[th_conn[t]])
                       \/ {owner[th_conn[t]], m.pid} \cap Procs \subseteq misled'
<1> DEFINE c == th_conn[t]
           q == req[c]
           n == th_sock[t]
<1>1. /\ th_pc[t] = "reading" /\ c \in Conns /\ n \in Conns
      /\ q # << >> /\ q \in Seq(Request)
    BY SharedTypes DEF TypeInv, ThreadInv, Serving, ReadRequest, SharedTyped
<1>2. /\ UNCHANGED <<clientVars, backlog, resp, file, th_sock, th_fd, sockets,
                     overtaken, fdrace>>
      /\ misled \subseteq misled'
    BY DEF ReadRequest, accVars, tableVars
<1>3. \E r : Leaves(q, r) /\ req' = [req EXCEPT ![c] = r]
    BY <1>1, LeftLeaves DEF ReadRequest
<1>4. PICK m \in ReadAs(Head(q)) :
          /\ IF demux_ipc_socket_call(m)
             THEN /\ th_pc' = [th_pc EXCEPT ![t] =
                                   IF ~m.more THEN "serve"
                                   ELSE IF file[n] = 0 THEN "fail" ELSE "more"]
                  /\ th_conn' = [th_conn EXCEPT ![t] = file[n]]
                  /\ th_msg' = [th_msg EXCEPT ![t] = <<m>>]
             ELSE ReadFrom(t, n)
          /\ misled' = misled \cup
                 {p \in Procs : Head(q).op = "tail" /\ demux_ipc_socket_call(m)
                                /\ p \in {owner[c], m.pid}}
    BY DEF ReadRequest
<1>5. Head(q) \in Request
    BY <1>1
<1>6. m \in Request /\ (Head(q).op # "tail" => m = Head(q))
    BY <1>5, ReadAsTyped DEF ReadAs
<1>7. /\ th_pc \in [Conns -> ThreadPcs] /\ th_conn \in [Conns -> 0..MaxConns]
      /\ th_msg \in [Conns -> Seq(Request)]
    BY DEF TypeInv, TypeOK, ThreadPcs
<1> HIDE DEF c, q, n
<1>8. CASE demux_ipc_socket_call(m)
    <2>1. /\ m.op \in Ops /\ th_pc'[t] \in {"serve", "more", "fail"}
          /\ th_conn'[t] = file[n] /\ th_msg'[t] = <<m>>
        BY <1>4, <1>7, <1>8 DEF demux_ipc_socket_call
    <2>2. Msg(t)' = m
        BY <2>1 DEF Msg
    <2>3. Head(q).op = "tail" => {owner[c], m.pid} \cap Procs \subseteq misled'
        BY <1>4, <1>8
    <2>4. m = Head(q) \/ {owner[c], m.pid} \cap Procs \subseteq misled'
        BY <1>6, <2>3
    <2> QED
        BY <1>1, <1>2, <1>3, <1>6, <2>1, <2>2, <2>4 DEF c, q, n
<1>9. CASE ~demux_ipc_socket_call(m)
    <2>1. ReadFrom(t, n)
        BY <1>4, <1>9
    <2> QED
        BY <1>1, <1>2, <1>3, <2>1 DEF c, q, n
<1> QED
    BY <1>8, <1>9

LEMMA ReadThread ==
    ASSUME TypeInv, ServeInv, NetInv, ReadInv, NEW t \in Conns, Thread(t)
    PROVE  ReadInv'
<1>0. /\ UNCHANGED clientVars
      /\ th_pc \in [Conns -> ThreadPcs] /\ th_sock \in [Conns -> 0..MaxConns]
      /\ th_conn \in [Conns -> 0..MaxConns] /\ th_msg \in [Conns -> Seq(Request)]
      /\ owner' = owner
    BY NetThread DEF TypeInv, TypeOK, clientVars, ThreadPcs
<1>1. ASSUME NEW u \in Conns, u # t PROVE ReadOK(u)'
    <2>1. /\ UNCHANGED <<th_pc[u], th_sock[u], th_conn[u], th_msg[u], overtaken>>
          /\ misled \subseteq misled'
          /\ ~overtaken /\ th_pc[u] \in Serving =>
                 file'[th_sock[u]] = file[th_sock[u]]
        BY <1>1, Others
    <2>2. ReadOK(u)
        BY DEF ReadInv
    <2> QED
        BY <1>0, <2>1, <2>2, ReadSame
<1> SUFFICES ReadOK(t)'
    BY <1>1 DEF ReadInv
<1>2. ReadOK(t) /\ ThreadInv(t)
    BY DEF ReadInv, TypeInv
<1>3. ASSUME NEW n, ReadFrom(t, n), th_sock'[t] = n, file' = file
      PROVE  ReadOK(t)'
    <2>1. th_pc'[t] \in {"free", "reading"} /\ th_conn'[t] = file[n]
        BY <1>0, <1>3 DEF ReadFrom
    <2> QED
        BY <1>3, <2>1 DEF ReadOK, Numbered, Executing
<1>4. ASSUME th_pc'[t] \in {"fail", "free", "walk", "done"} PROVE ReadOK(t)'
    BY <1>4 DEF ReadOK, Numbered, Executing
<1>5. CASE ThreadStart(t)
    BY <1>0, <1>3, <1>5 DEF ThreadStart
<1>6. CASE ReadEof(t) \/ Fail(t) \/ ipc_free_thread(t)
    BY <1>0, <1>4, <1>6 DEF ReadEof, Fail, ipc_free_thread, FreeBegin, FreeFound,
                            FreeNone, FreeBroken, Ends
<1>7. CASE PlainCall(t) \/ _close(t) \/ Enqueue(t) \/ CreateFails(t)
    <2>1. PICK rc : Answer(t, rc)
        BY <1>7 DEF PlainCall, _close, Enqueue, CreateFails
    <2>2. ReadFrom(t, th_sock[t]) /\ UNCHANGED <<th_sock, file>>
        BY <2>1 DEF Answer
    <2> QED
        BY <1>3, <2>2
<1>8. CASE FdLoad(t)
    <2>1. /\ th_pc[t] = "serve" /\ th_pc'[t] = "fd"
          /\ UNCHANGED <<th_sock, th_msg, file, overtaken, misled>>
          /\ Msg(t).op \in {"SOCKET", "ACCEPT"}
        BY <1>0, <1>8 DEF FdLoad
    <2> QED
        BY <1>0, <1>2, <2>1 DEF ReadOK, Msg, Executing
<1>9. CASE FdStore(t)
    <2>1. /\ th_pc[t] = "fd" /\ th_pc'[t] = "made"
          /\ UNCHANGED <<th_sock, th_msg, file, overtaken, misled>>
        BY <1>0, <1>9 DEF FdStore, histVars
    <2> QED
        BY <1>0, <1>2, <2>1 DEF ReadOK, Msg, Executing, Numbered
<1>10. CASE ReadMore(t)
    <2>1. /\ th_pc[t] = "more" /\ th_pc'[t] \in {"serve", "fail"}
          /\ UNCHANGED <<th_sock, th_msg, file, overtaken, misled>>
        BY <1>0, <1>10 DEF ReadMore, histVars
    <2> QED
        BY <1>0, <1>2, <1>4, <2>1 DEF ReadOK, Msg, Executing, Numbered
<1>11. CASE ReadRequest(t)
    <2> DEFINE d == th_conn[t]
               q == req[d]
    <2>1. /\ th_pc[t] = "reading" /\ q # << >> /\ d \in Conns /\ q \in Seq(Request)
          /\ UNCHANGED <<th_sock, file, overtaken>> /\ th_sock[t] \in Conns
        BY <1>11, ReadTakes
    <2>2. CASE ReadFrom(t, th_sock[t])
        BY <1>3, <2>1, <2>2
    <2>3. ASSUME NEW m \in Request,
                 th_pc'[t] \in {"serve", "more", "fail"},
                 th_conn'[t] = file[th_sock[t]], Msg(t)' = m,
                 \/ m = Head(q)
                 \/ {owner[d], m.pid} \cap Procs \subseteq misled'
          PROVE  ReadOK(t)'
        <3>1. 1 \in 1..Len(q) /\ Head(q) = q[1]
            BY <2>1
        <3>2. ASSUME ~overtaken
              PROVE  \/ m.pid = owner[file[th_sock[t]]]
                     \/ {owner[file[th_sock[t]]], m.pid} \subseteq misled'
            <4>1. d = file[th_sock[t]]
                BY <1>2, <2>1, <3>2 DEF ReadOK
            <4>2. d \in 1..Len(owner)
                BY <2>1, <4>1, ConnFacts DEF NetInv
            <4>3. owner[d] \in Procs /\ m.pid \in Procs
                BY <4>2, NetTyped DEF Request
            <4>4. m = Head(q) => m.pid = owner[d]
                BY <3>1, <4>2 DEF NetInv
            <4> HIDE DEF d, q
            <4> QED
                BY <2>3, <4>1, <4>3, <4>4
        <3> HIDE DEF d, q
        <3> QED
            BY <1>0, <2>1, <2>3, <3>2 DEF ReadOK, Numbered
    <2> QED
        BY <1>11, <2>2, <2>3, ReadTakes
<1> QED
    BY <1>5, <1>6, <1>7, <1>8, <1>9, <1>10, <1>11 DEF Thread

(* Steps of the others: no thread moves but one that is created, and the   *)
(* descriptor the listener opens was served by none.                       *)
LEMMA Elsewhere ==
    ASSUME TypeInv, ServeInv, (\E p \in Procs : Client(p)) \/ Listener
    PROVE  /\ \A u \in Conns :
                  /\ UNCHANGED <<th_sock[u], th_conn[u], th_msg[u], th_fd[u]>>
                  /\ th_pc'[u] \in Serving => th_pc'[u] = th_pc[u]
                  /\ ~overtaken /\ th_pc[u] \in Serving =>
                         file'[th_sock[u]] = file[th_sock[u]]
           /\ ~overtaken' => ~overtaken
           /\ UNCHANGED <<sockets, fdrace, misled>>
           /\ owner \in Seq(Procs)
           /\ \A c \in 1..Len(owner) : c \in 1..Len(owner') /\ owner'[c] = owner[c]
<1>0. /\ owner \in Seq(Procs) /\ th_pc \in [Conns -> ThreadPcs]
      /\ file \in [Conns -> 0..MaxConns]
    BY NetTyped DEF TypeInv, TypeOK, ThreadPcs
<1>1. ASSUME NEW p \in Procs, Client(p)
      PROVE  UNCHANGED serverVars /\ (owner' = owner \/ owner' = Append(owner, p))
    BY <1>1 DEF Client, lvl_socket, lvl_call, Exit, GetResponse, HungUp
<1>2. CASE \E p \in Procs : Client(p)
    <2>1. PICK p \in Procs : Client(p)
        BY <1>2
    <2>2. \A c \in 1..Len(owner) : c \in 1..Len(owner') /\ owner'[c] = owner[c]
        <3>1. CASE owner' = owner
            BY <3>1
        <3>2. CASE owner' = Append(owner, p)
            BY <1>0, <3>2
        <3> QED
            BY <1>1, <2>1, <3>1, <3>2
    <2>3. UNCHANGED serverVars
        BY <1>1, <2>1
    <2> QED
        BY <1>0, <2>2, <2>3 DEF serverVars, thVars, tableVars, histVars
<1>3. CASE ListenerAccept
    <2>1. PICK n \in Conns : /\ file[n] = 0
                             /\ file' = [file EXCEPT ![n] = Head(backlog)]
        BY <1>3 DEF ListenerAccept, FreeNumber
    <2>2. /\ overtaken' = (overtaken \/ Unread # {})
          /\ UNCHANGED <<owner, th_pc, th_sock, th_conn, th_msg, th_fd, sockets,
                         fdrace, misled>>
        BY <1>3 DEF ListenerAccept, clientVars, thVars, tableVars
    <2>3. ASSUME NEW u \in Conns, ~overtaken, th_pc[u] \in Serving
          PROVE  file'[th_sock[u]] = file[th_sock[u]]
        <3>1. file[th_sock[u]] # 0
            BY <2>3 DEF ServeInv
        <3>2. th_sock[u] \in Conns
            BY <2>3 DEF TypeInv, ThreadInv
        <3> QED
            BY <1>0, <2>1, <3>1, <3>2
    <2> QED
        BY <1>0, <2>2, <2>3
<1>4. CASE ListenerAlloc
    <2>1. /\ th_pc' = [th_pc EXCEPT ![started + 1] = "start"]
          /\ UNCHANGED <<owner, file, th_sock, th_conn, th_msg, th_fd, sockets,
                         overtaken, fdrace, misled>>
        BY <1>4 DEF ListenerAlloc, clientVars, tableVars, histVars
    <2>2. \A u \in Conns : th_pc'[u] = th_pc[u] \/ th_pc'[u] = "start"
        BY <1>0, <2>1
    <2> QED
        BY <1>0, <2>1, <2>2 DEF Serving
<1> QED
    BY <1>2, <1>3, <1>4 DEF Listener

LEMMA ReadNext ==
    TypeInv /\ ServeInv /\ NetInv /\ ReadInv /\ [Next]_vars => ReadInv'
<1> SUFFICES ASSUME TypeInv, ServeInv, NetInv, ReadInv, [Next]_vars
             PROVE  ReadInv'
    OBVIOUS
<1>1. CASE (\E p \in Procs : Client(p)) \/ Listener
    <2> SUFFICES ASSUME NEW u \in Conns PROVE ReadOK(u)'
        BY DEF ReadInv
    <2>1. /\ UNCHANGED <<th_sock[u], th_conn[u], th_msg[u], th_fd[u], misled>>
          /\ th_pc'[u] \in Serving => th_pc'[u] = th_pc[u]
          /\ ~overtaken /\ th_pc[u] \in Serving =>
                 file'[th_sock[u]] = file[th_sock[u]]
          /\ ~overtaken' => ~overtaken
          /\ \A c \in 1..Len(owner) : owner'[c] = owner[c]
        BY <1>1, Elsewhere
    <2>2. CASE th_pc'[u] = th_pc[u]
        <3>1. ReadOK(u)
            BY DEF ReadInv
        <3> QED
            BY <2>1, <2>2, <3>1, ReadSame
    <2>3. CASE th_pc'[u] \notin Serving
        BY <2>3 DEF ReadOK, Serving, Executing, Numbered
    <2> QED
        BY <2>1, <2>2, <2>3
<1>2. CASE UNCHANGED vars \/ BrokenList
    BY <1>2 DEF BrokenList, ReadInv, ReadOK, Msg, vars, clientVars, thVars, histVars
<1> QED
    BY <1>1, <1>2, ReadThread DEF Next

-----------------------------------------------------------------------------
(* What the server does not hold any more it does not get back.            *)
LEMMA HeldBack ==
    ASSUME TypeInv, NetInv, [Next]_vars, NEW c \in 1..Len(owner), Held(c)'
    PROVE  Held(c)
<1>0. /\ backlog \in Seq(Conns) /\ file \in [Conns -> 0..MaxConns]
      /\ th_pc \in [Conns -> ThreadPcs] /\ th_conn \in [Conns -> 0..MaxConns]
      /\ Len(owner) \in Nat /\ c \in Conns /\ c # 0
    BY NetTyped DEF TypeInv, TypeOK, ThreadPcs
<1>1. ASSUME \A k \in DOMAIN backlog' : backlog'[k] = c =>
                 \E j \in DOMAIN backlog : backlog[j] = c,
             \A n \in Conns : file'[n] = c => Held(c),
             \A t \in Conns : th_pc'[t] \in {"reading", "more"}
                              /\ th_conn'[t] = c => Held(c)
      PROVE  Held(c)
    BY <1>1 DEF Held
<1>2. ASSUME NEW p \in Procs, Client(p) PROVE Held(c)
    <2>1. UNCHANGED <<file, th_pc, th_conn>>
        BY <1>2 DEF Client, lvl_socket, lvl_call, Exit, GetResponse, HungUp,
                    serverVars, thVars
    <2>2. backlog' = backlog \/ backlog' = Append(backlog, Len(owner) + 1)
        BY <1>2 DEF Client, lvl_socket, lvl_call, Exit, GetResponse, HungUp
    <2>3. c # Len(owner) + 1
        BY <1>0
    <2>4. \A k \in DOMAIN backlog' : backlog'[k] = c =>
              \E j \in DOMAIN backlog : backlog[j] = c
        <3>1. CASE backlog' = backlog
            BY <3>1
        <3>2. CASE backlog' = Append(backlog, Len(owner) + 1)
            BY <1>0, <2>3, <3>2
        <3> QED
            BY <2>2, <3>1, <3>2
    <2>5. \A n \in Conns : file'[n] = c => Held(c)
        BY <2>1 DEF Held
    <2>6. \A t \in Conns : th_pc'[t] \in {"reading", "more"} /\ th_conn'[t] = c
                         => Held(c)
        BY <2>1 DEF Held
    <2> QED
        BY <1>1, <2>4, <2>5, <2>6
<1>3. CASE ListenerAccept
    <2>1. PICK n \in Conns : file' = [file EXCEPT ![n] = Head(backlog)]
        BY <1>3 DEF ListenerAccept
    <2>2. /\ backlog # << >> /\ backlog' = Tail(backlog)
          /\ th_conn' = th_conn /\ th_pc' = th_pc
        BY <1>3 DEF ListenerAccept, thVars
    <2>3. /\ 1 \in DOMAIN backlog /\ Head(backlog) = backlog[1]
          /\ \A k \in DOMAIN backlog' :
                 k + 1 \in DOMAIN backlog /\ backlog'[k] = backlog[k + 1]
        BY <1>0, <2>2
    <2>4. \A n2 \in Conns : file'[n2] = c => Held(c)
        BY <1>0, <2>1, <2>3 DEF Held
    <2>5. \A t \in Conns : th_pc'[t] \in {"reading", "more"} /\ th_conn'[t] = c
                           => Held(c)
        BY <2>2 DEF Held
    <2> QED
        BY <1>1, <2>3, <2>4, <2>5
<1>4. CASE ListenerAlloc
    <2>1. /\ UNCHANGED <<backlog, file, th_conn>>
          /\ th_pc' = [th_pc EXCEPT ![started + 1] = "start"]
        BY <1>4 DEF ListenerAlloc
    <2>2. \A t \in Conns : th_pc'[t] = th_pc[t] \/ th_pc'[t] = "start"
        BY <1>0, <2>1
    <2> QED
        BY <2>1, <2>2 DEF Held
<1>5. ASSUME NEW t \in Conns, Thread(t) PROVE Held(c)
    <2>1. backlog' = backlog
        BY <1>5, NetThread
    <2>2. \A n \in Conns : file'[n] = file[n] \/ file'[n] = 0
        <3>1. file' = file \/ file' = [file EXCEPT ![th_sock[t]] = 0]
            BY <1>5 DEF Thread, ThreadStart, ReadRequest, ReadMore, ReadEof, Fail,
                        ipc_free_thread, FreeBegin, FreeFound, FreeNone, FreeBroken,
                        PlainCall, _close, FdLoad, FdStore, Enqueue, CreateFails,
                        Answer, CloseNumber
        <3> QED
            BY <1>0, <3>1
    <2>3. \A n \in Conns : file'[n] = c => Held(c)
        BY <1>0, <2>2 DEF Held
    <2>4. \A u \in Conns : u # t =>
              th_pc'[u] = th_pc[u] /\ th_conn'[u] = th_conn[u]
        <3>1. /\ \E x : th_pc' = [th_pc EXCEPT ![t] = x]
              /\ th_conn' = th_conn \/ \E x : th_conn' = [th_conn EXCEPT ![t] = x]
            BY <1>5 DEF Thread, ThreadStart, ReadRequest, ReadMore, ReadEof, Fail,
                        ipc_free_thread, FreeBegin, FreeFound, FreeNone, FreeBroken,
                        Ends, PlainCall, _close, FdLoad, FdStore, Enqueue,
                        CreateFails, Answer, ReadFrom
        <3> QED
            BY <1>0, <3>1
    <2>5. \/ th_pc'[t] \notin {"reading", "more"}
          \/ \E n \in Conns : th_conn'[t] = file[n]
        <3>1. ThreadInv(t)
            BY DEF TypeInv
        <3>2. CASE ThreadStart(t)
            <4>1. datasock \in Conns /\ th_conn'[t] = file[datasock]
                BY <1>0, <3>1, <3>2 DEF ThreadStart, ReadFrom, ThreadInv
            <4> QED
                BY <4>1
        <3>3. CASE ReadRequest(t)
            <4>1. th_sock[t] \in Conns /\ th_conn'[t] = file[th_sock[t]]
                BY <1>0, <3>3, ReadTakes DEF ReadFrom
            <4> QED
                BY <4>1
        <3>4. CASE \/ ReadMore(t) \/ ReadEof(t) \/ Fail(t) \/ ipc_free_thread(t)
                   \/ FdLoad(t) \/ FdStore(t)
            BY <1>0, <3>4 DEF ReadMore, ReadEof, Fail, ipc_free_thread, FreeBegin,
                              FreeFound, FreeNone, FreeBroken, Ends, FdLoad, FdStore
        <3>5. CASE PlainCall(t) \/ _close(t) \/ Enqueue(t) \/ CreateFails(t)
            <4>1. th_pc[t] \in {"serve", "made"} /\ \E rc : Answer(t, rc)
                BY <3>5 DEF PlainCall, _close, Enqueue, CreateFails
            <4>2. th_sock[t] \in Conns
                BY <3>1, <4>1 DEF ThreadInv, Serving
            <4>3. th_conn'[t] = file[th_sock[t]]
                BY <1>0, <4>1 DEF Answer, ReadFrom
            <4> QED
                BY <4>2, <4>3
        <3> QED
            BY <1>5, <3>2, <3>3, <3>4, <3>5 DEF Thread
    <2>6. \A u \in Conns : th_pc'[u] \in {"reading", "more"} /\ th_conn'[u] = c
                           => Held(c)
        BY <2>4, <2>5 DEF Held
    <2> QED
        BY <1>1, <2>1, <2>3, <2>6
<1>6. CASE UNCHANGED vars \/ BrokenList
    BY <1>6 DEF BrokenList, vars, thVars, accVars, Held
<1> QED
    BY <1>2, <1>3, <1>4, <1>5, <1>6 DEF Next, Listener

(* A step that neither touches the connection nor the call of its owner.   *)
LEMMA QuietSame ==
    ASSUME NEW c, Quiet(c), req'[c] = req[c], resp'[c] = resp[c],
           Held(c)' => Held(c),
           \A t \in Conns : ExecutesFor(t, c)' => ExecutesFor(t, c)
    PROVE  Quiet(c)'
BY DEF Quiet, Unserved

LEMMA CallSame ==
    ASSUME NEW c, CallOK(c), req'[c] = req[c], resp'[c] = resp[c],
           Held(c)' => Held(c), owner'[c] = owner[c],
           app_pc'[owner[c]] = app_pc[owner[c]],
           call'[owner[c]] = call[owner[c]], lvlfd'[owner[c]] = lvlfd[owner[c]],
           \A t \in Conns : ExecutesFor(t, c)' =>
               ExecutesFor(t, c) /\ th_msg'[t] = th_msg[t]
    PROVE  CallOK(c)'
<1>1. CASE app_pc[owner[c]] = "dead"
    BY <1>1 DEF CallOK
<1>2. CASE Quiet(c)
    BY <1>2, QuietSame DEF CallOK
<1>3. CASE Pending(c)
    <2> DEFINE p == owner[c]
    <2>1. Unserved(c) => Unserved(c)'
        BY DEF Unserved
    <2>2. owner'[c] = p /\ app_pc'[p] = "wait" /\ lvlfd'[p] = c
        BY <1>3 DEF Pending
    <2>3. Held(c)' => \A k \in 1..Len(req[c]) : req[c][k].op # "tail" =>
                 /\ k = Len(req[c]) /\ req[c][k] = call[p]
                 /\ resp[c] = << >> /\ Unserved(c)'
        BY <1>3, <2>1 DEF Pending
    <2>4. \A t \in Conns : ExecutesFor(t, c)' =>
                 Msg(t)' = call[p] /\ resp[c] = << >>
        BY <1>3 DEF Pending, Msg
    <2>5. resp[c] # << >> =>
                 /\ Len(resp[c]) = 1
                 /\ SameCall(resp[c][1], call[p]) /\ resp[c][1].fd = call[p].fd
        BY <1>3 DEF Pending
    <2>6. call'[p] = call[p]
        OBVIOUS
    <2> HIDE DEF p
    <2>7. Pending(c)'
        BY <2>2, <2>3, <2>4, <2>5, <2>6 DEF Pending
    <2> QED
        BY <2>7 DEF CallOK
<1> QED
    BY <1>1, <1>2, <1>3 DEF CallOK

(* Over the other connections of an application nothing is under way.      *)
LEMMA QuietElse ==
    ASSUME NEW c, CallOK(c), app_pc[owner[c]] # "dead",
           app_pc[owner[c]] # "wait" \/ lvlfd[owner[c]] # c
    PROVE  Quiet(c)
BY DEF CallOK, Pending

LEMMA CallClient ==
    ASSUME TypeInv, ServeInv, NetInv, CallInv, NEW p \in Procs, Client(p),
           [Next]_vars
    PROVE  CallInv'
<1> SUFFICES ASSUME ~overtaken', NEW c \in 1..Len(owner'),
                    owner'[c] \notin misled'
             PROVE  CallOK(c)'
    BY DEF CallInv
<1>0. /\ owner \in Seq(Procs) /\ Len(owner) \in Nat
      /\ app_pc \in [Procs -> {"idle", "wait", "dead"}]
      /\ lvlfd \in [Procs -> 0..MaxConns] /\ call \in [Procs -> Request]
      /\ req \in [Conns -> Seq(Request)] /\ resp \in [Conns -> Seq(Response)]
      /\ \A d \in 1..Len(owner) : d \in Conns /\ owner[d] \in Procs
    BY NetTyped
<1>1. /\ UNCHANGED serverVars /\ ~overtaken /\ misled' = misled
      /\ \A t \in Conns, d \in Conns :
             ExecutesFor(t, d)' <=> ExecutesFor(t, d) /\ th_msg'[t] = th_msg[t]
    <2>1. UNCHANGED serverVars
        BY DEF Client, lvl_socket, lvl_call, Exit, GetResponse, HungUp
    <2> QED
        BY <2>1 DEF serverVars, thVars, histVars, ExecutesFor
<1>2. \A d \in 1..Len(owner) : owner[d] \notin misled => CallOK(d)
    BY <1>1 DEF CallInv
<1>3. \A d \in 1..Len(owner) : Held(d)' => Held(d)
    BY HeldBack
(* The connections of the other applications. *)
<1>4. ASSUME c \in 1..Len(owner), owner'[c] = owner[c], owner[c] # p,
             req'[c] = req[c], resp'[c] = resp[c],
             \A q \in Procs : q # p => /\ app_pc'[q] = app_pc[q]
                                       /\ call'[q] = call[q]
                                       /\ lvlfd'[q] = lvlfd[q]
      PROVE  CallOK(c)'
    BY <1>0, <1>1, <1>2, <1>3, <1>4, CallSame
(* The others of the application that calls. *)
<1>5. ASSUME c \in 1..Len(owner), owner'[c] = owner[c], owner[c] = p,
             app_pc[p] = "idle" \/ (app_pc[p] = "wait" /\ lvlfd[p] # c),
             req'[c] = req[c], resp'[c] = resp[c]
      PROVE  CallOK(c)'
    <2>1. Quiet(c)
        BY <1>1, <1>2, <1>5, QuietElse
    <2>2. Quiet(c)'
        BY <1>0, <1>1, <1>3, <1>5, <2>1, QuietSame
    <2> QED
        BY <2>2 DEF CallOK
<1>6. ASSUME NEW d \in Conns, NEW m \in Request, Transmit(p, d, m),
             resp' = resp,
             p \notin misled =>
                 /\ resp[d] = << >> /\ Unserved(d)
                 /\ \A k \in 1..Len(req[d]) : Held(d)' => req[d][k].op = "tail",
             \/ owner' = owner /\ d \in 1..Len(owner) /\ owner[d] = p
             \/ owner' = Append(owner, p) /\ d = Len(owner) + 1
      PROVE  CallOK(c)'
    <2>1. /\ app_pc' = [app_pc EXCEPT ![p] = "wait"]
          /\ call' = [call EXCEPT ![p] = m] /\ lvlfd' = [lvlfd EXCEPT ![p] = d]
          /\ req' = [req EXCEPT ![d] = Append(req[d], m)] /\ app_pc[p] = "idle"
        BY <1>6 DEF Transmit
    <2>2. /\ owner'[d] = p /\ d \in 1..Len(owner')
          /\ c # d => c \in 1..Len(owner) /\ owner'[c] = owner[c]
        <3>1. CASE owner' = owner /\ d \in 1..Len(owner) /\ owner[d] = p
            BY <3>1
        <3>2. CASE owner' = Append(owner, p) /\ d = Len(owner) + 1
            BY <1>0, <3>2
        <3> QED
            BY <1>6, <3>1, <3>2
    <2>3. CASE c = d
        <3>a. p \notin misled
            BY <1>1, <2>2, <2>3
        <3>1. /\ app_pc'[p] = "wait" /\ lvlfd'[p] = d /\ call'[p] = m
              /\ req'[d] = Append(req[d], m) /\ resp'[d] = << >>
              /\ req[d] \in Seq(Request)
            BY <1>0, <1>6, <2>1, <3>a
        <3>2. \A t \in Conns : ~ExecutesFor(t, d)'
            BY <1>1, <1>6, <3>a DEF Unserved
        <3>3. Unserved(d)'
            BY <3>2 DEF Unserved
        <3>4. ASSUME Held(d)', NEW k \in 1..Len(req'[d]), req'[d][k].op # "tail"
              PROVE  k = Len(req'[d]) /\ req'[d][k] = m
            <4>1. /\ Len(req'[d]) = Len(req[d]) + 1
                  /\ req'[d][Len(req[d]) + 1] = m
                  /\ \A j \in 1..Len(req[d]) : req'[d][j] = req[d][j]
                BY <3>1
            <4>2. k \in 1..Len(req[d]) \/ k = Len(req[d]) + 1
                BY <3>1, <4>1
            <4> QED
                BY <1>6, <3>a, <3>4, <4>1, <4>2
        <3>5. Pending(d)'
            BY <2>2, <3>1, <3>2, <3>3, <3>4 DEF Pending
        <3> QED
            BY <2>3, <3>5 DEF CallOK
    <2>4. CASE c # d
        <3>1. req'[c] = req[c] /\ resp'[c] = resp[c]
            BY <1>0, <1>6, <2>1, <2>2, <2>4
        <3>2. \A q \in Procs : q # p => /\ app_pc'[q] = app_pc[q]
                                        /\ call'[q] = call[q]
                                        /\ lvlfd'[q] = lvlfd[q]
            BY <1>0, <2>1
        <3>3. c \in 1..Len(owner) /\ owner'[c] = owner[c]
            BY <2>2, <2>4
        <3>4. CASE owner[c] = p
            BY <1>5, <2>1, <3>1, <3>3, <3>4
        <3>5. CASE owner[c] # p
            BY <1>4, <3>1, <3>2, <3>3, <3>5
        <3> QED
            BY <3>4, <3>5
    <2> QED
        BY <2>3, <2>4
<1>7. CASE lvl_socket(p)
    <2> DEFINE d == Len(owner) + 1
               m == [op |-> "SOCKET", pid |-> p, fd |-> 0,
                    size |-> 1, more |-> FALSE]
    <2>1. m \in Request
        BY DEF Request, Ops
    <2>2. /\ d \in Conns /\ Transmit(p, d, m) /\ owner' = Append(owner, p)
          /\ resp' = resp
        BY <1>7 DEF lvl_socket
    <2>3. d > Len(owner) /\ d \notin 1..Len(owner)
        BY <1>0
    <2>4. req[d] = << >> /\ resp[d] = << >>
        BY <2>2, <2>3 DEF NetInv
    <2>5. Unserved(d)
        <3> SUFFICES ASSUME NEW t \in Conns, ExecutesFor(t, d) PROVE FALSE
            BY DEF Unserved
        <3>1. th_sock[t] \in Conns /\ file[th_sock[t]] = d
            BY DEF ExecutesFor, Executing, Serving, TypeInv, ThreadInv
        <3>2. d # 0
            BY <1>0
        <3> HIDE DEF d
        <3> QED
            BY <2>3, <3>1, <3>2 DEF NetInv
    <2> HIDE DEF m
    <2> QED
        BY <1>6, <2>1, <2>2, <2>4, <2>5
<1>8. ASSUME NEW k \in Calls[p], NEW fd \in Fds, lvl_call(p, k, fd)
      PROVE  CallOK(c)'
    <2> DEFINE m == [op |-> k[1], pid |-> p, fd |-> fd,
                    size |-> k[2], more |-> k[3]]
    <2>1. m \in Request
        BY IpcAssumption DEF Request, Ops
    <2>2. PICK j \in lib[p] : Held(j.conn) /\ Transmit(p, j.conn, m)
        BY <1>8 DEF lvl_call, lvlip_get_sock
    <2>3. UNCHANGED <<owner, resp>>
        BY <1>8 DEF lvl_call
    <2>4. j.conn \in 1..Len(owner) /\ owner[j.conn] = p
        BY DEF NetInv
    <2> HIDE DEF m
    <2>5. app_pc[p] = "idle"
        BY <2>2 DEF Transmit
    <2>6. p \notin misled => Quiet(j.conn)
        BY <1>2, <2>4, <2>5, QuietElse
    <2>7. p \notin misled =>
              /\ resp[j.conn] = << >> /\ Unserved(j.conn)
              /\ \A i \in 1..Len(req[j.conn]) : req[j.conn][i].op = "tail"
        BY <2>2, <2>6 DEF Quiet
    <2>8. j.conn \in Conns
        BY <1>0, <2>4
    <2> QED
        BY <1>6, <2>1, <2>2, <2>3, <2>4, <2>7, <2>8
<1>9. CASE Exit(p)
    <2>1. /\ owner' = owner /\ req' = req
          /\ app_pc' = [app_pc EXCEPT ![p] = "dead"]
          /\ call' = [call EXCEPT ![p] = NoCall(p)]
          /\ lvlfd' = [lvlfd EXCEPT ![p] = 0] /\ resp' = resp
        BY <1>9 DEF Exit, netVars
    <2>2. CASE owner[c] = p
        BY <1>0, <2>1, <2>2 DEF CallOK
    <2>3. CASE owner[c] # p
        BY <1>0, <1>4, <2>1, <2>3
    <2> QED
        BY <2>2, <2>3
<1>10. CASE GetResponse(p) \/ HungUp(p)
    <2> DEFINE d == lvlfd[p]
    <2>1. /\ owner' = owner /\ req' = req /\ app_pc[p] = "wait"
          /\ app_pc' = [app_pc EXCEPT ![p] = "idle"]
          /\ call' = [call EXCEPT ![p] = NoCall(p)]
          /\ lvlfd' = [lvlfd EXCEPT ![p] = 0]
          /\ resp' = resp \/ \E s : resp' = [resp EXCEPT ![d] = s]
        BY <1>10 DEF GetResponse, HungUp, Returns, netVars
    <2>2. d \in 1..Len(owner) /\ owner[d] = p
        BY <2>1 DEF NetInv
    <2> HIDE DEF d
    <2>3. \A b \in Conns : b # d => resp'[b] = resp[b]
        BY <1>0, <2>1
    <2>4. CASE c # d /\ owner[c] # p
        BY <1>0, <1>4, <2>1, <2>3, <2>4
    <2>5. CASE c # d /\ owner[c] = p
        BY <1>0, <1>5, <2>1, <2>3, <2>5 DEF d
    <2>6. CASE c = d /\ GetResponse(p)
        <3>1. resp[c] # << >>
            BY <2>6 DEF GetResponse, d
        <3>2. Pending(c)
            BY <1>1, <1>2, <2>1, <2>2, <2>6, <3>1 DEF CallOK, Quiet
        <3>3. Len(resp[c]) = 1 /\ resp[c] \in Seq(Response) /\ c \in Conns
            BY <1>0, <2>2, <2>6, <3>1, <3>2 DEF Pending
        <3>4. resp'[c] = << >>
            <4>1. PICK i \in DOMAIN resp[c] :
                      resp' = [resp EXCEPT ![c] = SubSeq(resp[c], i + 1, Len(resp[c]))]
                BY <2>6 DEF GetResponse, d
            <4>2. i = 1
                BY <3>3
            <4>3. resp'[c] = SubSeq(resp[c], 2, 1)
                BY <1>0, <3>3, <4>1, <4>2
            <4> QED
                BY <3>3, <4>3
        <3>5. /\ Held(c) => \A k \in 1..Len(req[c]) : req[c][k].op = "tail"
              /\ \A t \in Conns : ~ExecutesFor(t, c)
            BY <3>1, <3>2 DEF Pending
        <3>6. Quiet(c)'
            BY <1>1, <1>3, <2>1, <2>2, <2>6, <3>3, <3>4, <3>5 DEF Quiet, Unserved
        <3> QED
            BY <2>6, <3>6 DEF CallOK
    <2>7. CASE c = d /\ HungUp(p)
        <3>1. resp[c] = << >> /\ ~Held(c) /\ resp' = resp
            BY <2>7 DEF HungUp, d, netVars
        <3>2. ASSUME NEW t \in Conns, ExecutesFor(t, c)' PROVE FALSE
            <4>1. ExecutesFor(t, c) /\ c \in Conns
                BY <1>0, <1>1, <2>2, <2>7, <3>2
            <4>2. th_sock[t] \in Conns /\ file[th_sock[t]] = c
                BY <4>1 DEF ExecutesFor, Executing, Serving, TypeInv, ThreadInv
            <4> QED
                BY <3>1, <4>2 DEF Held
        <3>3. ~Held(c)'
            BY <1>3, <2>2, <2>7, <3>1
        <3>4. Quiet(c)'
            BY <3>1, <3>2, <3>3 DEF Quiet, Unserved
        <3> QED
            BY <2>7, <3>4 DEF CallOK
    <2> QED
        BY <1>10, <2>4, <2>5, <2>6, <2>7
<1> QED
    BY <1>7, <1>8, <1>9, <1>10 DEF Client

LEMMA CallListener ==
    ASSUME TypeInv, ServeInv, NetInv, CallInv, Listener, [Next]_vars
    PROVE  CallInv'
<1>1. /\ owner' = owner /\ req' = req /\ resp' = resp /\ app_pc' = app_pc
      /\ call' = call /\ lvlfd' = lvlfd
    BY DEF Listener, ListenerAccept, ListenerAlloc, clientVars, netVars
<1>2. /\ ~overtaken' => ~overtaken
      /\ misled' = misled
      /\ \A u \in Conns :
             /\ th_sock'[u] = th_sock[u] /\ th_msg'[u] = th_msg[u]
             /\ th_pc'[u] \in Serving => th_pc'[u] = th_pc[u]
             /\ ~overtaken /\ th_pc[u] \in Serving =>
                    file'[th_sock[u]] = file[th_sock[u]]
    BY Elsewhere
<1> SUFFICES ASSUME ~overtaken', NEW c \in 1..Len(owner), owner[c] \notin misled
             PROVE  CallOK(c)'
    BY <1>1, <1>2 DEF CallInv
<1>3. \A u \in Conns : ExecutesFor(u, c)' =>
          ExecutesFor(u, c) /\ th_msg'[u] = th_msg[u]
    BY <1>2 DEF ExecutesFor, Executing, Serving
<1>4. CallOK(c)
    BY <1>2 DEF CallInv
<1> QED
    BY <1>1, <1>3, <1>4, HeldBack, CallSame

(* What is left of a stream without calls has none; and of one that begins *)
(* with a call, the only one, ends of messages are left.                   *)
LEMMA LeavesTails ==
    ASSUME NEW q \in Seq(Request), q # << >>, NEW r, Leaves(q, r),
           \A j \in 1..Len(q) : q[j].op # "tail" => j = Len(q)
    PROVE  /\ \A k \in 1..Len(r) : r[k].op # "tail" =>
                  k = Len(r) /\ r[k] = q[Len(q)] /\ q[Len(q)].op # "tail"
           /\ q[1].op # "tail" => \A k \in 1..Len(r) : r[k].op = "tail"
<1>1. Len(q) \in Nat /\ Len(q) >= 1 /\ 1 \in 1..Len(q)
    OBVIOUS
<1>2. r \in Seq(Request) /\ Len(r) \in Nat
    BY DEF Leaves
<1>3. PICK d \in 0..Len(q) :
          /\ Len(r) = Len(q) - d
          /\ \A k \in 1..Len(r) :
               \/ d + k >= 2 /\ r[k] = q[d + k]
               \/ r[k].op = "tail" /\ r[k].pid = q[d + k].pid
    BY DEF Leaves
<1>4. ASSUME NEW k \in 1..Len(r), r[k].op # "tail"
      PROVE  k = Len(r) /\ r[k] = q[Len(q)] /\ q[Len(q)].op # "tail" /\ Len(q) >= 2
    <2>1. d + k >= 2 /\ r[k] = q[d + k]
        BY <1>3, <1>4
    <2>2. d + k \in 1..Len(q)
        BY <1>1, <1>2, <1>3
    <2>3. d + k = Len(q)
        BY <1>4, <2>1, <2>2
    <2> QED
        BY <1>1, <1>2, <1>3, <1>4, <2>1, <2>3
<1>5. q[1].op # "tail" => Len(q) = 1
    BY <1>1
<1> QED
    BY <1>4, <1>5

(* A thread takes the first message of the stream, and executes it if it   *)
(* is a call.                                                              *)
LEMMA CallRead ==
    ASSUME TypeInv, ServeInv, NetInv, ReadInv, NEW t \in Conns, ReadRequest(t),
           [Next]_vars, ~overtaken, NEW c \in 1..Len(owner), CallOK(c),
           owner[c] \notin misled', th_conn[t] = c
    PROVE  CallOK(c)'
<1> DEFINE q == req[c]
           p == owner[c]
<1>0. /\ c \in Conns /\ req \in [Conns -> Seq(Request)] /\ p \in Procs
      /\ th_pc \in [Conns -> ThreadPcs] /\ th_pc[t] = "reading" /\ q # << >>
      /\ q \in Seq(Request)
    BY NetTyped DEF TypeInv, TypeOK, ThreadPcs, ReadRequest
<1>1. /\ UNCHANGED <<app_pc, call, lvlfd, owner, resp, file, th_sock>>
      /\ \E r : Leaves(q, r) /\ req' = [req EXCEPT ![c] = r]
    BY ReadTakes DEF clientVars
<1>2. PICK left : Leaves(q, left) /\ req'[c] = left
    BY <1>0, <1>1
<1>3. Head(q) = q[1] /\ Len(q) \in Nat /\ 1 \in 1..Len(q)
    <2> HIDE DEF q
    <2> QED
        BY <1>0
<1>4. Held(c)
    BY <1>0 DEF Held
<1>5. \/ th_pc'[t] \in {"free", "reading", "fail"}
      \/ th_pc'[t] \in {"serve", "more"} /\ Msg(t)' = q[1] /\ q[1].op \in Ops
    <2>1. CASE ReadFrom(t, th_sock[t])
        BY <1>0, <2>1 DEF ReadFrom
    <2>2. ASSUME NEW m \in Request, m.op \in Ops,
                 th_pc'[t] \in {"serve", "more", "fail"}, Msg(t)' = m,
                 \/ m = Head(q)
                 \/ {owner[c], m.pid} \cap Procs \subseteq misled'
          PROVE  \/ th_pc'[t] = "fail"
                 \/ th_pc'[t] \in {"serve", "more"} /\ Msg(t)' = q[1] /\ q[1].op \in Ops
        BY <1>0, <1>3, <2>2
    <2> HIDE DEF q
    <2> QED
        BY <2>1, <2>2, ReadTakes DEF q
<1> HIDE DEF q
<1>6. \A u \in Conns : u # t =>
          (ExecutesFor(u, c)' => ExecutesFor(u, c) /\ th_msg'[u] = th_msg[u])
    <2> SUFFICES ASSUME NEW u \in Conns, u # t
                 PROVE  ExecutesFor(u, c)' =>
                            ExecutesFor(u, c) /\ th_msg'[u] = th_msg[u]
        OBVIOUS
    <2>1. th_pc'[u] = th_pc[u] /\ th_msg'[u] = th_msg[u]
        BY Others DEF Thread
    <2> QED
        BY <1>1, <2>1 DEF ExecutesFor
<1>7. "tail" \notin Ops
    BY DEF Ops
<1>8. CASE app_pc[p] = "dead"
    BY <1>1, <1>8 DEF CallOK
<1>9. CASE Quiet(c)
    <2>1. \A j \in 1..Len(q) : q[j].op = "tail"
        BY <1>4, <1>9 DEF Quiet, q
    <2>a. Len(q) \in 1..Len(q)
        BY <1>3
    <2>b. \A j \in 1..Len(q) : q[j].op # "tail" => j = Len(q)
        BY <2>1
    <2>d. \A k \in 1..Len(left) : left[k].op # "tail" => q[Len(q)].op # "tail"
        BY <1>0, <1>2, <2>b, LeavesTails
    <2>2. \A k \in 1..Len(left) : left[k].op = "tail"
        BY <2>1, <2>a, <2>d
    <2>3. \A u \in Conns : ~ExecutesFor(u, c)'
        <3>1. ~ExecutesFor(t, c)'
            BY <1>3, <1>5, <1>7, <2>1 DEF ExecutesFor, Executing
        <3> QED
            BY <1>6, <1>9, <3>1 DEF Quiet, Unserved
    <2>4. Quiet(c)'
        BY <1>1, <1>2, <1>9, <2>2, <2>3 DEF Quiet, Unserved
    <2> QED
        BY <2>4 DEF CallOK
<1>10. CASE Pending(c)
    <2>1. \A j \in 1..Len(q) : q[j].op # "tail" =>
              j = Len(q) /\ q[j] = call[p] /\ resp[c] = << >> /\ Unserved(c)
        BY <1>4, <1>10 DEF Pending, q
    <2>2. /\ \A k \in 1..Len(left) : left[k].op # "tail" =>
                 k = Len(left) /\ left[k] = q[Len(q)] /\ q[Len(q)].op # "tail"
          /\ q[1].op # "tail" => \A k \in 1..Len(left) : left[k].op = "tail"
        BY <1>0, <1>2, <2>1, LeavesTails
    <2>3. Len(q) \in 1..Len(q)
        BY <1>3
    <2>4. ASSUME q[1].op \in Ops
          PROVE  q[1] = call[p] /\ resp[c] = << >> /\ Unserved(c)
        BY <1>3, <1>7, <2>1, <2>4
    <2>5. ASSUME NEW u \in Conns, ExecutesFor(u, c)'
          PROVE  Msg(u)' = call[p] /\ resp[c] = << >>
        <3>1. CASE u = t
            <4>1. Msg(t)' = q[1] /\ q[1].op \in Ops
                BY <1>5, <2>5, <3>1 DEF ExecutesFor, Executing
            <4> QED
                BY <2>4, <3>1, <4>1
        <3>2. CASE u # t
            <4>1. ExecutesFor(u, c) /\ th_msg'[u] = th_msg[u]
                BY <1>6, <2>5, <3>2
            <4> QED
                BY <1>10, <4>1 DEF Pending, Msg
        <3> QED
            BY <3>1, <3>2
    <2>6. ASSUME NEW k \in 1..Len(left), left[k].op # "tail"
          PROVE  k = Len(left) /\ left[k] = call[p] /\ resp[c] = << >> /\ Unserved(c)'
        <3>1. k = Len(left) /\ left[k] = call[p] /\ resp[c] = << >> /\ Unserved(c)
            BY <2>1, <2>2, <2>3, <2>6
        <3>2. ~(q[1].op \in Ops)
            BY <1>7, <2>2, <2>6
        <3>3. ~ExecutesFor(t, c)'
            BY <1>5, <3>2 DEF ExecutesFor, Executing
        <3>4. Unserved(c)'
            BY <1>6, <3>1, <3>3 DEF Unserved
        <3> QED
            BY <3>1, <3>4
    <2>7. resp[c] # << >> =>
                 /\ Len(resp[c]) = 1
                 /\ SameCall(resp[c][1], call[p]) /\ resp[c][1].fd = call[p].fd
        BY <1>10 DEF Pending
    <2>8. app_pc[p] = "wait" /\ lvlfd[p] = c
        BY <1>10 DEF Pending
    <2>9. Pending(c)'
        BY <1>1, <1>2, <2>5, <2>6, <2>7, <2>8 DEF Pending
    <2> QED
        BY <2>9 DEF CallOK
<1> QED
    BY <1>8, <1>9, <1>10 DEF CallOK

(* It reads the rest of the data: the stream holds no call, for the one    *)
(* that the application has made is being executed.                        *)
LEMMA CallMore ==
    ASSUME TypeInv, ServeInv, NetInv, ReadInv, NEW t \in Conns, ReadMore(t),
           [Next]_vars, ~overtaken, NEW c \in 1..Len(owner), CallOK(c),
           th_conn[t] = c
    PROVE  CallOK(c)'
<1> DEFINE p == owner[c]
<1>0. /\ c \in Conns /\ req \in [Conns -> Seq(Request)]
      /\ th_pc \in [Conns -> ThreadPcs] /\ th_pc[t] = "more"
      /\ req[c] \in Seq(Request)
    BY NetTyped DEF TypeInv, TypeOK, ThreadPcs, ReadMore
<1>1. /\ UNCHANGED <<app_pc, call, lvlfd, owner, resp, file, th_sock, th_msg>>
      /\ th_pc'[t] \in {"serve", "fail"}
    BY <1>0 DEF ReadMore, elsewhere, clientVars
<1>2. req'[c] = req[c] \/ (req[c] # << >> /\ Leaves(req[c], req'[c]))
    <2>1. \/ req' = req
          \/ /\ req[c] # << >>
             /\ \E r \in LeftByMore(th_msg[t][1], req[c]) :
                    req' = [req EXCEPT ![c] = r]
        BY DEF ReadMore
    <2> QED
        BY <1>0, <2>1, MoreLeaves
<1>3. ExecutesFor(t, c) /\ Held(c)
    <2>1. th_conn[t] = file[th_sock[t]]
        BY <1>0 DEF ReadInv, ReadOK
    <2> QED
        BY <1>0, <2>1 DEF ExecutesFor, Executing, Held
<1>4. \A u \in Conns :
          ExecutesFor(u, c)' => ExecutesFor(u, c) /\ th_msg'[u] = th_msg[u]
    <2> SUFFICES ASSUME NEW u \in Conns
                 PROVE  ExecutesFor(u, c)' =>
                            ExecutesFor(u, c) /\ th_msg'[u] = th_msg[u]
        OBVIOUS
    <2>1. CASE u = t
        BY <1>1, <1>3, <2>1
    <2>2. CASE u # t
        <3>1. th_pc'[u] = th_pc[u]
            BY <2>2, Others DEF Thread
        <3> QED
            BY <1>1, <3>1 DEF ExecutesFor
    <2> QED
        BY <2>1, <2>2
<1>5. CASE app_pc[p] = "dead"
    BY <1>1, <1>5 DEF CallOK
<1>6. CASE Pending(c)
    <2>1. \A j \in 1..Len(req[c]) : req[c][j].op = "tail"
        BY <1>3, <1>6 DEF Pending, Unserved
    <2>2. \A k \in 1..Len(req'[c]) : req'[c][k].op = "tail"
        <3>1. CASE req'[c] = req[c]
            BY <2>1, <3>1
        <3>2. CASE req[c] # << >> /\ Leaves(req[c], req'[c])
            <4>1. Len(req[c]) \in 1..Len(req[c])
                BY <1>0, <3>2
            <4> QED
                BY <1>0, <2>1, <3>2, <4>1, LeavesTails
        <3> QED
            BY <1>2, <3>1, <3>2
    <2>3. ASSUME NEW u \in Conns, ExecutesFor(u, c)'
          PROVE  Msg(u)' = call[p] /\ resp[c] = << >>
        BY <1>4, <1>6, <2>3 DEF Pending, Msg
    <2>4. resp[c] # << >> =>
                 /\ Len(resp[c]) = 1
                 /\ SameCall(resp[c][1], call[p]) /\ resp[c][1].fd = call[p].fd
        BY <1>6 DEF Pending
    <2>5. app_pc[p] = "wait" /\ lvlfd[p] = c
        BY <1>6 DEF Pending
    <2>6. Pending(c)'
        BY <1>1, <2>2, <2>3, <2>4, <2>5 DEF Pending
    <2> QED
        BY <2>6 DEF CallOK
<1>7. CASE Quiet(c)
    BY <1>3, <1>7 DEF Quiet, Unserved
<1> QED
    BY <1>5, <1>6, <1>7 DEF CallOK

(* What a thread needs to know of the call it executes: it comes from the  *)
(* application it names, or both are misled.                               *)
LEMMA Executed ==
    ASSUME TypeInv, ServeInv, NetInv, ReadInv, CallInv, ~overtaken,
           NEW t \in Conns, th_pc[t] \in Executing
    PROVE  /\ th_sock[t] \in Conns /\ file[th_sock[t]] \in 1..Len(owner)
           /\ file[th_sock[t]] # 0 /\ file[th_sock[t]] \in Conns
           /\ owner[file[th_sock[t]]] \in Procs /\ Msg(t).pid \in Procs
           /\ Msg(t).pid \notin misled => Msg(t).pid = owner[file[th_sock[t]]]
           /\ owner[file[th_sock[t]]] \notin misled =>
                 /\ Msg(t).pid = owner[file[th_sock[t]]]
                 /\ \/ Gone(file[th_sock[t]])
                    \/ /\ Pending(file[th_sock[t]])
                       /\ ~Gone(file[th_sock[t]])
                       /\ Msg(t) = call[Msg(t).pid]
                       /\ resp[file[th_sock[t]]] = << >>
                       /\ app_pc[Msg(t).pid] = "wait"
                       /\ lvlfd[Msg(t).pid] = file[th_sock[t]]
<1> DEFINE c == file[th_sock[t]]
<1>1. th_pc[t] \in Serving /\ th_sock[t] \in Conns
    BY DEF Executing, Serving, TypeInv, ThreadInv
<1>2. c # 0 /\ c \in 1..Len(owner) /\ c \in Conns /\ owner[c] \in Procs
    BY <1>1, NetTyped DEF ServeInv, NetInv
<1>3. Msg(t).pid = owner[c] \/ {owner[c], Msg(t).pid} \subseteq misled
    BY DEF ReadInv, ReadOK
<1>a. Msg(t).pid \in Procs
    <2>1. misled \subseteq Procs
        BY DEF TypeInv, TypeOK
    <2> QED
        BY <1>2, <1>3, <2>1
<1>4. ExecutesFor(t, c) /\ (owner[c] \notin misled => CallOK(c))
    BY <1>2 DEF CallInv, ExecutesFor
<1> HIDE DEF c
<1>5. CASE owner[c] \in misled
    BY <1>1, <1>2, <1>3, <1>a, <1>5 DEF c
<1>6. CASE owner[c] \notin misled /\ app_pc[owner[c]] = "dead"
    BY <1>1, <1>2, <1>3, <1>a, <1>6 DEF Gone, c
<1>7. CASE owner[c] \notin misled /\ app_pc[owner[c]] # "dead"
    <2>1. Pending(c)
        BY <1>4, <1>7 DEF CallOK, Quiet, Unserved
    <2>2. /\ Msg(t) = call[owner[c]] /\ resp[c] = << >>
          /\ app_pc[owner[c]] = "wait" /\ lvlfd[owner[c]] = c
        BY <1>4, <2>1 DEF Pending
    <2> QED
        BY <1>1, <1>2, <1>3, <1>a, <1>7, <2>1, <2>2 DEF Gone, c
<1> QED
    BY <1>5, <1>6, <1>7

LEMMA CallAnswer ==
    ASSUME TypeInv, ServeInv, NetInv, ReadInv, CallInv, ~overtaken,
           NEW t \in Conns, th_pc[t] \in Executing, Thread(t),
           NEW rc, Answer(t, rc), [Next]_vars,
           NEW c \in 1..Len(owner), file[th_sock[t]] = c,
           owner[c] \notin misled
    PROVE  CallOK(c)'
<1> DEFINE p == owner[c]
           r == [op |-> Msg(t).op, pid |-> Msg(t).pid, fd |-> Msg(t).fd,
                 rc |-> rc]
<1>1. /\ UNCHANGED <<app_pc, call, lvlfd, owner, req, file, th_sock>>
      /\ resp' = IF Gone(c) THEN resp ELSE [resp EXCEPT ![c] = Append(resp[c], r)]
    <2>1. c # 0
        BY Executed
    <2> QED
        BY <2>1 DEF Answer, clientVars
<1>2. CASE Gone(c)
    BY <1>1, <1>2 DEF Gone, CallOK
<1>3. CASE ~Gone(c)
    <2>1. /\ Pending(c) /\ Msg(t) = call[p] /\ resp[c] = << >> /\ p = Msg(t).pid
          /\ c \in Conns /\ app_pc[p] = "wait" /\ lvlfd[p] = c
          /\ ExecutesFor(t, c)
        BY <1>3, Executed DEF ExecutesFor
    <2>2. resp'[c] = <<r>>
        <3>1. resp \in [Conns -> Seq(Response)]
            BY NetTyped
        <3> HIDE DEF r
        <3>2. resp'[c] = Append(resp[c], r)
            BY <1>1, <1>3, <2>1, <3>1
        <3>3. Append(<< >>, r) = <<r>>
            OBVIOUS
        <3> QED
            BY <2>1, <3>2, <3>3
    <2>3. Len(resp'[c]) = 1 /\ resp'[c][1] = r
        BY <2>2
    <2>4. SameCall(r, call[p]) /\ r.fd = call[p].fd
        BY <2>1 DEF SameCall
    <2>5. ASSUME NEW u \in Conns, ExecutesFor(u, c)' PROVE FALSE
        <3>1. th_pc'[t] \in {"free", "reading"}
            BY DEF Answer, ReadFrom, TypeInv, TypeOK
        <3>2. u # t
            BY <2>5, <3>1 DEF ExecutesFor, Executing
        <3>3. th_pc[u] \in Executing /\ file[th_sock[u]] = c
            BY <1>1, <2>5, <3>2, Others DEF ExecutesFor
        <3>4. th_sock[u] \in Conns /\ th_sock[t] \in Conns
              /\ th_pc[u] \in Serving /\ th_pc[t] \in Serving
            BY <3>3 DEF Executing, Serving, TypeInv, ThreadInv
        <3>5. th_sock[u] = th_sock[t]
            BY <3>3, <3>4, Executed DEF NetInv
        <3> QED
            BY <3>2, <3>4, <3>5 DEF ServeInv
    <2>6. Held(c)' => Held(c)
        BY HeldBack
    <2>7. Held(c) => \A k \in 1..Len(req[c]) : req[c][k].op = "tail"
        BY <2>1 DEF Pending, Unserved
    <2> HIDE DEF r, p
    <2>8. Pending(c)'
        BY <1>1, <2>1, <2>3, <2>4, <2>5, <2>6, <2>7 DEF Pending, p
    <2> QED
        BY <2>8 DEF CallOK
<1> QED
    BY <1>2, <1>3

LEMMA CallThread ==
    ASSUME TypeInv, ServeInv, NetInv, ReadInv, CallInv, NEW t \in Conns,
           Thread(t), [Next]_vars
    PROVE  CallInv'
<1>0. /\ UNCHANGED <<app_pc, call, lvlfd, owner>> /\ (~overtaken' => ~overtaken)
      /\ misled \subseteq misled'
    <2>1. overtaken' = overtaken /\ misled \subseteq misled'
        BY DEF Thread, ThreadStart, ReadRequest, ReadMore, ReadEof, Fail,
               ipc_free_thread, FreeBegin, FreeFound, FreeNone, FreeBroken,
               PlainCall, _close, FdLoad, FdStore, Enqueue, CreateFails, histVars
    <2> QED
        BY <2>1, NetThread DEF clientVars
<1> SUFFICES ASSUME ~overtaken, NEW c \in 1..Len(owner), owner[c] \notin misled'
             PROVE  CallOK(c)'
    BY <1>0 DEF CallInv
<1>1. CallOK(c) /\ c \in Conns /\ c # 0 /\ owner[c] \notin misled
    BY <1>0, NetTyped DEF CallInv
<1>a. /\ th_pc \in [Conns -> ThreadPcs] /\ th_sock \in [Conns -> 0..MaxConns]
      /\ th_msg \in [Conns -> Seq(Request)] /\ file \in [Conns -> 0..MaxConns]
      /\ req \in [Conns -> Seq(Request)] /\ resp \in [Conns -> Seq(Response)]
      /\ th_conn \in [Conns -> 0..MaxConns]
    BY DEF TypeInv, TypeOK, ThreadPcs
<1>2. \A u \in Conns : u # t /\ ExecutesFor(u, c)' =>
          ExecutesFor(u, c) /\ th_msg'[u] = th_msg[u]
    <2> SUFFICES ASSUME NEW u \in Conns, u # t, ExecutesFor(u, c)'
                 PROVE  ExecutesFor(u, c) /\ th_msg'[u] = th_msg[u]
        OBVIOUS
    <2>1. /\ th_pc'[u] = th_pc[u] /\ th_sock'[u] = th_sock[u]
          /\ th_msg'[u] = th_msg[u]
          /\ th_pc[u] \in Serving => file'[th_sock[u]] = file[th_sock[u]]
        BY Others
    <2> QED
        BY <2>1 DEF ExecutesFor, Executing, Serving
<1>3. ASSUME req'[c] = req[c], resp'[c] = resp[c],
             ExecutesFor(t, c)' => ExecutesFor(t, c) /\ th_msg'[t] = th_msg[t]
      PROVE  CallOK(c)'
    BY <1>0, <1>1, <1>2, <1>3, HeldBack, CallSame
<1>4. CASE ThreadStart(t) \/ ReadEof(t) \/ Fail(t) \/ ipc_free_thread(t)
    <2>1. /\ UNCHANGED <<req, resp>>
          /\ th_pc'[t] \in {"free", "reading", "walk", "done"}
        BY <1>a, <1>4 DEF ThreadStart, ReadFrom, ReadEof, Fail, ipc_free_thread,
                          FreeBegin, FreeFound, FreeNone, FreeBroken, Ends, netVars
    <2> QED
        BY <1>3, <2>1 DEF ExecutesFor, Executing
<1>5. CASE FdLoad(t) \/ FdStore(t)
    <2>1. /\ UNCHANGED <<req, resp, th_msg, th_sock, file>>
          /\ th_pc[t] \in Executing
        BY <1>5 DEF FdLoad, FdStore, netVars, Executing
    <2> QED
        BY <1>3, <2>1 DEF ExecutesFor
<1>6. CASE ReadRequest(t)
    <2>1. CASE th_conn[t] = c
        BY <1>1, <1>6, <2>1, CallRead
    <2>2. CASE th_conn[t] # c
        <3>1. /\ UNCHANGED <<resp, file, th_sock>> /\ th_pc[t] = "reading"
              /\ \E r : req' = [req EXCEPT ![th_conn[t]] = r]
            BY <1>6, ReadTakes
        <3>2. th_conn[t] = file[th_sock[t]]
            BY <3>1 DEF ReadInv, ReadOK
        <3>3. ~ExecutesFor(t, c)'
            BY <2>2, <3>1, <3>2 DEF ExecutesFor
        <3> QED
            BY <1>1, <1>3, <1>a, <2>2, <3>1, <3>3
    <2> QED
        BY <2>1, <2>2
<1>7. CASE ReadMore(t)
    <2>1. CASE th_conn[t] = c
        BY <1>1, <1>7, <2>1, CallMore
    <2>2. CASE th_conn[t] # c
        <3>1. /\ UNCHANGED <<resp, file, th_sock>> /\ th_pc[t] = "more"
              /\ req' = req \/ \E r : req' = [req EXCEPT ![th_conn[t]] = r]
            BY <1>7 DEF ReadMore
        <3>2. th_conn[t] = file[th_sock[t]]
            BY <3>1 DEF ReadInv, ReadOK
        <3>3. ~ExecutesFor(t, c)'
            BY <2>2, <3>1, <3>2 DEF ExecutesFor
        <3>4. req'[c] = req[c]
            BY <1>a, <1>1, <2>2, <3>1
        <3> QED
            BY <1>3, <3>1, <3>3, <3>4
    <2> QED
        BY <2>1, <2>2
<1>8. CASE PlainCall(t) \/ _close(t) \/ Enqueue(t) \/ CreateFails(t)
    <2>1. th_pc[t] \in Executing /\ \E rc : Answer(t, rc)
        BY <1>8 DEF PlainCall, _close, Enqueue, CreateFails, Executing
    <2>2. PICK rc : Answer(t, rc)
        BY <2>1
    <2>3. CASE file[th_sock[t]] = c
        BY <1>1, <2>1, <2>2, <2>3, CallAnswer
    <2>4. CASE file[th_sock[t]] # c
        <3>1. /\ UNCHANGED <<req, file, th_sock>>
              /\ resp' = resp \/ \E x : resp' = [resp EXCEPT ![file[th_sock[t]]] = x]
            BY <2>2 DEF Answer
        <3>2. ~ExecutesFor(t, c)'
            BY <2>4, <3>1 DEF ExecutesFor
        <3>3. resp'[c] = resp[c]
            BY <1>a, <1>1, <2>4, <3>1
        <3> QED
            BY <1>3, <3>1, <3>2, <3>3
    <2> QED
        BY <2>3, <2>4
<1> QED
    BY <1>4, <1>5, <1>6, <1>7, <1>8 DEF Thread

LEMMA CallNext ==
    /\ TypeInv /\ ServeInv /\ NetInv /\ ReadInv /\ CallInv
    /\ [Next]_vars
    => CallInv'
<1> SUFFICES ASSUME TypeInv, ServeInv, NetInv, ReadInv, CallInv, [Next]_vars
             PROVE  CallInv'
    OBVIOUS
<1>1. CASE UNCHANGED vars \/ BrokenList
    <2>1. UNCHANGED <<owner, req, resp, app_pc, call, lvlfd, th_pc, th_sock,
                      th_msg, file, overtaken, misled, backlog, th_conn>>
        BY <1>1 DEF BrokenList, vars, clientVars, netVars, thVars, histVars, accVars
    <2>2. \A c \in 1..Len(owner) : CallOK(c)' <=> CallOK(c)
        BY <2>1 DEF CallOK, Quiet, Pending, Unserved, ExecutesFor, Held, Msg
    <2> QED
        BY <2>1, <2>2 DEF CallInv
<1> QED
    BY <1>1, CallClient, CallListener, CallThread DEF Next

(* A response that waits for an application is that to the call it has     *)
(* made last, whatever writes that did not fit into the server's buffer    *)
(* left in the stream and however many messages one read took, as long as  *)
(* the listener overtook no thread and none of what was left spelled a     *)
(* call over the application's connections or in its name (transmit_lvlip, *)
(* socket_ipc_open, ipc_write_rc).                                         *)
THEOREM OwnAnswerHolds == Spec => []OwnAnswer
<1>1. TypeInv /\ NetInv /\ CallInv => OwnAnswer
    <2> SUFFICES ASSUME TypeInv, NetInv, CallInv, ~overtaken,
                        NEW c \in DOMAIN owner, NEW k \in DOMAIN resp[c],
                        app_pc[owner[c]] # "dead", owner[c] \notin misled
                 PROVE  /\ k = 1 /\ Waiting(owner[c]) /\ lvlfd[owner[c]] = c
                        /\ SameCall(resp[c][k], call[owner[c]])
                        /\ resp[c][k].fd = call[owner[c]].fd
        BY DEF OwnAnswer
    <2>1. c \in 1..Len(owner) /\ c \in Conns /\ resp \in [Conns -> Seq(Response)]
        BY NetTyped
    <2>2. resp[c] # << >>
        OBVIOUS
    <2>3. Pending(c)
        BY <2>1, <2>2 DEF CallInv, CallOK, Quiet
    <2>4. Len(resp[c]) = 1 /\ resp[c] \in Seq(Response)
        BY <2>1, <2>2, <2>3 DEF Pending
    <2>5. k = 1
        BY <2>4
    <2> QED
        BY <2>2, <2>3, <2>5 DEF Pending, Waiting
<1> QED
    BY <1>1, TypeInit, TypeNext, ServeInit, ServeNext, NetInit, NetNext,
       ReadNext, CallNext, PTL DEF Spec

-----------------------------------------------------------------------------
(* A step that touches neither the application nor its sockets.            *)
LEMMA AgreeSame ==
    ASSUME NEW p \in Procs, AgreeOK(p), app_pc'[p] = app_pc[p],
           lvlfd'[p] = lvlfd[p], call'[p] = call[p], lib'[p] = lib[p],
           app_pc[p] = "wait" => resp'[lvlfd[p]] = resp[lvlfd[p]],
           \A fd \in Fds : sockets'[<<p, fd>>] = sockets[<<p, fd>>]
    PROVE  AgreeOK(p)'
<1>1. Listed(p)' = Listed(p)
    BY DEF Listed
<1>2. Expected(p)' = Expected(p)
    BY DEF Expected, LibAfter
<1> QED
    BY <1>1, <1>2 DEF AgreeOK

LEMMA AgreeClient ==
    ASSUME TypeInv, ServeInv, NetInv, CallInv, AgreeInv, NEW p \in Procs,
           Client(p)
    PROVE  AgreeInv'
<1>0. /\ UNCHANGED <<sockets, fdrace, overtaken, misled>>
      /\ app_pc \in [Procs -> {"idle", "wait", "dead"}]
      /\ lvlfd \in [Procs -> 0..MaxConns] /\ call \in [Procs -> Request]
      /\ lib \in [Procs -> SUBSET [fd : Fds, conn : Conns]]
      /\ req \in [Conns -> Seq(Request)] /\ resp \in [Conns -> Seq(Response)]
      /\ Len(owner) \in Nat /\ \A d \in 1..Len(owner) : d \in Conns
    <2>1. UNCHANGED serverVars
        BY DEF Client, lvl_socket, lvl_call, Exit, GetResponse, HungUp
    <2> QED
        BY <2>1, NetTyped DEF serverVars, tableVars, histVars
<1> SUFFICES ASSUME ~fdrace, ~overtaken, NEW q \in Procs, q \notin misled
             PROVE  AgreeOK(q)'
    BY <1>0 DEF AgreeInv
<1>1. AgreeOK(q)
    BY DEF AgreeInv
<1>2. Listed(q)' = Listed(q)
    BY <1>0 DEF Listed
<1>3. \A a \in Procs : app_pc[a] = "wait" =>
          lvlfd[a] \in 1..Len(owner) /\ owner[lvlfd[a]] = a
    BY DEF NetInv
<1>4. ASSUME q # p, UNCHANGED <<app_pc[q], lvlfd[q], call[q], lib[q]>>,
             app_pc[q] = "wait" => resp'[lvlfd[q]] = resp[lvlfd[q]]
      PROVE  AgreeOK(q)'
    BY <1>0, <1>1, <1>4, AgreeSame
<1>5. ASSUME NEW d \in Conns, NEW m, Transmit(p, d, m), UNCHANGED <<resp, lib>>,
             p \notin misled => resp[d] = << >>
      PROVE  AgreeOK(q)'
    <2>1. /\ app_pc' = [app_pc EXCEPT ![p] = "wait"] /\ app_pc[p] = "idle"
          /\ call' = [call EXCEPT ![p] = m] /\ lvlfd' = [lvlfd EXCEPT ![p] = d]
        BY <1>5 DEF Transmit
    <2>2. CASE q # p
        BY <1>0, <1>4, <1>5, <2>1, <2>2
    <2>3. CASE q = p
        <3>1. Expected(p) = lib[p]
            BY <2>1 DEF Expected
        <3>2. app_pc'[p] = "wait" /\ lvlfd'[p] = d /\ resp'[d] = << >>
              /\ lib'[p] = lib[p]
            BY <1>0, <1>5, <2>1, <2>3
        <3>3. Expected(p)' = lib[p]
            BY <3>2 DEF Expected
        <3> QED
            BY <1>1, <1>2, <2>1, <2>3, <3>1, <3>3 DEF AgreeOK
    <2> QED
        BY <2>2, <2>3
<1>6. CASE lvl_socket(p)
    <2> DEFINE d == Len(owner) + 1
               m == [op |-> "SOCKET", pid |-> p, fd |-> 0,
                    size |-> 1, more |-> FALSE]
    <2>1. d \in Conns /\ Transmit(p, d, m) /\ UNCHANGED <<resp, lib>>
        BY <1>6 DEF lvl_socket
    <2>2. d > Len(owner)
        BY <1>0
    <2>3. resp[d] = << >>
        BY <2>1, <2>2 DEF NetInv
    <2> HIDE DEF m, d
    <2>4. \E e \in Conns : Transmit(p, e, m) /\ resp[e] = << >>
        BY <2>1, <2>3
    <2> QED
        BY <1>5, <2>1, <2>4
<1>7. ASSUME NEW k \in Calls[p], NEW fd \in Fds, lvl_call(p, k, fd)
      PROVE  AgreeOK(q)'
    <2> DEFINE m == [op |-> k[1], pid |-> p, fd |-> fd,
                    size |-> k[2], more |-> k[3]]
    <2>1. PICK j \in lib[p] : Transmit(p, j.conn, m)
        BY <1>7 DEF lvl_call, lvlip_get_sock
    <2>2. UNCHANGED <<resp, lib>>
        BY <1>7 DEF lvl_call
    <2>3. j.conn \in 1..Len(owner) /\ owner[j.conn] = p
        BY DEF NetInv
    <2>4. app_pc[p] = "idle"
        BY <2>1 DEF Transmit
    <2>5. p \notin misled => Quiet(j.conn)
        BY <2>3, <2>4, QuietElse DEF CallInv
    <2>6. (p \notin misled => resp[j.conn] = << >>) /\ j.conn \in Conns
        BY <1>0, <2>3, <2>5 DEF Quiet
    <2> HIDE DEF m
    <2> QED
        BY <1>5, <2>1, <2>2, <2>6
<1>8. CASE Exit(p)
    <2>1. /\ app_pc' = [app_pc EXCEPT ![p] = "dead"]
          /\ call' = [call EXCEPT ![p] = NoCall(p)]
          /\ lvlfd' = [lvlfd EXCEPT ![p] = 0]
          /\ lib' = [lib EXCEPT ![p] = {}] /\ resp' = resp
        BY <1>8 DEF Exit, netVars
    <2>2. CASE q = p
        BY <1>0, <2>1, <2>2 DEF AgreeOK
    <2>3. CASE q # p
        BY <1>0, <1>4, <2>1, <2>3
    <2> QED
        BY <2>2, <2>3
<1>9. CASE GetResponse(p)
    <2> DEFINE d == lvlfd[p]
               r == Head(resp[d])
    <2>1. /\ app_pc[p] = "wait" /\ resp[d] # << >>
          /\ app_pc' = [app_pc EXCEPT ![p] = "idle"]
          /\ call' = [call EXCEPT ![p] = NoCall(p)]
          /\ lvlfd' = [lvlfd EXCEPT ![p] = 0]
          /\ \E s : resp' = [resp EXCEPT ![d] = s]
          /\ lib' = [lib EXCEPT ![p] = IF SameCall(r, call[p])
                                       THEN LibAfter(p, r) ELSE lib[p]]
        BY <1>9 DEF GetResponse, Returns
    <2>2. d \in 1..Len(owner) /\ owner[d] = p
        BY <1>3, <2>1
    <2>3. CASE q # p
        <3>1. app_pc[q] = "wait" => lvlfd[q] # d /\ lvlfd[q] \in Conns
            BY <1>0, <1>3, <2>2, <2>3
        <3> HIDE DEF d, r
        <3>2. app_pc[q] = "wait" => resp'[lvlfd[q]] = resp[lvlfd[q]]
            BY <1>0, <2>1, <3>1
        <3>3. UNCHANGED <<app_pc[q], lvlfd[q], call[q], lib[q]>>
            BY <1>0, <2>1, <2>3
        <3> QED
            BY <1>4, <2>3, <3>2, <3>3
    <2>4. CASE q = p
        <3>1. CallOK(d)
            BY <2>2, <2>4 DEF CallInv
        <3>2. Pending(d)
            BY <2>1, <2>2, <3>1 DEF CallOK, Quiet
        <3>3. SameCall(r, call[p])
            <4>1. resp[d] \in Seq(Response) /\ resp[d] # << >>
                BY <1>0, <2>1, <2>2
            <4>2. r = resp[d][1]
                BY <4>1
            <4>3. SameCall(resp[d][1], call[p])
                BY <2>1, <2>2, <3>2 DEF Pending
            <4> QED
                BY <4>2, <4>3
        <3>4. Expected(p) = LibAfter(p, r)
            BY <2>1 DEF Expected
        <3> HIDE DEF r, d
        <3>5. lib'[p] = LibAfter(p, r) /\ app_pc'[p] = "idle"
            BY <1>0, <2>1, <3>3
        <3>6. Expected(p)' = lib'[p]
            BY <3>5 DEF Expected
        <3> QED
            BY <1>1, <1>2, <2>1, <2>4, <3>4, <3>5, <3>6 DEF AgreeOK
    <2> QED
        BY <2>3, <2>4
<1>10. CASE HungUp(p)
    <2>1. /\ app_pc[p] = "wait" /\ resp[lvlfd[p]] = << >> /\ UNCHANGED <<lib, resp>>
          /\ app_pc' = [app_pc EXCEPT ![p] = "idle"]
          /\ call' = [call EXCEPT ![p] = NoCall(p)]
          /\ lvlfd' = [lvlfd EXCEPT ![p] = 0]
        BY <1>10 DEF HungUp, Returns, netVars
    <2>2. CASE q # p
        BY <1>0, <1>4, <2>1, <2>2
    <2>3. CASE q = p
        <3>1. Expected(p) = lib[p]
            BY <2>1 DEF Expected
        <3>2. app_pc'[p] = "idle" /\ lib'[p] = lib[p]
            BY <1>0, <2>1
        <3>3. Expected(p)' = lib[p]
            BY <3>2 DEF Expected
        <3> QED
            BY <1>1, <1>2, <2>1, <2>3, <3>1, <3>3 DEF AgreeOK
    <2> QED
        BY <2>2, <2>3
<1> QED
    BY <1>6, <1>7, <1>8, <1>9, <1>10 DEF Client

(* An answer: what the stack does to its table, the library will do to its *)
(* own when it reads the answer.                                           *)
LEMMA AgreeAnswer ==
    ASSUME TypeInv, ServeInv, NetInv, ReadInv, CallInv, AgreeInv,
           ~fdrace, ~overtaken, UNCHANGED <<fdrace, overtaken, misled>>,
           NEW t \in Conns, th_pc[t] \in Executing,
           NEW rc \in Fds \cup {0, -1}, Answer(t, rc),
           \A s \in Socket : s[1] # Msg(t).pid => sockets'[s] = sockets[s],
           Msg(t).pid \notin misled /\ ~Gone(file[th_sock[t]]) =>
               {fd \in Fds : sockets'[<<Msg(t).pid, fd>>] > 0} =
               IF Msg(t).op \in {"SOCKET", "ACCEPT"} /\ rc > 0
               THEN Listed(Msg(t).pid) \cup {rc}
               ELSE IF Msg(t).op = "CLOSE" /\ rc = 0
                    THEN Listed(Msg(t).pid) \ {Msg(t).fd}
                    ELSE Listed(Msg(t).pid)
    PROVE  AgreeInv'
<1> DEFINE c == file[th_sock[t]]
           p == Msg(t).pid
           r == [op |-> Msg(t).op, pid |-> Msg(t).pid, fd |-> Msg(t).fd,
                 rc |-> rc]
<1> SUFFICES ASSUME NEW q \in Procs, q \notin misled PROVE AgreeOK(q)'
    BY DEF AgreeInv
<1>0. /\ lvlfd \in [Procs -> 0..MaxConns] /\ call \in [Procs -> Request]
      /\ lib \in [Procs -> SUBSET [fd : Fds, conn : Conns]]
      /\ resp \in [Conns -> Seq(Response)]
      /\ \A d \in 1..Len(owner) : d \in Conns
    BY NetTyped
<1>1. /\ c \in 1..Len(owner) /\ c \in Conns /\ c # 0 /\ p \in Procs
      /\ owner[c] \in Procs /\ (q \in {owner[c], p} => owner[c] = p)
    BY Executed
<1>2. /\ UNCHANGED <<app_pc, call, lvlfd, lib, owner>>
      /\ resp' = IF Gone(c) THEN resp ELSE [resp EXCEPT ![c] = Append(resp[c], r)]
    BY <1>1 DEF Answer, clientVars
<1>3. AgreeOK(q)
    BY <1>1 DEF AgreeInv
<1>4. q = p => (Gone(c) <=> app_pc[p] = "dead")
    BY <1>1 DEF Gone
<1>5. CASE q # p
    <2>1. \A fd \in Fds : sockets'[<<q, fd>>] = sockets[<<q, fd>>]
        BY <1>5 DEF Socket
    <2>2. app_pc[q] = "wait" =>
              lvlfd[q] # c /\ lvlfd[q] \in 1..Len(owner)
        BY <1>1, <1>5 DEF NetInv
    <2> HIDE DEF c, r, p
    <2>3. app_pc[q] = "wait" => resp'[lvlfd[q]] = resp[lvlfd[q]]
        BY <1>0, <1>2, <2>2
    <2> QED
        BY <1>2, <1>3, <2>1, <2>3, AgreeSame
<1>6. CASE q = p /\ app_pc[p] = "dead"
    BY <1>2, <1>6 DEF AgreeOK
<1>7. CASE q = p /\ app_pc[p] # "dead"
    <2>1. /\ Msg(t) = call[p] /\ resp[c] = << >> /\ app_pc[p] = "wait"
          /\ lvlfd[p] = c
        BY <1>1, <1>4, <1>7, Executed
    <2>2. ~Gone(c)
        BY <1>4, <1>7
    <2>3. resp'[c] = <<r>>
        <3> HIDE DEF r, c
        <3>1. resp'[c] = Append(resp[c], r)
            BY <1>0, <1>1, <1>2, <2>2
        <3>2. Append(<< >>, r) = <<r>>
            OBVIOUS
        <3> QED
            BY <2>1, <3>1, <3>2
    <2>4. Expected(p) = lib[p]
        BY <2>1 DEF Expected
    <2>5. {k.fd : k \in lib[p]} = Listed(p)
        BY <1>3, <1>7, <2>4 DEF AgreeOK
    <2>6. /\ resp'[lvlfd'[q]] = <<r>> /\ Head(<<r>>) = r /\ <<r>> # << >>
          /\ app_pc'[q] = "wait"
        BY <1>2, <1>7, <2>1, <2>3
    <2>7. r.op = Msg(t).op /\ r.rc = rc
        OBVIOUS
    <2>8. call[p].fd = Msg(t).fd
        BY <2>1
    <2> DEFINE after == IF Msg(t).op \in {"SOCKET", "ACCEPT"} /\ rc > 0
                        THEN lib[p] \cup {[fd |-> rc, conn |-> lvlfd[p]]}
                        ELSE IF Msg(t).op = "CLOSE" /\ rc = 0
                             THEN {k \in lib[p] : k.fd # Msg(t).fd}
                             ELSE lib[p]
    <2>9. Listed(q)' =
              IF Msg(t).op \in {"SOCKET", "ACCEPT"} /\ rc > 0
              THEN Listed(p) \cup {rc}
              ELSE IF Msg(t).op = "CLOSE" /\ rc = 0
                   THEN Listed(p) \ {Msg(t).fd} ELSE Listed(p)
        BY <1>7, <2>2 DEF Listed
    <2>10. {k.fd : k \in after} =
              IF Msg(t).op \in {"SOCKET", "ACCEPT"} /\ rc > 0
              THEN Listed(p) \cup {rc}
              ELSE IF Msg(t).op = "CLOSE" /\ rc = 0
                   THEN Listed(p) \ {Msg(t).fd} ELSE Listed(p)
        <3>1. {k.fd : k \in lib[p] \cup {[fd |-> rc, conn |-> lvlfd[p]]}}
                     = Listed(p) \cup {rc}
            <4> DEFINE new == [fd |-> rc, conn |-> lvlfd[p]]
            <4>1. new.fd = rc
                OBVIOUS
            <4> HIDE DEF new, p
            <4>2. {k.fd : k \in lib[p] \cup {new}} = {k.fd : k \in lib[p]} \cup {rc}
                BY <4>1
            <4> QED
                BY <2>5, <4>2 DEF new
        <3>2. {k.fd : k \in {j \in lib[p] : j.fd # Msg(t).fd}}
              = Listed(p) \ {Msg(t).fd}
            BY <2>5
        <3> HIDE DEF r, c, p
        <3> QED
            BY <2>5, <3>1, <3>2 DEF after
    <2> HIDE DEF r, c, p
    <2>11. Expected(q)' = after
        <3>1. /\ lib'[q] = lib[p] /\ lvlfd'[q] = lvlfd[p]
              /\ call'[q].fd = Msg(t).fd
            BY <1>2, <1>7, <2>8
        <3>2. Expected(q)' =
                  IF r.op \in {"SOCKET", "ACCEPT"} /\ r.rc > 0
                  THEN lib'[q] \cup {[fd |-> r.rc, conn |-> lvlfd'[q]]}
                  ELSE IF r.op = "CLOSE" /\ r.rc = 0
                       THEN {k \in lib'[q] : k.fd # call'[q].fd} ELSE lib'[q]
            BY <2>6 DEF Expected, LibAfter, ForgetSock
        <3> QED
            BY <2>7, <3>1, <3>2
    <2> QED
        BY <2>9, <2>10, <2>11 DEF AgreeOK
<1> QED
    BY <1>5, <1>6, <1>7

LEMMA AgreeThread ==
    ASSUME TypeInv, ServeInv, FdInv, NetInv, ReadInv, CallInv, AgreeInv,
           NEW t \in Conns, Thread(t)
    PROVE  AgreeInv'
<1>0. /\ UNCHANGED clientVars /\ sockets \in [Socket -> Nat]
      /\ ThreadInv(t) /\ \A n \in Fds : n > 0
    BY NetThread, FdFacts DEF TypeInv, TypeOK
<1>1. ASSUME resp' = resp, sockets' = sockets, overtaken' = overtaken,
             ~fdrace' => ~fdrace, misled \subseteq misled'
      PROVE  AgreeInv'
    <2> SUFFICES ASSUME ~fdrace, ~overtaken, NEW q \in Procs, q \notin misled
                 PROVE  AgreeOK(q)'
        BY <1>1 DEF AgreeInv
    <2>1. AgreeOK(q)
        BY DEF AgreeInv
    <2> QED
        BY <1>0, <1>1, <2>1, AgreeSame DEF clientVars
<1>2. CASE \/ ThreadStart(t) \/ ReadMore(t) \/ ReadEof(t) \/ Fail(t)
           \/ ipc_free_thread(t)
    BY <1>1, <1>2 DEF ThreadStart, ReadMore, ReadEof, Fail, ipc_free_thread,
                      FreeBegin, FreeFound, FreeNone, FreeBroken, netVars,
                      tableVars, histVars
<1>a. CASE ReadRequest(t)
    <2>1. /\ UNCHANGED <<resp, sockets, overtaken, fdrace>>
          /\ misled \subseteq misled'
        BY <1>a, ReadTakes
    <2> QED
        BY <1>1, <2>1
<1>3. CASE FdLoad(t) \/ FdStore(t)
    BY <1>1, <1>3 DEF FdLoad, FdStore, netVars, tableVars, histVars
<1>4. CASE PlainCall(t) \/ _close(t) \/ Enqueue(t) \/ CreateFails(t)
    <2>0. UNCHANGED <<fdrace, overtaken, misled>> /\ th_pc[t] \in Executing
        BY <1>4 DEF PlainCall, _close, Enqueue, CreateFails, histVars, Executing
    <2> SUFFICES ASSUME ~fdrace, ~overtaken PROVE AgreeInv'
        BY <2>0 DEF AgreeInv
    <2> DEFINE p == Msg(t).pid
               new == {fd \in Fds : sockets'[<<p, fd>>] > 0}
    <2>1. p \in Procs /\ \A fd \in Fds : <<p, fd>> \in Socket
        BY <2>0, Executed DEF Socket
    <2>2. CASE PlainCall(t)
        <3>1. PICK rc \in {0, -1} : (rc = 0 => get_socket(t)) /\ Answer(t, rc)
            BY <2>2 DEF PlainCall
        <3>2. sockets' = sockets /\ (get_socket(t) => Msg(t).op # "CLOSE")
            BY <2>2 DEF PlainCall, tableVars
        <3>3. ~(rc > 0) /\ (rc = 0 => Msg(t).op # "CLOSE")
            BY <3>1, <3>2
        <3>4. new = Listed(p)
            BY <3>2 DEF Listed
        <3> QED
            BY <2>0, <3>1, <3>2, <3>3, <3>4, AgreeAnswer
    <2>3. CASE CreateFails(t)
        <3>1. Answer(t, -1) /\ sockets' = sockets
            BY <2>3 DEF CreateFails, tableVars
        <3>2. new = Listed(p)
            BY <3>1 DEF Listed
        <3> QED
            BY <2>0, <3>1, <3>2, AgreeAnswer
    <2>4. CASE Enqueue(t)
        <3> DEFINE n == th_fd[t]
        <3>1. /\ th_pc[t] = "made" /\ Answer(t, n)
              /\ sockets' = [sockets EXCEPT ![<<p, n>>] = sockets[<<p, n>>] + 1]
            BY <2>4 DEF Enqueue
        <3>2. n \in Fds /\ n > 0 /\ Msg(t).op \in {"SOCKET", "ACCEPT"}
            BY <1>0, <3>1 DEF ThreadInv, ReadInv, ReadOK, Numbered
        <3>3. sockets[<<p, n>>] + 1 > 0 /\ sockets[<<p, n>>] \in Nat
              /\ <<p, n>> \in Socket
            BY <1>0, <2>1, <3>2
        <3>4. \A s \in Socket : s # <<p, n>> => sockets'[s] = sockets[s]
            BY <1>0, <3>1
        <3>5. sockets'[<<p, n>>] > 0
            BY <1>0, <3>1, <3>3
        <3>6. \A fd \in Fds : fd # n => sockets'[<<p, fd>>] = sockets[<<p, fd>>]
            BY <2>1, <3>4
        <3>7. \A s \in Socket : s[1] # p => sockets'[s] = sockets[s]
            BY <3>4
        <3> HIDE DEF n, p
        <3>8. new = Listed(p) \cup {n}
            BY <3>2, <3>5, <3>6 DEF Listed
        <3> QED
            BY <2>0, <3>1, <3>2, <3>7, <3>8, AgreeAnswer DEF p
    <2>5. CASE _close(t)
        <3> DEFINE n == Msg(t).fd
        <3>1. PICK rc \in {0, -1} :
                  /\ Answer(t, rc)
                  /\ sockets' = [sockets EXCEPT ![<<p, n>>] =
                                     sockets[<<p, n>>] - RemoveClosed(rc)]
            BY <2>5 DEF _close, Sock
        <3>2. Msg(t).op = "CLOSE" /\ <<p, n>> \in Socket /\ sockets[<<p, n>>] > 0
            BY <2>5 DEF _close, get_socket, Sock
        <3>3. sockets[<<p, n>>] = 1
            BY <1>0, <3>2 DEF FdInv
        <3>4. \A s \in Socket : s # <<p, n>> => sockets'[s] = sockets[s]
            BY <1>0, <3>1
        <3>5. sockets'[<<p, n>>] = IF rc = 0 THEN 0 ELSE 1
            BY <1>0, <3>1, <3>2, <3>3 DEF RemoveClosed
        <3>6. \A fd \in Fds : fd # n => sockets'[<<p, fd>>] = sockets[<<p, fd>>]
            BY <2>1, <3>4
        <3>7. \A s \in Socket : s[1] # p => sockets'[s] = sockets[s]
            BY <3>4
        <3> HIDE DEF n, p
        <3>8. new = IF rc = 0 THEN Listed(p) \ {n} ELSE Listed(p)
            BY <3>3, <3>5, <3>6 DEF Listed
        <3>9. ~(rc > 0)
            BY <3>1
        <3> QED
            BY <2>0, <3>1, <3>2, <3>7, <3>8, <3>9, AgreeAnswer DEF p, n
    <2> QED
        BY <1>4, <2>2, <2>3, <2>4, <2>5
<1> QED
    BY <1>2, <1>a, <1>3, <1>4 DEF Thread

LEMMA AgreeNext ==
    /\ TypeInv /\ ServeInv /\ FdInv /\ NetInv /\ ReadInv /\ CallInv /\ AgreeInv
    /\ [Next]_vars
    => AgreeInv'
<1> SUFFICES ASSUME TypeInv, ServeInv, FdInv, NetInv, ReadInv, CallInv,
                    AgreeInv, [Next]_vars
             PROVE  AgreeInv'
    OBVIOUS
<1>1. ASSUME UNCHANGED <<clientVars, sockets, resp, fdrace, misled>>,
             ~overtaken' => ~overtaken
      PROVE  AgreeInv'
    <2> SUFFICES ASSUME ~fdrace, ~overtaken, NEW q \in Procs, q \notin misled
                 PROVE  AgreeOK(q)'
        BY <1>1 DEF AgreeInv
    <2>1. AgreeOK(q)
        BY DEF AgreeInv
    <2> QED
        BY <1>1, <2>1, AgreeSame DEF clientVars
<1>2. CASE Listener
    BY <1>1, <1>2 DEF Listener, ListenerAccept, ListenerAlloc, tableVars, netVars,
                      histVars
<1>3. CASE UNCHANGED vars \/ BrokenList
    BY <1>1, <1>3 DEF BrokenList, vars, tableVars, netVars, histVars
<1> QED
    BY <1>2, <1>3, AgreeClient, AgreeThread DEF Next

(* Between two calls the library and the stack know the same sockets of an *)
(* application, unless two threads raced in alloc_socket, the listener     *)
(* overtook one, or the end of a write was executed as a call over one of  *)
(* its connections or in its name (lvl_close, _close, lvl_accept,          *)
(* _accept).                                                               *)
THEOREM TablesAgreeHolds == Spec => []TablesAgree
<1>1. AgreeInv => TablesAgree
    BY DEF AgreeInv, AgreeOK, Expected, Listed, TablesAgree
<1> QED
    BY <1>1, TypeInit, TypeNext, ServeInit, ServeNext, FdInit, FdNext, NetInit,
       NetNext, ReadNext, CallNext, AgreeNext, PTL DEF Spec
=============================================================================
