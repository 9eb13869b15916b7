---------------------------------- MODULE Ipc ----------------------------------
(***************************************************************************)
(* How applications call the stack: the client library, the UNIX sockets,  *)
(* the IPC server with its listener and one thread per connection, and the *)
(* table of sockets those threads work on.                                 *)
(*                                                                         *)
(* An application is a process with one thread (the library has no locks), *)
(* so it has one call at a time.  lvl_socket opens a connection of its     *)
(* own; a socket that accept returned shares the connection of the         *)
(* listening one.  What TCP and UDP make of a call is left open: it        *)
(* succeeds or fails, and the blocking calls may take for ever.            *)
(*                                                                         *)
(* A stream holds whole messages, but one read of the server takes all     *)
(* that fits into its buffer and looks at the first message only.  A write *)
(* too large for the buffer leaves its end in the stream, a "tail" that    *)
(* the server then takes for the beginning of a request: a call, if the    *)
(* bytes of the application happen to spell one.                           *)
(***************************************************************************)
EXTENDS Integers, Sequences, FiniteSets

CONSTANTS
    Procs,      \* the applications, by process id
    MaxConns,   \* bound on the connections to the IPC server
    MaxSockets, \* bound on the connections of an application
    MaxActs,    \* bound on the calls and exits of all applications
    MaxFd,      \* bound on the descriptors of the stack
    Calls,      \* what each application calls beside socket: a call, the
                \* number of the server's buffers that it fills, and whether
                \* its data alone fill more than one
    Leftovers   \* the requests that the end of a write may read as

Ops == {"SOCKET", "CONNECT", "WRITE", "READ", "CLOSE", "BIND", "ACCEPT",
        "LISTEN", "SENDTO", "RECVFROM"}

(* Calls that carry data, which need not fit into the server's buffer.     *)
Carrying == {"WRITE", "SENDTO"}

Conns == 1..MaxConns   \* also the server's descriptors and threads

FirstFd == 1   \* 4097 in alloc_socket

Fds == FirstFd..MaxFd

(* size counts the buffers of the server (IPC_BUFLEN) that a message       *)
(* fills; with more, its len field says that the data alone fill more than *)
(* one, so that the server reads a second time.                            *)
Request  == [op : Ops \cup {"none", "tail"}, pid : Procs, fd : Fds \cup {0},
             size : Nat \ {0}, more : BOOLEAN]

Response == [op : Ops, pid : Procs, fd : Fds \cup {0},
             rc : Fds \cup {0, -1}]

Socket == Procs \X Fds

ASSUME IpcAssumption ==
    /\ MaxConns \in Nat /\ MaxSockets \in Nat /\ MaxFd \in Nat \ {0}
    /\ MaxActs \in Nat
    /\ Calls \in [Procs -> SUBSET ((Ops \ {"SOCKET"}) \X (Nat \ {0})
                                   \X BOOLEAN)]
    /\ \A p \in Procs : \A k \in Calls[p] :
           (k[2] > 1 => k[1] \in Carrying) /\ (k[3] => k[2] > 1)
    /\ Leftovers \subseteq Request
    /\ \A m \in Leftovers : /\ m.op # "tail" /\ m.size = 1
                            /\ m.more => m.op \in Carrying

VARIABLES
    app_pc,     \* "idle", "wait" for the response, or "dead"
    call,       \* the call at hand: its request
    lvlfd,      \* the connection the call uses
    lib,        \* lvlip_socks: the descriptors known and their connections
    acts,       \* how many calls and exits there were
    owner,      \* the applications that opened the connections
    backlog,    \* connections the listener has not accepted
    req, resp,  \* the two directions of a connection
    file,       \* the server's descriptors: a connection, or 0
    lst_pc,     \* the listener: at "accept" or at "alloc", ipc_alloc_thread
    datasock,   \* of start_ipc_listener: the descriptor accepted last
    started,    \* threads created
    connections,  \* the list of ipc_thread: how many have a sock field
    th_pc, th_sock, th_conn, th_msg, th_fd,  \* the threads
    sockets,    \* the list of sockets: how many have a pid and an fd
    next_fd,    \* static int fd of alloc_socket
    overtaken,  \* history: datasock changed before a thread had read it
    fdrace,     \* history: two threads were in the middle of fd++
    clash,      \* history: two threads changed connections at a time
    misled,     \* history: the applications in whose name, or over whose
                \* connection, the end of a write was executed as a call
    up          \* the stack is running

clientVars == <<app_pc, call, lvlfd, lib, acts, owner>>
netVars    == <<req, resp>>
accVars    == <<backlog, lst_pc, datasock, started>>
thVars     == <<th_pc, th_sock, th_conn, th_msg, th_fd>>
tableVars  == <<sockets, next_fd>>
histVars   == <<overtaken, fdrace, clash, misled>>
vars == <<clientVars, netVars, accVars, file, connections, thVars, tableVars,
          histVars, up>>

NoCall(p) == [op |-> "none", pid |-> p, fd |-> 0, size |-> 1, more |-> FALSE]

Init ==
    /\ app_pc = [p \in Procs |-> "idle"]
    /\ call = [p \in Procs |-> NoCall(p)]
    /\ lvlfd = [p \in Procs |-> 0]
    /\ lib = [p \in Procs |-> {}]
    /\ acts = 0 /\ owner = << >> /\ backlog = << >>
    /\ req = [c \in Conns |-> << >>] /\ resp = [c \in Conns |-> << >>]
    /\ file = [n \in Conns |-> 0]
    /\ lst_pc = "accept" /\ datasock = 0 /\ started = 0
    /\ connections = [n \in Conns |-> 0]
    /\ th_pc = [t \in Conns |-> "none"] /\ th_sock = [t \in Conns |-> 0]
    /\ th_conn = [t \in Conns |-> 0]
    /\ th_msg = [t \in Conns |-> << >>] /\ th_fd = [t \in Conns |-> 0]
    /\ sockets = [s \in Socket |-> 0] /\ next_fd = FirstFd
    /\ overtaken = FALSE /\ fdrace = FALSE /\ clash = FALSE /\ misled = {}
    /\ up = TRUE

-----------------------------------------------------------------------------
(* The client library.                                                     *)

serverVars == <<file, lst_pc, datasock, started, connections, thVars,
                tableVars, histVars, up>>

(* transmit_lvlip, and the calls that do the same themselves.              *)
Transmit(p, c, m) ==
    /\ app_pc[p] = "idle" /\ acts < MaxActs
    /\ acts' = acts + 1
    /\ req' = [req EXCEPT ![c] = Append(@, m)]
    /\ app_pc' = [app_pc EXCEPT ![p] = "wait"]
    /\ call' = [call EXCEPT ![p] = m]
    /\ lvlfd' = [lvlfd EXCEPT ![p] = c]

lvl_socket(p) ==
    LET c == Len(owner) + 1
    IN  /\ c \in Conns
        /\ Cardinality({k \in DOMAIN owner : owner[k] = p}) < MaxSockets
        /\ owner' = Append(owner, p)
        /\ backlog' = Append(backlog, c)
        /\ Transmit(p, c, [op |-> "SOCKET", pid |-> p, fd |-> 0,
                           size |-> 1, more |-> FALSE])
        /\ UNCHANGED <<lib, resp, serverVars>>

lvlip_get_sock(p, fd) == {k \in lib[p] : k.fd = fd}

(* The server holds a connection through a descriptor and, until it        *)
(* returns, through a read.                                                *)
Held(c) ==
    \/ \E k \in DOMAIN backlog : backlog[k] = c
    \/ \E n \in Conns : file[n] = c
    \/ \E t \in Conns : th_pc[t] \in {"reading", "more"} /\ th_conn[t] = c

(* connect, bind, listen, accept, read, write, sendto, recvfrom, close.    *)
lvl_call(p, k, fd) ==
    /\ \E s \in lvlip_get_sock(p, fd) :
           /\ Held(s.conn)
           /\ Transmit(p, s.conn, [op |-> k[1], pid |-> p, fd |-> fd,
                                   size |-> k[2], more |-> k[3]])
    /\ UNCHANGED <<lib, owner, backlog, resp, serverVars>>

(* The application exits, is killed (by SIGPIPE too, when the server has   *)
(* hung up), or runs into assert(0) with a descriptor the library does not *)
(* know.  Only now its connections are closed, with the answers that wait. *)
Exit(p) ==
    /\ app_pc[p] # "dead" /\ acts < MaxActs
    /\ acts' = acts + 1
    /\ app_pc' = [app_pc EXCEPT ![p] = "dead"]
    /\ call' = [call EXCEPT ![p] = NoCall(p)]
    /\ lvlfd' = [lvlfd EXCEPT ![p] = 0]
    /\ lib' = [lib EXCEPT ![p] = {}]
    /\ UNCHANGED <<owner, backlog, netVars, serverVars>>

Gone(c) == app_pc[owner[c]] = "dead"

ForgetAnyway(r) == r.op = "CLOSE"

ForgetSock(r) == r.op = "CLOSE" /\ r.rc = 0

(* What the library does with the descriptors it knows.                    *)
LibAfter(p, r) ==
    IF r.op \in {"SOCKET", "ACCEPT"} /\ r.rc > 0
    THEN lib[p] \cup {[fd |-> r.rc, conn |-> lvlfd[p]]}
    ELSE IF ForgetSock(r)
         THEN {k \in lib[p] : k.fd # call[p].fd}
         ELSE lib[p]

SameCall(r, m) == r.op = m.op /\ r.pid = m.pid

Returns(p) ==
    /\ app_pc' = [app_pc EXCEPT ![p] = "idle"]
    /\ call' = [call EXCEPT ![p] = NoCall(p)]
    /\ lvlfd' = [lvlfd EXCEPT ![p] = 0]

(* The response is read, with others that wait; one of another type or     *)
(* process is an error.                                                    *)
GetResponse(p) ==
    /\ app_pc[p] = "wait" /\ resp[lvlfd[p]] # << >>
    /\ LET r == Head(resp[lvlfd[p]])
       IN  lib' = [lib EXCEPT ![p] = IF SameCall(r, call[p])
                                     THEN LibAfter(p, r) ELSE @]
    /\ \E j \in DOMAIN resp[lvlfd[p]] :
           resp' = [resp EXCEPT ![lvlfd[p]] = SubSeq(@, j + 1, Len(@))]
    /\ Returns(p)
    /\ UNCHANGED <<acts, owner, backlog, req, serverVars>>

(* The server has hung up: read returns 0, which passes for a response of  *)
(* the wrong type.                                                         *)
HungUp(p) ==
    /\ app_pc[p] = "wait" /\ resp[lvlfd[p]] = << >> /\ ~Held(lvlfd[p])
    /\ Returns(p)
    /\ UNCHANGED <<lib, acts, owner, backlog, netVars, serverVars>>

Client(p) ==
    \/ lvl_socket(p)
    \/ \E k \in Calls[p], fd \in Fds : lvl_call(p, k, fd)
    \/ Exit(p) \/ GetResponse(p) \/ HungUp(p)

-----------------------------------------------------------------------------
(* The listener of the IPC server.                                         *)

Unread == {t \in Conns : th_pc[t] = "start"}

(* The kernel hands out the lowest descriptor that is free.                *)
FreeNumber(n) == file[n] = 0 /\ \A k \in 1..(n - 1) : file[k] # 0

(* datasock is one variable for all threads.                               *)
ListenerAccept ==
    /\ lst_pc = "accept" /\ backlog # << >>
    /\ \E n \in Conns :
           /\ FreeNumber(n)
           /\ datasock' = n
           /\ file' = [file EXCEPT ![n] = Head(backlog)]
    /\ backlog' = Tail(backlog)
    /\ lst_pc' = "alloc"
    /\ overtaken' = (overtaken \/ Unread # {})
    /\ UNCHANGED <<clientVars, netVars, started, connections, thVars,
                   tableVars, fdrace, clash, misled, up>>

(* ipc_alloc_thread and pthread_create.  The write lock waits for threads  *)
(* in ipc_free_thread.                                                     *)
ListenerAlloc ==
    /\ lst_pc = "alloc" /\ \A t \in Conns : th_pc[t] # "walk"
    /\ connections' = [connections EXCEPT ![datasock] = @ + 1]
    /\ started' = started + 1
    /\ th_pc' = [th_pc EXCEPT ![started + 1] = "start"]
    /\ lst_pc' = "accept"
    /\ UNCHANGED <<clientVars, netVars, backlog, file, datasock, th_sock,
                   th_conn, th_msg, th_fd, tableVars, histVars, up>>

Listener == ListenerAccept \/ ListenerAlloc

-----------------------------------------------------------------------------
(* The threads of the IPC server.                                          *)

elsewhere == <<clientVars, accVars, up>>

(* read looks up the descriptor, then waits; a closed one is an error.     *)
ReadFrom(t, n) ==
    /\ th_conn' = [th_conn EXCEPT ![t] = file[n]]
    /\ th_pc' = [th_pc EXCEPT ![t] = IF file[n] = 0 THEN "free" ELSE "reading"]

(* The first statement of socket_ipc_open reads datasock, whatever it is   *)
(* by now.                                                                 *)
ThreadStart(t) ==
    /\ th_pc[t] = "start"
    /\ th_sock' = [th_sock EXCEPT ![t] = datasock]
    /\ ReadFrom(t, datasock)
    /\ UNCHANGED <<elsewhere, netVars, file, connections, th_msg, th_fd,
                   tableVars, histVars>>

TailOf(m, n) == [m EXCEPT !.op = "tail", !.size = n]

(* The messages of q from the i-th on, which is cut to what fills n        *)
(* buffers.                                                                *)
CutTo(q, i, n) == <<TailOf(q[i], n)>> \o SubSeq(q, i + 1, Len(q))

(* The first i messages can be more than one buffer takes.                 *)
MayFill(q, i) == \E j \in 1..i : q[j].op \in Carrying \cup {"tail"}

(* What one read may leave: it takes all that fits into the buffer.        *)
KeptInStream(q) == {IF Head(q).size > 1 THEN q ELSE Tail(q)}

LeftInStream(q) ==
    LET fit == {i \in 1..Len(q) : \A j \in 1..i : q[j].size = 1}
    IN  IF Head(q).size > 1 THEN {CutTo(q, 1, Head(q).size - 1)}
        ELSE {SubSeq(q, i + 1, Len(q)) :
                  i \in {k \in fit : k = Len(q) \/ MayFill(q, k)}}
             \cup {r \in {CutTo(q, i, q[i].size - k) :
                             i \in {j \in 2..Len(q) :
                                       j - 1 \in fit /\ MayFill(q, j)},
                             k \in {0, 1}} : Head(r).size > 0}

(* The second read takes what the len field says.  That of a message read  *)
(* from its beginning leaves of it the length of the header; that of the   *)
(* end of a write says anything.                                           *)
LeftByMore(m, q) ==
    IF m.size > 1 /\ Head(q).op = "tail" THEN {CutTo(q, 1, 1)}
    ELSE {SubSeq(q, i + 1, Len(q)) : i \in DOMAIN q}
         \cup UNION {{CutTo(q, i, n) : n \in 1..q[i].size} : i \in DOMAIN q}

(* The buffer is not cleared between reads, and the first bytes of a tail  *)
(* are data of the application: it reads as any request.                   *)
ReadAs(m) == IF m.op = "tail" THEN Leftovers ELSE {m}

(* The calls that the demultiplexer knows.                                 *)
MissingCase(m) == m.op \in Ops \ {"SOCKET"}

demux_ipc_socket_call(m) == m.op \in Ops

(* Calls that break the stack when their arguments are data: a length for  *)
(* an array on the stack, or a domain for an index.                        *)
Fragile == Carrying \cup {"READ", "RECVFROM", "SOCKET"}

(* Only the first message is looked at, and answered only if it is a call. *)
ReadRequest(t) ==
    LET c == th_conn[t]
        q == req[c]
        n == th_sock[t]
    IN  /\ th_pc[t] = "reading" /\ q # << >>
        /\ \E rest \in LeftInStream(q) : req' = [req EXCEPT ![c] = rest]
        /\ \E m \in ReadAs(Head(q)) :
               LET misread == Head(q).op = "tail" /\ demux_ipc_socket_call(m)
               IN  /\ IF demux_ipc_socket_call(m)
                      THEN /\ th_pc' = [th_pc EXCEPT ![t] =
                                           IF ~m.more THEN "serve"
                                           ELSE IF file[n] = 0 THEN "fail"
                                           ELSE "more"]
                           /\ th_conn' = [th_conn EXCEPT ![t] = file[n]]
                           /\ th_msg' = [th_msg EXCEPT ![t] = <<m>>]
                      ELSE ReadFrom(t, n) /\ UNCHANGED th_msg
                   /\ misled' = misled \cup
                        {p \in Procs : misread /\ p \in {owner[c], m.pid}}
                   /\ up' \in (IF misread /\ m.op \in Fragile THEN BOOLEAN
                                ELSE {TRUE})
        /\ UNCHANGED <<clientVars, accVars, resp, file, connections, th_sock,
                       th_fd, tableVars, overtaken, fdrace, clash>>

(* ipc_write, ipc_sendto: the rest of the data.  That nothing came is only *)
(* reported, but the end of an application that has not read its answers   *)
(* is an error.                                                            *)
ReadMore(t) ==
    LET c == th_conn[t]
    IN  /\ th_pc[t] = "more"
        /\ \/ /\ req[c] # << >>
              /\ \E rest \in LeftByMore(th_msg[t][1], req[c]) :
                     req' = [req EXCEPT ![c] = rest]
              /\ th_pc' = [th_pc EXCEPT ![t] = "serve"]
           \/ /\ req[c] = << >> /\ Gone(c)
              /\ th_pc' = [th_pc EXCEPT ![t] =
                              IF resp[c] = << >> THEN "serve" ELSE "fail"]
              /\ UNCHANGED req
        /\ UNCHANGED <<elsewhere, resp, file, connections, th_sock, th_conn,
                       th_msg, th_fd, tableVars, histVars>>

ReadEof(t) ==
    /\ th_pc[t] = "reading" /\ req[th_conn[t]] = << >> /\ Gone(th_conn[t])
    /\ th_pc' = [th_pc EXCEPT ![t] = "free"]
    /\ UNCHANGED <<elsewhere, netVars, file, connections, th_sock, th_conn,
                   th_msg, th_fd, tableVars, histVars>>

Msg(t) == th_msg[t][1]

Sock(t) == <<Msg(t).pid, Msg(t).fd>>

get_socket(t) == Sock(t) \in Socket /\ sockets[Sock(t)] > 0

(* The response; written to a connection without a reader it raises        *)
(* SIGPIPE, which the stack does not handle.  The descriptor is looked up  *)
(* again; a closed one is an error that is only reported.                  *)
Answer(t, rc) ==
    LET m == Msg(t)
        c == file[th_sock[t]]
        r == [op |-> m.op, pid |-> m.pid, fd |-> m.fd, rc |-> rc]
    IN  /\ up' = (c = 0 \/ ~Gone(c))
        /\ resp' = IF c = 0 \/ Gone(c) THEN resp
                   ELSE [resp EXCEPT ![c] = Append(@, r)]
        /\ ReadFrom(t, th_sock[t])
        /\ th_msg' = [th_msg EXCEPT ![t] = << >>]
        /\ th_fd' = [th_fd EXCEPT ![t] = 0]
        /\ UNCHANGED <<clientVars, accVars, req, file, connections, th_sock>>

(* connect, bind, listen, read, write, sendto, recvfrom, and every call on *)
(* a socket the table does not know.                                       *)
PlainCall(t) ==
    /\ th_pc[t] = "serve" /\ Msg(t).op # "SOCKET"
    /\ get_socket(t) => Msg(t).op \notin {"ACCEPT", "CLOSE"}
    /\ \E rc \in {0, -1} : (rc = 0 => get_socket(t)) /\ Answer(t, rc)
    /\ UNCHANGED <<tableVars, histVars>>

RemoveClosed(rc) == IF rc = 0 THEN 1 ELSE 0

(* The socket goes only when the protocol's close succeeds.                *)
_close(t) ==
    /\ th_pc[t] = "serve" /\ Msg(t).op = "CLOSE" /\ get_socket(t)
    /\ \E rc \in {0, -1} :
           /\ Answer(t, rc)
           /\ sockets' = [sockets EXCEPT ![Sock(t)] = @ - RemoveClosed(rc)]
    /\ UNCHANGED <<next_fd, histVars>>

(* alloc_socket: sock->fd = fd++ without a lock.                           *)
FdLoad(t) ==
    /\ th_pc[t] = "serve" /\ next_fd < MaxFd
    /\ Msg(t).op = "SOCKET" \/ (Msg(t).op = "ACCEPT" /\ get_socket(t))
    /\ th_fd' = [th_fd EXCEPT ![t] = next_fd]
    /\ th_pc' = [th_pc EXCEPT ![t] = "fd"]
    /\ fdrace' = (fdrace \/ \E u \in Conns : th_pc[u] = "fd")
    /\ UNCHANGED <<elsewhere, netVars, file, connections, th_sock, th_conn,
                   th_msg, tableVars, overtaken, clash, misled>>

NotCounted(t) == next_fd' = next_fd

FdCounted(t) == next_fd' = th_fd[t] + 1

FdStore(t) ==
    /\ th_pc[t] = "fd"
    /\ FdCounted(t)
    /\ th_pc' = [th_pc EXCEPT ![t] = "made"]
    /\ UNCHANGED <<elsewhere, netVars, file, connections, th_sock, th_conn,
                   th_msg, th_fd, sockets, histVars>>

(* socket_sockets_enqueue for the socket made or accepted.                 *)
Enqueue(t) ==
    /\ th_pc[t] = "made"
    /\ sockets' = [sockets EXCEPT ![<<Msg(t).pid, th_fd[t]>>] = @ + 1]
    /\ Answer(t, th_fd[t])
    /\ UNCHANGED <<next_fd, histVars>>

(* accept fails, or socket with arguments that the library never sends:    *)
(* the new socket is dropped, its number is used up.                       *)
CreateFails(t) ==
    /\ th_pc[t] = "made" /\ (Msg(t).op = "ACCEPT" \/ Msg(t).pid \in misled)
    /\ Answer(t, -1)
    /\ UNCHANGED <<tableVars, histVars>>

KeepOpen(n) == file

CloseNumber(n) == [file EXCEPT ![n] = 0]

Ends(t) ==
    /\ th_pc' = [th_pc EXCEPT ![t] = "done"]
    /\ th_sock' = [th_sock EXCEPT ![t] = 0]
    /\ th_conn' = [th_conn EXCEPT ![t] = 0]

(* After an error the thread closes its descriptor and ends; its entry in  *)
(* connections stays.                                                      *)
Fail(t) ==
    /\ th_pc[t] = "fail"
    /\ file' = CloseNumber(th_sock[t])
    /\ Ends(t)
    /\ UNCHANGED <<elsewhere, netVars, connections, th_msg, th_fd,
                   tableVars, histVars>>

(* The read lock of ipc_free_thread admits several threads at a time.      *)
FreeBegin(t) ==
    /\ th_pc[t] = "free"
    /\ th_pc' = [th_pc EXCEPT ![t] = "walk"]
    /\ clash' = (clash \/ \E u \in Conns : th_pc[u] = "walk")
    /\ UNCHANGED <<elsewhere, netVars, file, connections, th_sock, th_conn,
                   th_msg, th_fd, tableVars, overtaken, fdrace, misled>>

(* It finds an entry by the number, whosever that is by now.               *)
FreeFound(t) ==
    /\ th_pc[t] = "walk" /\ connections[th_sock[t]] > 0
    /\ connections' = [connections EXCEPT ![th_sock[t]] = @ - 1]
    /\ file' = CloseNumber(th_sock[t])
    /\ Ends(t)
    /\ UNCHANGED <<elsewhere, netVars, th_msg, th_fd, tableVars,
                   histVars>>

FreeNone(t) ==
    /\ th_pc[t] = "walk" /\ connections[th_sock[t]] = 0
    /\ Ends(t)
    /\ UNCHANGED <<elsewhere, netVars, file, connections, th_msg,
                   th_fd, tableVars, histVars>>

(* In a list that two threads have changed at a time an entry is missed,   *)
(* others are lost with the own, or a freed one is used.                   *)
FreeBroken(t) ==
    /\ th_pc[t] = "walk" /\ clash
    /\ \E lost \in SUBSET {n \in Conns : connections[n] > 0} :
           connections' = [n \in Conns |-> IF n \in lost THEN connections[n] - 1
                                          ELSE connections[n]]
    /\ file' \in {file, CloseNumber(th_sock[t])}
    /\ Ends(t)
    /\ UNCHANGED <<elsewhere, netVars, th_msg, th_fd, tableVars,
                   histVars>>

ipc_free_thread(t) ==
    FreeBegin(t) \/ FreeFound(t) \/ FreeNone(t) \/ FreeBroken(t)

Thread(t) ==
    \/ ThreadStart(t) \/ ReadRequest(t) \/ ReadMore(t) \/ ReadEof(t)
    \/ Fail(t) \/ ipc_free_thread(t)
    \/ PlainCall(t) \/ _close(t)
    \/ FdLoad(t) \/ FdStore(t) \/ Enqueue(t) \/ CreateFails(t)

(* A freed entry of the broken list is used, by a thread in the list or by *)
(* the listener: the stack dies.                                           *)
BrokenList ==
    /\ clash /\ (lst_pc = "alloc" \/ \E t \in Conns : th_pc[t] = "walk")
    /\ up' = FALSE
    /\ UNCHANGED <<clientVars, accVars, netVars, file, connections, thVars,
                   tableVars, histVars>>

(* Calls that may take for ever: they wait for the network, for a peer, or *)
(* for a lock of the socket whose holder waits or never returns.           *)
Blocking == Ops \ {"SOCKET"}

(* What the thread does may take for ever: a call on a socket that exists, *)
(* or the walk through a broken list.                                      *)
Blocked(t) ==
    \/ th_pc[t] = "serve" /\ Msg(t).op \in Blocking /\ get_socket(t)
    \/ th_pc[t] = "made" /\ Msg(t).op \in Blocking
    \/ th_pc[t] = "walk" /\ clash

-----------------------------------------------------------------------------

Next ==
    /\ up
    /\ \/ \E p \in Procs : Client(p)
       \/ Listener \/ BrokenList
       \/ \E t \in Conns : Thread(t)

Spec == Init /\ [][Next]_vars

(* Listener, threads and library go on with what they have begun; a call   *)
(* that blocks may do so for ever.                                         *)
FairSpec ==
    /\ Spec
    /\ WF_vars(up /\ Listener)
    /\ \A t \in Conns : WF_vars(up /\ ~Blocked(t) /\ Thread(t))
    /\ \A p \in Procs : WF_vars(up /\ (GetResponse(p) \/ HungUp(p)))

-----------------------------------------------------------------------------
(* Type invariant of library, connections, threads and table.              *)
TypeOK ==
    /\ app_pc \in [Procs -> {"idle", "wait", "dead"}]
    /\ call \in [Procs -> Request] /\ lvlfd \in [Procs -> 0..MaxConns]
    /\ lib \in [Procs -> SUBSET [fd : Fds, conn : Conns]]
    /\ acts \in 0..MaxActs
    /\ owner \in Seq(Procs) /\ Len(owner) <= MaxConns
    /\ backlog \in Seq(Conns)
    /\ req \in [Conns -> Seq(Request)] /\ resp \in [Conns -> Seq(Response)]
    /\ file \in [Conns -> 0..MaxConns]
    /\ lst_pc \in {"accept", "alloc"}
    /\ datasock \in 0..MaxConns /\ started \in 0..MaxConns
    /\ connections \in [Conns -> Nat]
    /\ th_pc \in [Conns -> {"none", "start", "reading", "more", "serve", "fd",
                            "made", "fail", "free", "walk", "done"}]
    /\ th_sock \in [Conns -> 0..MaxConns] /\ th_conn \in [Conns -> 0..MaxConns]
    /\ th_msg \in [Conns -> Seq(Request)]
    /\ \A t \in Conns : Len(th_msg[t]) <= 1
    /\ th_fd \in [Conns -> Fds \cup {0}]
    /\ sockets \in [Socket -> Nat] /\ next_fd \in Fds
    /\ overtaken \in BOOLEAN /\ fdrace \in BOOLEAN /\ clash \in BOOLEAN
    /\ misled \subseteq Procs
    /\ up \in BOOLEAN

Waiting(p) == app_pc[p] = "wait"

(* As long as datasock was not overtaken, a response that waits for an     *)
(* application answers the call it has made last, and there is one at most *)
(* and none for a call that is over, unless the end of a write of its own  *)
(* was executed as a call: what a write that did not fit leaves behind     *)
(* alone takes no answer from another call (transmit_lvlip,                *)
(* ipc_write_rc).                                                          *)
OwnAnswer ==
    ~overtaken => \A c \in DOMAIN owner : \A k \in DOMAIN resp[c] :
        LET p == owner[c]
            r == resp[c][k]
        IN  app_pc[p] # "dead" /\ p \notin misled =>
                /\ k = 1 /\ Waiting(p) /\ lvlfd[p] = c
                /\ SameCall(r, call[p]) /\ r.fd = call[p].fd

(* As long as no two threads were in alloc_socket at a time, no descriptor *)
(* is given out twice and "pid and sockfd determine one socket"            *)
(* (socket.c:72, ipc.c:122).                                               *)
FdUnique ==
    ~fdrace => \A s, u \in Socket :
                   /\ sockets[s] <= 1
                   /\ sockets[s] > 0 /\ sockets[u] > 0 /\ s[2] = u[2] => s = u

(* Between two calls the library and the stack know the same sockets of an *)
(* application, unless descriptors were given out twice, answers went to   *)
(* the wrong connection, or the end of a write was executed as a call over *)
(* its connection or in its name (lvl_close, _close, lvl_accept, _accept). *)
TablesAgree ==
    \A p \in Procs :
        app_pc[p] = "idle" /\ p \notin misled /\ ~fdrace /\ ~overtaken =>
            {k.fd : k \in lib[p]} = {fd \in Fds : sockets[<<p, fd>>] > 0}

Serving == {"reading", "more", "serve", "fd", "made", "fail", "free", "walk"}

(* As long as datasock was not overtaken, no two threads serve the same    *)
(* descriptor and no thread serves one that is closed; and as long as no   *)
(* two threads were in ipc_free_thread at a time either, every open        *)
(* descriptor of the server has its thread or is about to get it           *)
(* (start_ipc_listener, socket_ipc_open, ipc_free_thread).                 *)
ThreadPerConnection ==
    ~overtaken =>
        /\ \A t, u \in Conns :
               /\ th_pc[t] \in Serving /\ th_pc[u] \in Serving
               /\ th_sock[t] = th_sock[u]
               => t = u
        /\ \A t \in Conns : th_pc[t] \in Serving => file[th_sock[t]] # 0
        /\ ~clash => \A n \in Conns :
               file[n] # 0 => \/ \E t \in Conns : /\ th_pc[t] \in Serving
                                                  /\ th_sock[t] = n
                              \/ n = datasock /\ (Unread # {} \/ lst_pc = "alloc")

(* Once the applications make no more calls, none of them waits for a      *)
(* socket: each gets its answer through the listener, a new thread and the *)
(* demultiplexer, unless the listener overtook a thread, two threads met   *)
(* in ipc_free_thread, or the stack died (lvl_socket, start_ipc_listener,  *)
(* socket_ipc_open).  There are MaxActs calls at most.                     *)
CallReturns ==
    []<>(up /\ ~overtaken /\ ~clash =>
             \A p \in Procs : ~(Waiting(p) /\ call[p].op = "SOCKET"))
=============================================================================
