# ToyIP in TLA+

ToyIP (`src/toy_src`) is a user-space TCP/IP stack for Linux. It owns a TAP
device, answers ARP and ICMP, and offers TCP and UDP sockets to applications
that preload `src/toy_app/lib/liblevelip.c` and talk to it over a UNIX socket.
This directory models the stack in TLA+, model-checks the models with TLC and
proves their central properties with TLAPS. Line numbers refer to
`src/toy_src/` unless a path is given.

## 1. The system

### Threads

| Thread | Runs | Shares |
| --- | --- | --- |
| receive (`main.c` -> `netdev_rx_loop`) | one frame at a time: ARP, IP, ICMP, TCP, UDP input, and every answer sent from there | everything |
| timer (`timers_start`) | `timers_tick`, the handlers of expired timers | the TCP timers and what they touch |
| IPC threads, one per connected application thread (`ipc.c`) | `_socket` .. `_close`, down to `tcp_*` / `udp_*` | the sock of the socket |

There is no global lock. `write_queue.lock` and `receive_queue.lock` protect
parts of the work on the two queues of a sock; the rest of the control block,
the flags, the timers, the ARP cache and the accept queue are read and written
without one. `wait_sleep` sets the flag it then waits for, so a wakeup that
comes first is lost. That is where most of the hazards come from.

### Components

| Component | State | Operations | Called by / calls | What makes it correct |
| --- | --- | --- | --- | --- |
| TCP sender (`tcp_output.c`, ACK part of `tcp_input.c`) | `snd_una`, `snd_nxt`, `write_queue`, `retransmit` timer | `tcp_send`, `tcp_queue_transmit_skb`, `tcp_clean_retransmission_queue`, `tcp_retransmission_timeout` | IPC thread, receive thread, timer thread / `ip_output` | the peer reads what was written; what is unacknowledged can be and is retransmitted |
| TCP receiver (`tcp_data.c`, text and FIN of `tcp_input.c`) | `rcv_nxt`, `receive_queue`, `ofo_queue`, flags, `delack` timer | `tcp_data_queue`, `tcp_data_dequeue`, `tcp_receive`, `tcp_send_delack` | receive thread, IPC thread, timer thread | a reliable byte stream; all received text is acknowledged |
| TCP active open (`tcp_sock.c`, `tcp_output.c`, `tcp_synsent`) | state, `isn`, SYN in `write_queue`, backoff, `wait` | `tcp_v4_connect`, `tcp_begin_connect`, `tcp_synsent`, `tcp_connect_rto` | IPC thread, receive thread, timer thread | both ends agree on both numbers; the attempt ends |
| TCP passive open (`tcp_input.c`, `tcp_sock.c`, `tcp.h`) | listening sock, children, `listen_queue`, `accept_queue`, `wait` | bind, listen, accept, close; `tcp_handle_listen`, `tcp_synrecv_ack` | IPC thread, receive thread | only completed handshakes are accepted, each once |
| TCP close (`tcp_sock.c`, `tcp_output.c`, `tcp_input.c`, `tcp.c`) | state, FIN in `write_queue`, `retransmit` timer | `tcp_close`, `tcp_queue_fin`, FIN part of `tcp_process`, `tcp_handle_fin_state` | IPC thread, receive thread, timer thread | the FIN is sent until it is acknowledged; the state tells who has closed; the sock is freed once and after its last use |
| ARP, routing, IP and ICMP (`arp.c`, `dst.c`, `route.c`, `ip_*.c`, `icmpv4.c`) | `arp_cache`, `routes` | `arp_rcv`, `dst_neigh_output`, `route_lookup`, `ip_output`, `icmpv4_reply` | everybody that sends, receive thread | frames go to the next hop's hardware address; sending ends |
| UDP (`udp.c`, `udp_sock.c`) | `udp_socks`, receive queue | `udp_in`, `udp_sendto`, `udp_recvfrom`, bind, connect, close | receive thread, IPC thread | datagrams reach the sock with their port, each once and in order |
| Timers (`timer.c`) | list of timers, tick | `timer_add`, `timer_cancel`, `timer_release`, `timers_tick` | TCP | a timer fires once and in its time, unless cancelled; it is freed when nobody refers to it |
| Socket table, INET layer (`socket.c`, `inet.c`, `sock.c`) | `sockets`, descriptors | `_socket` .. `_close`, `inet_*` | IPC threads / TCP, UDP | a descriptor names one live socket |
| IPC server (`ipc.c`) and client library (`liblevelip.c`) | connections, threads and their descriptors; `lvlip_socks` in each application | `start_ipc_listener`, `socket_ipc_open`, `demux_ipc_socket_call`, handlers; `lvl_*` | applications / socket table | each call gets its own answer, each connection its own thread; both sides know the same sockets |
| Wait queues (`wait.h`), lists (`list.h`), `skbuff.*` | flag, links, queue length | sleep / wake, add / delete, queue operations | everybody | no wakeup and no element is lost |
| Checksums, parsing (`utils.c`), devices (`netdev.c`, `tuntap.c`), start-up (`main.c`), example programs (`toy_app/bin`) | none of their own | conversions, system calls | - | - |

`PROJECT.json` lists each component with its status, and under `hazards` the
lines where an order of events that a test would hardly produce can hurt.

## 2. Modules

| Module | Models | Proofs | Instance |
| --- | --- | --- | --- |
| `TcpSend` | sending half of an established connection | `TcpSendProofs` | `MC_TcpSend` |
| `TcpRecv` | receiving half of an established connection | `TcpRecvProofs` | `MC_TcpRecv` |
| `ByteStream` | what the receiving half promises | - | refined by `TcpRecv` |
| `TcpConnect` | active open | `TcpConnectProofs` | `MC_TcpConnect` |
| `TcpListen` | passive open and accept | `TcpListenProofs` | `MC_TcpListen` |
| `Backlog` | what a listening socket promises | - | refined by `TcpListen` |
| `TcpClose` | end of a connection, with the timers of `Timers` | `TcpCloseProofs` | `MC_TcpClose` |
| `Timers` | the list of timers and the timer thread | in `TcpCloseProofs` | through `TcpClose` |
| `Udp` | UDP sockets, their list and their queues | `UdpProofs` | `MC_Udp` |
| `Ipc` | client library, IPC server and table of sockets | `IpcProofs` | `MC_Ipc` |
| `Neighbour` | IP output, routing table, ARP cache, and the receive thread that fills it | `NeighbourProofs` | `MC_Neighbour` |

Common conventions. A variable has the name of the field it stands for. A
thread that can be interrupted between two accesses to unprotected state has a
program counter (`app_pc`, `rx_pc`, `timer_pc`, `rto_pc`, `pc`); what a lock
makes atomic, or what touches nothing shared, is one action. Segments and
packets on the way are sets: they may be received in any order. Received
messages that change nothing have no step.

### TcpSend

`tcp_write` / `tcp_send` cut the application's bytes into segments of at most
`MSS`; `tcp_queue_transmit_skb` queues and transmits one and, still holding the
lock, advances `snd_nxt` in a second step. The receive thread takes an ACK in
two steps: it stores `snd_una` without a lock (`tcp_input.c:322`) and then
cleans the queue under it. The timer thread marks a timer fired and then runs
the handler; `timer_release` of an armed timer leaves an orphan. `end_seq` is
stamped from `snd_una` as in `tcp_output.c:78`. The peer is an ideal cumulative
receiver behind a network that loses, duplicates and reorders. A byte is its
offset in what the application wrote, so that a misplaced byte shows.

`Pipelined = FALSE` restricts the application to one segment at a time, written
when everything before is acknowledged; `AckRace = FALSE` excludes that the
timer's handler gets the lock between the two steps of an ACK. They delimit
where the stream is intact (below, 6).

### TcpRecv and ByteStream

One arriving segment is one step, because `tcp_process` holds
`receive_queue.lock` from line 338 on: filter, `tcp_data_queue` with the
out-of-order insertion of `tcp_data_insert_ordered` and
`tcp_consume_ofo_queue`, the delayed ACK, the FIN. The reader holds the lock
only inside `tcp_data_dequeue`; testing and clearing the flags and going to
sleep are steps of their own, and `flags &= ~TCP_PSH` is a load and a store.
`tcp_send_delack` runs without any lock. The peer may send any cut of its
stream, in any order, any number of times.

`ByteStream` is the abstract specification: bytes arrive, are taken in order
and once, the stream ends after the last, and the application is told so only
when it has ended and takes nothing after. `TcpRecv` refines it with
`arrived <- InSequence, taken <- delivered, ended <- (state = "CLOSE_WAIT"),
told <- eof`.

### TcpConnect

`tcp_v4_connect` in the application's thread (enter the list, send the SYN,
count it, sleep, move to the other list), `tcp_synsent`, `tcp_closed` and the
head of `tcp_process` in the receive thread, `tcp_connect_rto` in the timer
thread, with its look at the state before it acts. Sequence numbers wrap at
`SeqMod` and are compared as unsigned numbers. The peer listens, refuses or
opens at the same time.

### TcpListen

bind, listen, accept and close of a listening socket; `tcp_handle_listen`,
which makes a child and sends a SYN-ACK that is never sent again; the filter,
range test and reset of `tcp_process` in `SYN_RECEIVED`. Every child is linked
through one field into `listen_queue` and then into `accept_queue`. These lists
have no lock, so `list_add` and `list_del` on the accept queue are modelled
statement by statement with the variables `nxt` and `prv`. The history variable
`clash` records that an insertion and a removal overlapped; `ListsIntact` says
what holds until then (`Members` follows the links as `list_for_each` does),
and after it a connection really is lost or returned twice.
Clients are external, open once, may write and abort;
`Stale` are segments of earlier connections. A listening sock that listens
twice has a link that points back to itself (`listed = "twice"`), and one that
is closed leaves its thread waiting for its own lock (`app_pc = "stuck"`).

`Backlog` is the abstract specification: a connection is opened, answered by
its client, completed by the stack and handed out by accept, each step once and
only after the one before; it leaves open in which order accept hands them out.
`TcpListen` refines it with `opened` the clients the listening sock has made a
child for, `answered` those that have taken the SYN-ACK, `completed` the
children queued for accept and `broken <- clash`. `broken` takes back what is
said about accept and nothing else: the refinement goes on after a `clash`.

### Timers and TcpClose

`Timers` has the list of timers and an action for each statement of
`timers_tick` that others can come in between: the test, the mark, the handler,
the test for freeing, the step to the next timer, which was looked up before
the handler ran. `timer_add` is two steps, because `list_add_tail` makes the
timer reachable before it has a next one (`half`); a walk that comes to it then
follows a null pointer (`tm_up`). Ticks wrap at `TickMod`; `age` and `delay` do
not wrap and say what the timer was meant to do.

`TcpClose` extends it with a sock whose retransmission timer is in that list.
The application writes and closes: lock, release the old timer, add one, send,
count, set the state, free. The receive thread takes ACKs and the peer's FIN,
with the test of the state (`tcp_input.c:374`) and its assignment apart; the
timer thread runs `tcp_retransmission_timeout`. `overlap` records that a state
was set that had changed since it was tested. `used` records the threads that
touch the sock after `_close` has freed it; every close leads there.

### Udp

`udp_socks` is modelled by its links, because `sendto` links a sock that is
linked already (`udp_sock.c:37,223`). `list` records that this happened
(`relinked`) and that a sock was removed afterwards (`broken`), from when on a
walk may not end: the receive thread then spins and keeps `slock`. The reader's
dequeue and the receive thread's enqueue are statement by statement, including
the load and the store of `qlen`; `clash` records that they disturbed each
other. `FreeTwice` is `udp_free_sock` and then `inet_free` of the same memory.

### Ipc

An application has one call at a time and talks over connections, one for each
`lvl_socket`; a socket that accept returned shares that of the listening one.
Applications may exit at any moment; an answer written then stops the stack
(`up`). What TCP and UDP make of a call is left open: it succeeds, fails, or
never ends, which no call but socket is safe from (`Blocking`): it waits for the
network, or for a lock whose holder does.

The listener accepts, storing the descriptor in the one variable `datasock`
(`ListenerAccept`), and then enters it in `connections` and creates a thread
(`ListenerAlloc`), which reads `datasock` when it gets to run
(`ipc.c:379,452`); `overtaken` records that it had changed by then. A thread
reads a request, serves it with the table of sockets, and writes the response
to the descriptor, whatever that is by now. `alloc_socket` loads and stores its
counter in two steps (`fdrace`).

A thread that ends walks `connections` under a read lock (`ipc.c:50`), which
keeps the listener out but not the other threads: entering the walk and what it
does to the list are steps of their own (`FreeBegin`, `FreeFound`, `FreeNone`),
and `clash` records that two threads were in it at a time. From then on the
walk may also miss its entry, take others away with it, close its descriptor or
not (`FreeBroken`), never end (`Blocked`), or touch a freed entry and kill the
stack (`BrokenList`).

Streams hold messages, whose length is counted in buffers of the server. One
read takes as much as fits, and only the message in front is looked at
(`LeftInStream`); of a message larger than the buffer the end stays, a `tail`,
which may also be cut again. A message whose own length field exceeds the buffer
makes `ipc_write` and `ipc_sendto` read a second time (`ReadMore`), and if that
read fails the thread closes its descriptor and leaves its entry in
`connections` (`Fail`, `ipc.c:387-391`). A tail is the next request: the buffer
is never cleared (`ipc.c:380-385`), so behind the data of the application, which
now are where the type is, the rest of the request before can remain. The
constant `Leftovers` is the set of requests that it may read as (`ReadAs`), any
at all for the proofs; what is a call is executed and answered. `misled` is the
set of applications over whose connection or in whose name that has happened;
arguments made of data can also kill the stack (`Fragile`).

### Neighbour

`ip_output` (route looked up before the destination is written), `route_lookup`
over the table of `route_init`, whose flags are sets of bits because that of a
host contains that of a gateway (`route.h:6-8`), `dst_neigh_output` with its three requests, and
the cache. A hardware address is copied in two parts, into the entry
(`arp.c:52`) and out of it (`netdev.c:62`), so torn addresses are possible. The
receive thread runs `arp_rcv`, and `icmpv4_reply` or TCP answers from within
itself. The hosts of the network are external.

## 3. Runs

| Run | Instance and bounds | Shows |
| --- | --- | --- |
| `send_pipelined` | 2 one-byte segments, every race on | an unacknowledged segment has a timer or a handler on the way; `snd_una` never exceeds what the peer has; loss cannot stop progress |
| `send_stopwait` | 4 bytes, segments of up to 2, one at a time | the peer reads what was written; unacknowledged bytes stay queued; everything is acknowledged |
| `send_retransmit` (violation) | as above, several in flight | a retransmission carries the wrong bytes |
| `recv_stream` | 4 bytes, segments up to 2, out-of-order queue up to 2, reads of 1 | byte stream refined, so text is read in order and once and 0 only after the FIN; acknowledgements owed are on their way and arrive; everything arrives |
| `recv_eof` (violation) | 2 bytes | read returns 0 with text queued |
| `connect_handshake` | sequence space 4, all our initial numbers, three peers, 2 retries | agreement, timer, no answer turned away, the attempt ends |
| `connect_lostwake` (violation) | one number, a listening peer | the wakeup is lost |
| `listen_accept` | 2 clients, sequence space 6, initial numbers 1 and 5 (the last), one leftover ACK, 2 accepts | agreement, queues intact with every child in them once, `Backlog` refined, handshake and accept complete |
| `close_timers` | 3 timers at a time, a tick of 2 bits, retransmission after 1 tick, 1 byte | timers fire once and in time and are freed, references are counted, a FIN sent when everything is acknowledged is kept, the peer's FIN is remembered |
| `udp_datagrams` | 2 socks, one of them read from, ports 0 and 1, an empty datagram and one with text | answers find their sender until a sock is linked twice, walks end until one is removed then, datagrams are taken once and in order, a connected sock stays so, readers wake |
| `ipc_calls` | 3 applications with a connection each, all of which may exit: one accepts, closes and writes too much, by little or by much; its tail reads as nothing, as a close of another's socket, or as a write with more to come; 4 calls and exits in all, 4 descriptors to give out | own answers, a thread per connection, unique descriptors, equal tables, socket returns; each until what its statement names has happened |
| `neighbour_arp` | 2 hosts, a gateway with two hardware addresses, 1 sender beside the receive thread | cache, frames, replies, the receive thread never learns, sending ends, frames get out |

Why these bounds are enough to be interesting: two segments are the least for
which `end_seq` is wrong, and with four bytes of two a lost segment can be
followed by another; four bytes with segments of two give overlap, gap, exact
repetition and a FIN ahead of text; two full-sized segments in a row are what
the delayed ACK counts, and reads of one byte leave text in the queue between
reads; a sequence space of four or six holds a wrap before and after the SYN;
two children are the least for which an insertion can meet a removal, and two
accepts for which one can be returned twice; a gateway with two addresses is
the least for a torn copy; three timers are the one armed, the one released
that is still in the list and the one being linked, and a tick of two bits
wraps between adding and firing; two socks are the least for which linking one
again loses the other, and two datagrams for an order; three connections let
the listener overtake a thread while another one is served, and two threads
meet in the table of sockets and, when their applications exit, in the list of
threads; four calls and exits are the least for which an oversized write, the
request behind it and an exit can follow a socket, and its tail can be executed
as a close of a socket that another application has opened. Every bound on a counter is a constant named in
its module (`MaxBytes`, `MaxRead`, `MaxOfo`, `Retries`, `MaxAccepts`, `MaxTimers`,
`Arrivals`, `MaxConns`, `MaxSockets`, `MaxActs`, `MaxFd`). Deadlock is
checked where something can always happen; the sender, the connection attempt,
the accept loop, a stack that died and applications without a call may come to
rest.

Every property of a passing run has a mutant in `PROJECT.json`: a definition
changed the way a bug would change the code (a dropped guard, a missing
increment, a lost wakeup, a wrong bound), for which TLC finds the property
violated. The type invariants are proved (below, 5) and were checked with TLC
before; the runs spend their time on the other properties.

### Fairness

- `TcpSend`: weak fairness of the application's and the receive thread's next
  step and of the timer thread, which loops for ever; strong fairness of the
  peer's reception and of the reception of ACKs: a link that does not lose
  every copy of what is repeated.
- `TcpRecv`: weak fairness of the timer thread. `EverythingArrives` assumes in
  its own statement that the peer goes on retransmitting.
- `TcpConnect`: weak fairness of our own threads, none of the network or the
  peer.
- `TcpListen`: weak fairness of a call of accept that has begun and of the
  receive thread, strong fairness of the reception of each client's segments.
  The last is a link that loses nothing: the SYN-ACK is sent once, so nothing
  less completes a handshake. The application is not obliged to call accept.
- `TcpClose`: weak fairness of the timer thread, which ticks for ever, and of
  the application's and the receive thread's work in progress. Nobody is
  obliged to write, to close or to receive.
- `Udp`: the reader and the receive thread go on with what they have begun; a
  thread that waits for `slock` needs nothing, as no property relies on it.
- `Ipc`: weak fairness of the listener, of each thread unless it is in a call
  on a socket (`Blocking`: any of them may wait for the network or for a lock)
  or in a list that two threads have changed, and of the library reading a
  response. `CallReturns` therefore speaks of the call of socket alone, which
  waits for nothing but the listener and its own thread. `MaxActs` bounds calls
  and exits, so that the statement can say: in the end nobody waits for one.
- `Neighbour`: every thread goes on with what it has begun. `FrameSent` assumes
  in its own statement a thread that goes on sending and a gateway that goes on
  answering.

## 4. Findings

1. `send_retransmit`, `tcp_output.c:78`: `end_seq` is taken from `snd_una`
   instead of the segment's own number. With several segments in flight the
   first ACK removes segments it does not cover, and the next timeout sends the
   following bytes under the number of the lost ones.
2. `recv_eof`, `tcp_input.c:425`: the FIN flag is tested after the dequeue and
   without the lock; text that came in between is skipped and read reports the
   end of the stream.
3. `connect_lostwake`, `tcp_sock.c:313`: a SYN-ACK processed before the thread
   sleeps leaves connect asleep for ever.

## 5. Proofs

All theorems hold for every value of the constants that satisfies the named
assumption of the module (`SendAssumption`, `RecvAssumption`,
`ConnectAssumption`, `ListenAssumption`, `NeighbourAssumption`,
`TimersAssumption`, `CloseAssumption`, `IpcAssumption`, and of `Udp`
`UdpAssumption`, `FiniteSocks` and `NotSocks`). These only say what kind of
values the constants are, except that `ListenAssumption` says that the clients
are finitely many and excludes
leftover segments that acknowledge a number of the new connection, and
`NeighbourAssumption` says that our own two addresses have a host part.

| Theorem | Statement | Inductive invariant |
| --- | --- | --- |
| `TypeCorrect` | `TcpSend!TypeOK` | with: the lock is held only over a nonempty queue |
| `PendingTimerHolds` | `PendingHasTimer` | `TimerInv`: a nonempty queue has a timer pointer, and a fired timer a pending handler |
| `AckSoundHolds` | `AckSound` | `AckInv`: also the ACKs on the way do not exceed what the peer has |
| `StopWaitStream`, `StopWaitKeepsUnacked` | `StreamIntact`, `UnackedQueued` when not pipelined and without the race | `StopWaitInv`: at most one skb, its `end_seq` right, and every segment and ACK in the network at its place |
| `RecvTypeCorrect`, `RecvStreamIntact`, `FinLastHolds` | the three invariants | `RecvInv` = `TypeOK`, `Bounds`, `StreamIntact`, `FinLast` |
| `ZeroAfterFinHolds` | `ZeroAfterFin` | with: where the reader is when it has seen the FIN flag |
| `AckDebtHolds` | `AckDebt` | with the relation of `delack`, `timer_pc` and orphans |
| `ImplementsByteStream` | `Spec => StreamRefined` | every step maps to a step of `ByteStream` or a stutter, from `RecvInv` and `ZeroInv`, the invariant of `ZeroAfterFinHolds` |
| `ConnectTypeCorrect`, `HandshakeAgreement`, `SynTimerHolds`, `AnswersAccepted` | the four invariants | `ConnInv`: what has not started, whether the SYN is counted, what each side's segments say, what an established end knows |
| `RepeatedSynDropped` | `TcpConnect!SynFiltered` | from `ConnInv` |
| `ListenTypeCorrect` | `TcpListen!TypeOK` | with: the child being moved is a child, and a call of accept has room |
| `ChildAgreement`, `RepeatedSynFiltered` | `ChildAgrees`, `SynFiltered` | `ListenInv`: what the segments of both sides say, the numbers of a child from the SYN on, of an answered client, of an established child and of the one being completed |
| `ListsIntactHolds` | `ListsIntact` | `QueueInv`: until a `clash` each list, with what `list_add` and `list_del` have still to write, is a ring of exactly the children that belong in it; none was taken or returned twice; what a thread has read of the links is still so |
| `ImplementsBacklog` | `Spec => BacklogKept` | every step maps to a step of `Backlog` or a stutter, from `ListenInv` and `QueueInv` |
| `CloseTypeCorrect`, `RefsCountedHolds` | `TcpClose!TypeOK`, `RefsCounted` | `CloseInv` = both, no timer is linked twice and the walk stands on a linked one, and who holds the lock of the write queue |
| `PeerFinHolds` | `PeerFinRemembered` | `FinInv`: until close the peer's FIN alone moves the state and none of ours is queued; what close has read; the peer's FIN is processed once |
| `FinKeptHolds` | `FinKept` | `KeptInv`: the sock's timer has not fired in vain, a nonempty queue has one or its handler, a byte is one number, and before its ACK a lone FIN is out of reach of the cleaning |
| `FiresInTimeHolds` | `FiresInTime` | `FireInv`: until its time is over the age of a timer tells the tick; a timer whose time is over is still ahead of the walk; a handler has run at most once, and then its timer is cancelled; a timer about to be marked has not run |
| `UdpTypeCorrect`, `TakenInOrderHolds`, `ConnectedFixedHolds` | `Udp!TypeOK`, `TakenInOrder`, `ConnectedFixed` | `UdpInv`: types, the receive thread's sock exists, where the reader is against queue, lengths and what was loaded |
| `ReplyFindsSenderHolds`, `LastLinkedFoundHolds` | `ReplyFindsSender`, `LastLinkedFound` | `ListInv`: while `list` is whole a sequence of socks, all that are linked and none twice, gives every link in both directions; while it is relinked one gives every forward link up to the sock linked last |
| `TypeCorrect` (`IpcProofs`) | `Ipc!TypeOK` | `TypeInv`: threads are created in the order of connections, and which fields of a thread are set when |
| `DescriptorsUnique` | `FdUnique` | `FdInv`: until two threads meet, the one in `alloc_socket` has loaded the counter's value and every number given out is below it |
| `EachServed` | `ThreadPerConnection`: one thread per descriptor and none on a closed one until `overtaken`, one on every open descriptor until `clash` as well | `ServeInv`: at most one thread has not read `datasock`, and nobody else serves that descriptor; until `clash` every open descriptor also has its entry in `connections` |
| `OwnAnswerHolds` | `OwnAnswer`: until `overtaken`, for applications that are not `misled` | `NetInv`: whose connection and whose request is whose, except where a tail was executed; `ReadInv`: a thread reads from the connection its descriptor stands for; `CallInv`: for each connection of an application that is not `misled`, either it waits and its call is in the stream, executed, answered or lost, once, or nothing that could become an answer is under way |
| `TablesAgreeHolds` | `TablesAgree`: until `overtaken` or `fdrace`, for applications that are not `misled` | `AgreeInv`: what the library will know when it has read the answer that waits is what the table of sockets holds; with all of the above |
| `NeighbourTypeCorrect`, `CacheSoundHolds`, `RepliesSoundHolds`, `FramesReach`, `ReceiverStaysBlind` | the invariants and the action property | `NeighInv`: slots and hops, the packet at hand, every entry and every half copied comes from the gateway's announcements, what the sleeping receive thread asks for is unknown |

Why strengthening is needed, in three examples. `AckSound` alone is not
preserved: an ACK on the way could exceed what the peer has, so the invariant
speaks of the network as well. `ChildAgrees` alone is not preserved: the range
test of `tcp_process` accepts two numbers, and that only the client's own ACK
carries one of them follows from what the segments in the network say and from
`RangeNames`, a lemma on the range test with and without a wrap.

Lists are a third: what a walk over the links meets is defined by recursion,
and the invariants speak of a sequence instead that the links spell out. The
walk is that sequence (`WalkValues`, by the least position at which it is not),
and an insertion or a removal is one on the sequence. In the
middle of `list_add` and `list_del` the links spell nothing, so `QueueInv` speaks
of the links as they will be when the statements left have been executed
(`NextLinks`, `PrevLinks`). When an insertion and a removal overlap that fails;
`clash` records it, and the invariant is silent from then on.

Every safety invariant, action property and refinement of the passing runs is
the statement of a theorem. Only model-checked are the liveness properties
(`UnackedGetsThrough`, `EventuallyAcked`, `AllAcked`, `EverythingArrives`,
`ConnectEnds`, `HandshakeCompletes`, `AcceptReturns`, `OutputEnds`,
`FrameSent`, `ReaderReturns`, `CallReturns`, `TimersReclaimed`), because the
prover does not treat fairness, and what the three violation runs refute.

`FinLast`, `SynFiltered` of both opening modules, and `StreamIntact` and
`ZeroAfterFin` of `TcpRecv` are proved and no run repeats them. The
strengthened invariants were checked with TLC on the instances of the runs
before they were proved, and the safety properties also once on larger
instances: `TcpClose` with 2 bytes, and with 4 timers, a tick of 3 bits and 2
ticks of delay; `TcpListen` with 3 clients and 3 accepts; `Udp` with 3 socks and
`Ipc` with two connections per application by random simulation only, as their
state spaces were not exhausted.

## 6. Known deviations

What the models show the code to do that its users would not expect. None of
these is hidden by a model; where a property excludes one, its statement says
so.

- `tcp_input.c:28-29`: the write queue is not in ascending order of `end_seq`
  once several segments are in flight (finding 1).
- `tcp_output.c:330`: `tcp_reset_retransmission_timer` releases an armed timer,
  which stays in the list and fires as an orphan beside the new one.
- `tcp_input.c:329`: an ACK above `snd_nxt` is possible between transmission
  and the update of `snd_nxt`; it is dropped.
- `tcp_input.c:322-323`: a timeout between the two lines sends acknowledged
  bytes with a new sequence number (`AckRace`).
- `tcp_data.c:6,22,27`: the out-of-order queue may hold duplicates and be out
  of order; the stream survives it.
- `tcp_input.c:345,427`: the reader's wakeup can be lost like connect's.
  `tcp_input.c:420`: clearing the PSH flag can clear a FIN flag that is just
  being set; the reader then never learns of the end.
- `tcp_input.c:67`: a sock made by a listening sock keeps a receive window of
  0, so that all text of its client is refused.
- `tcp_output.c:256-261`: the give-up of connect frees a sock that may have
  become established since the state was tested, and tells the waiting thread
  nothing.
- `tcp_output.c:362`, `tcp_input.c:158-160`: a SYN-ACK processed before the SYN
  is counted is turned away; with the last sequence number every SYN-ACK is.
- `tcp_input.c:11`: a simultaneous open dereferences a parent that is not
  there.
- `tcp_input.c:297`: the ACK of a SYN-ACK with the last sequence number is out
  of range; the client is reset, and the child becomes established by a second
  copy of the ACK.
- `tcp_input.c:301-302`: accept can return a sock in `SYN_RECEIVED`, on which
  write fails. `tcp_input.c:270`: RST is not looked at, an aborted connection
  is accepted.
- `tcp.h:191-204`: an insertion that overlaps a removal in the accept queue
  loses a connection or hands one out twice (`clash`).
- `tcp_sock.c:328-329`: a connection queued between the test and the sleep
  waits until the next one arrives.
- `inet.c:122`, `tcp_sock.c:112`: closing a listening socket blocks its thread
  for ever. `tcp_sock.c:426`: listening twice corrupts the list of listening
  socks when the socket is closed. `tcp_sock.c:375`: a listener bound to
  `INADDR_ANY` is never found.
- `tcp_input.c:119`: the reset for an ACK to a listening sock goes to address
  and port 0.
- `arp.c:52`, `netdev.c:62`: a frame can carry a hardware address torn from the
  old and the new one.
- `route.c:49-50,65`: masked addresses are compared with unmasked ones, so that
  every datagram takes the default route.
- `dst.c:32`: the receive thread waits for an ARP reply that only it could
  process; its datagram is lost.
- `icmpv4.c:46`: IP options shift the ICMP message.
- `tcp_output.c:438`: a FIN queued behind data has the `end_seq` of the data
  before it and is dropped by the ACK of the data, even when the queue had lost
  the data already; if it was lost, nothing sends it again.
- `tcp_input.c:374`, `tcp_sock.c:245,269`: a close and the peer's FIN that
  overlap overwrite each other's state.
- `tcp.c:167`, `tcp_input.c:384`: FIN_WAIT_2 and TIME_WAIT are never entered,
  and LAST_ACK is never left.
- `socket.c:85`, `inet.c:137`: every close frees the sock, which stays in the
  list of established socks and in the arguments of armed timers, although the
  comment at `socket.c:89` says that the sock is not deleted because it may
  still have to do something.
- `timer.c:34`, `list.h:38-40`: the walk takes no lock and can follow the null
  link of a timer that is just being added. `timer.c:38,54`: a timer whose
  `expires` wraps fires at once, one that expires at 2^32-1 never.
- `udp_sock.c:316-321,338`: `udp_set_sport` reports failure in every case, so
  that bind stores the port, fails, and never links the sock.
- `udp_sock.c:221`: each `sendto` draws a new port; answers to the one before
  find nobody.
- `udp_sock.c:37,223`: linking a sock again loses those behind it; removing one
  afterwards can make the list circle past its head, and the receive thread
  then holds `slock` for ever.
- `udp_sock.c:99`: closing a sock that was never linked dereferences null
  links. `udp_sock.c:100`, `inet.c:137`: every other close frees the sock twice.
- `udp.c:45,52`: the sock found is used after the lock is released, and may
  have been freed.
- `udp.c:52`: without the queue's lock a datagram can be lost or delivered
  twice and `qlen` can stay wrong; with a length and no datagram the reader
  takes the head of the list for one.
- `udp.c:93`: a datagram of length 0 is swallowed and the reader sleeps on,
  whatever is queued behind it, although `udp_sock.c:281` says that 0 bytes can
  be read.
- `udp.c:11`: the port drawn can be 0; the sock can then connect again, which
  `inet.c:90` excludes and `udp_sock.c:161` allows.
- `ipc.c:452`: two threads can serve one connection and none the other, whose
  application waits for ever. `ipc.c:58`: a thread that ends closes its
  descriptor by number.
- `ipc.c:50`: threads that end unlink, close and free under a read lock; two at
  once can break the list, leave a descriptor open without a thread, or walk for
  ever and keep the listener out (`clash`).
- `ipc.c:387-391`: after a failed second read the thread closes its descriptor
  and leaves its entry in `connections`, which is found when a later thread with
  that number ends.
- `ipc.c:103`: an application that exits before its answer is written stops
  the stack by SIGPIPE.
- `ipc.c:349,384`: the end of a write that exceeds the buffer stays in the
  stream. The next request is swallowed with it; or the end is executed as a
  call, because the data stand where the type is looked for and the buffer still
  holds the request before: it closes or makes sockets the library does not know
  of, possibly another application's, its answer is taken for that to the next
  call, or its length kills the stack (`misled`).
- `socket.c:72`: two threads can give out the same descriptor. The sockets of
  an application that exits are never freed.

## 7. Not modelled, and the plan

Left out for good: the layout of the IPC messages, system calls on the TAP
device, debugging output, start-up, the example programs, and `utils.c`: a
checksum is straight-line arithmetic on packet contents, which the models
abstract (a datagram whose checksum does not fit is a lost one in `ip_rcv`; TCP
and UDP do not verify theirs). `tcp_linger` and `tcp_enter_time_wait` are never
reached.

Simplified in the models that exist: sequence numbers do not wrap in `TcpSend`,
`TcpRecv` and `TcpClose` (they do in the two modules about opening); a client
that reuses a port for a second connection, which could free a child that is
still linked (`tcp_input.c:284`); the receive window is never updated by the
code and is a constant; what threads do to freed memory; in `Timers`, a thread
delayed between reading `tick` and taking the lock; the unlocked release of the
delayed-ACK timer in `Timers` (`TcpRecv` has it with orphans); the reference
counts of skbs. In `Ipc`: a message enters its stream as a whole, and the library reads
whole responses, of which an unexpected one could be cut; the process a tail names
is one of the applications; a node that stays in the library's list when `lvl_socket`
fails; the table of sockets after a tail that closes a socket another thread is
working on, whose calls remain one step each.

What would come next, in this order:

1. `TcpSend`, `TcpRecv` and `TcpConnect` on top of `Timers`, which they now
   abstract to a pointer, a handler on the way and orphans; then accepted
   sockets through `TcpListen` and `TcpClose` in one composition.
2. An abstract call and answer that `Ipc` refines until `overtaken`, from the
   invariants of `OwnAnswerHolds` and `FdUnique`; an abstract timer service that
   `Timers` refines until a tick wraps.
3. The sequence numbers of `TcpSend` and `TcpRecv` in a space that wraps, as in
   the two modules about opening.
