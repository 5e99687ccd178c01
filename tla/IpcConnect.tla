------------------------------ MODULE IpcConnect ------------------------------
(***************************************************************************)
(* Connection set-up and loss: gg_sdk_init, ggipc_connect_with_payload, the  *)
(* receive thread's epoll loop up to the packet dispatch (IpcClient models   *)
(* what a packet does) and the end of the process when receiving fails.      *)
(* File descriptors are numbers that the kernel hands out again, lowest      *)
(* first, once they are closed; ipc_conn_fd is a number, not a socket.       *)
(***************************************************************************)
EXTENDS Integers, FiniteSets

CONSTANTS
    Connectors,     \* threads that call ggipc_connect_with_token
    MaxFd,          \* bound: descriptors 1..MaxFd can be open at a time
    MaxPackets      \* bound: packets queued in a socket

ASSUME ConnectAssumption ==
    /\ MaxFd \in Nat \ {0}
    /\ MaxPackets \in Nat \ {0}

Fds == 1..MaxFd

VARIABLES
    proc,           \* "new" before gg_sdk_init, "running", "exited"
    ipc_conn_fd,    \* 0 stands for the code's -1
    epoll,          \* descriptors registered with epoll_fd
    recv,           \* the receive thread: pc, the events of its last epoll_wait
                    \* still to be handled, and the descriptor it reads
    conn,           \* connector -> pc and its local descriptor (0: none)
    sock            \* descriptor -> the kernel's and the server's view of it

vars == <<proc, ipc_conn_fd, epoll, recv, conn, sock>>

\* peer: "none" (descriptor not in use), "file" (in use by the application for
\* something else), "unconnected" (a new socket), "open" (connected) or "lost"
\* (closed by the server, or what follows the queued packets is no packet: cut
\* short, malformed, without the common headers or with a negative stream id);
\* acked: the server has sent its acceptance of the CONNECT packet; requested: a
\* request has been written to the descriptor; packets: the packets waiting to be
\* read; early: history, the server has sent a packet before the first request.
Unused == [peer |-> "none", acked |-> FALSE, requested |-> FALSE, packets |-> 0,
           early |-> FALSE]
Sockets == [peer : {"none", "file", "unconnected", "open", "lost"},
            acked : BOOLEAN, requested : BOOLEAN, packets : 0..MaxPackets,
            early : BOOLEAN]
ConnPcs == {"idle", "creating", "connecting", "sending", "reading",
            "registering", "publishing"}
RecvPcs == {"none", "epoll_wait", "ready", "dispatch", "closing", "failed"}

Init ==
    /\ proc = "new"
    /\ ipc_conn_fd = 0
    /\ epoll = {}
    /\ recv = [pc |-> "none", events |-> 0, fd |-> 0]
    /\ conn = [c \in Connectors |-> [pc |-> "idle", fd |-> 0]]
    /\ sock = [f \in Fds |-> Unused]

connected == ipc_conn_fd # 0

\* gg_sdk_init runs init_ipc_recv_thread: epoll descriptor, then the thread.
\* Any failure ends the process.
gg_sdk_init ==
    /\ proc = "new"
    /\ \/ /\ proc' = "running"
          /\ recv' = [recv EXCEPT !.pc = "epoll_wait"]
       \/ /\ proc' = "exited"
          /\ recv' = recv
    /\ UNCHANGED <<ipc_conn_fd, epoll, conn, sock>>

-----------------------------------------------------------------------------
(* ggipc_connect_with_payload. *)

\* Mutant: an error return without cleanup_close.
ConnectFails_NoClose(c) ==
    /\ conn' = [conn EXCEPT ![c] = [pc |-> "idle", fd |-> 0]]
    /\ UNCHANGED <<proc, ipc_conn_fd, epoll, recv, sock>>

\* Every error return: cleanup_close closes the local descriptor, which also
\* removes it from the epoll set.
ConnectFails(c) ==
    /\ conn' = [conn EXCEPT ![c] = [pc |-> "idle", fd |-> 0]]
    /\ sock' = [f \in Fds |-> IF f = conn[c].fd THEN Unused ELSE sock[f]]
    /\ epoll' = epoll \ {conn[c].fd}
    /\ UNCHANGED <<proc, ipc_conn_fd, recv>>

\* The entry, where assert(!connected()) is the caller's obligation.
BeginConnect(c) ==
    /\ conn[c].pc = "idle"
    /\ ~connected
    /\ conn' = [conn EXCEPT ![c].pc = "creating"]
    /\ UNCHANGED <<proc, ipc_conn_fd, epoll, recv, sock>>

\* The number the kernel gives to a new descriptor.
LowestFree(f) ==
    /\ sock[f].peer = "none"
    /\ \A g \in Fds : g < f => sock[g].peer # "none"

\* gg_connect up to socket(): a path that is too long, no socket, or a new one.
CreateSocket(c) ==
    /\ conn[c].pc = "creating"
    /\ \/ ConnectFails(c)
       \/ \E f \in Fds :
            /\ LowestFree(f)
            /\ sock' = [sock EXCEPT ![f].peer = "unconnected"]
            /\ conn' = [conn EXCEPT ![c] = [pc |-> "connecting", fd |-> f]]
            /\ UNCHANGED <<proc, ipc_conn_fd, epoll, recv>>

\* Mutant: the socket is registered as soon as it is connected.
gg_connect_Registers(c) ==
    /\ conn[c].pc = "connecting"
    /\ sock' = [sock EXCEPT ![conn[c].fd].peer = "open"]
    /\ conn' = [conn EXCEPT ![c].pc = "sending"]
    /\ epoll' = epoll \cup {conn[c].fd}
    /\ UNCHANGED <<proc, ipc_conn_fd, recv>>

\* Mutant: sockfd_cleanup is not reset, so the socket is closed on success too.
gg_connect_Closes(c) ==
    /\ conn[c].pc = "connecting"
    /\ sock' = [sock EXCEPT ![conn[c].fd] = Unused]
    /\ conn' = [conn EXCEPT ![c].pc = "sending"]
    /\ UNCHANGED <<proc, ipc_conn_fd, epoll, recv>>

\* The rest of gg_connect: connect and the two timeouts, each of which may fail
\* and then closes the socket.
gg_connect(c) ==
    /\ conn[c].pc = "connecting"
    /\ \/ ConnectFails(c)
       \/ /\ sock' = [sock EXCEPT ![conn[c].fd].peer = "open"]
          /\ conn' = [conn EXCEPT ![c].pc = "sending"]
          /\ UNCHANGED <<proc, ipc_conn_fd, epoll, recv>>

\* ipc_send_packet of the CONNECT packet.
SendConnect(c) ==
    /\ conn[c].pc = "sending"
    /\ \/ ConnectFails(c)
       \/ /\ conn' = [conn EXCEPT ![c].pc = "reading"]
          /\ UNCHANGED <<proc, ipc_conn_fd, epoll, recv, sock>>

\* eventsteam_get_packet into ipc_recv_mem, the header checks and the extra
\* header handler.  Only an acknowledgement with the accepted flag gets on; it can
\* be read even if the server has broken the connection since.
ReadAck(c) ==
    /\ conn[c].pc = "reading"
    /\ \/ ConnectFails(c)
       \/ /\ sock[conn[c].fd].acked
          /\ conn' = [conn EXCEPT ![c].pc = "registering"]
          /\ UNCHANGED <<proc, ipc_conn_fd, epoll, recv, sock>>

\* Mutant: a failure of gg_socket_epoll_add is ignored.
register_ipc_socket_IgnoresFailure(c) ==
    /\ conn[c].pc = "registering"
    /\ epoll' \in {epoll, epoll \cup {conn[c].fd}}
    /\ conn' = [conn EXCEPT ![c].pc = "publishing"]
    /\ UNCHANGED <<proc, ipc_conn_fd, recv, sock>>

\* register_ipc_socket: from here on the receive thread is woken by the socket.
register_ipc_socket(c) ==
    /\ conn[c].pc = "registering"
    /\ \/ ConnectFails(c)
       \/ /\ epoll' = epoll \cup {conn[c].fd}
          /\ conn' = [conn EXCEPT ![c].pc = "publishing"]
          /\ UNCHANGED <<proc, ipc_conn_fd, recv, sock>>

\* ipc_conn_fd = conn: calls can be made.
Publish(c) ==
    /\ conn[c].pc = "publishing"
    /\ ipc_conn_fd' = conn[c].fd
    /\ conn' = [conn EXCEPT ![c] = [pc |-> "idle", fd |-> 0]]
    /\ UNCHANGED <<proc, epoll, recv, sock>>

\* A call sends its request, or a close its TERMINATE packet, to whatever
\* ipc_conn_fd names at that time: the connection, or after CloseConnection
\* another file that got the number.  A write that fails changes nothing here,
\* which is all it can do to a number that is not in use.
SendRequest ==
    /\ connected
    /\ sock[ipc_conn_fd].peer # "none"
    /\ sock' = [sock EXCEPT ![ipc_conn_fd].requested = TRUE]
    /\ UNCHANGED <<proc, ipc_conn_fd, epoll, recv, conn>>

\* Other threads of the application open and close files of their own.
AppOpens(f) ==
    /\ LowestFree(f)
    /\ sock' = [sock EXCEPT ![f].peer = "file"]
    /\ UNCHANGED <<proc, ipc_conn_fd, epoll, recv, conn>>

AppCloses(f) ==
    /\ sock[f].peer = "file"
    /\ sock' = [sock EXCEPT ![f] = Unused]
    /\ UNCHANGED <<proc, ipc_conn_fd, epoll, recv, conn>>

-----------------------------------------------------------------------------
(* The receive thread. *)

Readable(f) == sock[f].packets > 0 \/ sock[f].peer = "lost"

\* epoll_wait, without a timeout, returns when registered descriptors are readable
\* and reports them.
EpollWait ==
    /\ recv.pc = "epoll_wait"
    /\ \E f \in epoll : Readable(f)
    /\ recv' = [pc |-> "ready", fd |-> 0,
                events |-> Cardinality({f \in epoll : Readable(f)})]
    /\ UNCHANGED <<proc, ipc_conn_fd, epoll, conn, sock>>

\* epoll_wait may also fail, at any time or never; EINTR is retried at once.
EpollWaitFails ==
    /\ recv.pc = "epoll_wait"
    /\ recv' = [recv EXCEPT !.pc = "failed"]
    /\ UNCHANGED <<proc, ipc_conn_fd, epoll, conn, sock>>

\* data_ready_callback ignores which descriptor was reported and reads from
\* the one in ipc_conn_fd.
data_ready_callback ==
    /\ recv.pc = "ready"
    /\ recv' = [recv EXCEPT !.pc = "dispatch", !.fd = ipc_conn_fd]
    /\ UNCHANGED <<proc, ipc_conn_fd, epoll, conn, sock>>

\* Mutant: the end of the stream is handled as a packet.
dispatch_incoming_packet_NoCheck ==
    /\ recv.pc = "dispatch"
    /\ recv.fd # 0
    /\ sock' = [sock EXCEPT ![recv.fd].packets = @ - 1]
    /\ recv' = [pc |-> "epoll_wait", events |-> 0, fd |-> 0]
    /\ UNCHANGED <<proc, ipc_conn_fd, epoll, conn>>

\* Mutant: a packet that was read may be an error too (one for an unknown stream)
\* instead of being dropped.
dispatch_incoming_packet_UnhandledFails ==
    /\ recv.pc = "dispatch"
    /\ \/ /\ recv.fd # 0
          /\ sock[recv.fd].packets > 0
          /\ sock' = [sock EXCEPT ![recv.fd].packets = @ - 1]
          /\ \/ recv' = [pc |-> IF recv.events > 1 THEN "ready" ELSE "epoll_wait",
                         events |-> recv.events - 1, fd |-> 0]
             \/ recv' = [recv EXCEPT !.pc = "closing"]
       \/ /\ recv.fd # 0 => sock[recv.fd].packets = 0
          /\ recv' = [recv EXCEPT !.pc = "closing"]
          /\ sock' = sock
    /\ UNCHANGED <<proc, ipc_conn_fd, epoll, conn>>

\* A packet is read into ipc_recv_mem and handled; or reading fails: no
\* descriptor, connection lost, or nothing to read before the receive timeout.
dispatch_incoming_packet ==
    /\ recv.pc = "dispatch"
    /\ \/ /\ recv.fd # 0
          /\ sock[recv.fd].packets > 0
          /\ sock' = [sock EXCEPT ![recv.fd].packets = @ - 1]
          /\ recv' = [pc |-> IF recv.events > 1 THEN "ready" ELSE "epoll_wait",
                      events |-> recv.events - 1, fd |-> 0]
       \/ /\ recv.fd # 0 => sock[recv.fd].packets = 0
          /\ recv' = [recv EXCEPT !.pc = "closing"]
          /\ sock' = sock
    /\ UNCHANGED <<proc, ipc_conn_fd, epoll, conn>>

\* Mutant: the epoll loop goes on after an error of the callback.
CloseConnection_Continues ==
    /\ recv.pc = "closing"
    /\ sock' = [f \in Fds |-> IF f = ipc_conn_fd THEN Unused ELSE sock[f]]
    /\ epoll' = epoll \ {ipc_conn_fd}
    /\ recv' = [pc |-> "epoll_wait", events |-> 0, fd |-> 0]
    /\ UNCHANGED <<proc, ipc_conn_fd, conn>>

\* gg_close(ipc_conn_fd), read anew; ipc_conn_fd keeps its value.
CloseConnection ==
    /\ recv.pc = "closing"
    /\ sock' = [f \in Fds |-> IF f = ipc_conn_fd THEN Unused ELSE sock[f]]
    /\ epoll' = epoll \ {ipc_conn_fd}
    /\ recv' = [recv EXCEPT !.pc = "failed"]
    /\ UNCHANGED <<proc, ipc_conn_fd, conn>>

\* recv_thread: _Exit(1).
Exit ==
    /\ recv.pc = "failed"
    /\ proc' = "exited"
    /\ UNCHANGED <<ipc_conn_fd, epoll, recv, conn, sock>>

-----------------------------------------------------------------------------
(* The server. *)

ServerAccepts(f) ==
    /\ sock[f].peer = "open"
    /\ \E c \in Connectors : conn[c].pc = "reading" /\ conn[c].fd = f
    /\ sock' = [sock EXCEPT ![f].acked = TRUE]
    /\ UNCHANGED <<proc, ipc_conn_fd, epoll, recv, conn>>

ServerSends(f) ==
    /\ sock[f].peer = "open" /\ sock[f].acked
    /\ sock[f].packets < MaxPackets
    /\ sock' = [sock EXCEPT ![f].packets = @ + 1,
                            ![f].early = @ \/ ~sock[f].requested]
    /\ UNCHANGED <<proc, ipc_conn_fd, epoll, recv, conn>>

ServerBreaks(f) ==
    /\ sock[f].peer = "open"
    /\ sock' = [sock EXCEPT ![f].peer = "lost"]
    /\ UNCHANGED <<proc, ipc_conn_fd, epoll, recv, conn>>

-----------------------------------------------------------------------------
ConnectStep(c) ==
    \/ BeginConnect(c)
    \/ CreateSocket(c)
    \/ gg_connect(c)
    \/ SendConnect(c)
    \/ ReadAck(c)
    \/ register_ipc_socket(c)
    \/ Publish(c)

\* What the receive thread does when it is scheduled.
RecvProgress ==
    \/ EpollWait
    \/ data_ready_callback
    \/ dispatch_incoming_packet
    \/ CloseConnection
    \/ Exit

RecvStep == RecvProgress \/ EpollWaitFails

ServerStep == \E f \in Fds : ServerAccepts(f) \/ ServerSends(f) \/ ServerBreaks(f)

Running ==
    /\ proc = "running"
    /\ \/ \E c \in Connectors : ConnectStep(c)
       \/ SendRequest
       \/ \E f \in Fds : AppOpens(f) \/ AppCloses(f)
       \/ RecvStep
       \/ ServerStep

Next == gg_sdk_init \/ Running

Spec == Init /\ [][Next]_vars

\* The receive thread and a connector that has registered its socket are
\* scheduled.  Nothing is assumed of the server, of when connects are made, or of
\* a failing epoll_wait: a thread with nothing to read may wait for ever.
FairSpec ==
    /\ Spec
    /\ WF_vars(proc = "running" /\ RecvProgress)
    /\ \A c \in Connectors : WF_vars(proc = "running" /\ Publish(c))

-----------------------------------------------------------------------------
(* Properties. *)

\* Type invariant.
TypeOK ==
    /\ proc \in {"new", "running", "exited"}
    /\ ipc_conn_fd \in 0..MaxFd
    /\ epoll \subseteq Fds
    /\ recv \in [pc : RecvPcs, events : 0..MaxFd, fd : 0..MaxFd]
    /\ conn \in [Connectors -> [pc : ConnPcs, fd : 0..MaxFd]]
    /\ sock \in [Fds -> Sockets]

\* client.c:44: ipc_recv_mem and ipc_recv_decode_mem are "Used while connecting
\* or by receiving thread which are mutually exclusive".
RecvMemExclusive ==
    /\ \A c \in Connectors : conn[c].pc = "reading" => recv.pc # "dispatch"
    /\ \A c, d \in Connectors :
         conn[c].pc = "reading" /\ conn[d].pc = "reading" => c = d

\* Every socket has an owner that will close it: a connect in progress or
\* ipc_conn_fd.  No error path of ggipc_connect_with_payload leaks one.
NoDescriptorLeak ==
    \A f \in Fds : sock[f].peer \notin {"none", "file"} =>
        \/ f = ipc_conn_fd
        \/ \E c \in Connectors : conn[c].fd = f

\* Until the receive thread gives up, ipc_conn_fd names a socket on which the
\* server accepted the connection and which the thread watches: no request is
\* written to another file of the application, and no call waits for a response
\* that nobody reads.  (Between gg_close at client.c:812 and _Exit at 828 the
\* number may already name another file.)
ConnectedIsWatched ==
    connected /\ recv.pc # "failed" =>
        /\ ipc_conn_fd \in epoll
        /\ sock[ipc_conn_fd].acked
        /\ sock[ipc_conn_fd].peer \in {"open", "lost"}

\* The receive thread gives the connection up only because it was lost.  The
\* exception is a server that sends packets before the first request: they may
\* wake the thread for a registered socket that ipc_conn_fd does not name yet
\* (client.c:288 registers, 295 publishes), and it then reads descriptor -1.
ExitsOnlyOnLoss ==
    recv.pc = "closing" =>
        \E f \in epoll : sock[f].peer = "lost" \/ (recv.fd = 0 /\ sock[f].early)

\* No cleanup closes a descriptor that meanwhile belongs to the rest of the
\* application: each close of the connect and receive paths (cleanup_close in
\* gg_connect and ggipc_connect_with_payload, gg_close at client.c:812) happens
\* once, on a socket that is still theirs.
NoForeignClose ==
    [][\A f \in Fds :
         sock[f].peer = "file" /\ sock'[f].peer # "file" => AppCloses(f)]_vars

\* ipc_conn_fd keeps the number that gg_close (client.c:812) has given back, and
\* ipc_send_packet (345, 625) writes to whatever it names.  A file of the
\* application is written to only in the window this leaves, between the failure of
\* the receive thread and its _Exit (828), and never once the process has a
\* receive thread that goes on.
ForeignWriteOnlyWhileExiting ==
    \A f \in Fds :
        sock[f].peer = "file" /\ sock[f].requested => recv.pc = "failed"

\* Whoever holds a descriptor number owns the socket behind it: none is leaked, the
\* published one is accepted and watched, and one that ipc_conn_fd still names after
\* it was closed is written to only by a process about to end.
DescriptorsSound ==
    NoDescriptorLeak /\ ConnectedIsWatched /\ ForeignWriteOnlyWhileExiting

\* The loss of the connection is noticed: the process ends.
LossEndsProcess ==
    \A f \in Fds :
        (proc = "running" /\ f = ipc_conn_fd /\ sock[f].peer = "lost")
            ~> proc = "exited"
=============================================================================
