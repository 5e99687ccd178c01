-------------------------- MODULE IpcConnectProofs --------------------------
(***************************************************************************)
(* Proofs about IpcConnect for any number of descriptors and packets, any    *)
(* server, and a program in which one thread connects (IpcConnectConcurrent  *)
(* shows why that is needed).                                                *)
(***************************************************************************)
EXTENDS IpcConnect, FiniteSetTheorems, TLAPS

\* The connector has a descriptor exactly from socket() to Publish: a new socket up
\* to the end of gg_connect, then one the server is or was at the other end of, and
\* an accepted one once the acknowledgement is read.  There is no connection yet.
ConnectorOK(c) ==
    /\ conn[c].fd = 0 <=> conn[c].pc \in {"idle", "creating"}
    /\ conn[c].pc # "idle" => ipc_conn_fd = 0
    /\ conn[c].pc = "connecting" => sock[conn[c].fd].peer = "unconnected"
    /\ conn[c].pc \in {"sending", "reading", "registering", "publishing"} =>
         sock[conn[c].fd].peer \in {"open", "lost"}
    /\ conn[c].pc \in {"registering", "publishing"} => sock[conn[c].fd].acked

\* What epoll watches: the socket about to be published, or the connection.
EpollOK(c) ==
    /\ \A f \in epoll :
         f = ipc_conn_fd \/ (conn[c].pc = "publishing" /\ f = conn[c].fd)
    /\ conn[c].pc = "publishing" => conn[c].fd \in epoll

\* Packets come after a request, and requests go out on the connection.
TrafficOK ==
    \A f \in Fds :
        /\ sock[f].requested => f = ipc_conn_fd
        /\ sock[f].packets > 0 => sock[f].requested \/ sock[f].early

\* Why the receive thread is awake.
WakeOK(c) ==
    /\ proc = "new" => recv.pc = "none"
    /\ recv.pc \in {"ready", "dispatch"} => recv.events = 1
    /\ recv.pc \in {"ready", "dispatch", "closing"} =>
         connected \/ conn[c].pc = "publishing"
    /\ recv.pc = "ready" => \E f \in epoll : Readable(f)
    /\ recv.pc \in {"dispatch", "closing"} => recv.fd \in {0, ipc_conn_fd}
    /\ recv.pc = "dispatch" /\ recv.fd # 0 => Readable(recv.fd)
    /\ recv.pc = "dispatch" /\ recv.fd = 0 =>
         \E f \in epoll : sock[f].peer = "lost" \/ sock[f].early

CInv(c) ==
    /\ TypeOK
    /\ ConnectorOK(c)
    /\ EpollOK(c)
    /\ TrafficOK
    /\ WakeOK(c)
    /\ NoDescriptorLeak
    /\ ConnectedIsWatched
    /\ ExitsOnlyOnLoss

\* Nothing is open or awake before gg_sdk_init.
LEMMA CInvInit ==
    ASSUME NEW c, Connectors = {c}, Init
    PROVE  CInv(c)
<1>1. TypeOK
  BY ConnectAssumption DEF Init, TypeOK, Fds, Unused, Sockets, ConnPcs, RecvPcs
<1>2. ConnectorOK(c) /\ EpollOK(c) /\ WakeOK(c)
  BY Zenon DEF Init, ConnectorOK, EpollOK, WakeOK
<1>3. TrafficOK /\ NoDescriptorLeak
  BY DEF Init, TrafficOK, NoDescriptorLeak, Unused
<1>4. ConnectedIsWatched /\ ExitsOnlyOnLoss
  BY Zenon DEF Init, ConnectedIsWatched, ExitsOnlyOnLoss, connected
<1> QED BY <1>1, <1>2, <1>3, <1>4, Zenon DEF CInv

\* A set of watched descriptors has at most one member, so epoll_wait reports
\* at most one event.
LEMMA OneEvent ==
    ASSUME NEW c, CInv(c), \E f \in epoll : Readable(f)
    PROVE  Cardinality({f \in epoll : Readable(f)}) = 1
<1> DEFINE R == {f \in epoll : Readable(f)}
<1>1. PICK g \in R : TRUE BY Zenon
<1>2. \A f \in epoll : f = g
  <2>1. \A f \in epoll : f # 0
    BY DEF CInv, TypeOK, Fds
  <2>2. CASE conn[c].pc = "publishing"
    BY <1>1, <2>1, <2>2, Zenon DEF CInv, EpollOK, ConnectorOK
  <2>3. CASE conn[c].pc # "publishing"
    BY <1>1, <2>3, Zenon DEF CInv, EpollOK
  <2> QED BY <2>2, <2>3, Zenon
<1>3. Cardinality({g}) = 1 BY FS_Singleton, Zenon
<1>4. R = {g} BY <1>1, <1>2, Zenon
<1> QED BY <1>3, <1>4, Zenon

\* gg_sdk_init starts the receive thread in epoll_wait.
LEMMA SdkInitStep ==
    ASSUME NEW c, Connectors = {c}, CInv(c), gg_sdk_init
    PROVE  CInv(c)'
<1>1. TypeOK' BY Zenon DEF CInv, TypeOK, gg_sdk_init, RecvPcs
<1>2. /\ ConnectorOK(c)' /\ EpollOK(c)' /\ TrafficOK' /\ NoDescriptorLeak'
  BY Zenon DEF CInv, gg_sdk_init, ConnectorOK, EpollOK, TrafficOK, NoDescriptorLeak
<1>3. WakeOK(c)' /\ ExitsOnlyOnLoss'
  BY Zenon DEF CInv, TypeOK, gg_sdk_init, WakeOK, ExitsOnlyOnLoss, connected, Readable
<1>4. ConnectedIsWatched'
  BY Zenon DEF CInv, TypeOK, gg_sdk_init, ConnectedIsWatched, connected, WakeOK
<1> QED BY <1>1, <1>2, <1>3, <1>4, Zenon DEF CInv

\* Every error return of ggipc_connect_with_payload: cleanup_close closes the
\* connector's socket, which is not the connection and not watched.
LEMMA ConnectFailsStep ==
    ASSUME NEW c, Connectors = {c}, CInv(c), ConnectFails(c),
           conn[c].pc \in {"creating", "connecting", "sending", "reading",
                           "registering"}
    PROVE  CInv(c)'
<1> DEFINE h == conn[c].fd
<1>0. /\ ipc_conn_fd = 0 /\ ipc_conn_fd' = 0
      /\ epoll = {} /\ epoll' = {}
      /\ recv' = recv /\ proc' = proc
  <2>1. ipc_conn_fd = 0 BY Zenon DEF CInv, ConnectorOK
  <2>2. epoll = {}
    BY <2>1 DEF CInv, EpollOK, TypeOK, Fds
  <2> QED BY <2>1, <2>2, Zenon DEF ConnectFails
<1>1. TypeOK'
  <2>1. Unused \in Sockets BY ConnectAssumption DEF Unused, Sockets
  <2>2. sock' \in [Fds -> Sockets]
    BY <2>1, Zenon DEF ConnectFails, CInv, TypeOK
  <2>3. conn' \in [Connectors -> [pc : ConnPcs, fd : 0..MaxFd]]
    BY ConnectAssumption DEF ConnectFails, CInv, TypeOK, ConnPcs
  <2> QED BY <1>0, <2>2, <2>3, Zenon DEF CInv, TypeOK
<1>2. conn'[c] = [pc |-> "idle", fd |-> 0]
  BY Zenon DEF CInv, TypeOK, ConnectFails
<1>3. ConnectorOK(c)' /\ EpollOK(c)'
  BY <1>0, <1>2 DEF ConnectorOK, EpollOK
<1>4. \A f \in Fds : sock'[f] = IF f = h THEN Unused ELSE sock[f]
  BY Zenon DEF ConnectFails
<1>5. TrafficOK' /\ NoDescriptorLeak'
  BY <1>0, <1>2, <1>4 DEF CInv, TrafficOK, NoDescriptorLeak, Unused
<1>6. recv.pc \notin {"ready", "dispatch", "closing"}
  BY <1>0, Zenon DEF CInv, WakeOK, connected
<1>7. WakeOK(c)' /\ ExitsOnlyOnLoss' /\ ConnectedIsWatched'
  BY <1>0, <1>6, Zenon DEF CInv, WakeOK, ExitsOnlyOnLoss, ConnectedIsWatched, connected
<1> QED BY <1>1, <1>3, <1>5, <1>7, Zenon DEF CInv

\* The steps of ggipc_connect_with_payload up to the acknowledgement: nothing is
\* watched, so the receive thread is not awake.
LEMMA HandshakeStep ==
    ASSUME NEW c, Connectors = {c}, CInv(c),
           \/ BeginConnect(c) \/ CreateSocket(c) \/ gg_connect(c)
           \/ SendConnect(c) \/ ReadAck(c)
    PROVE  CInv(c)'
<1>1. CASE BeginConnect(c)
  <2>0. ipc_conn_fd = 0 BY <1>1, Zenon DEF BeginConnect, connected
  <2>1. conn'[c].pc = "creating" /\ conn'[c].fd = 0
    BY <1>1, Zenon DEF BeginConnect, CInv, TypeOK, ConnectorOK
  <2>2. TypeOK' BY <1>1 DEF BeginConnect, CInv, TypeOK, ConnPcs
  <2>3. ConnectorOK(c)' /\ EpollOK(c)' /\ WakeOK(c)'
    BY <1>1, <2>0, <2>1, Zenon DEF BeginConnect, CInv, ConnectorOK, EpollOK, WakeOK,
                             connected, Readable
  <2>4. NoDescriptorLeak'
    BY <1>1, <2>1 DEF BeginConnect, CInv, NoDescriptorLeak, ConnectorOK
  <2>5. TrafficOK' /\ ConnectedIsWatched' /\ ExitsOnlyOnLoss'
    BY <1>1, Zenon DEF BeginConnect, CInv, TrafficOK, ConnectedIsWatched,
                ExitsOnlyOnLoss, connected
  <2> QED BY <2>2, <2>3, <2>4, <2>5, Zenon DEF CInv
<1>2. CASE CreateSocket(c) \/ gg_connect(c)
  <2>1. CASE ConnectFails(c)
    BY <1>2, <2>1, ConnectFailsStep, Zenon DEF CreateSocket, gg_connect
  <2>2. CASE ~ConnectFails(c)
    <3>1. PICK f \in Fds, n \in {"unconnected", "open"}, p \in {"connecting", "sending"} :
            /\ conn[c].pc = "connecting" => f = conn[c].fd
            /\ sock' = [sock EXCEPT ![f].peer = n]
            /\ conn' = [conn EXCEPT ![c] = [pc |-> p, fd |-> f]]
            /\ n = "unconnected" <=> p = "connecting"
            /\ conn[c].pc \in {"creating", "connecting"}
            /\ UNCHANGED <<proc, ipc_conn_fd, epoll, recv>>
      <4>1. CASE CreateSocket(c)
        BY <2>2, <4>1, Zenon DEF CreateSocket, LowestFree
      <4>2. CASE gg_connect(c)
        <5>1. /\ conn[c].pc = "connecting"
              /\ sock' = [sock EXCEPT ![conn[c].fd].peer = "open"]
              /\ conn' = [conn EXCEPT ![c].pc = "sending"]
              /\ UNCHANGED <<proc, ipc_conn_fd, epoll, recv>>
          BY <2>2, <4>2, Zenon DEF gg_connect
        <5>2. conn[c].fd \in Fds
          BY <5>1 DEF CInv, ConnectorOK, TypeOK, Fds
        <5>3. conn[c] \in [pc : ConnPcs, fd : 0..MaxFd]
          BY Zenon DEF CInv, TypeOK
        <5>4. [conn[c] EXCEPT !.pc = "sending"] = [pc |-> "sending", fd |-> conn[c].fd]
          BY <5>3
        <5>5. conn' = [conn EXCEPT ![c] = [pc |-> "sending", fd |-> conn[c].fd]]
          BY <5>1, <5>4, Zenon
        <5> QED BY <5>1, <5>2, <5>5, Zenon
      <4> QED BY <1>2, <4>1, <4>2, Zenon
    <3>2. ipc_conn_fd = 0 /\ epoll = {}
      BY <3>1 DEF CInv, ConnectorOK, EpollOK, TypeOK, Fds
    <3>3. TypeOK'
      BY <3>1, SMTT(30) DEF CInv, TypeOK, Sockets, ConnPcs, Fds
    <3>4. conn'[c].pc = p /\ conn'[c].fd = f /\ f # 0
      BY <3>1 DEF CInv, TypeOK, Fds
    <3>5. /\ sock'[f] = [sock[f] EXCEPT !.peer = n]
          /\ \A g \in Fds : g # f => sock'[g] = sock[g]
      BY <3>1, Zenon DEF CInv, TypeOK
    <3>6. sock[f] \in Sockets BY Zenon DEF CInv, TypeOK
    <3>7. ConnectorOK(c)' /\ EpollOK(c)'
      BY <3>1, <3>2, <3>4, <3>5, <3>6 DEF ConnectorOK, EpollOK, Sockets
    <3>8. TrafficOK'
      BY <3>1, <3>5, <3>6 DEF CInv, TrafficOK, Sockets
    <3>9. NoDescriptorLeak'
      <4>1. \A g \in Fds : g # 0 BY DEF Fds
      <4>2. \A g \in Fds : sock[g].peer \notin {"none", "file"} => g = f
        BY <3>1, <3>2, <4>1 DEF CInv, NoDescriptorLeak, ConnectorOK
      <4> QED BY <3>4, <3>5, <4>2, Zenon DEF NoDescriptorLeak
    <3>10. recv.pc \notin {"ready", "dispatch", "closing"}
      BY <3>1, <3>2, Zenon DEF CInv, WakeOK, connected
    <3>11. WakeOK(c)' /\ ConnectedIsWatched' /\ ExitsOnlyOnLoss'
      BY <3>1, <3>2, <3>10 DEF CInv, WakeOK, ConnectedIsWatched,
                               ExitsOnlyOnLoss, connected
    <3> QED BY <3>3, <3>7, <3>8, <3>9, <3>11, Zenon DEF CInv
  <2> QED BY <2>1, <2>2, Zenon
<1>3. CASE SendConnect(c) \/ ReadAck(c)
  <2>1. CASE ConnectFails(c)
    BY <1>3, <2>1, ConnectFailsStep, Zenon DEF SendConnect, ReadAck
  <2>2. CASE ~ConnectFails(c)
    <3>1. /\ conn[c].pc \in {"sending", "reading"}
          /\ conn' = [conn EXCEPT ![c].pc = IF conn[c].pc = "sending"
                                            THEN "reading" ELSE "registering"]
          /\ conn[c].pc = "reading" => sock[conn[c].fd].acked
          /\ UNCHANGED <<proc, ipc_conn_fd, epoll, recv, sock>>
      BY <1>3, <2>2, Zenon DEF SendConnect, ReadAck
    <3>2. ipc_conn_fd = 0 /\ epoll = {}
      BY <3>1 DEF CInv, ConnectorOK, EpollOK, TypeOK, Fds
    <3>3. TypeOK' BY <3>1 DEF CInv, TypeOK, ConnPcs
    <3>4. /\ conn'[c].fd = conn[c].fd
          /\ conn[c].pc = "sending" => conn'[c].pc = "reading"
          /\ conn[c].pc = "reading" => conn'[c].pc = "registering"
      BY <3>1, Zenon DEF CInv, TypeOK
    <3>5. ConnectorOK(c)' /\ EpollOK(c)'
      BY <3>1, <3>2, <3>4, Zenon DEF CInv, ConnectorOK, EpollOK
    <3>6. NoDescriptorLeak' BY <3>1, <3>4, Zenon DEF CInv, NoDescriptorLeak
    <3>7. recv.pc \notin {"ready", "dispatch", "closing"}
      BY <3>1, <3>2, Zenon DEF CInv, WakeOK, connected
    <3>8. TrafficOK' /\ WakeOK(c)' /\ ConnectedIsWatched' /\ ExitsOnlyOnLoss'
      BY <3>1, <3>2, <3>7, Zenon DEF CInv, TrafficOK, WakeOK, ConnectedIsWatched,
                              ExitsOnlyOnLoss, connected
    <3> QED BY <3>3, <3>5, <3>6, <3>8, Zenon DEF CInv
  <2> QED BY <2>1, <2>2, Zenon
<1> QED BY <1>1, <1>2, <1>3, Zenon

\* register_ipc_socket makes the accepted socket the only watched one; Publish
\* makes it the connection.  The receive thread may be awake from the former on.
LEMMA PublishStep ==
    ASSUME NEW c, Connectors = {c}, CInv(c), register_ipc_socket(c) \/ Publish(c)
    PROVE  CInv(c)'
<1> DEFINE h == conn[c].fd
<1>1. CASE register_ipc_socket(c)
  <2>1. CASE ConnectFails(c)
    BY <1>1, <2>1, ConnectFailsStep, Zenon DEF register_ipc_socket
  <2>2. CASE ~ConnectFails(c)
    <3>1. /\ conn[c].pc = "registering"
          /\ epoll' = epoll \cup {h}
          /\ conn' = [conn EXCEPT ![c].pc = "publishing"]
          /\ UNCHANGED <<proc, ipc_conn_fd, recv, sock>>
      BY <1>1, <2>2, Zenon DEF register_ipc_socket
    <3>2. ipc_conn_fd = 0 /\ epoll = {} /\ h \in Fds
      BY <3>1 DEF CInv, ConnectorOK, EpollOK, TypeOK, Fds
    <3>3. TypeOK' BY <3>1, <3>2, Zenon DEF CInv, TypeOK, ConnPcs
    <3>4. conn'[c].pc = "publishing" /\ conn'[c].fd = h
      BY <3>1, Zenon DEF CInv, TypeOK
    <3>5. ConnectorOK(c)' /\ EpollOK(c)'
      BY <3>1, <3>2, <3>4 DEF CInv, ConnectorOK, EpollOK
    <3>6. NoDescriptorLeak' BY <3>1, <3>4, Zenon DEF CInv, NoDescriptorLeak
    <3>7. recv.pc \notin {"ready", "dispatch", "closing"}
      BY <3>1, <3>2, Zenon DEF CInv, WakeOK, connected
    <3>8. TrafficOK' /\ WakeOK(c)' /\ ConnectedIsWatched' /\ ExitsOnlyOnLoss'
      BY <3>1, <3>2, <3>7, Zenon DEF CInv, TrafficOK, WakeOK, ConnectedIsWatched,
                              ExitsOnlyOnLoss, connected
    <3> QED BY <3>3, <3>5, <3>6, <3>8, Zenon DEF CInv
  <2> QED BY <2>1, <2>2, Zenon
<1>2. CASE Publish(c)
  <2>1. /\ conn[c].pc = "publishing" /\ ipc_conn_fd' = h
        /\ conn' = [conn EXCEPT ![c] = [pc |-> "idle", fd |-> 0]]
        /\ UNCHANGED <<proc, epoll, recv, sock>>
    BY <1>2, Zenon DEF Publish
  <2>2. /\ ipc_conn_fd = 0 /\ h \in Fds /\ h # 0 /\ h \in epoll
        /\ \A f \in epoll : f = h
    BY <2>1 DEF CInv, ConnectorOK, EpollOK, TypeOK, Fds
  <2>3. TypeOK' BY <2>1, <2>2, ConnectAssumption, Zenon DEF CInv, TypeOK, ConnPcs, Fds
  <2>4. conn'[c] = [pc |-> "idle", fd |-> 0] BY <2>1, Zenon DEF CInv, TypeOK
  <2>5. ConnectorOK(c)' /\ EpollOK(c)'
    BY <2>1, <2>2, <2>4 DEF ConnectorOK, EpollOK
  <2>6. NoDescriptorLeak' BY <2>1, <2>2, <2>4 DEF CInv, NoDescriptorLeak
  <2>7. TrafficOK'
    BY <2>1, <2>2 DEF CInv, TrafficOK, Fds
  <2>8. ConnectedIsWatched'
    BY <2>1, <2>2, Zenon DEF CInv, ConnectedIsWatched, ConnectorOK
  <2>9. WakeOK(c)' /\ ExitsOnlyOnLoss'
    BY <2>1, <2>2, Zenon DEF CInv, WakeOK, ExitsOnlyOnLoss, connected, Readable
  <2> QED BY <2>3, <2>5, <2>6, <2>7, <2>8, <2>9, Zenon DEF CInv
<1> QED BY <1>1, <1>2, Zenon

\* A step that only changes descriptor f, as the server, a request or the rest of
\* the application do: it neither makes, connects nor closes a socket, and what was
\* readable stays so.
LEMMA SocketStep ==
    ASSUME NEW c, Connectors = {c}, CInv(c),
           UNCHANGED <<proc, ipc_conn_fd, epoll, recv, conn>>,
           NEW f \in Fds, NEW s \in Sockets, sock' = [sock EXCEPT ![f] = s],
           sock[f].peer \in {"none", "file"} => s.peer \in {"none", "file"},
           sock[f].peer \notin {"none", "file"} =>
               /\ s.peer # sock[f].peer => sock[f].peer = "open" /\ s.peer = "lost"
               /\ sock[f].acked => s.acked
               /\ s.packets >= sock[f].packets
               /\ sock[f].early => s.early,
           s.requested => f = ipc_conn_fd,
           s.packets > 0 => s.requested \/ s.early
    PROVE  CInv(c)'
<1>1. /\ sock'[f] = s
      /\ \A g \in Fds : g # f => sock'[g] = sock[g]
  BY Zenon DEF CInv, TypeOK
<1>2. TypeOK' BY Zenon DEF CInv, TypeOK
<1>3. recv.pc # "failed" => \A g \in epoll :
        sock[g].acked /\ sock[g].peer \in {"open", "lost"}
  BY DEF CInv, EpollOK, ConnectorOK, ConnectedIsWatched, connected, TypeOK, Fds
<1>4. recv.pc # "failed" => \A g \in epoll :
        /\ Readable(g) => Readable(g)'
        /\ sock[g].peer = "lost" => sock'[g].peer = "lost"
        /\ sock[g].early => sock'[g].early
  <2> SUFFICES ASSUME recv.pc # "failed", NEW g \in epoll
               PROVE  /\ Readable(g) => Readable(g)'
                      /\ sock[g].peer = "lost" => sock'[g].peer = "lost"
                      /\ sock[g].early => sock'[g].early
    BY Zenon
  <2>1. g \in Fds /\ sock[g] \in Sockets BY Zenon DEF CInv, TypeOK
  <2>2. CASE g = f
    BY <1>1, <1>3, <2>1, <2>2 DEF Readable, Sockets
  <2>3. CASE g # f BY <1>1, <2>1, <2>3, Zenon DEF Readable
  <2> QED BY <2>2, <2>3, Zenon
<1>5. ConnectorOK(c)' /\ EpollOK(c)'
  <2>1. conn[c].fd # 0 => conn[c].fd \in Fds BY DEF CInv, TypeOK, Fds
  <2> QED BY <1>1, <2>1 DEF CInv, ConnectorOK, EpollOK
<1>6. TrafficOK' /\ NoDescriptorLeak'
  BY <1>1 DEF CInv, TrafficOK, NoDescriptorLeak
<1>7. ConnectedIsWatched'
  BY <1>1, <1>2, <1>3, Zenon DEF CInv, ConnectedIsWatched, connected, TypeOK
<1>8. recv.pc = "dispatch" /\ recv.fd # 0 => recv.fd \in epoll
  BY Zenon DEF CInv, WakeOK, ConnectedIsWatched, connected
<1>9. WakeOK(c)'
  BY <1>4, <1>8, Zenon DEF CInv, WakeOK, connected
<1>10. ExitsOnlyOnLoss' BY <1>4, Zenon DEF CInv, ExitsOnlyOnLoss
<1> QED BY <1>2, <1>5, <1>6, <1>7, <1>9, <1>10, Zenon DEF CInv

\* Requests, the rest of the application and the server.
LEMMA OutsideStep ==
    ASSUME NEW c, Connectors = {c}, CInv(c),
           \/ SendRequest
           \/ \E f \in Fds : AppOpens(f) \/ AppCloses(f)
           \/ ServerStep
    PROVE  CInv(c)'
<1> USE DEF Sockets
<1>0. \A f \in Fds : sock[f] \in Sockets BY Zenon DEF CInv, TypeOK
<1>1. CASE SendRequest
  <2> DEFINE s == [sock[ipc_conn_fd] EXCEPT !.requested = TRUE]
  <2>1. ipc_conn_fd \in Fds
    BY <1>1 DEF SendRequest, connected, CInv, TypeOK, Fds
  <2>2. sock' = [sock EXCEPT ![ipc_conn_fd] = s]
    BY <1>1, Zenon DEF SendRequest
  <2>3. /\ s \in Sockets /\ s.requested /\ s.peer = sock[ipc_conn_fd].peer
        /\ s.acked = sock[ipc_conn_fd].acked
        /\ s.packets = sock[ipc_conn_fd].packets
        /\ s.early = sock[ipc_conn_fd].early
    BY <1>0, <2>1, Zenon
  <2>5. sock[ipc_conn_fd].packets \in Int BY <1>0, <2>1, ConnectAssumption
  <2>6. UNCHANGED <<proc, ipc_conn_fd, epoll, recv, conn>>
    BY <1>1, Zenon DEF SendRequest
  <2>7. s.packets >= sock[ipc_conn_fd].packets BY <2>3, <2>5
  <2> HIDE DEF s
  <2> QED BY <2>1, <2>2, <2>3, <2>6, <2>7, SocketStep, Zenon
<1>2. ASSUME NEW f \in Fds, AppOpens(f) \/ AppCloses(f) PROVE CInv(c)'
  <2> DEFINE s == IF AppOpens(f) THEN [sock[f] EXCEPT !.peer = "file"] ELSE Unused
  <2>1. sock' = [sock EXCEPT ![f] = s]
    BY <1>2, Zenon DEF AppOpens, AppCloses
  <2>2. /\ s \in Sockets /\ s.peer \in {"none", "file"}
        /\ s.requested => sock[f].requested
        /\ s.packets > 0 => /\ s.packets = sock[f].packets
                            /\ s.requested = sock[f].requested /\ s.early = sock[f].early
    BY <1>0, ConnectAssumption DEF Unused
  <2>3. sock[f].peer \in {"none", "file"}
    BY <1>2, Zenon DEF AppOpens, AppCloses, LowestFree
  <2>4. /\ s.requested => f = ipc_conn_fd
        /\ s.packets > 0 => s.requested \/ s.early
    BY <2>2, Zenon DEF CInv, TrafficOK
  <2>5. UNCHANGED <<proc, ipc_conn_fd, epoll, recv, conn>>
    BY <1>2, Zenon DEF AppOpens, AppCloses
  <2> HIDE DEF s
  <2> QED BY <2>1, <2>2, <2>3, <2>4, <2>5, SocketStep, Zenon
<1>3. ASSUME NEW f \in Fds, ServerAccepts(f) \/ ServerSends(f) \/ ServerBreaks(f)
      PROVE  CInv(c)'
  <2>1. PICK s \in Sockets :
          /\ sock' = [sock EXCEPT ![f] = s]
          /\ sock[f].peer = "open" /\ s.peer \in {"open", "lost"}
          /\ sock[f].acked => s.acked
          /\ s.requested = sock[f].requested
          /\ s.packets >= sock[f].packets /\ (sock[f].early => s.early)
          /\ s.packets > 0 => sock[f].packets > 0 \/ s.requested \/ s.early
    <3>1. CASE ServerAccepts(f)
      <4> DEFINE s == [sock[f] EXCEPT !.acked = TRUE]
      <4>1. s \in Sockets BY <1>0, <3>1, ConnectAssumption DEF ServerAccepts
      <4>2. sock' = [sock EXCEPT ![f] = s] BY <3>1, Zenon DEF ServerAccepts
      <4>3. /\ sock[f].peer = "open" /\ s.peer \in {"open", "lost"}
            /\ sock[f].acked => s.acked
            /\ s.requested = sock[f].requested
            /\ s.packets >= sock[f].packets /\ (sock[f].early => s.early)
            /\ s.packets > 0 => sock[f].packets > 0 \/ s.requested \/ s.early
        BY <1>0, <3>1, ConnectAssumption DEF ServerAccepts
      <4> HIDE DEF s
      <4> QED BY <4>1, <4>2, <4>3, Zenon
    <3>2. CASE ServerSends(f)
      <4> DEFINE e == sock[f].early \/ ~sock[f].requested
                 s == [sock[f] EXCEPT !.packets = sock[f].packets + 1, !.early = e]
      <4>0. e \in BOOLEAN /\ (sock[f].early => e) /\ (e \/ sock[f].requested)
        BY <1>0, Zenon
      <4>1. sock' = [sock EXCEPT ![f] = s]
        BY <3>2, Zenon DEF ServerSends
      <4> HIDE DEF e
      <4>2. s \in Sockets
        <5>1. sock[f].packets + 1 \in 0..MaxPackets
          BY <1>0, <3>2, ConnectAssumption DEF ServerSends
        <5> QED BY <1>0, <4>0, <5>1, Zenon
      <4>3. /\ s.peer = sock[f].peer /\ s.requested = sock[f].requested
            /\ s.packets = sock[f].packets + 1 /\ s.early = e
            /\ s.acked = sock[f].acked
        BY <1>0, Zenon
      <4>4. sock[f].packets \in Int /\ sock[f].peer = "open"
        BY <1>0, <3>2, ConnectAssumption DEF ServerSends
      <4> HIDE DEF s
      <4>5. /\ sock[f].early => s.early
            /\ s.packets > 0 => sock[f].packets > 0 \/ s.requested \/ s.early
        BY Zenon, <4>0, <4>3
      <4>6. s.packets >= sock[f].packets BY <4>3, <4>4
      <4> QED BY <4>1, <4>2, <4>3, <4>4, <4>5, <4>6, Zenon
    <3>3. CASE ServerBreaks(f)
      <4> DEFINE s == [sock[f] EXCEPT !.peer = "lost"]
      <4>1. s \in Sockets BY <1>0, <3>3, ConnectAssumption, Zenon DEF ServerBreaks
      <4>2. sock' = [sock EXCEPT ![f] = s] BY <3>3, Zenon DEF ServerBreaks
      <4>3. /\ sock[f].peer = "open" /\ s.peer \in {"open", "lost"}
            /\ sock[f].acked => s.acked
            /\ s.requested = sock[f].requested
            /\ s.packets >= sock[f].packets /\ (sock[f].early => s.early)
            /\ s.packets > 0 => sock[f].packets > 0 \/ s.requested \/ s.early
        BY <1>0, <3>3, ConnectAssumption DEF ServerBreaks
      <4> HIDE DEF s
      <4> QED BY <4>1, <4>2, <4>3, Zenon
    <3> QED BY <1>3, <3>1, <3>2, <3>3, Zenon
  <2>2. /\ s.requested => f = ipc_conn_fd
        /\ s.packets > 0 => s.requested \/ s.early
    BY <2>1, Zenon DEF CInv, TrafficOK
  <2>3. UNCHANGED <<proc, ipc_conn_fd, epoll, recv, conn>>
    BY <1>3, Zenon DEF ServerAccepts, ServerSends, ServerBreaks
  <2> QED BY <2>1, <2>2, <2>3, SocketStep, Zenon
<1> QED BY <1>1, <1>2, <1>3, Zenon DEF ServerStep

\* The receive thread.
LEMMA RecvThreadStep ==
    ASSUME NEW c, Connectors = {c}, CInv(c), RecvStep, proc = "running"
    PROVE  CInv(c)'
<1>1. CASE EpollWait
  <2>0. UNCHANGED <<proc, ipc_conn_fd, epoll, conn, sock>>
    BY <1>1, Zenon DEF EpollWait
  <2>1. /\ \E f \in epoll : Readable(f)
        /\ recv' = [pc |-> "ready", fd |-> 0, events |-> 1]
    BY <1>1, OneEvent, Zenon DEF EpollWait
  <2>2. recv.pc = "epoll_wait" BY <1>1, Zenon DEF EpollWait
  <2>3. TypeOK'
    BY <2>0, <2>1, ConnectAssumption DEF CInv, TypeOK, RecvPcs
  <2>4. ConnectorOK(c)' /\ EpollOK(c)' /\ TrafficOK' /\ NoDescriptorLeak'
    BY <2>0, Zenon DEF CInv, ConnectorOK, EpollOK, TrafficOK, NoDescriptorLeak
  <2>5. connected \/ conn[c].pc = "publishing"
    BY <2>1 DEF CInv, EpollOK, TypeOK, Fds, connected
  <2>6. recv'.pc = "ready" /\ recv'.events = 1 BY <2>1
  <2>7. WakeOK(c)' /\ ExitsOnlyOnLoss' /\ ConnectedIsWatched'
    BY <2>0, <2>1, <2>2, <2>5, <2>6, Zenon
       DEF CInv, WakeOK, ExitsOnlyOnLoss, ConnectedIsWatched, connected, Readable
  <2> QED BY <2>3, <2>4, <2>7, Zenon DEF CInv
<1>2. CASE data_ready_callback
  <2>0. /\ recv.pc = "ready"
        /\ recv' = [recv EXCEPT !.pc = "dispatch", !.fd = ipc_conn_fd]
        /\ UNCHANGED <<proc, ipc_conn_fd, epoll, conn, sock>>
    BY <1>2, Zenon DEF data_ready_callback
  <2>1. recv'.pc = "dispatch" /\ recv'.fd = ipc_conn_fd /\ recv'.events = recv.events
    BY <2>0, Zenon DEF CInv, TypeOK
  <2>2. TypeOK' BY <2>0, Zenon DEF CInv, TypeOK, RecvPcs
  <2>3. ConnectorOK(c)' /\ EpollOK(c)' /\ TrafficOK' /\ NoDescriptorLeak'
    BY <2>0, Zenon DEF CInv, ConnectorOK, EpollOK, TrafficOK, NoDescriptorLeak
  <2>4. ConnectedIsWatched' /\ ExitsOnlyOnLoss'
    BY <2>0, <2>1, Zenon DEF CInv, ConnectedIsWatched, ExitsOnlyOnLoss, connected
  <2>5. PICK f \in epoll : Readable(f) BY <2>0, Zenon DEF CInv, WakeOK
  <2>6. f \in Fds /\ f # 0 /\ sock[f] \in Sockets BY DEF CInv, TypeOK, Fds
  <2>7. ipc_conn_fd # 0 => Readable(ipc_conn_fd)
    BY <2>5, <2>6, Zenon DEF CInv, EpollOK, ConnectorOK
  <2>8. ipc_conn_fd = 0 => sock[f].early \/ sock[f].peer = "lost"
    BY <2>5, <2>6, Zenon DEF CInv, TrafficOK, Readable
  <2>9. WakeOK(c)'
    BY <2>0, <2>1, <2>7, <2>8, Zenon DEF CInv, WakeOK, connected, Readable
  <2> QED BY <2>2, <2>3, <2>4, <2>9, Zenon DEF CInv
<1>3. CASE dispatch_incoming_packet
  <2>0. recv.pc = "dispatch" /\ UNCHANGED <<proc, ipc_conn_fd, epoll, conn>>
    BY <1>3, Zenon DEF dispatch_incoming_packet
  <2>1. recv.fd # 0 => /\ recv.fd = ipc_conn_fd /\ recv.fd \in Fds
                       /\ recv.fd \in epoll
                       /\ sock[recv.fd] \in Sockets
    BY <2>0, Zenon DEF CInv, WakeOK, ConnectedIsWatched, connected, TypeOK, Fds
  <2>2. CASE recv.fd # 0 /\ sock[recv.fd].packets > 0
    <3> DEFINE h == recv.fd
               s == [sock[h] EXCEPT !.packets = @ - 1]
    <3>1. /\ sock' = [sock EXCEPT ![h] = s]
          /\ recv' = [pc |-> "epoll_wait", events |-> 0, fd |-> 0]
      BY <1>3, <2>0, <2>2 DEF dispatch_incoming_packet, CInv, WakeOK, TypeOK
    <3>2. /\ s \in Sockets /\ s.peer = sock[h].peer /\ s.acked = sock[h].acked
          /\ s.requested = sock[h].requested /\ s.early = sock[h].early /\ s.packets >= 0
          /\ s.packets > 0 => sock[h].packets > 0
      BY <2>1, <2>2, ConnectAssumption DEF Sockets
    <3> HIDE DEF s
    <3>3. /\ sock'[h] = s
          /\ \A g \in Fds : g # h => sock'[g] = sock[g]
      BY <2>1, <2>2, <3>1, Zenon DEF CInv, TypeOK
    <3>4. recv.events = 1 /\ 0 \in 0..MaxFd
      BY <2>0, ConnectAssumption DEF CInv, WakeOK
    <3>5. TypeOK'
      BY <2>0, <2>1, <2>2, <3>1, <3>2, <3>4, Zenon DEF CInv, TypeOK, RecvPcs
    <3>6. ConnectorOK(c)' /\ EpollOK(c)'
      BY <2>0, <2>1, <2>2, <3>2, <3>3, Zenon DEF CInv, ConnectorOK, EpollOK, TypeOK, Fds
    <3>7. TrafficOK' /\ NoDescriptorLeak'
      BY <2>0, <3>2, <3>3 DEF CInv, TrafficOK, NoDescriptorLeak
    <3>8. ConnectedIsWatched'
      BY <2>0, <2>1, <2>2, <3>2, <3>3, Zenon DEF CInv, ConnectedIsWatched, connected
    <3>9. WakeOK(c)' /\ ExitsOnlyOnLoss'
      BY <2>0, <3>1, Zenon DEF CInv, WakeOK, ExitsOnlyOnLoss
    <3> QED BY <3>5, <3>6, <3>7, <3>8, <3>9, Zenon DEF CInv
  <2>3. CASE ~(recv.fd # 0 /\ sock[recv.fd].packets > 0)
    <3>1. recv' = [recv EXCEPT !.pc = "closing"] /\ sock' = sock
      BY <1>3, <2>3, Zenon DEF dispatch_incoming_packet
    <3>2. recv'.pc = "closing" /\ recv'.fd = recv.fd /\ recv'.events = recv.events
      BY <3>1, Zenon DEF CInv, TypeOK
    <3>3. TypeOK' BY <2>0, <3>1, Zenon DEF CInv, TypeOK, RecvPcs
    <3>4. ConnectorOK(c)' /\ EpollOK(c)' /\ TrafficOK' /\ NoDescriptorLeak'
      BY <2>0, <3>1, Zenon DEF CInv, ConnectorOK, EpollOK, TrafficOK, NoDescriptorLeak
    <3>5. WakeOK(c)' /\ ConnectedIsWatched'
      BY <2>0, <3>1, <3>2, Zenon DEF CInv, WakeOK, ConnectedIsWatched, connected
    <3>6. recv.fd # 0 => sock[recv.fd].peer = "lost"
      BY <2>0, <2>1, <2>3, Zenon DEF CInv, WakeOK, Readable
    <3>7. ExitsOnlyOnLoss'
      BY <2>0, <2>1, <3>1, <3>2, <3>6, Zenon DEF CInv, WakeOK, ExitsOnlyOnLoss
    <3> QED BY <3>3, <3>4, <3>5, <3>7, Zenon DEF CInv
  <2> QED BY <2>2, <2>3, Zenon
<1>4. CASE CloseConnection
  <2>0. /\ recv.pc = "closing" /\ recv' = [recv EXCEPT !.pc = "failed"]
        /\ sock' = [f \in Fds |-> IF f = ipc_conn_fd THEN Unused ELSE sock[f]]
        /\ epoll' = epoll \ {ipc_conn_fd}
        /\ UNCHANGED <<proc, ipc_conn_fd, conn>>
    BY <1>4, Zenon DEF CloseConnection
  <2>1. recv'.pc = "failed" /\ recv'.events = recv.events
    BY <2>0, Zenon DEF CInv, TypeOK
  <2>2. TypeOK'
    <3>1. Unused \in Sockets BY ConnectAssumption DEF Unused, Sockets
    <3>2. sock' \in [Fds -> Sockets] BY <2>0, <3>1, Zenon DEF CInv, TypeOK
    <3> QED BY <2>0, <3>2, Zenon DEF CInv, TypeOK, RecvPcs
  <2>3. \A f \in Fds : sock'[f] = IF f = ipc_conn_fd THEN Unused ELSE sock[f]
    BY <2>0, Zenon
  <2>4. conn[c].fd # 0 => conn[c].fd \in Fds /\ ipc_conn_fd = 0
    BY DEF CInv, ConnectorOK, TypeOK, Fds
  <2>5. ConnectorOK(c)' BY <2>0, <2>3, <2>4, Zenon DEF CInv, ConnectorOK
  <2>6. EpollOK(c)' BY <2>0, <2>4, Zenon DEF CInv, EpollOK, ConnectorOK
  <2>7. TrafficOK' /\ NoDescriptorLeak'
    BY <2>0, <2>3 DEF CInv, TrafficOK, NoDescriptorLeak, Unused
  <2>8. WakeOK(c)' /\ ConnectedIsWatched' /\ ExitsOnlyOnLoss'
    BY <2>0, <2>1, Zenon DEF CInv, WakeOK, ConnectedIsWatched, ExitsOnlyOnLoss
  <2> QED BY <2>2, <2>5, <2>6, <2>7, <2>8, Zenon DEF CInv
<1>5. CASE Exit
  <2>1. TypeOK' BY <1>5, Zenon DEF Exit, CInv, TypeOK
  <2>2. ConnectorOK(c)' /\ EpollOK(c)' /\ TrafficOK' /\ NoDescriptorLeak'
    BY <1>5, Zenon DEF Exit, CInv, ConnectorOK, EpollOK, TrafficOK, NoDescriptorLeak
  <2>3. WakeOK(c)' /\ ConnectedIsWatched' /\ ExitsOnlyOnLoss'
    BY <1>5, Zenon DEF Exit, CInv, WakeOK, ConnectedIsWatched, ExitsOnlyOnLoss, connected
  <2> QED BY <2>1, <2>2, <2>3, Zenon DEF CInv
<1>6. CASE EpollWaitFails
  <2>0. /\ recv.pc = "epoll_wait" /\ recv' = [recv EXCEPT !.pc = "failed"]
        /\ UNCHANGED <<proc, ipc_conn_fd, epoll, conn, sock>>
    BY <1>6, Zenon DEF EpollWaitFails
  <2>1. recv'.pc = "failed" BY <2>0, Zenon DEF CInv, TypeOK
  <2>2. TypeOK' BY <2>0, Zenon DEF CInv, TypeOK, RecvPcs
  <2>3. ConnectorOK(c)' /\ EpollOK(c)' /\ TrafficOK' /\ NoDescriptorLeak'
    BY <2>0, Zenon DEF CInv, ConnectorOK, EpollOK, TrafficOK, NoDescriptorLeak
  <2>4. WakeOK(c)' /\ ConnectedIsWatched' /\ ExitsOnlyOnLoss'
    BY <2>0, <2>1, Zenon DEF CInv, WakeOK, ConnectedIsWatched, ExitsOnlyOnLoss
  <2> QED BY <2>2, <2>3, <2>4, Zenon DEF CInv
<1> QED
  BY <1>1, <1>2, <1>3, <1>4, <1>5, <1>6, Zenon DEF RecvStep, RecvProgress

\* Every step preserves the invariant.
LEMMA CInvStep ==
    ASSUME NEW c, Connectors = {c}, CInv(c), [Next]_vars
    PROVE  CInv(c)'
<1>1. CASE gg_sdk_init BY <1>1, SdkInitStep, Zenon
<1>2. CASE Running
  <2>1. CASE ConnectStep(c)
    BY <2>1, HandshakeStep, PublishStep, Zenon DEF ConnectStep
  <2>2. CASE RecvStep BY <1>2, <2>2, RecvThreadStep, Zenon DEF Running
  <2>3. CASE \/ SendRequest
             \/ \E f \in Fds : AppOpens(f) \/ AppCloses(f)
             \/ ServerStep
    BY <2>3, OutsideStep, Zenon
  <2> QED BY <1>2, <2>1, <2>2, <2>3, Zenon DEF Running
<1>3. CASE UNCHANGED vars
  <2> USE <1>3 DEF vars, CInv
  <2>1. TypeOK' BY Zenon DEF TypeOK
  <2>2. ConnectorOK(c)' /\ EpollOK(c)' /\ TrafficOK' /\ NoDescriptorLeak'
    BY Zenon DEF ConnectorOK, EpollOK, TrafficOK, NoDescriptorLeak
  <2>3. WakeOK(c)' /\ ConnectedIsWatched' /\ ExitsOnlyOnLoss'
    BY DEF WakeOK, ConnectedIsWatched, ExitsOnlyOnLoss, connected, Readable
  <2> QED BY <2>1, <2>2, <2>3, Zenon
<1> QED BY <1>1, <1>2, <1>3, Zenon DEF Next

\* The inductive invariant holds in every state.
THEOREM ConnectInvariant ==
    ASSUME NEW c, Connectors = {c}
    PROVE  Spec => []CInv(c)
<1>1. Init => CInv(c) BY CInvInit, Zenon
<1>2. CInv(c) /\ [Next]_vars => CInv(c)' BY CInvStep, Zenon
<1> QED BY <1>1, <1>2, PTL DEF Spec

\* The comment at client.c:44, when one thread connects: ipc_recv_mem is used by
\* the connecting thread and by the receive thread at different times.
THEOREM ReceiveBufferExclusive ==
    ASSUME NEW c, Connectors = {c}
    PROVE  Spec => []RecvMemExclusive
<1>1. CInv(c) => RecvMemExclusive
  BY Zenon DEF CInv, WakeOK, ConnectorOK, connected, RecvMemExclusive
<1> QED BY <1>1, ConnectInvariant, PTL

\* The receive thread gives up only a lost connection, whatever the server does
\* apart from sending packets before the first request.
THEOREM GivesUpOnlyOnLoss ==
    ASSUME NEW c, Connectors = {c}
    PROVE  Spec => []ExitsOnlyOnLoss
<1>1. CInv(c) => ExitsOnlyOnLoss BY Zenon DEF CInv
<1> QED BY <1>1, ConnectInvariant, PTL

\* The connect and receive paths close only descriptors that are still theirs: a
\* file of the application stays open until the application closes it, also when it
\* has the number that ipc_conn_fd still holds.
THEOREM ClosesOwnDescriptors ==
    ASSUME NEW c, Connectors = {c}
    PROVE  Spec => NoForeignClose
<1> DEFINE A == \A f \in Fds :
                  sock[f].peer = "file" /\ sock'[f].peer # "file" => AppCloses(f)
<1>1. ASSUME CInv(c), Next, NEW f \in Fds, sock[f].peer = "file", sock'[f].peer # "file"
      PROVE  AppCloses(f)
  <2>0. /\ conn[c].fd # f
        /\ connected /\ recv.pc # "failed" => f # ipc_conn_fd
        /\ f # 0
    BY <1>1 DEF CInv, ConnectorOK, ConnectedIsWatched, Fds, TypeOK, ConnPcs
  <2>1. ~gg_sdk_init BY <1>1, Zenon DEF gg_sdk_init
  <2>2. ~ConnectFails(c) BY <1>1, <2>0, Zenon DEF ConnectFails
  <2>3. ~CreateSocket(c)
    BY <1>1, <2>2, Zenon DEF CreateSocket, LowestFree, CInv, TypeOK
  <2>4. ~gg_connect(c)
    BY <1>1, <2>0, <2>2, Zenon DEF gg_connect, CInv, TypeOK
  <2>5. ~ConnectStep(c)
    BY <1>1, <2>2, <2>3, <2>4, Zenon
       DEF ConnectStep, BeginConnect, SendConnect, ReadAck, register_ipc_socket, Publish
  <2>6. ~SendRequest
    <3>1. connected => sock[ipc_conn_fd] \in Sockets /\ sock[f] \in Sockets
      BY <1>1 DEF CInv, TypeOK, Fds, connected
    <3> QED BY <1>1, <3>1 DEF SendRequest, CInv, TypeOK, Sockets
  <2>7. ~RecvStep
    BY <1>1, <2>0 DEF RecvStep, RecvProgress, EpollWait, EpollWaitFails,
                      data_ready_callback, CloseConnection,
                      dispatch_incoming_packet, Exit, CInv, WakeOK, TypeOK,
                      connected
  <2>8. ~ServerStep
    BY <1>1, Zenon DEF ServerStep, ServerAccepts, ServerSends, ServerBreaks, CInv, TypeOK
  <2>9. \A g \in Fds : ~AppOpens(g)
    BY <1>1, Zenon DEF AppOpens, LowestFree, CInv, TypeOK
  <2>10. PICK g \in Fds : AppCloses(g)
    BY <1>1, <2>1, <2>5, <2>6, <2>7, <2>8, <2>9, Zenon DEF Next, Running
  <2>11. g = f BY <1>1, <2>10, Zenon DEF AppCloses, CInv, TypeOK
  <2> QED BY <2>10, <2>11, Zenon
<1>2. CInv(c) /\ [Next]_vars => [A]_vars BY <1>1, Zenon
<1>3. Spec => [][A]_vars BY <1>2, ConnectInvariant, PTL DEF Spec
<1> QED BY <1>3, Zenon DEF NoForeignClose

\* A file of the application that got the number in ipc_conn_fd is written to only
\* between the failure of the receive thread and the end of the process.
LEMMA WritesOwnDescriptors ==
    ASSUME NEW c, CInv(c)
    PROVE  ForeignWriteOnlyWhileExiting
<1> SUFFICES ASSUME NEW f \in Fds, sock[f].peer = "file", sock[f].requested,
                    recv.pc # "failed"
             PROVE  FALSE
    BY Zenon DEF ForeignWriteOnlyWhileExiting
<1>1. f = ipc_conn_fd /\ connected
  BY DEF CInv, TrafficOK, connected, Fds
<1> QED BY <1>1 DEF CInv, ConnectedIsWatched

\* No error path of ggipc_connect_with_payload leaks its socket; while the receive
\* thread runs ipc_conn_fd names an accepted socket that it watches; and afterwards
\* only a process about to end writes to what has the number then.
THEOREM DescriptorsOwned ==
    ASSUME NEW c, Connectors = {c}
    PROVE  Spec => [](TypeOK /\ DescriptorsSound)
<1>1. CInv(c) => TypeOK /\ DescriptorsSound
  BY WritesOwnDescriptors, Zenon DEF CInv, DescriptorsSound
<1> QED BY <1>1, ConnectInvariant, PTL
=============================================================================
