---------------------------- MODULE PacketStream ----------------------------
(***************************************************************************)
(* One direction of an IPC connection at the level of the bytes on the       *)
(* socket.  Threads send packets with ipc_send_packet: encode, then the loop *)
(* of gg_file_write around single writes that may be partial, time out       *)
(* (SO_SNDTIMEO) or find the peer gone.  The receiving end runs              *)
(* eventsteam_get_packet: read the prelude, then the data, with the loop of  *)
(* gg_file_read around single reads; any error closes the connection.  The   *)
(* sending process may exit at any point.  Both ends of a connection run     *)
(* this code: the receive thread here, and the server of src/mock/mock.c.    *)
(* A single read or write interrupted by a signal is tried again and is a    *)
(* stuttering step.                                                          *)
(***************************************************************************)
EXTENDS EventStream, FiniteSets

CONSTANTS
    Threads,        \* threads that send
    None,           \* no thread
    Messages,       \* what is sent: records [headers, payload]
    SendMem,        \* size of ipc_send_mem
    RecvMem,        \* size of ipc_recv_mem
    Pipe,           \* what the socket buffers
    MaxPackets      \* bound: calls of ipc_send_packet

VARIABLES
    mtx,        \* holder of stream_state_mtx
    rest,       \* rest[t]: cells thread t has still to write
    msg,        \* msg[t]: the message they belong to, and how many cells it has
    pipe,       \* cells in the socket
    calls,      \* calls of ipc_send_packet so far
    gone,       \* the sending process has exited
    rd,         \* the receiving end: where eventsteam_get_packet stands
    delivered,  \* messages eventsteam_get_packet returned
    started,    \* history: messages with a cell in the socket, in order
    whole,      \* history: how many writes returned GG_ERR_OK
    cut         \* history: a write gave up in the middle of a packet

senderVars == <<mtx, rest, msg, calls, started, whole, cut>>
vars == <<mtx, rest, msg, pipe, calls, gone, rd, delivered, started, whole, cut>>

\* The receiving end at rest, and after an error.
Idle == [phase |-> "idle", got |-> <<>>, prelude |-> [ret |-> "OK"], err |-> "OK"]
Closed(err) == [Idle EXCEPT !.phase = "closed", !.err = err]

Init ==
    /\ mtx = None
    /\ rest = [t \in Threads |-> <<>>]
    /\ msg = [t \in Threads |-> [m |-> CHOOSE m \in Messages : TRUE, len |-> 0]]
    /\ pipe = <<>>
    /\ calls = 0
    /\ gone = FALSE
    /\ rd = Idle
    /\ delivered = <<>>
    /\ started = <<>>
    /\ whole = 0
    /\ cut = FALSE

-----------------------------------------------------------------------------
(* Sending.                                                                  *)

Encoded(m) == eventstream_encode(SendMem, m.headers, m.payload)

\* ipc_send_packet up to the first write; nothing is written when the packet does
\* not fit ipc_send_mem.
ipc_send_packet(t, m) ==
    /\ ~gone /\ calls < MaxPackets
    /\ mtx = None
    /\ calls' = calls + 1
    /\ IF Encoded(m).ret = "OK"
       THEN /\ mtx' = t
            /\ rest' = [rest EXCEPT ![t] = Encoded(m).cells]
            /\ msg' = [msg EXCEPT ![t] = [m |-> m, len |-> Len(Encoded(m).cells)]]
       ELSE UNCHANGED <<mtx, rest, msg>>
    /\ UNCHANGED <<pipe, gone, rd, delivered, started, whole, cut>>

Untouched(t) == Len(rest[t]) = msg[t].len

\* One write that takes n cells; gg_file_write returns when none is left.
gg_file_write_partial(t, n) ==
    /\ ~gone /\ rd.phase # "closed"
    /\ n <= Len(rest[t]) /\ Len(pipe) + n <= Pipe
    /\ pipe' = pipe \o SubSeq(rest[t], 1, n)
    /\ rest' = [rest EXCEPT ![t] = SubSeq(@, n + 1, Len(@))]
    /\ started' = IF Untouched(t) THEN Append(started, msg[t].m) ELSE started
    /\ IF n = Len(rest[t])
       THEN mtx' = None /\ whole' = whole + 1
       ELSE UNCHANGED <<mtx, whole>>
    /\ UNCHANGED <<msg, calls, gone, rd, delivered, cut>>

\* The write times out on a full socket, or the peer has closed it: gg_file_write
\* returns an error whatever part of the packet is written already, and the
\* connection stays in use.
WriteFails(t) ==
    /\ ~gone /\ rest[t] # <<>>
    /\ Len(pipe) = Pipe \/ rd.phase = "closed"
    /\ rest' = [rest EXCEPT ![t] = <<>>]
    /\ mtx' = None
    /\ cut' = (cut \/ ~Untouched(t))
    /\ UNCHANGED <<msg, pipe, calls, gone, rd, delivered, started, whole>>

\* The process that sends exits or is killed.
SenderExits ==
    /\ ~gone
    /\ gone' = TRUE
    /\ UNCHANGED <<senderVars, pipe, rd, delivered>>

-----------------------------------------------------------------------------
(* Receiving.                                                                *)

\* How many cells the read loop asks for in all.
Wanted == IF rd.phase = "prelude" THEN PRELUDE ELSE rd.prelude.data_len
Reading == rd.phase \in {"prelude", "data"}

\* epoll reports the socket: eventsteam_get_packet begins.
data_ready_callback ==
    /\ rd.phase = "idle"
    /\ pipe # <<>> \/ gone
    /\ rd' = [Idle EXCEPT !.phase = "prelude"]
    /\ UNCHANGED <<senderVars, pipe, gone, delivered>>

\* One read that returns n cells.
gg_file_read_partial(n) ==
    /\ Reading
    /\ n <= Len(pipe) /\ Len(rd.got) + n <= Wanted
    /\ rd' = [rd EXCEPT !.got = @ \o SubSeq(pipe, 1, n)]
    /\ pipe' = SubSeq(pipe, n + 1, Len(pipe))
    /\ UNCHANGED <<senderVars, gone, delivered>>

\* The read times out (SO_RCVTIMEO), or ends short because the sender is gone.
ReadFails ==
    /\ Reading
    /\ pipe = <<>> /\ Len(rd.got) < Wanted
    /\ rd' = Closed(IF gone THEN "EOF" ELSE "TIMEOUT")
    /\ UNCHANGED <<senderVars, pipe, gone, delivered>>

\* The prelude is complete.
PreludeRead ==
    /\ rd.phase = "prelude" /\ Len(rd.got) = PRELUDE
    /\ LET prelude == eventstream_decode_prelude(rd.got)
       IN  rd' = IF prelude.ret # "OK" THEN Closed(prelude.ret)
                 ELSE IF prelude.data_len > RecvMem THEN Closed("NOMEM")
                 ELSE [rd EXCEPT !.phase = "data", !.got = <<>>, !.prelude = prelude]
    /\ UNCHANGED <<senderVars, pipe, gone, delivered>>

\* What dispatch_incoming_packet makes of the data section: an error of the
\* packet or of its common headers, or "OK" and the message.
Dispatched(data) ==
    LET m == eventstream_decode(rd.prelude, data)
        common == eventstream_get_common_headers(m.headers)
    IN  IF m.ret # "OK" THEN [ret |-> m.ret]
        ELSE IF common.ret # "OK" THEN [ret |-> common.ret]
        ELSE IF common.stream_id < 0 THEN [ret |-> "FAILURE"]
        ELSE [ret |-> "OK", message |-> [headers |-> m.headers, payload |-> m.payload]]

\* Mutant: the reader takes what else is in the socket along with the packet.
DataRead_OverReads ==
    /\ rd.phase = "data" /\ Len(rd.got) = rd.prelude.data_len
    /\ LET d == Dispatched(rd.got)
       IN  /\ rd' = IF d.ret = "OK" THEN Idle ELSE Closed(d.ret)
           /\ delivered' = IF d.ret = "OK" THEN Append(delivered, d.message) ELSE delivered
    /\ pipe' = <<>>
    /\ UNCHANGED <<senderVars, gone>>

\* The data section is complete: the packet is decoded and dispatched, or the
\* connection is given up.
DataRead ==
    /\ rd.phase = "data" /\ Len(rd.got) = rd.prelude.data_len
    /\ LET d == Dispatched(rd.got)
       IN  /\ rd' = IF d.ret = "OK" THEN Idle ELSE Closed(d.ret)
           /\ delivered' = IF d.ret = "OK" THEN Append(delivered, d.message) ELSE delivered
    /\ UNCHANGED <<senderVars, pipe, gone>>

-----------------------------------------------------------------------------
Sending(t) ==
    \/ \E m \in Messages : ipc_send_packet(t, m)
    \/ \E n \in 1..Pipe : gg_file_write_partial(t, n)
    \/ WriteFails(t)

Receiving ==
    \/ data_ready_callback
    \/ \E n \in 1..Pipe : gg_file_read_partial(n)
    \/ ReadFails
    \/ PreludeRead
    \/ DataRead

Next == (\E t \in Threads : Sending(t)) \/ SenderExits \/ Receiving

Spec == Init /\ [][Next]_vars

\* A thread in gg_file_write goes on writing, and the receiving end goes on.
Fairness ==
    /\ WF_vars(Receiving)
    /\ \A t \in Threads : WF_vars((\E n \in 1..Pipe : gg_file_write_partial(t, n)) \/ WriteFails(t))

FairSpec == Spec /\ Fairness

-----------------------------------------------------------------------------
(* Properties.                                                               *)

\* A packet that arrives damaged is always one that a failed write cut off: as
\* long as no write gave up in the middle of a packet, the receiving end never
\* sees a CRC or length error, however the threads' partial writes and the partial
\* reads interleave.
DamageMeansCutWrite == rd.err = "PARSE" => cut

Channel == INSTANCE PacketChannel WITH
    Message <- Messages, sent <- started, open <- (rd.phase # "closed")

\* The byte stream implements the packet channel: whatever the partial writes,
\* cut-off packets and exits, what eventsteam_get_packet returns is what was sent,
\* whole, once and in order.
ImplementsChannel == Channel!Spec

\* A message the receiver refuses (it does not fit, or its common headers are
\* wrong), or a fault of one end.
Faulty == cut \/ gone \/ rd.err \in {"TIMEOUT", "NOMEM", "INVALID", "FAILURE"}

\* A packet whose write returned GG_ERR_OK is delivered, unless one end fails.
WrittenPacketsArrive ==
    \A n \in 1..MaxPackets : (whole >= n) ~> (Len(delivered) >= n \/ Faulty)

=============================================================================
