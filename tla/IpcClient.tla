------------------------------ MODULE IpcClient ------------------------------
(***************************************************************************)
(* The request/response and subscription engine of the GG-IPC client,      *)
(* src/src/ipc/client.c, together with the base64 buffer lock that the     *)
(* binary publish operations hold around it (src/src/ipc/client/).         *)
(*                                                                         *)
(* Application threads (Callers) run ggipc_call / ggipc_subscribe; one      *)
(* receive thread reads packets and runs the user's callbacks.  All shared  *)
(* tables are protected by the recursive stream_state_mtx.  A caller's      *)
(* critical sections contain no wait other than pthread_cond_timedwait,     *)
(* which releases the mutex, so each is one action; the receive thread      *)
(* keeps the mutex while user code runs, so a callback is a state of its    *)
(* own and MtxFree says when anyone else may enter.                         *)
(***************************************************************************)
EXTENDS Integers, Sequences

CONSTANTS
    Callers,            \* application threads that issue calls
    Publishers,         \* those that also use base64 publish operations
    None,               \* the null pointer / no owner
    MaxStreams,         \* GG_IPC_MAX_STREAMS
    GenMod,             \* generations are uint16_t: 2^16 in the code
    MaxStreamId,        \* bound: stream ids handed out in a behaviour
    MaxInFlight,        \* bound: packets queued from the server to the client
    SendsFail,          \* may ipc_send_packet fail?
    EarlyClose,         \* may the handle be used before ggipc_subscribe returns?
    CallbackPublishes   \* may callbacks start a base64 publish operation?

ASSUME ConstantsAssumption ==
    /\ None \notin Callers
    /\ None \notin Int
    /\ Callers \cap Int = {}
    /\ Publishers \subseteq Callers
    /\ MaxStreams \in Nat \ {0}
    /\ GenMod \in Nat \ {0, 1, 2}
    /\ MaxStreamId \in Nat \ {0}
    /\ MaxInFlight \in Nat \ {0}
    /\ SendsFail \in BOOLEAN
    /\ EarlyClose \in BOOLEAN
    /\ CallbackPublishes \in BOOLEAN

Slots == 1..MaxStreams
StreamIds == 1..MaxStreamId
Gens == 0..(GenMod - 1)

\* A packet: its stream and the TERMINATE_STREAM flag.  What its message type
\* and payload are is decided when it is dispatched.
Packets == [id : 0..MaxStreamId, term : BOOLEAN]
NoPacket == [id |-> 0, term |-> FALSE]

\* StreamHandler: fn is NULL while a call waits for its response, and ctx then
\* points to that call's ResponseHandlerCtx on the caller's stack.
NoHandler == [fn |-> "NULL", ctx |-> None]
ResponseHandler(c) == [fn |-> "NULL", ctx |-> c]
SubHandler(s) == [fn |-> "sub_callback", ctx |-> s]
Handlers == [fn : {"NULL"}, ctx : Callers \cup {None}]
              \cup [fn : {"sub_callback"}, ctx : StreamIds]

NoHandle == [index |-> 0, gen |-> 0]
Handles == [index : 0..MaxStreams, gen : Gens]

VARIABLES
    stream_state_id,            \* slot -> stream id, 0 when free
    stream_state_generation,    \* slot -> generation
    stream_state_handler,       \* slot -> StreamHandler
    next_stream_id,
    call,       \* caller -> its ggipc_subscribe frame; id and ret of the last
                \* call are kept when it has returned
    recv,       \* the receive thread
    b64_mtx,    \* owner of gg_ipc_b64_encode_mtx
    inbox,      \* socket: packets from the server not read yet
    srv,        \* the server's view of each stream
    handle,     \* stream id -> the handle stored in *sub_handle
    undelivered,\* history: streams whose TERMINATE packet could not be sent
    closed      \* history: streams whose handle was given to close_subscription

table == <<stream_state_id, stream_state_generation, stream_state_handler>>
server == <<inbox, srv, undelivered>>
vars == <<table, next_stream_id, call, recv, b64_mtx, server, handle,
          closed>>

CallPcs == {"idle", "encoded", "waiting", "woken", "timedout"}
RetCodes == {"OK", "TIMEOUT", "NOMEM", "ERR"}
Frames == [pc : CallPcs, index : 0..MaxStreams, id : 0..MaxStreamId,
           sub : BOOLEAN, ready : BOOLEAN, ret : RetCodes]
Returned(id, r) == [pc |-> "idle", index |-> 0, id |-> id, sub |-> FALSE,
                    ready |-> FALSE, ret |-> r]
NoFrame == Returned(0, "OK")

RecvPcs == {"poll", "read", "result_cb", "error_cb", "sub_cb", "exited"}
Receivers == [pc : RecvPcs, msg : Packets, index : 0..MaxStreams,
              ctx : Callers \cup StreamIds \cup {None}, blocked : BOOLEAN]
Polling == [pc |-> "poll", msg |-> NoPacket, index |-> 0, ctx |-> None,
            blocked |-> FALSE]

Init ==
    /\ stream_state_id = [i \in Slots |-> 0]
    /\ stream_state_generation = [i \in Slots |-> 0]
    /\ stream_state_handler = [i \in Slots |-> NoHandler]
    /\ next_stream_id = 1
    /\ call = [c \in Callers |-> NoFrame]
    /\ recv = Polling
    /\ b64_mtx = None
    /\ inbox = <<>>
    /\ srv = [s \in StreamIds |-> "unused"]
    /\ handle = [s \in StreamIds |-> NoHandle]
    /\ undelivered = {}
    /\ closed = {}

-----------------------------------------------------------------------------
(* The stream table. *)

InCallback == recv.pc \in {"result_cb", "error_cb", "sub_cb"}

\* Mutant: the mutex is dropped while user callbacks run.
MtxFree_DuringCallbacks == recv.pc # "exited"

\* stream_state_mtx can be taken by a thread other than the receive thread.
MtxFree == recv.pc \in {"poll", "read"}

\* A frame of ggipc_subscribe that other threads may hold a pointer to.
InCall(c) == call[c].pc \in {"waiting", "woken", "timedout"}

NextGen(g) == (g + 1) % GenMod

validate_handle(h) ==
    /\ h.index \in Slots
    /\ stream_state_generation[h.index] = h.gen

get_current_handle(i) ==
    [index |-> i, gen |-> stream_state_generation[i]]

get_stream_index_from_id(id, i) ==
    /\ id > 0
    /\ stream_state_id[i] = id
    /\ \A j \in Slots : j < i => stream_state_id[j] # id

FirstFree(i) ==
    /\ stream_state_id[i] = 0
    /\ \A j \in Slots : j < i => stream_state_id[j] # 0

set_stream_index(i, id, h) ==
    /\ stream_state_id' = [stream_state_id EXCEPT ![i] = id]
    /\ stream_state_handler' = [stream_state_handler EXCEPT ![i] = h]

\* Mutant: the generation is not advanced.
clear_stream_index_SameGeneration(i) ==
    /\ stream_state_generation' = stream_state_generation
    /\ set_stream_index(i, 0, NoHandler)

clear_stream_index(i) ==
    /\ stream_state_generation' =
           [stream_state_generation EXCEPT ![i] = NextGen(@)]
    /\ set_stream_index(i, 0, NoHandler)

\* ipc_send_packet of a TERMINATE_STREAM packet; its error is ignored.
SendTerminate(id) ==
    /\ inbox' = inbox
    /\ \/ /\ srv' = [s \in StreamIds |-> IF s = id THEN "closed" ELSE srv[s]]
          /\ undelivered' = undelivered
       \/ /\ SendsFail
          /\ srv' = srv
          /\ undelivered' = undelivered \cup ({id} \ {0})

\* Mutant: the server is told, the slot is not cleared.
close_stream_KeepsSlot(i) ==
    /\ SendTerminate(stream_state_id[i])
    /\ UNCHANGED table

close_stream(i) ==
    /\ SendTerminate(stream_state_id[i])
    /\ clear_stream_index(i)

-----------------------------------------------------------------------------
(* Application threads: ggipc_call, ggipc_subscribe and the operations that  *)
(* base64-encode their payload under gg_ipc_b64_encode_mtx.                   *)

\* Every return path: the scope guards release the mutexes the frame holds.
Return(c, id, r) ==
    /\ call' = [call EXCEPT ![c] = Returned(id, r)]
    /\ b64_mtx' = IF b64_mtx = c THEN None ELSE b64_mtx

\* ggipc_publish_to_topic_binary, ggipc_publish_to_iot_core and
\* ggipc_update_thing_shadow up to their ggipc_call: the lock is taken and the
\* payload encoded into the shared buffer, which fails if it does not fit.
LockAndEncode(c) ==
    /\ c \in Publishers
    /\ call[c].pc = "idle"
    /\ b64_mtx = None
    /\ \/ /\ b64_mtx' = c
          /\ call' = [call EXCEPT ![c].pc = "encoded"]
       \/ Return(c, 0, "NOMEM")
    /\ UNCHANGED <<table, next_stream_id, recv, server, handle, closed>>

\* claim_stream_index fails: every slot is in use.
NoFreeSlot(c) ==
    /\ \A i \in Slots : stream_state_id[i] # 0
    /\ Return(c, 0, "NOMEM")
    /\ UNCHANGED <<table, next_stream_id, server, handle>>

\* Mutant: the handle is taken before the slot's generation is advanced.
Claim_OldGeneration(c, sub, i) ==
    /\ FirstFree(i)
    /\ next_stream_id \in StreamIds
    /\ next_stream_id' = next_stream_id + 1
    /\ handle' = [handle EXCEPT ![next_stream_id] = get_current_handle(i)]

\* claim_stream_index, set_stream_index and get_current_handle, before the
\* request is sent.
Claim(c, sub, i) ==
    /\ FirstFree(i)
    /\ next_stream_id \in StreamIds
    /\ next_stream_id' = next_stream_id + 1
    /\ handle' = IF sub
                 THEN [handle EXCEPT ![next_stream_id] =
                         [index |-> i, gen |-> NextGen(stream_state_generation[i])]]
                 ELSE handle

\* ipc_send_packet fails: the slot is cleared again and the error returned.
SendFails(c, sub, i) ==
    /\ SendsFail
    /\ Claim(c, sub, i)
    /\ stream_state_generation' =
           [stream_state_generation EXCEPT ![i] = NextGen(NextGen(@))]
    /\ set_stream_index(i, 0, NoHandler)
    /\ Return(c, next_stream_id, "ERR")
    /\ UNCHANGED server

\* The request is sent and the caller enters pthread_cond_timedwait.
SendAndWait(c, sub, i) ==
    /\ Claim(c, sub, i)
    /\ stream_state_generation' =
           [stream_state_generation EXCEPT ![i] = NextGen(@)]
    /\ set_stream_index(i, next_stream_id, ResponseHandler(c))
    /\ call' = [call EXCEPT ![c] = [pc |-> "waiting", index |-> i,
                  id |-> next_stream_id, sub |-> sub, ready |-> FALSE,
                  ret |-> "TIMEOUT"]]
    /\ srv' = [srv EXCEPT ![next_stream_id] = "open"]
    /\ UNCHANGED <<inbox, undelivered, b64_mtx>>

ggipc_subscribe(c, sub) ==
    /\ call[c].pc \in IF sub THEN {"idle"} ELSE {"idle", "encoded"}
    /\ MtxFree
    /\ \/ NoFreeSlot(c)
       \/ \E i \in Slots : SendFails(c, sub, i) \/ SendAndWait(c, sub, i)
    /\ UNCHANGED <<recv, closed>>

\* Mutant: the wait has no deadline.
Deadline_Never(c) == FALSE

\* The deadline of pthread_cond_timedwait passes: the thread leaves the
\* condition variable's queue and now needs the mutex back.
Deadline(c) ==
    /\ call[c].pc = "waiting"
    /\ call' = [call EXCEPT ![c].pc = "timedout"]
    /\ UNCHANGED <<table, next_stream_id, recv, b64_mtx, server, handle, closed>>

\* A spurious wakeup, or EINTR.
SpuriousWakeup(c) ==
    /\ call[c].pc = "waiting"
    /\ call' = [call EXCEPT ![c].pc = "woken"]
    /\ UNCHANGED <<table, next_stream_id, recv, b64_mtx, server, handle, closed>>

\* The woken caller has the mutex again and tests response_handler_ctx.ready.
Woken(c) ==
    /\ call[c].pc = "woken"
    /\ MtxFree
    /\ \/ /\ call[c].ready
          /\ Return(c, call[c].id, call[c].ret)
       \/ /\ ~call[c].ready
          /\ call' = [call EXCEPT ![c].pc = "waiting"]
          /\ b64_mtx' = b64_mtx
    /\ UNCHANGED <<table, next_stream_id, recv, server, handle, closed>>

\* Mutant: the slot is left as it is on a timeout.
TimedOut_NoClose(c) ==
    /\ call[c].pc = "timedout"
    /\ MtxFree
    /\ Return(c, call[c].id, "TIMEOUT")
    /\ UNCHANGED <<table, server, next_stream_id, recv, handle, closed>>

\* Mutant: a subscription that was armed meanwhile is left in place.
TimedOut_KeepsArmed(c) ==
    /\ call[c].pc = "timedout"
    /\ MtxFree
    /\ IF stream_state_handler[call[c].index].fn = "NULL"
       THEN close_stream(call[c].index)
       ELSE UNCHANGED <<table, server>>
    /\ Return(c, call[c].id, "TIMEOUT")
    /\ UNCHANGED <<next_stream_id, recv, handle, closed>>

\* ETIMEDOUT: the caller has the mutex again; ready is not looked at.
TimedOut(c) ==
    /\ call[c].pc = "timedout"
    /\ MtxFree
    /\ close_stream(call[c].index)
    /\ Return(c, call[c].id, "TIMEOUT")
    /\ UNCHANGED <<next_stream_id, recv, handle, closed>>

\* Application code has a handle once ggipc_subscribe has returned it or a
\* subscription callback has been given it; with EarlyClose, as soon as it has
\* been stored in *sub_handle.
HasHandle(s) ==
    /\ handle[s] # NoHandle
    /\ EarlyClose \/ ~\E c \in Callers : InCall(c) /\ call[c].id = s
                                            /\ ~call[c].ready

\* By an application thread, or by a callback (the mutex is recursive).
ggipc_close_subscription(s) ==
    /\ MtxFree \/ (InCallback /\ ~recv.blocked)
    /\ HasHandle(s)
    /\ \/ /\ validate_handle(handle[s])
          /\ close_stream(handle[s].index)
       \/ /\ ~validate_handle(handle[s])
          /\ UNCHANGED <<table, server>>
    /\ closed' = closed \cup {s}
    /\ UNCHANGED <<next_stream_id, call, recv, b64_mtx, handle>>

-----------------------------------------------------------------------------
(* The receive thread. *)

\* data_ready_callback: a packet is read, decoded and its headers checked
\* before the mutex is taken.
ReadPacket ==
    /\ recv.pc = "poll"
    /\ inbox # <<>>
    /\ inbox' = Tail(inbox)
    /\ recv' = [recv EXCEPT !.pc = "read", !.msg = Head(inbox)]
    /\ UNCHANGED <<table, next_stream_id, call, b64_mtx, srv, undelivered,
                   handle, closed>>

\* Reading fails (connection lost, malformed packet, negative stream id): the
\* receive thread closes the socket and ends the process with _Exit(1).
ReceiveError ==
    /\ recv.pc = "poll"
    /\ recv' = [recv EXCEPT !.pc = "exited"]
    /\ UNCHANGED <<table, next_stream_id, call, b64_mtx, server, handle, closed>>

\* response_handler_inner after the user's callback, then response_handler:
\* the caller's stack frame receives the result and its condition variable is
\* signalled, which wakes it unless its deadline has already passed.
FinishResponse(i, c, m, ok) ==
    /\ \/ /\ ~ok /\ ~m.term
          /\ close_stream(i)
       \/ /\ m.term
          /\ clear_stream_index(i)
          /\ UNCHANGED server
       \/ /\ ok /\ ~m.term /\ c \in Callers /\ ~call[c].sub
          /\ close_stream(i)
       \/ /\ ok /\ ~m.term /\ c \in Callers /\ call[c].sub
          /\ set_stream_index(i, m.id, SubHandler(m.id))
          /\ UNCHANGED <<stream_state_generation, server>>
    /\ call' = [d \in Callers |-> IF d # c THEN call[d] ELSE
                  [call[d] EXCEPT !.ready = TRUE,
                                  !.ret = IF ok THEN "OK" ELSE "ERR",
                                  !.pc = IF @ = "waiting" THEN "woken" ELSE @]]
    /\ recv' = Polling

\* Mutant: the TERMINATE_STREAM flag of an event is not looked at.
FinishEvent_IgnoresTerminate(i, m, ok) ==
    /\ \/ /\ ~ok
          /\ close_stream(i)
       \/ /\ ok
          /\ UNCHANGED <<table, server>>
    /\ recv' = Polling
    /\ call' = call

\* dispatch_incoming_packet after call_sub_callback returned.
FinishEvent(i, m, ok) ==
    /\ \/ /\ m.term
          /\ clear_stream_index(i)
          /\ UNCHANGED server
       \/ /\ ~m.term /\ ~ok
          /\ close_stream(i)
       \/ /\ ~m.term /\ ok
          /\ UNCHANGED <<table, server>>
    /\ recv' = Polling
    /\ call' = call

EnterCallback(pc, i) ==
    /\ recv' = [recv EXCEPT !.pc = pc, !.index = i,
                            !.ctx = stream_state_handler[i].ctx]
    /\ UNCHANGED <<table, call, server>>

\* pass_response_to_user_callback.  An application message or error whose
\* payload decodes goes to the user's result or error callback.  Without one
\* the payload is not decoded and the outcome is GG_ERR_OK or GG_ERR_REMOTE; an
\* undecodable payload or another message type is an error.
DispatchResponse(i, m) ==
    \/ EnterCallback("result_cb", i)
    \/ EnterCallback("error_cb", i)
    \/ \E ok \in BOOLEAN : FinishResponse(i, stream_state_handler[i].ctx, m, ok)

\* call_sub_callback.  A message whose JSON payload decodes goes to the user's
\* callback; one too large for the decode arena is skipped with GG_ERR_OK;
\* anything else is an error.
DispatchEvent(i, m) ==
    \/ EnterCallback("sub_cb", i)
    \/ \E ok \in BOOLEAN : FinishEvent(i, m, ok)

\* The mutex is taken and the packet's stream looked up; a packet whose stream
\* is not in the table is dropped.
dispatch_incoming_packet ==
    /\ recv.pc = "read"
    /\ \/ /\ ~\E i \in Slots : get_stream_index_from_id(recv.msg.id, i)
          /\ recv' = Polling
          /\ UNCHANGED <<table, call, server>>
       \/ \E i \in Slots :
            /\ get_stream_index_from_id(recv.msg.id, i)
            /\ \/ /\ stream_state_handler[i].fn = "NULL"
                  /\ DispatchResponse(i, recv.msg)
               \/ /\ stream_state_handler[i].fn # "NULL"
                  /\ DispatchEvent(i, recv.msg)
    /\ UNCHANGED <<next_stream_id, b64_mtx, handle, closed>>

\* The user's callback returns; an error callback's GG_ERR_OK is replaced by
\* GG_ERR_REMOTE.
CallbackReturns(ok) ==
    /\ InCallback
    /\ ~recv.blocked
    /\ \/ /\ recv.pc \in {"result_cb", "error_cb"}
          /\ FinishResponse(recv.index, recv.ctx, recv.msg,
                            ok /\ recv.pc = "result_cb")
       \/ /\ recv.pc = "sub_cb"
          /\ FinishEvent(recv.index, recv.msg, ok)
    /\ UNCHANGED <<next_stream_id, b64_mtx, handle, closed>>

\* A callback starts a binary publish: it has to take gg_ipc_b64_encode_mtx
\* before ggipc_call gets to test the thread id.
CallbackLocksB64 ==
    /\ CallbackPublishes
    /\ InCallback
    /\ ~recv.blocked
    /\ recv' = [recv EXCEPT !.blocked = TRUE]
    /\ UNCHANGED <<table, next_stream_id, call, b64_mtx, server, handle, closed>>

\* It got the lock: ggipc_call returns GG_ERR_INVALID and the lock is released.
CallbackPublishRefused ==
    /\ recv.blocked
    /\ b64_mtx = None
    /\ recv' = [recv EXCEPT !.blocked = FALSE]
    /\ UNCHANGED <<table, next_stream_id, call, b64_mtx, server, handle, closed>>

-----------------------------------------------------------------------------
(* The nucleus, as far as the client can tell: it answers and sends events   *)
(* on streams that are open, may end a stream with any packet, and may send  *)
(* packets on stream 0.                                                       *)

ServerSends(m) ==
    /\ recv.pc # "exited"
    /\ Len(inbox) < MaxInFlight
    /\ m.id \in StreamIds => srv[m.id] = "open"
    /\ inbox' = Append(inbox, m)
    /\ srv' = [s \in StreamIds |->
                 IF s = m.id /\ m.term THEN "closed" ELSE srv[s]]
    /\ UNCHANGED <<table, next_stream_id, call, recv, b64_mtx, undelivered,
                   handle, closed>>

-----------------------------------------------------------------------------
CallerStep(c) ==
    /\ recv.pc # "exited"
    /\ \/ LockAndEncode(c)
       \/ \E sub \in BOOLEAN : ggipc_subscribe(c, sub)
       \/ Deadline(c)
       \/ SpuriousWakeup(c)
       \/ Woken(c)
       \/ TimedOut(c)

RecvStep ==
    \/ ReadPacket
    \/ ReceiveError
    \/ dispatch_incoming_packet
    \/ \E ok \in BOOLEAN : CallbackReturns(ok)
    \/ CallbackLocksB64
    \/ CallbackPublishRefused

Next ==
    \/ \E c \in Callers : CallerStep(c)
    \/ RecvStep
    \/ \E s \in StreamIds : ggipc_close_subscription(s)
    \/ \E m \in Packets : ServerSends(m)

Spec == Init /\ [][Next]_vars

(***************************************************************************)
(* Fairness.  The receive thread is scheduled.  The deadline is absolute      *)
(* (client.c:635), so it is met although spurious wakeups restart the wait;   *)
(* a thread that waits for stream_state_mtx gets it if it is free again and   *)
(* again; user callbacks return: strong fairness.  Nothing is assumed of the  *)
(* server or of the application's own calls.                                  *)
(***************************************************************************)
Fairness ==
    /\ \A c \in Callers :
         /\ SF_vars(recv.pc # "exited" /\ Deadline(c))
         /\ SF_vars(recv.pc # "exited" /\ (Woken(c) \/ TimedOut(c)))
    /\ WF_vars(dispatch_incoming_packet)
    /\ WF_vars(CallbackPublishRefused)
    /\ SF_vars(\E ok \in BOOLEAN : CallbackReturns(ok))

FairSpec == Spec /\ Fairness

-----------------------------------------------------------------------------
(* Properties. *)

\* Type invariant of the stream table, the frames and the receive thread.
TypeOK ==
    /\ stream_state_id \in [Slots -> 0..MaxStreamId]
    /\ stream_state_generation \in [Slots -> Gens]
    /\ stream_state_handler \in [Slots -> Handlers]
    /\ next_stream_id \in 1..(MaxStreamId + 1)
    /\ call \in [Callers -> Frames]
    /\ recv \in Receivers
    /\ b64_mtx \in Callers \cup {None}
    /\ inbox \in Seq(Packets)
    /\ srv \in [StreamIds -> {"unused", "open", "closed"}]
    /\ handle \in [StreamIds -> Handles]
    /\ undelivered \subseteq StreamIds
    /\ closed \subseteq StreamIds

\* No two slots carry the same stream id, so get_stream_index_from_id's first
\* match (client.c:135) is the only one and a packet has one addressee.
StreamIdsUnique ==
    \A i, j \in Slots :
        stream_state_id[i] # 0 /\ stream_state_id[i] = stream_state_id[j] => i = j

\* A slot that waits for a response points to a ResponseHandlerCtx that still
\* exists: its caller is inside ggipc_subscribe, for this stream and this slot,
\* and has not been answered.  The context lives on the caller's stack
\* (client.c:574, 600), so a slot that outlived the call would be written
\* through a dangling pointer.
PendingCtxAlive ==
    \A i \in Slots :
        stream_state_id[i] # 0 /\ stream_state_handler[i].fn = "NULL" =>
            \E c \in Callers :
                /\ stream_state_handler[i].ctx = c
                /\ InCall(c)
                /\ call[c].id = stream_state_id[i]
                /\ call[c].index = i
                /\ ~call[c].ready

\* While a result or error callback runs, the frame that response_handler will
\* write ret and ready into (client.c:515) is still that of the call being
\* answered, whatever the callback itself closes.
ResponseCtxAlive ==
    recv.pc \in {"result_cb", "error_cb"} =>
        \E c \in Callers :
            /\ recv.ctx = c
            /\ InCall(c)
            /\ call[c].id = recv.msg.id
            /\ ~call[c].ready

\* When ggipc_subscribe has returned an error its subscription callback is not
\* installed (and by StreamLifecycle never will be): language bindings free
\* the callback's context on error.
FailedSubscribeNotArmed ==
    \A c \in Callers : \A i \in Slots :
        /\ call[c].pc \in {"idle", "encoded"}
        /\ call[c].ret # "OK"
        => \/ call[c].id = 0
           \/ stream_state_id[i] # call[c].id

\* The receive thread writes a result only into the frame of a call that still
\* waits for it: the contexts that slots point to, and the one it remembers
\* across a user callback, are alive.
ContextsAlive == PendingCtxAlive /\ ResponseCtxAlive

\* A handle that validate_handle accepts (client.c:101) names the stream it was
\* issued for: a stale handle never closes the slot's next occupant.  Holds as
\* long as no generation wraps around between two uses of the handle.
HandleNamesOwnStream ==
    \A s \in StreamIds :
        handle[s] # NoHandle /\ validate_handle(handle[s]) =>
            stream_state_id[handle[s].index] = s

\* The handle get_current_handle passes to a subscription callback
\* (client.c:783) is the one ggipc_subscribe returned, so an armed subscription
\* can always be closed through the handle the application has.
ArmedHandleIsIssued ==
    \A i \in Slots :
        stream_state_id[i] # 0 /\ stream_state_handler[i].fn # "NULL" =>
            handle[stream_state_id[i]] = get_current_handle(i)

\* A stream the server still considers open is in the table, unless the
\* TERMINATE packet for it could not be sent: no return path of a call and no
\* end of a subscription leaves a stream behind on the server.
NoOrphanStream ==
    \A s \in StreamIds :
        srv[s] = "open" => \/ \E i \in Slots : stream_state_id[i] = s
                           \/ s \in undelivered

\* Handles are exact both ways: one that is accepted names its own stream, and
\* every armed subscription has one the application knows.
HandlesExact == HandleNamesOwnStream /\ ArmedHandleIsIssued

\* A slot whose stream the server has ended is on its way out: the packet that
\* says so is still queued or being dispatched.  Slots do not leak.
NoDeadSlot ==
    \A i \in Slots :
        stream_state_id[i] # 0 /\ srv[stream_state_id[i]] = "closed" =>
            LET ends(m) == m.id = stream_state_id[i] /\ m.term
            IN  \/ ends(recv.msg) /\ recv.pc # "poll"
                \/ \E k \in 1..Len(inbox) : ends(inbox[k])

\* The stream table and the server agree: a stream has one slot, no stream stays
\* open on the server without one, and no slot is kept for a stream that ended.
TableMatchesServer == StreamIdsUnique /\ NoOrphanStream /\ NoDeadSlot

\* Once ggipc_close_subscription has returned, the subscription's callback is
\* not called again, whichever thread closed it and whatever was in flight.
NoCallbackAfterClose ==
    [][recv.pc # "sub_cb" /\ recv'.pc = "sub_cb" => recv'.ctx \notin closed]_vars

\* Every call returns: a response, a deadline or the end of the process.
CallsReturn ==
    \A c \in Callers : InCall(c) ~> (~InCall(c) \/ recv.pc = "exited")

\* client.c:487: "Must not error after user result callback returns ok": a call
\* whose response was accepted returns GG_ERR_OK.
AcceptedCallsReturnOk ==
    [][\A c \in Callers :
          call[c].ready /\ call[c].ret = "OK" /\ call'[c].pc = "idle" =>
              call'[c].ret = "OK"]_vars

\* RELEASE_NOTES v1.0.4: "Notify Nucleus of cleaned up request when a request
\* times out": the stream that TimedOut terminates is the one that timed out.
TimeoutEndsOwnStream ==
    [][\A c \in Callers :
          call[c].pc = "timedout" /\ call'[c].pc = "idle" =>
              stream_state_id[call[c].index] = call[c].id]_vars

\* client_raw.h:47: an operation called from a subscription callback returns
\* (with GG_ERR_INVALID) instead of blocking the receive thread for ever.
CallbackOperationsReturn ==
    recv.blocked /\ recv.pc = "sub_cb" ~> ~recv.blocked

\* Each stream's life as the abstract specification sees it.
Phase(s) ==
    IF s >= next_stream_id THEN "fresh"
    ELSE IF \E i \in Slots : /\ stream_state_id[i] = s
                             /\ stream_state_handler[i].fn = "NULL"
         THEN "pending"
    ELSE IF \E i \in Slots : stream_state_id[i] = s THEN "armed"
    ELSE "gone"

Lifecycle == INSTANCE StreamLifecycle WITH
    phase <- [s \in StreamIds |-> Phase(s)],
    running <- IF recv.pc = "sub_cb" THEN recv.ctx ELSE 0

\* The client implements StreamLifecycle: ids are used once and in order, an
\* ended stream is never armed again, callbacks run one at a time and only for
\* armed streams, and nothing but an end of stream happens while one runs.
LifecycleSpec == Lifecycle!Spec
=============================================================================
