-------------------------- MODULE IpcStreamsProofs --------------------------
(***************************************************************************)
(* TLAPS proofs about the streams of IpcClient: handles name the stream they *)
(* were issued for, the table and the server agree on which streams exist,   *)
(* a closed subscription is not called again, and the client implements      *)
(* StreamLifecycle.  For every number of callers, slots and stream ids.      *)
(*                                                                         *)
(* Two conditions of use appear as hypotheses.  GenerationsGrow: no slot's    *)
(* 16-bit generation wraps around.  ~EarlyClose: a handle is used only once   *)
(* ggipc_subscribe has returned it or a callback was given it.               *)
(***************************************************************************)
EXTENDS IpcClientProofs

\* No generation wraps around in a step (a wrap makes it smaller).
GenerationsStep ==
    \A i \in Slots : stream_state_generation'[i] >= stream_state_generation[i]

GenerationsGrow == [][GenerationsStep]_vars

-----------------------------------------------------------------------------
(* The inductive invariant.  CallbackSlot and ArmedCtx hold in every            *)
(* behaviour, HandleOK if generations grow, the rest if no handle is used early *)
(* either.                                                                    *)

\* While a callback runs, the slot it was dispatched from carries the packet's
\* stream, or nothing if the callback closed it.
CallbackSlot ==
    /\ InCallback =>
         /\ recv.index \in Slots
         /\ recv.msg.id \in StreamIds
         /\ stream_state_id[recv.index] \in {0, recv.msg.id}
         /\ \A i \in Slots : stream_state_id[i] = recv.msg.id => i = recv.index
    /\ recv.pc = "sub_cb" =>
         /\ recv.ctx = recv.msg.id
         /\ stream_state_id[recv.index] # 0 => stream_state_handler[recv.index].fn # "NULL"

\* An armed slot's callback belongs to the stream of the slot.
ArmedCtx ==
    \A i \in Slots :
        stream_state_handler[i].fn # "NULL" =>
            stream_state_handler[i] = SubHandler(stream_state_id[i])

\* A handle is never ahead of its slot, and one that is level with it names the
\* stream in it.
HandleOK ==
    \A s \in StreamIds : handle[s] # NoHandle =>
        /\ s < next_stream_id
        /\ handle[s].index \in Slots
        /\ handle[s].gen <= stream_state_generation[handle[s].index]
        /\ handle[s].gen = stream_state_generation[handle[s].index] =>
               stream_state_id[handle[s].index] = s

\* While a response callback runs, its slot still waits for the response.
ResponseSlot ==
    recv.pc \in {"result_cb", "error_cb"} =>
        /\ stream_state_id[recv.index] = recv.msg.id
        /\ stream_state_handler[recv.index] = ResponseHandler(recv.ctx)

\* Slot i belongs to a subscription, requested or armed.
Subscribed(i) ==
    /\ stream_state_id[i] # 0
    /\ stream_state_handler[i].fn = "NULL" => call[stream_state_handler[i].ctx].sub

\* The handle of a subscription is the current one of its slot.
HandleIssued ==
    \A i \in Slots : Subscribed(i) => handle[stream_state_id[i]] = get_current_handle(i)

\* A closed stream was handed out and is in no slot.
ClosedGone ==
    \A s \in closed : s < next_stream_id /\ \A i \in Slots : stream_state_id[i] # s

\* Packet m is on a stream that was handed out, which the server has ended if the
\* packet says so.
Known(m) ==
    /\ m.id < next_stream_id
    /\ m.id # 0 /\ m.term => srv[m.id] = "closed"

ServerOK ==
    /\ \A s \in StreamIds : srv[s] # "unused" => s < next_stream_id
    /\ \A k \in 1..Len(inbox) : Known(inbox[k])
    /\ Known(recv.msg)

-----------------------------------------------------------------------------
(* What a step can do to the table.                                           *)

\* No call starts to wait: who waits for a response has done so before.
SameOwners ==
    \A c \in Callers :
        InCall(c)' /\ ~call'[c].ready =>
            /\ InCall(c) /\ ~call[c].ready
            /\ call'[c].id = call[c].id /\ call'[c].sub = call[c].sub

KeepsTable == UNCHANGED <<table, next_stream_id, handle>> /\ SameOwners

Clears(i) == clear_stream_index(i) /\ UNCHANGED <<next_stream_id, handle>> /\ SameOwners

\* The response to subscription s is accepted.
Arms(i, s) ==
    /\ set_stream_index(i, s, SubHandler(s))
    /\ UNCHANGED <<stream_state_generation, next_stream_id, handle>>
    /\ SameOwners
    /\ stream_state_id[i] \in {0, s}
    /\ \A j \in Slots : stream_state_id[j] = s => j = i
    /\ ResponseSlot => Subscribed(i) /\ stream_state_handler[i].fn = "NULL"

Requests(c, sub, i) == MtxFree /\ (SendFails(c, sub, i) \/ SendAndWait(c, sub, i)) /\ ~InCall(c)

TableStep ==
    \/ KeepsTable
    \/ \E i \in Slots : Clears(i)
    \/ \E i \in Slots, s \in StreamIds : Arms(i, s)
    \/ \E c \in Callers, sub \in BOOLEAN, i \in Slots : Requests(c, sub, i)

\* Frames that do not change, and a return, keep the waiting calls as they are.
LEMMA UnchangedOwners ==
    ASSUME UNCHANGED call
    PROVE  SameOwners
  BY Zenon DEF SameOwners, InCall

\* A call that returns owns no slot afterwards and changes no other owner.
LEMMA ReturnOwners ==
    ASSUME TypeOK, NEW c \in Callers, NEW id \in 0..MaxStreamId, NEW r \in RetCodes,
           Return(c, id, r)
    PROVE  SameOwners
  <1>1. call'[c].pc = "idle" /\ \A d \in Callers : d # c => call'[d] = call[d]
    BY ReturnEffect, Zenon
  <1> QED
    BY <1>1, Zenon DEF SameOwners, InCall

\* A call that only moves within its wait keeps every owner.
LEMMA MoveOwners ==
    ASSUME TypeOK, NEW c \in Callers, NEW p \in CallPcs,
           call' = [call EXCEPT ![c].pc = p],
           InCall(c) <=> p \in {"waiting", "woken", "timedout"}
    PROVE  SameOwners
  <1>1. \A d \in Callers :
          /\ InCall(d)' <=> InCall(d)
          /\ call'[d].id = call[d].id /\ call'[d].sub = call[d].sub
          /\ call'[d].ready = call[d].ready
    <2>1. call \in [Callers -> Frames]
      BY Zenon DEF TypeOK
    <2>2. \A d \in Callers : d # c => call'[d] = call[d]
      BY <2>1, Zenon
    <2>3. call[c] \in Frames /\ call'[c] = [call[c] EXCEPT !.pc = p]
      BY <2>1, Zenon
    <2>4. /\ call'[c].pc = p /\ call'[c].id = call[c].id /\ call'[c].sub = call[c].sub
          /\ call'[c].ready = call[c].ready
      BY ZenonT(90), <2>3 DEF Frames
    <2> QED
      BY <2>2, <2>4, Zenon DEF InCall
  <1> QED
    BY <1>1, Zenon DEF SameOwners

\* The end of a response (client.c:480, 508) empties the slot or arms it for the
\* same stream.
LEMMA FinishResponseTable ==
    ASSUME IInv, NEW i \in Slots, NEW m \in Packets, NEW ok \in BOOLEAN,
           NEW c \in Callers, m.id \in StreamIds,
           stream_state_id[i] \in {0, m.id},
           \A j \in Slots : stream_state_id[j] = m.id => j = i,
           ResponseSlot => /\ stream_state_id[i] = m.id
                           /\ stream_state_handler[i] = ResponseHandler(c),
           FinishResponse(i, c, m, ok), UNCHANGED <<next_stream_id, handle>>
    PROVE  Clears(i) \/ Arms(i, m.id)
  <1>1. SameOwners
    <2>1. /\ call'[c] = [call[c] EXCEPT !.ready = TRUE,
                                        !.ret = IF ok THEN "OK" ELSE "ERR",
                                        !.pc = IF @ = "waiting" THEN "woken" ELSE @]
          /\ \A d \in Callers : d # c => call'[d] = call[d]
      BY ZenonT(90) DEF FinishResponse
    <2>2. call[c] \in Frames
      BY Zenon DEF IInv, TypeOK
    <2>3. call'[c].ready
      BY <2>1, <2>2, Zenon DEF Frames
    <2> QED
      BY <2>1, <2>3, Zenon DEF SameOwners, InCall
  <1>2. CASE close_stream(i) \/ clear_stream_index(i)
    BY <1>1, <1>2, Zenon DEF Clears, close_stream
  <1>3. CASE /\ call[c].sub
             /\ set_stream_index(i, m.id, SubHandler(m.id))
             /\ UNCHANGED <<stream_state_generation, server>>
    <2>1. ASSUME ResponseSlot
          PROVE  Subscribed(i) /\ stream_state_handler[i].fn = "NULL"
      <3>1. /\ stream_state_id[i] # 0
            /\ stream_state_handler[i].fn = "NULL" /\ stream_state_handler[i].ctx = c
        BY <2>1, ConstantsAssumption DEF ResponseHandler, StreamIds
      <3> QED
        BY <3>1, <1>3, Zenon DEF Subscribed
    <2> QED
      BY <1>1, <1>3, <2>1, Zenon DEF Arms
  <1> QED
    BY ZenonT(90), <1>2, <1>3 DEF FinishResponse

\* The end of an event empties the slot or leaves it as it is.
LEMMA FinishEventTable ==
    ASSUME NEW i \in Slots, NEW m \in Packets, NEW ok \in BOOLEAN,
           FinishEvent(i, m, ok), UNCHANGED <<next_stream_id, handle>>
    PROVE  KeepsTable \/ Clears(i)
  <1>1. SameOwners
    BY UnchangedOwners, Zenon DEF FinishEvent
  <1> QED
    BY <1>1, Zenon DEF FinishEvent, KeepsTable, Clears, close_stream

\* The slot that a packet is dispatched to is the only one with its stream, and
\* its frame is the one waiting for the response.
LEMMA DispatchSlot ==
    ASSUME IInv, recv.pc = "read", NEW i \in Slots,
           get_stream_index_from_id(recv.msg.id, i)
    PROVE  /\ recv.msg \in Packets /\ recv.msg.id \in StreamIds
           /\ stream_state_id[i] = recv.msg.id
           /\ \A j \in Slots : stream_state_id[j] = recv.msg.id => j = i
           /\ stream_state_handler[i].fn = "NULL" =>
                /\ stream_state_handler[i].ctx \in Callers
                /\ stream_state_handler[i] = ResponseHandler(stream_state_handler[i].ctx)
  <1>1. recv.msg \in Packets
    BY Zenon DEF IInv, TypeOK, Receivers
  <1>2. /\ recv.msg.id \in StreamIds /\ stream_state_id[i] = recv.msg.id
        /\ \A j \in Slots : stream_state_id[j] = recv.msg.id => j = i
    BY <1>1, ConstantsAssumption
       DEF get_stream_index_from_id, IInv, StreamIdsUnique, Packets, StreamIds
  <1>3. ASSUME stream_state_handler[i].fn = "NULL"
        PROVE  /\ stream_state_handler[i].ctx \in Callers
               /\ stream_state_handler[i] = ResponseHandler(stream_state_handler[i].ctx)
    <2>1. stream_state_handler[i].ctx \in Callers
      BY <1>2, <1>3, ConstantsAssumption DEF IInv, PendingCtxAlive, StreamIds
    <2>2. stream_state_handler[i] \in Handlers
      BY Zenon DEF IInv, TypeOK
    <2> QED
      BY <1>3, <2>1, <2>2, Zenon DEF Handlers, ResponseHandler
  <1> QED
    BY <1>1, <1>2, <1>3, Zenon

\* A caller's step claims a free slot, clears its own, or keeps the table.
LEMMA CallerTable ==
    ASSUME IInv, NEW c \in Callers, CallerStep(c)
    PROVE  TableStep
  <1>0. /\ TypeOK /\ call[c].id \in 0..MaxStreamId /\ call[c].ret \in RetCodes
        /\ 0 \in 0..MaxStreamId /\ {"NOMEM", "TIMEOUT"} \subseteq RetCodes
    <2>1. TypeOK /\ call[c].id \in 0..MaxStreamId /\ call[c].ret \in RetCodes
      BY Zenon DEF IInv, TypeOK, Frames
    <2>2. 0 \in 0..MaxStreamId
      BY ConstantsAssumption
    <2>3. {"NOMEM", "TIMEOUT"} \subseteq RetCodes
      BY Zenon DEF RetCodes
    <2> QED
      BY <2>1, <2>2, <2>3, Zenon
  <1>1. CASE LockAndEncode(c)
    <2>1. CASE call' = [call EXCEPT ![c].pc = "encoded"]
      BY <1>0, <1>1, <2>1, MoveOwners, Zenon
         DEF LockAndEncode, InCall, CallPcs, TableStep, KeepsTable
    <2>2. CASE Return(c, 0, "NOMEM")
      BY <1>0, <1>1, <2>2, ReturnOwners, Zenon DEF LockAndEncode, TableStep, KeepsTable
    <2> QED
      BY <1>1, <2>1, <2>2, Zenon DEF LockAndEncode
  <1>2. ASSUME NEW sub \in BOOLEAN, ggipc_subscribe(c, sub)
        PROVE  TableStep
    <2>1. MtxFree /\ ~InCall(c)
      BY <1>2, Zenon DEF ggipc_subscribe, InCall
    <2>2. CASE NoFreeSlot(c)
      BY <1>0, <2>2, ReturnOwners, Zenon DEF NoFreeSlot, TableStep, KeepsTable
    <2>3. ASSUME NEW i \in Slots, SendFails(c, sub, i) \/ SendAndWait(c, sub, i)
          PROVE  TableStep
      BY <2>1, <2>3, Zenon DEF TableStep, Requests
    <2> QED
      BY <1>2, <2>2, <2>3, Zenon DEF ggipc_subscribe
  <1>3. CASE Deadline(c) \/ SpuriousWakeup(c)
    <2>1. InCall(c) /\ UNCHANGED <<table, next_stream_id, handle>>
      BY <1>3, Zenon DEF Deadline, SpuriousWakeup, InCall
    <2>2. \E p \in {"timedout", "woken"} : call' = [call EXCEPT ![c].pc = p]
      BY <1>3, Zenon DEF Deadline, SpuriousWakeup
    <2> QED
      BY <1>0, <2>1, <2>2, MoveOwners, Zenon DEF CallPcs, TableStep, KeepsTable
  <1>4. CASE Woken(c)
    <2>1. InCall(c) /\ UNCHANGED <<table, next_stream_id, handle>>
      BY <1>4, Zenon DEF Woken, InCall
    <2>2. CASE Return(c, call[c].id, call[c].ret)
      BY <1>0, <2>1, <2>2, ReturnOwners, Zenon DEF TableStep, KeepsTable
    <2>3. CASE call' = [call EXCEPT ![c].pc = "waiting"]
      BY <1>0, <2>1, <2>3, MoveOwners, Zenon DEF CallPcs, TableStep, KeepsTable
    <2> QED
      BY <1>4, <2>2, <2>3, Zenon DEF Woken
  <1>5. CASE TimedOut(c)
    <2>1. call[c].index \in Slots
      BY <1>5, Zenon DEF TimedOut, IInv, FrameOK, InCall
    <2>2. SameOwners
      BY <1>0, <1>5, ReturnOwners, Zenon DEF TimedOut
    <2> QED
      BY <1>5, <2>1, <2>2, Zenon DEF TimedOut, close_stream, TableStep, Clears
  <1> QED
    BY <1>1, <1>2, <1>3, <1>4, <1>5, Zenon DEF CallerStep

\* ggipc_close_subscription clears the slot its handle names, if the handle is valid.
LEMMA CloseTable ==
    ASSUME NEW s \in StreamIds, ggipc_close_subscription(s)
    PROVE  KeepsTable \/ (validate_handle(handle[s]) /\ Clears(handle[s].index))
  <1>1. SameOwners
    BY UnchangedOwners, Zenon DEF ggipc_close_subscription
  <1> QED
    BY <1>1, Zenon DEF ggipc_close_subscription, KeepsTable, Clears, close_stream

\* What response_handler finds when a response callback returns.
LEMMA CallbackFrame ==
    ASSUME IInv, CallbackSlot, recv.pc \in {"result_cb", "error_cb"}
    PROVE  /\ recv.index \in Slots /\ recv.msg \in Packets /\ recv.msg.id \in StreamIds
           /\ recv.ctx \in Callers
           /\ stream_state_id[recv.index] \in {0, recv.msg.id}
           /\ \A j \in Slots : stream_state_id[j] = recv.msg.id => j = recv.index
  BY Zenon DEF CallbackSlot, InCallback, IInv, RecvFrame, TypeOK, Receivers

\* The return of a callback keeps, clears or arms the slot it ran for.
LEMMA CallbackReturnsTable ==
    ASSUME IInv, CallbackSlot, NEW ok \in BOOLEAN, CallbackReturns(ok)
    PROVE  /\ recv.index \in Slots
           /\ \/ recv.pc = "sub_cb" /\ KeepsTable
              \/ Clears(recv.index)
              \/ recv.pc # "sub_cb" /\ recv.msg.id \in StreamIds /\ Arms(recv.index, recv.msg.id)
  <1>1. UNCHANGED <<next_stream_id, handle>> /\ recv.msg \in Packets /\ recv.index \in Slots
    BY Zenon DEF CallbackReturns, IInv, TypeOK, Receivers, CallbackSlot
  <1>2. CASE /\ recv.pc \in {"result_cb", "error_cb"}
             /\ FinishResponse(recv.index, recv.ctx, recv.msg,
                               ok /\ recv.pc = "result_cb")
    <2>1. (ok /\ recv.pc = "result_cb") \in BOOLEAN
      BY Zenon
    <2>2. ResponseSlot => /\ stream_state_id[recv.index] = recv.msg.id
                          /\ stream_state_handler[recv.index] = ResponseHandler(recv.ctx)
      BY <1>2, Zenon DEF ResponseSlot
    <2>3. Clears(recv.index) \/ Arms(recv.index, recv.msg.id)
      BY ZenonT(90), <1>1, <1>2, <2>1, <2>2, CallbackFrame, FinishResponseTable
    <2> QED
      BY <1>1, <1>2, <2>3, CallbackFrame, Zenon
  <1>3. CASE recv.pc = "sub_cb" /\ FinishEvent(recv.index, recv.msg, ok)
    BY <1>1, <1>3, FinishEventTable, Zenon
  <1> QED
    BY <1>2, <1>3, Zenon DEF CallbackReturns

\* dispatch_incoming_packet changes at most the slot of the packet it read.
LEMMA DispatchTable ==
    ASSUME IInv, dispatch_incoming_packet
    PROVE  TableStep
  <1>1. recv.pc = "read" /\ UNCHANGED <<next_stream_id, handle>>
    BY Zenon DEF dispatch_incoming_packet
  <1>2. CASE UNCHANGED <<table, call, server>>
    BY <1>1, <1>2, UnchangedOwners, Zenon DEF TableStep, KeepsTable
  <1>3. ASSUME NEW i \in Slots, get_stream_index_from_id(recv.msg.id, i),
               \/ /\ stream_state_handler[i].fn = "NULL"
                  /\ DispatchResponse(i, recv.msg)
               \/ /\ stream_state_handler[i].fn # "NULL"
                  /\ DispatchEvent(i, recv.msg)
        PROVE  TableStep
    <2>1. ASSUME NEW pc, EnterCallback(pc, i)
          PROVE  TableStep
      BY <1>1, <2>1, UnchangedOwners, Zenon DEF EnterCallback, TableStep, KeepsTable
    <2>2. ASSUME NEW ok \in BOOLEAN, stream_state_handler[i].fn = "NULL",
                 FinishResponse(i, stream_state_handler[i].ctx, recv.msg, ok)
          PROVE  TableStep
      <3>1. Clears(i) \/ Arms(i, recv.msg.id)
        BY ZenonT(90), <1>1, <1>3, <2>2, DispatchSlot, FinishResponseTable
      <3> QED
        BY <1>1, <1>3, <3>1, DispatchSlot, Zenon DEF TableStep
    <2>3. ASSUME NEW ok \in BOOLEAN, FinishEvent(i, recv.msg, ok)
          PROVE  TableStep
      BY <1>1, <1>3, <2>3, DispatchSlot, FinishEventTable, Zenon DEF TableStep
    <2> QED
      BY <1>3, <2>1, <2>2, <2>3, Zenon DEF DispatchResponse, DispatchEvent
  <1> QED
    BY <1>2, <1>3, Zenon DEF dispatch_incoming_packet

\* Every step of the client is one of these.
LEMMA TableSteps ==
    ASSUME IInv, CallbackSlot, [Next]_vars
    PROVE  TableStep
  <1>1. ASSUME NEW c \in Callers, CallerStep(c) PROVE TableStep
    BY <1>1, CallerTable, Zenon
  <1>2. CASE dispatch_incoming_packet
    BY <1>2, DispatchTable, Zenon
  <1>3. ASSUME NEW ok \in BOOLEAN, CallbackReturns(ok) PROVE TableStep
    BY <1>3, CallbackReturnsTable, Zenon DEF TableStep
  <1>4. CASE ReadPacket \/ ReceiveError \/ CallbackLocksB64 \/ CallbackPublishRefused
    BY <1>4, UnchangedOwners, Zenon
       DEF ReadPacket, ReceiveError, CallbackLocksB64, CallbackPublishRefused,
           TableStep, KeepsTable
  <1>5. ASSUME NEW s \in StreamIds, ggipc_close_subscription(s) PROVE TableStep
    BY <1>5, CloseTable, Zenon DEF TableStep, validate_handle
  <1>6. ASSUME NEW m \in Packets, ServerSends(m) PROVE TableStep
    BY <1>6, UnchangedOwners, Zenon DEF ServerSends, TableStep, KeepsTable
  <1>7. CASE UNCHANGED vars
    BY <1>7, UnchangedOwners, Zenon DEF vars, TableStep, KeepsTable
  <1> QED
    BY <1>1, <1>2, <1>3, <1>4, <1>5, <1>6, <1>7, Zenon DEF Next, RecvStep

-----------------------------------------------------------------------------
(* CallbackSlot and ArmedCtx.                                                 *)

\* What a step can do to the receive thread while it is, or comes to be, in a
\* callback.
RecvStays ==
    /\ recv'.pc = recv.pc /\ recv'.msg = recv.msg /\ recv'.index = recv.index
    /\ recv'.ctx = recv.ctx

Enters(pc, i) ==
    /\ EnterCallback(pc, i) /\ UNCHANGED next_stream_id
    /\ recv.pc = "read" /\ get_stream_index_from_id(recv.msg.id, i)
    /\ IF stream_state_handler[i].fn = "NULL" THEN pc \in {"result_cb", "error_cb"}
       ELSE pc = "sub_cb"

\* An accepted handle is closed.
Closes(s) ==
    /\ HasHandle(s) /\ validate_handle(handle[s])
    /\ clear_stream_index(handle[s].index)

\* The four things a step can do to the receive thread.
LEMMA RecvSteps ==
    ASSUME IInv, [Next]_vars
    PROVE  \/ recv'.pc \in {"poll", "read", "exited"}
           \/ RecvStays /\ UNCHANGED table
           \/ RecvStays /\ \E s \in StreamIds : Closes(s)
           \/ \E i \in Slots, pc \in {"result_cb", "error_cb", "sub_cb"} : Enters(pc, i)
  <1> DEFINE Goal == \/ recv'.pc \in {"poll", "read", "exited"}
                     \/ RecvStays /\ UNCHANGED table
                     \/ RecvStays /\ \E s \in StreamIds : Closes(s)
                     \/ \E i \in Slots, pc \in {"result_cb", "error_cb", "sub_cb"} : Enters(pc, i)
  <1>0. recv \in Receivers /\ Polling.pc = "poll"
    BY PollingType, Zenon DEF IInv, TypeOK
  <1>1. ASSUME NEW c \in Callers, CallerStep(c) PROVE Goal
    <2>1. recv' = recv
      BY <1>1, Zenon DEF CallerStep, LockAndEncode, ggipc_subscribe, Deadline, SpuriousWakeup, Woken, TimedOut
    <2>2. MtxFree \/ UNCHANGED table
      BY <1>1, Zenon DEF CallerStep, LockAndEncode, ggipc_subscribe, Deadline, SpuriousWakeup, Woken, TimedOut
    <2> QED
      BY <2>1, <2>2, Zenon DEF MtxFree, RecvStays
  <1>2. CASE dispatch_incoming_packet
    <2>1. CASE recv' = Polling
      BY <1>0, <2>1, Zenon
    <2>2. ASSUME NEW i \in Slots, get_stream_index_from_id(recv.msg.id, i),
                 \/ /\ stream_state_handler[i].fn = "NULL"
                    /\ DispatchResponse(i, recv.msg)
                 \/ /\ stream_state_handler[i].fn # "NULL"
                    /\ DispatchEvent(i, recv.msg)
          PROVE  Goal
      <3>1. ASSUME NEW pc \in {"result_cb", "error_cb", "sub_cb"}, EnterCallback(pc, i),
                   IF stream_state_handler[i].fn = "NULL" THEN pc \in {"result_cb", "error_cb"}
                   ELSE pc = "sub_cb"
            PROVE  Goal
        BY <1>2, <2>2, <3>1, Zenon DEF dispatch_incoming_packet, Enters
      <3>2. ASSUME NEW ok \in BOOLEAN,
                   \/ FinishResponse(i, stream_state_handler[i].ctx, recv.msg, ok)
                   \/ FinishEvent(i, recv.msg, ok)
            PROVE  Goal
        BY <2>1, <3>2, Zenon DEF FinishResponse, FinishEvent
      <3> QED
        BY <2>2, <3>1, <3>2, Zenon DEF DispatchResponse, DispatchEvent
    <2> QED
      BY <1>2, <2>1, <2>2, Zenon DEF dispatch_incoming_packet
  <1>3. ASSUME NEW ok \in BOOLEAN, CallbackReturns(ok) PROVE Goal
    BY <1>0, <1>3, Zenon DEF CallbackReturns, FinishResponse, FinishEvent
  <1>4. CASE ReadPacket \/ ReceiveError
    BY <1>0, <1>4, Zenon DEF ReadPacket, ReceiveError, Receivers
  <1>5. CASE CallbackLocksB64 \/ CallbackPublishRefused
    BY <1>0, <1>5, Zenon DEF CallbackLocksB64, CallbackPublishRefused, Receivers, RecvStays
  <1>6. ASSUME NEW s \in StreamIds, ggipc_close_subscription(s) PROVE Goal
    BY <1>6, Zenon DEF ggipc_close_subscription, Closes, close_stream, RecvStays
  <1>7. ASSUME NEW m \in Packets, ServerSends(m) PROVE Goal
    BY <1>7, Zenon DEF ServerSends, RecvStays
  <1>8. CASE UNCHANGED vars
    BY <1>8, Zenon DEF vars, RecvStays
  <1> QED
    BY <1>1, <1>2, <1>3, <1>4, <1>5, <1>6, <1>7, <1>8, Zenon DEF Next, RecvStep

\* A running callback keeps the slot it was started for.
LEMMA CallbackSlotStep ==
    ASSUME IInv, CallbackSlot, ArmedCtx, [Next]_vars
    PROVE  CallbackSlot'
  <1>1. CASE recv'.pc \in {"poll", "read", "exited"}
    BY <1>1, Zenon DEF CallbackSlot, InCallback
  <1>2. CASE RecvStays /\ UNCHANGED table
    BY <1>2, Zenon DEF CallbackSlot, InCallback, RecvStays, table
  <1>3. ASSUME RecvStays, NEW s \in StreamIds, Closes(s)
        PROVE  CallbackSlot'
    <2> DEFINE i == handle[s].index
    <2>0. i \in Slots
      BY <1>3, Zenon DEF Closes, validate_handle
    <2>1. /\ stream_state_id'[i] = 0
          /\ \A j \in Slots : j # i =>
                /\ stream_state_id'[j] = stream_state_id[j]
                /\ stream_state_handler'[j] = stream_state_handler[j]
      BY <1>3, <2>0, ClearEffect, Zenon DEF IInv, Closes
    <2>2. 0 \notin StreamIds
      BY ConstantsAssumption DEF StreamIds
    <2> QED
      BY <1>3, <2>0, <2>1, <2>2 DEF CallbackSlot, InCallback, RecvStays
  <1>4. ASSUME NEW i \in Slots, NEW pc \in {"result_cb", "error_cb", "sub_cb"}, Enters(pc, i)
        PROVE  CallbackSlot'
    <2>1. /\ recv'.pc = pc /\ recv'.index = i /\ recv'.msg = recv.msg
          /\ recv'.ctx = stream_state_handler[i].ctx
          /\ UNCHANGED table
      BY <1>4, Zenon DEF Enters, EnterCallback, IInv, TypeOK, Receivers
    <2>2. /\ recv.msg.id \in StreamIds /\ stream_state_id[i] = recv.msg.id
          /\ \A j \in Slots : stream_state_id[j] = recv.msg.id => j = i
      BY <1>4, DispatchSlot, Zenon DEF Enters
    <2>3. pc = "sub_cb" =>
            /\ stream_state_handler[i].fn # "NULL"
            /\ stream_state_handler[i].ctx = recv.msg.id
      <3>1. pc = "sub_cb" => stream_state_handler[i].fn # "NULL"
        BY <1>4, Zenon DEF Enters
      <3>2. pc = "sub_cb" => stream_state_handler[i] = SubHandler(recv.msg.id)
        BY <2>2, <3>1, Zenon DEF ArmedCtx
      <3> QED
        BY <3>1, <3>2 DEF SubHandler
    <2> QED
      BY <2>1, <2>2, <2>3, Zenon DEF CallbackSlot, InCallback, table
  <1> QED
    BY <1>1, <1>2, <1>3, <1>4, RecvSteps, Zenon

\* A request finds an empty slot; it leaves it empty, or puts the next stream into
\* it.
LEMMA RequestEffect ==
    ASSUME IInv, NEW c \in Callers, NEW sub \in BOOLEAN, NEW i \in Slots, Requests(c, sub, i)
    PROVE  /\ next_stream_id \in StreamIds /\ next_stream_id' = next_stream_id + 1
           /\ stream_state_id[i] = 0
           /\ stream_state_handler'[i].fn = "NULL"
           /\ \A j \in Slots : j # i =>
                /\ stream_state_id'[j] = stream_state_id[j]
                /\ stream_state_handler'[j] = stream_state_handler[j]
                /\ stream_state_generation'[j] = stream_state_generation[j]
           /\ handle' = IF sub
                        THEN [handle EXCEPT ![next_stream_id] =
                                [index |-> i, gen |-> NextGen(stream_state_generation[i])]]
                        ELSE handle
           /\ \A d \in Callers : d # c => call'[d] = call[d]
           /\ \/ /\ SendFails(c, sub, i)
                 /\ stream_state_id'[i] = 0
                 /\ stream_state_generation'[i] = NextGen(NextGen(stream_state_generation[i]))
              \/ /\ SendAndWait(c, sub, i)
                 /\ stream_state_id'[i] = next_stream_id
                 /\ stream_state_handler'[i] = ResponseHandler(c)
                 /\ stream_state_generation'[i] = NextGen(stream_state_generation[i])
                 /\ call'[c].sub = sub
  <1>1. Claim(c, sub, i) /\ TypeOK
    BY Zenon DEF Requests, SendFails, SendAndWait, IInv
  <1>2. /\ next_stream_id \in StreamIds /\ next_stream_id' = next_stream_id + 1
        /\ stream_state_id[i] = 0
    BY <1>1, ClaimEffect, Zenon
  <1>3. handle' = IF sub
                  THEN [handle EXCEPT ![next_stream_id] =
                          [index |-> i, gen |-> NextGen(stream_state_generation[i])]]
                  ELSE handle
    BY <1>1, Zenon DEF Claim
  <1>4. CASE SendFails(c, sub, i)
    <2>1. \A d \in Callers : d # c => call'[d] = call[d]
      BY <1>1, <1>4, Zenon DEF SendFails, Return, TypeOK
    <2> QED
      BY <1>1, <1>2, <1>3, <1>4, <2>1, Zenon DEF SendFails, set_stream_index, TypeOK, NoHandler
  <1>5. CASE SendAndWait(c, sub, i)
    <2>1. call'[c].sub = sub /\ \A d \in Callers : d # c => call'[d] = call[d]
      BY <1>1, <1>5, Zenon DEF SendAndWait, TypeOK
    <2> QED
      BY <1>1, <1>2, <1>3, <1>5, <2>1, Zenon DEF SendAndWait, set_stream_index, TypeOK, ResponseHandler
  <1> QED
    BY <1>4, <1>5, Zenon DEF Requests

\* The table after a request.
LEMMA RequestSlots ==
    ASSUME IInv, NEW c \in Callers, NEW sub \in BOOLEAN, NEW i \in Slots, Requests(c, sub, i)
    PROVE  /\ next_stream_id \in StreamIds /\ next_stream_id' = next_stream_id + 1
           /\ stream_state_id[i] = 0
           /\ stream_state_id'[i] \in {0, next_stream_id}
           /\ stream_state_handler'[i].fn = "NULL"
           /\ \A j \in Slots : j # i =>
                /\ stream_state_id'[j] = stream_state_id[j]
                /\ stream_state_handler'[j] = stream_state_handler[j]
  BY RequestEffect

\* A request that leaves its slot in use has filled it.
LEMMA RequestOutcome ==
    ASSUME IInv, NEW c \in Callers, NEW sub \in BOOLEAN, NEW i \in Slots, Requests(c, sub, i)
    PROVE  \/ stream_state_id'[i] = 0
           \/ /\ stream_state_id'[i] = next_stream_id
              /\ stream_state_handler'[i] = ResponseHandler(c)
              /\ stream_state_generation'[i] = NextGen(stream_state_generation[i])
              /\ call'[c].sub = sub
  BY RequestEffect

\* Arming a slot sets its handler and nothing else of the table.
LEMMA ArmsEffect ==
    ASSUME IInv, NEW i \in Slots, NEW s \in StreamIds, Arms(i, s)
    PROVE  /\ stream_state_id'[i] = s /\ stream_state_handler'[i] = SubHandler(s)
           /\ \A j \in Slots : j # i =>
                /\ stream_state_id'[j] = stream_state_id[j]
                /\ stream_state_handler'[j] = stream_state_handler[j]
           /\ UNCHANGED <<stream_state_generation, next_stream_id, handle>>
  BY Zenon DEF Arms, set_stream_index, IInv, TypeOK

\* An armed slot carries the context of its own stream's subscription.
LEMMA ArmedCtxStep ==
    ASSUME IInv, CallbackSlot, ArmedCtx, [Next]_vars
    PROVE  ArmedCtx'
  <1>1. CASE KeepsTable
    BY <1>1, Zenon DEF KeepsTable, ArmedCtx, table
  <1>2. ASSUME NEW i \in Slots, Clears(i) PROVE ArmedCtx'
    <2>1. stream_state_handler'[i] = NoHandler
      BY <1>2, Zenon DEF Clears, clear_stream_index, set_stream_index, IInv, TypeOK
    <2> QED
      BY <1>2, <2>1, ClearEffect DEF Clears, IInv, ArmedCtx, NoHandler
  <1>3. ASSUME NEW i \in Slots, NEW s \in StreamIds, Arms(i, s) PROVE ArmedCtx'
    BY <1>3, ArmsEffect DEF ArmedCtx
  <1>4. ASSUME NEW c \in Callers, NEW sub \in BOOLEAN, NEW i \in Slots, Requests(c, sub, i)
        PROVE  ArmedCtx'
    BY <1>4, RequestEffect DEF ArmedCtx
  <1> QED
    BY <1>1, <1>2, <1>3, <1>4, TableSteps, Zenon DEF TableStep

\* Both facts hold in every reachable state.
LEMMA CallbackInvariant == Spec => [](IInv /\ CallbackSlot /\ ArmedCtx)
  <1>1. Init => CallbackSlot /\ ArmedCtx
    BY DEF Init, CallbackSlot, ArmedCtx, InCallback, Polling, NoHandler
  <1>2. IInv /\ CallbackSlot /\ ArmedCtx /\ [Next]_vars => CallbackSlot' /\ ArmedCtx'
    BY CallbackSlotStep, ArmedCtxStep, Zenon
  <1> QED
    BY <1>1, <1>2, InitInv, NextInv, PTL DEF Spec

-----------------------------------------------------------------------------
(* Handles.                                                                  *)

\* Without a wrap-around the generation is a counter.
LEMMA NextGenGrows ==
    ASSUME NEW g \in Gens
    PROVE  /\ NextGen(g) >= g => NextGen(g) = g + 1
           /\ NextGen(NextGen(g)) >= g => NextGen(NextGen(g)) = g + 2
  <1>1. g \in Nat /\ g < GenMod /\ GenMod \in Nat /\ GenMod > 2
    BY ConstantsAssumption DEF Gens
  <1>2. NextGen(g) = IF g + 1 < GenMod THEN g + 1 ELSE 0
    BY <1>1 DEF NextGen
  <1>3. NextGen(g + 1) = IF g + 2 < GenMod THEN g + 2 ELSE IF g + 2 = GenMod THEN 0 ELSE 1
    BY <1>1 DEF NextGen
  <1>4. NextGen(0) = 1
    BY <1>1 DEF NextGen
  <1> QED
    BY <1>1, <1>2, <1>3, <1>4

\* clear_stream_index moves on the generation of its slot and of no other.
LEMMA ClearGeneration ==
    ASSUME TypeOK, NEW i \in Slots, clear_stream_index(i), GenerationsStep
    PROVE  /\ stream_state_generation'[i] = stream_state_generation[i] + 1
           /\ \A j \in Slots : j # i => stream_state_generation'[j] = stream_state_generation[j]
  <1>1. stream_state_generation[i] \in Gens
    BY Zenon DEF TypeOK
  <1>2. stream_state_generation'[i] = NextGen(stream_state_generation[i])
    BY Zenon DEF TypeOK, clear_stream_index
  <1>3. stream_state_generation'[i] = stream_state_generation[i] + 1
    BY <1>1, <1>2, NextGenGrows, Zenon DEF GenerationsStep
  <1> QED
    BY <1>3, Zenon DEF TypeOK, clear_stream_index

\* A handle never runs ahead of its slot, and matches it only for its own stream.
LEMMA HandleOKStep ==
    ASSUME IInv, CallbackSlot, HandleOK, [Next]_vars, GenerationsStep
    PROVE  HandleOK'
  <1>0. /\ next_stream_id \in Nat
        /\ \A s \in StreamIds : handle[s].gen \in Nat
        /\ \A i \in Slots : stream_state_generation[i] \in Gens /\ stream_state_generation[i] \in Nat
        /\ 0 \notin StreamIds /\ StreamIds \subseteq Nat
    <2>1. Gens \subseteq Nat
      BY ConstantsAssumption DEF Gens
    <2>2. next_stream_id \in Nat
      BY ConstantsAssumption DEF IInv, TypeOK
    <2>3. \A s \in StreamIds : handle[s].gen \in Gens
      BY Zenon DEF IInv, TypeOK, Handles
    <2>4. \A i \in Slots : stream_state_generation[i] \in Gens
      BY Zenon DEF IInv, TypeOK
    <2>5. 0 \notin StreamIds /\ StreamIds \subseteq Nat
      BY ConstantsAssumption DEF StreamIds
    <2> QED
      BY <2>1, <2>2, <2>3, <2>4, <2>5, Zenon
  <1>1. CASE KeepsTable
    BY <1>1, Zenon DEF KeepsTable, HandleOK, table
  <1>2. ASSUME NEW i \in Slots, Clears(i) PROVE HandleOK'
    <2>1. /\ stream_state_generation'[i] = stream_state_generation[i] + 1
          /\ \A j \in Slots : j # i =>
                /\ stream_state_generation'[j] = stream_state_generation[j]
                /\ stream_state_id'[j] = stream_state_id[j]
          /\ UNCHANGED <<next_stream_id, handle>>
      BY <1>2, ClearEffect, ClearGeneration, Zenon DEF Clears, IInv
    <2>2. ASSUME NEW s \in StreamIds, handle[s] # NoHandle
          PROVE  LET n == handle[s].index
                 IN  /\ handle[s].gen <= stream_state_generation'[n]
                     /\ handle[s].gen = stream_state_generation'[n] => stream_state_id'[n] = s
      <3>1. /\ handle[s].index \in Slots
            /\ handle[s].gen <= stream_state_generation[handle[s].index]
            /\ handle[s].gen = stream_state_generation[handle[s].index]
                  => stream_state_id[handle[s].index] = s
        BY <2>2, Zenon DEF HandleOK
      <3>2. CASE handle[s].index = i
        BY <1>0, <2>1, <3>1, <3>2
      <3>3. CASE handle[s].index # i
        BY <2>1, <3>1, <3>3, Zenon
      <3> QED
        BY <3>2, <3>3, Zenon
    <2> QED
      BY <2>1, <2>2, Zenon DEF HandleOK
  <1>3. ASSUME NEW i \in Slots, NEW s \in StreamIds, Arms(i, s) PROVE HandleOK'
    <2>1. stream_state_id[i] \in {0, s}
      BY <1>3, Zenon DEF Arms
    <2>2. /\ stream_state_id'[i] = s
          /\ \A j \in Slots : j # i => stream_state_id'[j] = stream_state_id[j]
          /\ UNCHANGED <<stream_state_generation, next_stream_id, handle>>
      BY <1>3, ArmsEffect, Zenon
    <2>3. ASSUME NEW r \in StreamIds PROVE r # 0
      BY <1>0
    <2> QED
      BY <1>3, <2>1, <2>2, <2>3, Zenon DEF HandleOK
  <1>4. ASSUME NEW c \in Callers, NEW sub \in BOOLEAN, NEW i \in Slots, Requests(c, sub, i)
        PROVE  HandleOK'
    <2> DEFINE g == stream_state_generation[i]
               new == [index |-> i, gen |-> g + 1]
    <2>1. /\ g \in Gens /\ g \in Nat
          /\ stream_state_generation'[i] >= g
      BY <1>0, Zenon DEF GenerationsStep
    <2>2. /\ NextGen(g) = g + 1
          /\ \/ stream_state_generation'[i] = g + 2
             \/ stream_state_generation'[i] = g + 1 /\ stream_state_id'[i] = next_stream_id
      <3>1. CASE stream_state_generation'[i] = NextGen(g) /\ stream_state_id'[i] = next_stream_id
        BY <2>1, <3>1, NextGenGrows, Zenon
      <3>2. CASE stream_state_generation'[i] = NextGen(NextGen(g))
        <4>1. NextGen(NextGen(g)) = g + 2
          BY <2>1, <3>2, NextGenGrows, Zenon
        <4>2. NextGen(g) = g + 1
          <5>1. /\ NextGen(g) = IF g + 1 < GenMod THEN g + 1 ELSE 0
                /\ NextGen(0) = 1
            BY <2>1, ConstantsAssumption DEF NextGen, Gens
          <5> QED
            BY <2>1, <4>1, <5>1
        <4> QED
          BY <3>2, <4>1, <4>2, Zenon
      <3> QED
        BY <1>4, <3>1, <3>2, RequestEffect
    <2>3. /\ next_stream_id \in StreamIds /\ next_stream_id' = next_stream_id + 1
          /\ handle' = IF sub THEN [handle EXCEPT ![next_stream_id] = new] ELSE handle
          /\ \A j \in Slots : j # i =>
                /\ stream_state_generation'[j] = stream_state_generation[j]
                /\ stream_state_id'[j] = stream_state_id[j]
      BY <1>4, <2>2, RequestEffect
    <2> SUFFICES ASSUME NEW s \in StreamIds, handle'[s] # NoHandle
                 PROVE  /\ s < next_stream_id'
                        /\ handle'[s].index \in Slots
                        /\ handle'[s].gen <= stream_state_generation'[handle'[s].index]
                        /\ handle'[s].gen = stream_state_generation'[handle'[s].index] =>
                               stream_state_id'[handle'[s].index] = s
      BY Zenon DEF HandleOK
    <2>4. CASE s = next_stream_id /\ sub
      <3>1. handle'[s] = new
        BY <2>3, <2>4, Zenon DEF IInv, TypeOK
      <3> QED
        BY <1>0, <2>1, <2>2, <2>3, <2>4, <3>1
    <2>5. CASE ~(s = next_stream_id /\ sub)
      <3>1. handle'[s] = handle[s]
        BY <2>3, <2>5, Zenon DEF IInv, TypeOK
      <3>2. /\ s < next_stream_id
            /\ handle[s].index \in Slots
            /\ handle[s].gen <= stream_state_generation[handle[s].index]
            /\ handle[s].gen = stream_state_generation[handle[s].index] =>
                   stream_state_id[handle[s].index] = s
        BY <3>1, Zenon DEF HandleOK
      <3>3. CASE handle[s].index = i
        BY <1>0, <2>1, <2>2, <2>3, <3>1, <3>2, <3>3
      <3>4. CASE handle[s].index # i
        BY <1>0, <2>3, <3>1, <3>2, <3>4
      <3> QED
        BY <3>3, <3>4, Zenon
    <2> QED
      BY <2>4, <2>5, Zenon
  <1> QED
    BY <1>1, <1>2, <1>3, <1>4, TableSteps, Zenon DEF TableStep

\* A handle that validate_handle (client.c:101) accepts names the stream it was
\* issued for, whoever uses it and however early: a stale handle never closes the
\* next occupant of the slot, as long as no generation has wrapped around.
THEOREM HandlesNameOwnStream == Spec /\ GenerationsGrow => []HandleNamesOwnStream
  <1>1. Init => HandleOK
    BY Zenon DEF Init, HandleOK
  <1>2. IInv /\ CallbackSlot /\ HandleOK /\ [Next]_vars /\ [GenerationsStep]_vars => HandleOK'
    <2>1. ASSUME IInv, CallbackSlot, HandleOK, [Next]_vars, GenerationsStep PROVE HandleOK'
      BY <2>1, HandleOKStep, Zenon
    <2>2. ASSUME HandleOK, UNCHANGED vars PROVE HandleOK'
      BY <2>2, Zenon DEF HandleOK, vars, table
    <2> QED
      BY <2>1, <2>2, Zenon
  <1>3. HandleOK => HandleNamesOwnStream
    BY Zenon DEF HandleOK, HandleNamesOwnStream, validate_handle
  <1> QED
    BY <1>1, <1>2, <1>3, CallbackInvariant, PTL DEF Spec, GenerationsGrow

-----------------------------------------------------------------------------
(* Handles that are not used early.                                          *)

\* A pending slot's caller waits for its stream, which no one else has a handle
\* to yet.
LEMMA PendingNotHeld ==
    ASSUME EarlyClose = FALSE, IInv, NEW s \in StreamIds, HasHandle(s), NEW i \in Slots,
           stream_state_id[i] = s
    PROVE  stream_state_handler[i].fn # "NULL"
  <1>1. s # 0
    BY ConstantsAssumption DEF StreamIds
  <1> QED
    BY <1>1, Zenon DEF IInv, PendingCtxAlive, HasHandle

\* While a response callback runs, its slot still holds the pending stream.
LEMMA ResponseSlotStep ==
    ASSUME EarlyClose = FALSE, IInv, HandleOK, ResponseSlot, [Next]_vars
    PROVE  ResponseSlot'
  <1>1. CASE recv'.pc \in {"poll", "read", "exited"}
    BY <1>1, Zenon DEF ResponseSlot
  <1>2. CASE RecvStays /\ UNCHANGED table
    BY <1>2, Zenon DEF ResponseSlot, RecvStays, table
  <1>3. ASSUME RecvStays, NEW s \in StreamIds, Closes(s), recv.pc \in {"result_cb", "error_cb"}
        PROVE  ResponseSlot'
    <2> DEFINE i == handle[s].index
    <2>1. i \in Slots /\ HasHandle(s) /\ clear_stream_index(i)
      BY <1>3, Zenon DEF Closes, validate_handle
    <2>2. stream_state_id[i] = s
      BY <1>3, Zenon DEF Closes, validate_handle, HasHandle, HandleOK
    <2>3. i # recv.index
      <3>1. stream_state_handler[i].fn # "NULL"
        BY <2>1, <2>2, PendingNotHeld, Zenon
      <3>2. stream_state_handler[recv.index].fn = "NULL"
        BY <1>3 DEF ResponseSlot, ResponseHandler
      <3> QED
        BY <3>1, <3>2, Zenon
    <2>4. \A j \in Slots : j # i =>
                /\ stream_state_id'[j] = stream_state_id[j]
                /\ stream_state_handler'[j] = stream_state_handler[j]
      BY <2>1, ClearEffect, Zenon DEF IInv
    <2>5. recv.index \in Slots
      BY <1>3, Zenon DEF IInv, RecvFrame
    <2> QED
      BY <1>3, <2>3, <2>4, <2>5, Zenon DEF ResponseSlot, RecvStays, ResponseHandler
  <1>4. ASSUME NEW i \in Slots, NEW pc \in {"result_cb", "error_cb", "sub_cb"}, Enters(pc, i)
        PROVE  ResponseSlot'
    <2>1. /\ recv'.pc = pc /\ recv'.index = i /\ recv'.msg = recv.msg
          /\ recv'.ctx = stream_state_handler[i].ctx
          /\ UNCHANGED table
      BY <1>4, Zenon DEF Enters, EnterCallback, IInv, TypeOK, Receivers
    <2>2. pc # "sub_cb" => stream_state_handler[i].fn = "NULL"
      BY <1>4, Zenon DEF Enters
    <2>3. /\ stream_state_id[i] = recv.msg.id
          /\ stream_state_handler[i].fn = "NULL" =>
                stream_state_handler[i] = ResponseHandler(stream_state_handler[i].ctx)
      BY <1>4, DispatchSlot, Zenon DEF Enters
    <2> QED
      BY <2>1, <2>2, <2>3, Zenon DEF ResponseSlot, table, ResponseHandler
  <1> QED
    BY <1>1, <1>2, <1>3, <1>4, RecvSteps, Zenon DEF ResponseSlot, RecvStays

\* A slot that no step touches stays a subscription only if it was one.
LEMMA SubscribedBefore ==
    ASSUME IInv, IInv', NEW i \in Slots, Subscribed(i)',
           UNCHANGED <<stream_state_id[i], stream_state_handler[i]>>,
           \A c \in Callers : InCall(c)' /\ ~call'[c].ready /\ call'[c].index = i =>
               call'[c].sub = call[c].sub
    PROVE  Subscribed(i)
  <1>1. CASE stream_state_handler[i].fn # "NULL"
    BY <1>1, Zenon DEF Subscribed
  <1>2. CASE stream_state_handler[i].fn = "NULL"
    <2>1. PICK c \in Callers :
              /\ stream_state_handler'[i].ctx = c
              /\ InCall(c)' /\ call'[c].index = i /\ ~call'[c].ready
      BY <1>2 DEF IInv, PendingCtxAlive, Subscribed
    <2>2. call'[c].sub = call[c].sub
      BY <2>1, Zenon
    <2> QED
      BY <1>2, <2>1, <2>2, Zenon DEF Subscribed
  <1> QED
    BY <1>1, <1>2, Zenon

\* An armed slot has the current handle as the one its subscriber was given.
LEMMA HandleIssuedStep ==
    ASSUME IInv, IInv', CallbackSlot, ResponseSlot, HandleIssued, [Next]_vars
    PROVE  HandleIssued'
  <1> SUFFICES ASSUME NEW j \in Slots, Subscribed(j)'
               PROVE  handle'[stream_state_id'[j]] = get_current_handle(j)'
    BY Zenon DEF HandleIssued
  <1>1. CASE KeepsTable
    <2>1. Subscribed(j)
      BY <1>1, SubscribedBefore, Zenon DEF KeepsTable, SameOwners, table
    <2> QED
      BY <1>1, <2>1, Zenon DEF KeepsTable, HandleIssued, get_current_handle, table
  <1>2. ASSUME NEW i \in Slots, Clears(i)
        PROVE  handle'[stream_state_id'[j]] = get_current_handle(j)'
    <2>1. /\ stream_state_id'[i] = 0
          /\ j # i => /\ stream_state_id'[j] = stream_state_id[j]
                      /\ stream_state_handler'[j] = stream_state_handler[j]
      BY <1>2, ClearEffect, Zenon DEF Clears, IInv
    <2>2. j # i
      BY <2>1, Zenon DEF Subscribed
    <2>3. stream_state_generation'[j] = stream_state_generation[j]
      BY <1>2, <2>2, Zenon DEF Clears, clear_stream_index, IInv, TypeOK
    <2>4. Subscribed(j)
      BY <1>2, <2>1, <2>2, SubscribedBefore, Zenon DEF Clears, SameOwners
    <2> QED
      BY <1>2, <2>1, <2>2, <2>3, <2>4, Zenon DEF Clears, HandleIssued, get_current_handle
  <1>3. ASSUME NEW i \in Slots, NEW s \in StreamIds, Arms(i, s)
        PROVE  handle'[stream_state_id'[j]] = get_current_handle(j)'
    <2>1. CASE j = i
      <3>1. Subscribed(i) /\ stream_state_id[i] \in {0, s}
        BY <1>3, Zenon DEF Arms
      <3>2. stream_state_id[i] = s
        BY <3>1, Zenon DEF Subscribed
      <3> QED
        BY <1>3, <2>1, <3>1, <3>2, ArmsEffect DEF HandleIssued, get_current_handle
    <2>2. CASE j # i
      <3>1. Subscribed(j)
        BY <1>3, <2>2, ArmsEffect, SubscribedBefore DEF Arms, SameOwners
      <3> QED
        BY <1>3, <2>2, <3>1, ArmsEffect DEF HandleIssued, get_current_handle
    <2> QED
      BY <2>1, <2>2, Zenon
  <1>4. ASSUME NEW c \in Callers, NEW sub \in BOOLEAN, NEW i \in Slots, Requests(c, sub, i)
        PROVE  handle'[stream_state_id'[j]] = get_current_handle(j)'
    <2> DEFINE new == [index |-> i, gen |-> NextGen(stream_state_generation[i])]
    <2>1. /\ next_stream_id \in StreamIds
          /\ j # i =>
                /\ stream_state_id'[j] = stream_state_id[j]
                /\ stream_state_handler'[j] = stream_state_handler[j]
                /\ stream_state_generation'[j] = stream_state_generation[j]
          /\ handle' = IF sub THEN [handle EXCEPT ![next_stream_id] = new] ELSE handle
          /\ \A d \in Callers : d # c => call'[d] = call[d]
      BY <1>4, RequestEffect
    <2>2. CASE j = i
      <3>1. /\ stream_state_id'[i] = next_stream_id
            /\ stream_state_handler'[i] = ResponseHandler(c)
            /\ stream_state_generation'[i] = NextGen(stream_state_generation[i])
            /\ call'[c].sub = sub
        <4>1. stream_state_id'[i] # 0
          BY <2>2, Zenon DEF Subscribed
        <4>2. \/ stream_state_id'[i] = 0
              \/ /\ stream_state_id'[i] = next_stream_id
                 /\ stream_state_handler'[i] = ResponseHandler(c)
                 /\ stream_state_generation'[i] = NextGen(stream_state_generation[i])
                 /\ call'[c].sub = sub
          BY <1>4, RequestOutcome, Zenon
        <4> QED
          BY <4>1, <4>2, Zenon
      <3>2. sub
        BY <2>2, <3>1 DEF Subscribed, ResponseHandler
      <3>3. handle'[next_stream_id] = new
        BY <2>1, <3>2, Zenon DEF IInv, TypeOK
      <3> QED
        BY <2>2, <3>1, <3>3, Zenon DEF get_current_handle
    <2>3. CASE j # i
      <3>1. ASSUME NEW d \in Callers, InCall(d)', call'[d].index = j
            PROVE  d # c
        <4>1. CASE SendFails(c, sub, i)
          BY <3>1, <4>1, Zenon DEF SendFails, Return, Returned, InCall, IInv, TypeOK
        <4>2. CASE SendAndWait(c, sub, i)
          BY <2>3, <3>1, <4>2, Zenon DEF SendAndWait, IInv, TypeOK
        <4> QED
          BY <1>4, <4>1, <4>2, Zenon DEF Requests
      <3>2. Subscribed(j)
        BY <2>1, <2>3, <3>1, SubscribedBefore, Zenon
      <3>3. stream_state_id[j] # next_stream_id
        BY IdFacts
      <3>4. stream_state_id[j] \in StreamIds
        <4>1. stream_state_id[j] \in 0..MaxStreamId /\ stream_state_id[j] # 0
          BY <3>2, Zenon DEF Subscribed, IInv, TypeOK
        <4> QED
          BY <4>1, ConstantsAssumption DEF StreamIds
      <3>5. handle'[stream_state_id[j]] = handle[stream_state_id[j]]
        BY <2>1, <3>3, <3>4, Zenon DEF IInv, TypeOK
      <3> QED
        BY <2>1, <2>3, <3>2, <3>5, Zenon DEF HandleIssued, get_current_handle
    <2> QED
      BY <2>2, <2>3, Zenon
  <1> QED
    BY <1>1, <1>2, <1>3, <1>4, TableSteps, Zenon DEF TableStep

\* Only ggipc_close_subscription closes a stream.
LEMMA ClosedSteps ==
    ASSUME [Next]_vars
    PROVE  UNCHANGED closed \/ \E s \in StreamIds : ggipc_close_subscription(s)
  <1>1. ASSUME NEW c \in Callers, CallerStep(c) PROVE UNCHANGED closed
    BY <1>1, Zenon DEF CallerStep, LockAndEncode, ggipc_subscribe, Deadline, SpuriousWakeup, Woken, TimedOut
  <1>2. CASE RecvStep
    BY <1>2, Zenon DEF RecvStep, ReadPacket, ReceiveError, dispatch_incoming_packet, CallbackReturns,
                CallbackLocksB64, CallbackPublishRefused
  <1>3. ASSUME NEW m \in Packets, ServerSends(m) PROVE UNCHANGED closed
    BY <1>3, Zenon DEF ServerSends
  <1>4. CASE UNCHANGED vars
    BY <1>4, Zenon DEF vars
  <1> QED
    BY <1>1, <1>2, <1>3, <1>4, Zenon DEF Next

\* A closed stream never gets a slot again.
LEMMA ClosedGoneStep ==
    ASSUME EarlyClose = FALSE, IInv, CallbackSlot, HandleOK, ResponseSlot, HandleIssued,
           ClosedGone, [Next]_vars
    PROVE  ClosedGone'
  <1>0. /\ next_stream_id \in Nat /\ 0 \notin StreamIds /\ StreamIds \subseteq Nat
        /\ closed \subseteq StreamIds
    BY ConstantsAssumption DEF IInv, TypeOK, StreamIds
  <1>1. CASE UNCHANGED closed
    <2>1. CASE KeepsTable
      BY <1>1, <2>1, Zenon DEF KeepsTable, ClosedGone, table
    <2>2. ASSUME NEW i \in Slots, Clears(i) PROVE ClosedGone'
      BY <1>0, <1>1, <2>2, ClearEffect DEF Clears, IInv, ClosedGone
    <2>3. ASSUME NEW i \in Slots, NEW s \in StreamIds, Arms(i, s) PROVE ClosedGone'
      <3>1. Subscribed(i) /\ stream_state_id[i] \in {0, s}
        BY <2>3, Zenon DEF Arms
      <3>2. stream_state_id[i] = s
        BY <3>1, Zenon DEF Subscribed
      <3> QED
        BY <1>1, <2>3, <3>2, ArmsEffect DEF ClosedGone
    <2>4. ASSUME NEW c \in Callers, NEW sub \in BOOLEAN, NEW i \in Slots, Requests(c, sub, i)
          PROVE  ClosedGone'
      <3>1. /\ next_stream_id' = next_stream_id + 1
            /\ stream_state_id'[i] \in {0, next_stream_id}
            /\ \A j \in Slots : j # i => stream_state_id'[j] = stream_state_id[j]
        BY <2>4, RequestSlots, Zenon
      <3>2. ASSUME NEW s \in closed
            PROVE  s < next_stream_id' /\ \A j \in Slots : stream_state_id'[j] # s
        <4>1. s \in Nat /\ s # 0 /\ s < next_stream_id /\ \A j \in Slots : stream_state_id[j] # s
          BY <1>0, Zenon DEF ClosedGone
        <4>2. s < next_stream_id' /\ s # next_stream_id
          BY <1>0, <3>1, <4>1
        <4> QED
          BY <3>1, <4>1, <4>2, Zenon
      <3> QED
        BY <1>1, <3>2, Zenon DEF ClosedGone
    <2> QED
      BY <2>1, <2>2, <2>3, <2>4, TableSteps, Zenon DEF TableStep
  <1>2. ASSUME NEW s \in StreamIds, ggipc_close_subscription(s) PROVE ClosedGone'
    <2>1. /\ HasHandle(s) /\ closed' = closed \cup {s} /\ next_stream_id' = next_stream_id
          /\ s < next_stream_id
      BY <1>2, Zenon DEF ggipc_close_subscription, HasHandle, HandleOK
    <2>2. CASE KeepsTable /\ ~validate_handle(handle[s])
      <3>1. ASSUME NEW j \in Slots, stream_state_id[j] = s PROVE FALSE
        <4>1. stream_state_handler[j].fn # "NULL" /\ s # 0
          BY <1>0, <2>1, <3>1, PendingNotHeld, Zenon
        <4>2. handle[s] = get_current_handle(j)
          BY <3>1, <4>1, Zenon DEF HandleIssued, Subscribed
        <4> QED
          BY <2>2, <4>2 DEF validate_handle, get_current_handle
      <3> QED
        BY <2>1, <2>2, <3>1, Zenon DEF ClosedGone, KeepsTable, table
    <2>3. CASE validate_handle(handle[s]) /\ Clears(handle[s].index)
      <3> DEFINE i == handle[s].index
      <3>1. i \in Slots /\ stream_state_id[i] = s
        BY <2>1, <2>3, Zenon DEF validate_handle, HasHandle, HandleOK
      <3>2. /\ stream_state_id'[i] = 0
            /\ \A j \in Slots : j # i => stream_state_id'[j] = stream_state_id[j]
        BY <2>3, <3>1, ClearEffect, Zenon DEF Clears, IInv
      <3>3. \A j \in Slots : j # i => stream_state_id[j] # s
        BY <1>0, <3>1, Zenon DEF IInv, StreamIdsUnique
      <3> QED
        BY <1>0, <2>1, <3>2, <3>3, Zenon DEF ClosedGone
    <2>4. KeepsTable => (KeepsTable /\ ~validate_handle(handle[s])) \/ Clears(handle[s].index)
      BY <1>2, UnchangedOwners, Zenon
         DEF ggipc_close_subscription, KeepsTable, Clears, close_stream
    <2> QED
      BY <1>2, <2>2, <2>3, <2>4, CloseTable, Zenon DEF ggipc_close_subscription
  <1> QED
    BY <1>1, <1>2, ClosedSteps, Zenon

\* All of it together.
StreamInv ==
    /\ IInv /\ CallbackSlot /\ ArmedCtx
    /\ HandleOK /\ ResponseSlot /\ HandleIssued /\ ClosedGone

\* The invariant holds in every run in which the generations do not wrap.
LEMMA StreamInvariant ==
    ASSUME EarlyClose = FALSE
    PROVE  Spec /\ GenerationsGrow => []StreamInv
  <1>1. Init => StreamInv
    <2> SUFFICES ASSUME Init PROVE StreamInv
      BY Zenon
    <2>1. CallbackSlot /\ ArmedCtx /\ ResponseSlot
      BY Zenon DEF Init, CallbackSlot, ArmedCtx, ResponseSlot, InCallback, Polling, NoHandler
    <2>2. HandleOK /\ HandleIssued /\ ClosedGone
      BY Zenon DEF Init, HandleOK, HandleIssued, Subscribed, ClosedGone
    <2> QED
      BY <2>1, <2>2, InitInv, Zenon DEF StreamInv
  <1>2. StreamInv /\ [Next]_vars /\ [GenerationsStep]_vars => StreamInv'
    <2>1. ASSUME StreamInv, [Next]_vars, GenerationsStep PROVE StreamInv'
      <3>1. IInv'
        BY <2>1, NextInv, Zenon DEF StreamInv
      <3> QED
        BY <2>1, <3>1, CallbackSlotStep, ArmedCtxStep, HandleOKStep, ResponseSlotStep,
           HandleIssuedStep, ClosedGoneStep, Zenon DEF StreamInv
    <2>2. ASSUME StreamInv, UNCHANGED vars PROVE StreamInv'
      <3>1. GenerationsStep
        BY <2>2 DEF GenerationsStep, vars, table, StreamInv, IInv, TypeOK, Gens
      <3> QED
        BY <2>1, <2>2, <3>1, Zenon
    <2> QED
      BY <2>1, <2>2, Zenon
  <1> QED
    BY <1>1, <1>2, PTL DEF Spec, GenerationsGrow

\* Handles are exact both ways: one that validate_handle accepts names its own
\* stream, and the handle of every armed subscription is the one its caller was
\* given, so that it can be closed.
THEOREM HandlesAreExact ==
    ASSUME EarlyClose = FALSE
    PROVE  Spec /\ GenerationsGrow => []HandlesExact
  <1>1. StreamInv => HandlesExact
    BY Zenon DEF StreamInv, HandleOK, HandleIssued, Subscribed, HandlesExact, HandleNamesOwnStream,
           ArmedHandleIsIssued, validate_handle
  <1> QED
    BY <1>1, StreamInvariant, PTL

\* Once ggipc_close_subscription has returned, dispatch_incoming_packet never calls
\* the subscription's callback again, whichever thread closed it and whatever was
\* in flight.
THEOREM ClosedNotCalledAgain ==
    ASSUME EarlyClose = FALSE
    PROVE  Spec /\ GenerationsGrow => NoCallbackAfterClose
  <1>1. StreamInv /\ [Next]_vars =>
            (recv.pc # "sub_cb" /\ recv'.pc = "sub_cb" => recv'.ctx \notin closed)
    <2> SUFFICES ASSUME StreamInv, [Next]_vars, recv.pc # "sub_cb", recv'.pc = "sub_cb"
                 PROVE  recv'.ctx \notin closed
      BY Zenon
    <2>1. PICK i \in Slots, pc \in {"result_cb", "error_cb", "sub_cb"} : Enters(pc, i)
      BY RecvSteps, Zenon DEF StreamInv, RecvStays
    <2>2. recv'.pc = pc /\ recv'.ctx = stream_state_handler[i].ctx
      BY <2>1, Zenon DEF Enters, EnterCallback, StreamInv, IInv, TypeOK, Receivers
    <2>3. stream_state_handler[i].fn # "NULL"
      BY <2>1, <2>2, Zenon DEF Enters
    <2>4. recv'.ctx = stream_state_id[i]
      <3>1. stream_state_handler[i] = SubHandler(stream_state_id[i])
        BY <2>3, Zenon DEF StreamInv, ArmedCtx
      <3>2. stream_state_handler[i].ctx = stream_state_id[i]
        BY <3>1 DEF SubHandler
      <3> QED
        BY <2>2, <3>2, Zenon
    <2> QED
      BY <2>4, Zenon DEF StreamInv, ClosedGone
  <1> QED
    BY <1>1, StreamInvariant, PTL DEF Spec, NoCallbackAfterClose

-----------------------------------------------------------------------------
(* The table and the server.                                                  *)

InTable(s) == \E i \in Slots : stream_state_id[i] = s

\* A packet that ends stream s is queued or being dispatched.
Ending(s) ==
    \/ recv.msg.id = s /\ recv.msg.term /\ recv.pc # "poll"
    \/ \E k \in 1..Len(inbox) : inbox[k].id = s /\ inbox[k].term

\* The packet that ends a stream is not lost while the stream has a slot.
KeepsEnds == \A s \in StreamIds : Ending(s) => Ending(s)' \/ ~InTable(s)'

\* What a step can do to the server's view of the streams.
ServerStep ==
    \/ UNCHANGED <<stream_state_id, srv, undelivered>> /\ KeepsEnds
    \/ \E i \in Slots : close_stream(i) /\ KeepsEnds
    \/ \E i \in Slots :
         /\ clear_stream_index(i) /\ UNCHANGED server /\ KeepsEnds
         /\ recv.msg.term /\ stream_state_id[i] \in {0, recv.msg.id}
    \/ \E c \in Callers, sub \in BOOLEAN, i \in Slots :
         Requests(c, sub, i) /\ SendAndWait(c, sub, i) /\ UNCHANGED recv
    \/ \E m \in Packets : ServerSends(m)

\* A dispatch that ends without a terminating packet loses no end of stream.
LEMMA PollKeepsEnds ==
    ASSUME TypeOK, recv' = Polling, UNCHANGED inbox,
           ~recv.msg.term \/ \A j \in Slots : stream_state_id'[j] # recv.msg.id
    PROVE  KeepsEnds
  BY Zenon DEF KeepsEnds, Ending, InTable

\* The end of a response's handling, as the server sees it.
LEMMA FinishResponseServer ==
    ASSUME IInv, NEW i \in Slots, NEW m \in Packets, NEW ok \in BOOLEAN,
           NEW c \in Callers, m = recv.msg, m.id \in StreamIds,
           stream_state_id[i] = m.id,
           \A j \in Slots : stream_state_id[j] = m.id => j = i,
           FinishResponse(i, c, m, ok)
    PROVE  ServerStep
  <1>1. recv' = Polling
    BY Zenon DEF FinishResponse
  <1>2. CASE ~m.term /\ close_stream(i)
    BY <1>1, <1>2, PollKeepsEnds, Zenon DEF ServerStep, IInv, close_stream, SendTerminate
  <1>3. CASE m.term /\ clear_stream_index(i) /\ UNCHANGED server
    <2>1. \A j \in Slots : stream_state_id'[j] # recv.msg.id
      <3>1. 0 \notin StreamIds
        BY ConstantsAssumption DEF StreamIds
      <3> QED
        BY <1>3, <3>1, ClearEffect, ZenonT(90) DEF IInv
    <2> QED
      BY <1>1, <1>3, <2>1, PollKeepsEnds, Zenon DEF ServerStep, IInv, server
  <1>4. CASE ~m.term /\ set_stream_index(i, m.id, SubHandler(m.id)) /\ UNCHANGED server
    <2>1. stream_state_id' = stream_state_id
      BY <1>4, Zenon DEF set_stream_index, IInv, TypeOK
    <2> QED
      BY <1>1, <1>4, <2>1, PollKeepsEnds, Zenon DEF ServerStep, IInv, server
  <1> QED
    BY ZenonT(90), <1>2, <1>3, <1>4 DEF FinishResponse

\* The end of an event's handling, as the server sees it.
LEMMA FinishEventServer ==
    ASSUME IInv, NEW i \in Slots, NEW m \in Packets, NEW ok \in BOOLEAN,
           m = recv.msg, m.id \in StreamIds,
           stream_state_id[i] \in {0, m.id},
           \A j \in Slots : stream_state_id[j] = m.id => j = i,
           FinishEvent(i, m, ok)
    PROVE  ServerStep
  <1>1. recv' = Polling
    BY Zenon DEF FinishEvent
  <1>2. CASE ~m.term /\ close_stream(i)
    BY <1>1, <1>2, PollKeepsEnds, Zenon DEF ServerStep, IInv, close_stream, SendTerminate
  <1>3. CASE m.term /\ clear_stream_index(i) /\ UNCHANGED server
    <2>1. \A j \in Slots : stream_state_id'[j] # recv.msg.id
      <3>1. 0 \notin StreamIds
        BY ConstantsAssumption DEF StreamIds
      <3> QED
        BY <1>3, <3>1, ClearEffect DEF IInv
    <2> QED
      BY <1>1, <1>3, <2>1, PollKeepsEnds, Zenon DEF ServerStep, IInv, server
  <1>4. CASE ~m.term /\ UNCHANGED <<table, server>>
    BY <1>1, <1>4, PollKeepsEnds, Zenon DEF ServerStep, IInv, server, table
  <1> QED
    BY ZenonT(90), <1>2, <1>3, <1>4 DEF FinishEvent

\* dispatch_incoming_packet, as the server sees it.
LEMMA DispatchServer ==
    ASSUME IInv, dispatch_incoming_packet
    PROVE  ServerStep
  <1>1. recv.pc = "read" /\ recv \in Receivers
    BY Zenon DEF dispatch_incoming_packet, IInv, TypeOK
  <1>2. CASE /\ ~\E i \in Slots : get_stream_index_from_id(recv.msg.id, i)
             /\ recv' = Polling
             /\ UNCHANGED <<table, call, server>>
    <2>1. TypeOK /\ UNCHANGED <<stream_state_id, srv, undelivered, inbox>>
      BY <1>2, Zenon DEF table, server, IInv
    <2>2. ASSUME recv.msg.id \in StreamIds, NEW i \in Slots, stream_state_id[i] = recv.msg.id
          PROVE  FALSE
      <3>1. recv.msg.id > 0 /\ recv.msg.id # 0
        BY <2>2, ConstantsAssumption DEF StreamIds
      <3>2. \A j \in Slots : stream_state_id[j] = recv.msg.id => j = i
        BY <2>2, <3>1, Zenon DEF IInv, StreamIdsUnique
      <3>3. \A j \in Slots : j < i => j # i
        BY ConstantsAssumption DEF Slots
      <3>4. get_stream_index_from_id(recv.msg.id, i)
        BY <2>2, <3>1, <3>2, <3>3, Zenon DEF get_stream_index_from_id
      <3> QED
        BY <1>2, <3>4, Zenon
    <2>3. KeepsEnds
      BY <1>2, <2>1, <2>2, Zenon DEF KeepsEnds, Ending, InTable
    <2> QED
      BY <2>1, <2>3, Zenon DEF ServerStep
  <1>3. ASSUME NEW i \in Slots, get_stream_index_from_id(recv.msg.id, i),
               \/ /\ stream_state_handler[i].fn = "NULL"
                  /\ DispatchResponse(i, recv.msg)
               \/ /\ stream_state_handler[i].fn # "NULL"
                  /\ DispatchEvent(i, recv.msg)
        PROVE  ServerStep
    <2>1. ASSUME NEW pc \in {"result_cb", "error_cb", "sub_cb"}, EnterCallback(pc, i)
          PROVE  ServerStep
      <3>1. recv'.msg = recv.msg /\ recv'.pc # "poll"
        BY <1>1, <2>1, Zenon DEF EnterCallback, Receivers
      <3>2. UNCHANGED <<stream_state_id, srv, undelivered, inbox>>
        BY <2>1, Zenon DEF EnterCallback, table, server
      <3> QED
        BY <3>1, <3>2, Zenon DEF ServerStep, KeepsEnds, Ending
    <2>2. ASSUME NEW ok \in BOOLEAN, stream_state_handler[i].fn = "NULL",
                 FinishResponse(i, stream_state_handler[i].ctx, recv.msg, ok)
          PROVE  ServerStep
      BY ZenonT(90), <1>1, <1>3, <2>2, DispatchSlot, FinishResponseServer
    <2>3. ASSUME NEW ok \in BOOLEAN, FinishEvent(i, recv.msg, ok)
          PROVE  ServerStep
      BY ZenonT(90), <1>1, <1>3, <2>3, DispatchSlot, FinishEventServer
    <2> QED
      BY <1>3, <2>1, <2>2, <2>3, Zenon DEF DispatchResponse, DispatchEvent
  <1> QED
    BY <1>2, <1>3, Zenon DEF dispatch_incoming_packet

\* The return of a callback, as the server sees it.
LEMMA CallbackReturnsServer ==
    ASSUME IInv, CallbackSlot, ResponseSlot, NEW ok \in BOOLEAN, CallbackReturns(ok)
    PROVE  ServerStep
  <1>1. /\ recv.msg \in Packets /\ recv.index \in Slots /\ recv.msg.id \in StreamIds
        /\ stream_state_id[recv.index] \in {0, recv.msg.id}
        /\ \A j \in Slots : stream_state_id[j] = recv.msg.id => j = recv.index
    BY Zenon DEF CallbackReturns, IInv, TypeOK, Receivers, CallbackSlot
  <1>2. CASE /\ recv.pc \in {"result_cb", "error_cb"}
             /\ FinishResponse(recv.index, recv.ctx, recv.msg,
                               ok /\ recv.pc = "result_cb")
    <2>1. (ok /\ recv.pc = "result_cb") \in BOOLEAN
      BY Zenon
    <2>2. stream_state_id[recv.index] = recv.msg.id /\ recv.ctx \in Callers
      BY <1>2, CallbackFrame, Zenon DEF ResponseSlot
    <2> QED
      BY ZenonT(90), <1>1, <1>2, <2>1, <2>2, FinishResponseServer
  <1>3. CASE recv.pc = "sub_cb" /\ FinishEvent(recv.index, recv.msg, ok)
    BY <1>1, <1>3, FinishEventServer
  <1> QED
    BY <1>2, <1>3, Zenon DEF CallbackReturns

\* A step that leaves the inbox and the receive thread alone loses nothing.
LEMMA StillEnding ==
    ASSUME UNCHANGED <<inbox, recv>>
    PROVE  KeepsEnds
  BY Zenon DEF KeepsEnds, Ending

\* A caller's step, as the server sees it.
LEMMA CallerServer ==
    ASSUME IInv, NEW c \in Callers, CallerStep(c)
    PROVE  ServerStep
  <1>1. CASE LockAndEncode(c) \/ Deadline(c) \/ SpuriousWakeup(c) \/ Woken(c)
    BY <1>1, StillEnding, Zenon
       DEF LockAndEncode, Deadline, SpuriousWakeup, Woken, ServerStep, table, server
  <1>2. ASSUME NEW sub \in BOOLEAN, ggipc_subscribe(c, sub)
        PROVE  ServerStep
    <2>1. MtxFree /\ ~InCall(c) /\ UNCHANGED recv
      BY <1>2, Zenon DEF ggipc_subscribe, InCall
    <2>2. CASE NoFreeSlot(c)
      BY <2>1, <2>2, StillEnding, Zenon DEF NoFreeSlot, ServerStep, table, server
    <2>3. ASSUME NEW i \in Slots, SendFails(c, sub, i)
          PROVE  ServerStep
      <3>1. stream_state_id' = stream_state_id
        BY <2>3, Zenon DEF SendFails, Claim, FirstFree, set_stream_index, IInv, TypeOK
      <3> QED
        BY <2>1, <2>3, <3>1, StillEnding, Zenon DEF SendFails, ServerStep, server
    <2>4. ASSUME NEW i \in Slots, SendAndWait(c, sub, i)
          PROVE  ServerStep
      BY <2>1, <2>4, Zenon DEF ServerStep, Requests
    <2> QED
      BY <1>2, <2>2, <2>3, <2>4, Zenon DEF ggipc_subscribe
  <1>3. CASE TimedOut(c)
    <2>1. call[c].index \in Slots
      BY <1>3, Zenon DEF TimedOut, IInv, FrameOK, InCall
    <2> QED
      BY <1>3, <2>1, StillEnding, Zenon DEF TimedOut, close_stream, SendTerminate, ServerStep
  <1> QED
    BY <1>1, <1>2, <1>3, Zenon DEF CallerStep

\* Every step does one of the few things ServerStep lists to the streams of the server.
LEMMA ServerSteps ==
    ASSUME IInv, CallbackSlot, ResponseSlot, [Next]_vars
    PROVE  ServerStep
  <1>0. recv \in Receivers /\ inbox \in Seq(Packets)
    BY Zenon DEF IInv, TypeOK
  <1>1. ASSUME NEW c \in Callers, CallerStep(c) PROVE ServerStep
    BY <1>1, CallerServer, Zenon
  <1>2. CASE dispatch_incoming_packet
    BY <1>2, DispatchServer, Zenon
  <1>3. ASSUME NEW ok \in BOOLEAN, CallbackReturns(ok) PROVE ServerStep
    BY <1>3, CallbackReturnsServer, Zenon
  <1>4. CASE ReadPacket
    <2>1. /\ recv.pc = "poll" /\ inbox # <<>> /\ inbox' = Tail(inbox)
          /\ recv'.pc = "read" /\ recv'.msg = Head(inbox)
          /\ UNCHANGED <<stream_state_id, srv, undelivered>>
      BY <1>0, <1>4, Zenon DEF ReadPacket, Receivers, table
    <2>2. \A k \in 1..Len(inbox) :
            \/ inbox[k] = Head(inbox)
            \/ k - 1 \in 1..Len(Tail(inbox)) /\ Tail(inbox)[k - 1] = inbox[k]
      BY <1>0, <2>1
    <2>3. KeepsEnds
      BY <2>1, <2>2, Zenon DEF KeepsEnds, Ending
    <2> QED
      BY <2>1, <2>3, Zenon DEF ServerStep
  <1>5. CASE ReceiveError \/ CallbackLocksB64 \/ CallbackPublishRefused
    <2>1. recv'.msg = recv.msg /\ (recv'.pc = recv.pc \/ recv'.pc # "poll")
      BY <1>0, <1>5, Zenon DEF ReceiveError, CallbackLocksB64, CallbackPublishRefused, Receivers
    <2>2. UNCHANGED <<stream_state_id, srv, undelivered, inbox>>
      BY <1>5, Zenon DEF ReceiveError, CallbackLocksB64, CallbackPublishRefused, table, server
    <2> QED
      BY <2>1, <2>2, Zenon DEF ServerStep, KeepsEnds, Ending
  <1>6. ASSUME NEW s \in StreamIds, ggipc_close_subscription(s) PROVE ServerStep
    <2>1. CASE UNCHANGED <<table, server>>
      BY <1>6, <2>1, StillEnding, Zenon DEF ggipc_close_subscription, ServerStep, table, server
    <2>2. CASE validate_handle(handle[s]) /\ close_stream(handle[s].index)
      BY <1>6, <2>2, StillEnding, Zenon
         DEF ggipc_close_subscription, validate_handle, close_stream, SendTerminate, ServerStep
    <2> QED
      BY <1>6, <2>1, <2>2, Zenon DEF ggipc_close_subscription
  <1>7. ASSUME NEW m \in Packets, ServerSends(m) PROVE ServerStep
    BY <1>7, Zenon DEF ServerStep
  <1>8. CASE UNCHANGED vars
    BY <1>8, StillEnding, Zenon DEF vars, ServerStep, table, server
  <1> QED
    BY <1>1, <1>2, <1>3, <1>4, <1>5, <1>6, <1>7, <1>8, Zenon DEF Next, RecvStep

\* The packets in flight after a step were in flight before, or have just been
\* sent.
LEMMA PacketSteps ==
    ASSUME IInv, [Next]_vars
    PROVE  \/ \E m \in Packets : ServerSends(m)
           \/ recv'.msg \in {recv.msg, NoPacket} /\ inbox' = inbox
           \/ inbox # <<>> /\ recv'.msg = Head(inbox) /\ inbox' = Tail(inbox)
  <1>0. recv \in Receivers
    BY Zenon DEF IInv, TypeOK
  <1> DEFINE Keeps == recv'.msg \in {recv.msg, NoPacket} /\ inbox' = inbox
  <1>1. ASSUME NEW c \in Callers, CallerStep(c) PROVE Keeps
    BY <1>1, Zenon DEF CallerStep, LockAndEncode, ggipc_subscribe, NoFreeSlot, SendFails, SendAndWait,
                Deadline, SpuriousWakeup, Woken, TimedOut, close_stream, SendTerminate, server
  <1>2. ASSUME NEW i, NEW pc, EnterCallback(pc, i) PROVE Keeps
    BY <1>0, <1>2, Zenon DEF EnterCallback, Receivers, server
  <1>3. ASSUME NEW i, NEW c, NEW m, NEW ok, FinishResponse(i, c, m, ok) PROVE Keeps
    <2>1. recv'.msg = NoPacket
      BY <1>3, Zenon DEF FinishResponse, Polling
    <2>2. inbox' = inbox
      BY <1>3, Zenon DEF FinishResponse, close_stream, SendTerminate, server
    <2> QED
      BY <2>1, <2>2, Zenon
  <1>4. ASSUME NEW i, NEW m, NEW ok, FinishEvent(i, m, ok) PROVE Keeps
    BY <1>4, Zenon DEF FinishEvent, close_stream, SendTerminate, server, Polling
  <1>5. CASE dispatch_incoming_packet
    <2>1. ASSUME recv' = Polling, UNCHANGED server PROVE Keeps
      BY <2>1, Zenon DEF Polling, server
    <2>2. ASSUME NEW i \in Slots, DispatchResponse(i, recv.msg) PROVE Keeps
      BY <1>2, <1>3, <2>2, Zenon DEF DispatchResponse
    <2>3. ASSUME NEW i \in Slots, DispatchEvent(i, recv.msg) PROVE Keeps
      BY <1>2, <1>4, <2>3, Zenon DEF DispatchEvent
    <2> QED
      BY <1>5, <2>1, <2>2, <2>3, Zenon DEF dispatch_incoming_packet
  <1>6. ASSUME NEW ok \in BOOLEAN, CallbackReturns(ok) PROVE Keeps
    BY <1>3, <1>4, <1>6, Zenon DEF CallbackReturns
  <1>7. CASE ReceiveError \/ CallbackLocksB64 \/ CallbackPublishRefused \/ UNCHANGED vars
    BY <1>0, <1>7, Zenon DEF ReceiveError, CallbackLocksB64, CallbackPublishRefused, Receivers, server, vars
  <1>8. ASSUME NEW s \in StreamIds, ggipc_close_subscription(s) PROVE Keeps
    BY <1>8, Zenon DEF ggipc_close_subscription, close_stream, SendTerminate, server
  <1>9. CASE ReadPacket
    BY <1>0, <1>9, Zenon DEF ReadPacket, Receivers
  <1> QED
    BY <1>1, <1>5, <1>6, <1>7, <1>8, <1>9, Zenon DEF Next, RecvStep

\* What the server has ended stays ended, and it knows no stream before it is
\* handed out.
LEMMA ServerGrows ==
    ASSUME IInv, ServerOK, ServerStep, [Next]_vars
    PROVE  /\ next_stream_id' \in Nat /\ next_stream_id' >= next_stream_id
           /\ \A s \in StreamIds : s < next_stream_id /\ srv[s] = "closed" => srv'[s] = "closed"
           /\ \A s \in StreamIds : srv'[s] # "unused" => s < next_stream_id'
  <1>0. /\ next_stream_id \in Nat /\ StreamIds \subseteq Nat
        /\ srv \in [StreamIds -> {"unused", "open", "closed"}]
        /\ \A i \in Slots : stream_state_id[i] \in Nat /\ stream_state_id[i] < next_stream_id
    <2>1. srv \in [StreamIds -> {"unused", "open", "closed"}]
      BY Zenon DEF IInv, TypeOK
    <2> QED
      BY <2>1, IdFacts, Zenon
  <1>1. next_stream_id' \in Nat /\ next_stream_id' >= next_stream_id
    <2>1. ASSUME NEW c \in Callers, CallerStep(c)
          PROVE  next_stream_id' \in {next_stream_id, next_stream_id + 1}
      BY <2>1, Zenon DEF CallerStep, LockAndEncode, ggipc_subscribe, NoFreeSlot, SendFails, SendAndWait,
                  Claim, Deadline, SpuriousWakeup, Woken, TimedOut
    <2>2. RecvStep => next_stream_id' = next_stream_id
      BY Zenon DEF RecvStep, ReadPacket, ReceiveError, dispatch_incoming_packet, CallbackReturns,
             CallbackLocksB64, CallbackPublishRefused
    <2>3. ASSUME NEW s \in StreamIds, ggipc_close_subscription(s)
          PROVE  next_stream_id' = next_stream_id
      BY <2>3, Zenon DEF ggipc_close_subscription
    <2>4. ASSUME NEW m \in Packets, ServerSends(m) PROVE next_stream_id' = next_stream_id
      BY <2>4, Zenon DEF ServerSends
    <2>5. next_stream_id' \in {next_stream_id, next_stream_id + 1}
      BY <2>1, <2>2, <2>3, <2>4, Zenon DEF Next, vars
    <2> QED
      BY <1>0, <2>5
  <1>a. /\ \A s \in StreamIds : s < next_stream_id => s < next_stream_id'
        /\ \A s \in StreamIds : srv[s] # "unused" => s < next_stream_id
    <2>1. \A s \in StreamIds : s < next_stream_id => s < next_stream_id'
      BY <1>0, <1>1
    <2> QED
      BY <2>1, Zenon DEF ServerOK
  <1>2. CASE UNCHANGED srv
    BY <1>1, <1>a, <1>2, Zenon
  <1>3. ASSUME NEW i \in Slots, close_stream(i)
        PROVE  \A s \in StreamIds :
                 /\ srv[s] = "closed" => srv'[s] = "closed"
                 /\ srv'[s] # "unused" => srv[s] # "unused" \/ s < next_stream_id
    BY <1>0, <1>3, Zenon DEF close_stream, SendTerminate
  <1>4. ASSUME NEW c \in Callers, NEW sub \in BOOLEAN, NEW i \in Slots, SendAndWait(c, sub, i)
        PROVE  /\ next_stream_id' = next_stream_id + 1
               /\ \A s \in StreamIds : s # next_stream_id => srv'[s] = srv[s]
    BY <1>0, <1>4, Zenon DEF SendAndWait, Claim
  <1>5. ASSUME NEW m \in Packets, ServerSends(m)
        PROVE  \A s \in StreamIds :
                 /\ srv[s] = "closed" => srv'[s] = "closed"
                 /\ srv'[s] # "unused" => srv[s] # "unused"
    BY <1>0, <1>5, Zenon DEF ServerSends
  <1>6. CASE \E i \in Slots : close_stream(i)
    BY <1>1, <1>a, <1>3, <1>6, Zenon
  <1>7. CASE \E c \in Callers, sub \in BOOLEAN, i \in Slots : SendAndWait(c, sub, i)
    <2>1. /\ next_stream_id' = next_stream_id + 1
          /\ \A s \in StreamIds : s # next_stream_id => srv'[s] = srv[s]
      BY <1>4, <1>7, Zenon
    <2>2. \A s \in StreamIds : s < next_stream_id => s # next_stream_id
      BY <1>0
    <2>3. next_stream_id < next_stream_id'
      BY <1>0, <2>1
    <2> QED
      BY <1>1, <1>a, <2>1, <2>2, <2>3, Zenon
  <1>8. CASE \E m \in Packets : ServerSends(m)
    BY <1>1, <1>a, <1>5, <1>8, Zenon
  <1> QED
    BY <1>2, <1>6, <1>7, <1>8, Zenon DEF ServerStep, server

\* Server and packets only know stream ids the client has handed out.
LEMMA ServerOKStep ==
    ASSUME IInv, ServerOK, ServerStep, [Next]_vars
    PROVE  ServerOK'
  <1>0. /\ next_stream_id \in Nat \ {0} /\ StreamIds \subseteq Nat
        /\ recv.msg \in Packets /\ inbox \in Seq(Packets)
        /\ \A p \in Packets : p.id \in Nat /\ (p.id # 0 => p.id \in StreamIds)
    <2>1. next_stream_id \in Nat \ {0} /\ StreamIds \subseteq Nat
      BY IdFacts, Zenon
    <2>2. recv.msg \in Packets /\ inbox \in Seq(Packets)
      BY Zenon DEF IInv, TypeOK, Receivers
    <2>3. \A p \in Packets : p.id \in Nat /\ (p.id # 0 => p.id \in StreamIds)
      BY ConstantsAssumption DEF Packets, StreamIds
    <2> QED
      BY <2>1, <2>2, <2>3, Zenon
  <1>1. ASSUME NEW p \in Packets, Known(p) PROVE Known(p)'
    <2>1. p.id < next_stream_id'
      BY <1>0, <1>1, ServerGrows DEF Known
    <2>2. ASSUME p.id # 0, p.term PROVE srv'[p.id] = "closed"
      BY <1>0, <1>1, <2>2, ServerGrows, Zenon DEF Known
    <2> QED
      BY <2>1, <2>2, Zenon DEF Known
  <1>2. NoPacket \in Packets /\ Known(NoPacket)
    BY <1>0, ConstantsAssumption DEF NoPacket, Packets, Known
  <1>3. \A k \in 1..Len(inbox) : inbox[k] \in Packets /\ Known(inbox[k])
    BY <1>0 DEF ServerOK
  <1>4. ASSUME NEW m \in Packets, ServerSends(m)
        PROVE  Known(recv.msg)' /\ \A k \in 1..Len(inbox') : Known(inbox[k])'
    <2>1. recv' = recv /\ inbox' = Append(inbox, m)
      BY <1>4, Zenon DEF ServerSends
    <2>2. Known(m)'
      <3>1. m.id # 0 => srv[m.id] = "open"
        BY <1>0, <1>4, Zenon DEF ServerSends
      <3>2. m.id < next_stream_id
        BY <1>0, <3>1 DEF ServerOK
      <3>3. m.id < next_stream_id'
        BY <1>0, <3>2, ServerGrows
      <3>4. m.id # 0 /\ m.term => srv'[m.id] = "closed"
        BY <1>0, <1>4, Zenon DEF ServerSends
      <3> QED
        BY <3>3, <3>4, Zenon DEF Known
    <2>3. \A k \in 1..Len(inbox') : inbox'[k] = m \/ (k \in 1..Len(inbox) /\ inbox'[k] = inbox[k])
      BY <1>0, <2>1
    <2>4. Known(recv.msg)'
      BY <1>0, <1>1, <2>1, Zenon DEF ServerOK, Known
    <2> QED
      BY <1>1, <1>3, <2>2, <2>3, <2>4, Zenon DEF Known
  <1>5. ASSUME recv'.msg \in {recv.msg, NoPacket}, inbox' = inbox
        PROVE  Known(recv.msg)' /\ \A k \in 1..Len(inbox') : Known(inbox[k])'
    BY <1>0, <1>1, <1>2, <1>3, <1>5, Zenon DEF ServerOK, Known
  <1>6. ASSUME inbox # <<>>, recv'.msg = Head(inbox), inbox' = Tail(inbox)
        PROVE  Known(recv.msg)' /\ \A k \in 1..Len(inbox') : Known(inbox[k])'
    <2>1. /\ Head(inbox) = inbox[1] /\ 1 \in 1..Len(inbox)
          /\ \A k \in 1..Len(inbox') : inbox'[k] = inbox[k + 1] /\ k + 1 \in 1..Len(inbox)
      BY <1>0, <1>6
    <2> QED
      BY <1>1, <1>3, <1>6, <2>1 DEF Known
  <1> QED
    BY <1>4, <1>5, <1>6, PacketSteps, ServerGrows, Zenon DEF ServerOK

\* NoDeadSlot in terms of what is still on its way to the client.
LEMMA EndingMeaning ==
    NoDeadSlot <=> \A i \in Slots :
                      stream_state_id[i] # 0 /\ srv[stream_state_id[i]] = "closed" =>
                          Ending(stream_state_id[i])
  BY Zenon DEF NoDeadSlot, Ending

\* A slot outlives its stream on the server only while the ending is on its way.
LEMMA NoDeadSlotStep ==
    ASSUME IInv, ServerOK, NoDeadSlot, ServerStep
    PROVE  NoDeadSlot'
  <1>0. /\ next_stream_id \in Nat /\ StreamIds \subseteq Nat /\ 0 \notin StreamIds
        /\ srv \in [StreamIds -> {"unused", "open", "closed"}]
        /\ inbox \in Seq(Packets)
        /\ \A i \in Slots : stream_state_id[i] \in Nat /\ stream_state_id[i] < next_stream_id
        /\ \A i \in Slots : stream_state_id[i] # 0 => stream_state_id[i] \in StreamIds
        /\ \A i, j \in Slots : stream_state_id[i] # 0 /\ stream_state_id[i] = stream_state_id[j] => i = j
    BY ConstantsAssumption DEF IInv, TypeOK, IdsHandedOut, StreamIds, StreamIdsUnique
  <1>1. ASSUME NEW j \in Slots, stream_state_id[j] # 0, srv[stream_state_id[j]] = "closed"
        PROVE  Ending(stream_state_id[j])
    BY <1>1, EndingMeaning, Zenon
  <1> SUFFICES ASSUME NEW j \in Slots, NEW s, s = stream_state_id'[j], s # 0, srv'[s] = "closed"
               PROVE  Ending(s)'
    BY DEF NoDeadSlot, Ending
  <1>2. ASSUME KeepsEnds, stream_state_id'[j] = stream_state_id[j], srv[s] = "closed"
        PROVE  Ending(s)'
    <2>1. s \in StreamIds /\ Ending(s)
      BY <1>0, <1>1, <1>2, Zenon
    <2>2. InTable(s)'
      BY Zenon DEF InTable
    <2> QED
      BY <1>2, <2>1, <2>2, Zenon DEF KeepsEnds
  <1>3. CASE UNCHANGED <<stream_state_id, srv, undelivered>> /\ KeepsEnds
    BY <1>2, <1>3, Zenon
  <1>4. ASSUME NEW i \in Slots, close_stream(i), KeepsEnds PROVE Ending(s)'
    <2>1. j # i /\ stream_state_id'[j] = stream_state_id[j]
      BY <1>4, ClearEffect, Zenon DEF close_stream, IInv
    <2>2. s # stream_state_id[i] /\ s \in StreamIds
      BY <1>0, <2>1, Zenon
    <2>3. srv'[s] = srv[s]
      BY <1>4, <2>2, Zenon DEF close_stream, SendTerminate
    <2> QED
      BY <1>2, <1>4, <2>1, <2>3, Zenon
  <1>5. ASSUME NEW i \in Slots, clear_stream_index(i), UNCHANGED server, KeepsEnds
        PROVE  Ending(s)'
    BY <1>2, <1>5, ClearEffect, Zenon DEF IInv, server
  <1>6. ASSUME NEW c \in Callers, NEW sub \in BOOLEAN, NEW i \in Slots,
               Requests(c, sub, i), SendAndWait(c, sub, i), UNCHANGED recv
        PROVE  Ending(s)'
    <2>1. next_stream_id \in StreamIds
      BY <1>6, RequestEffect, Zenon
    <2>2. UNCHANGED inbox /\ srv' = [srv EXCEPT ![next_stream_id] = "open"]
      BY <1>6, Zenon DEF SendAndWait
    <2>3. j # i => stream_state_id'[j] = stream_state_id[j]
      BY <1>6, RequestEffect, Zenon
    <2>4. stream_state_id'[i] = next_stream_id
      BY <1>6, Zenon DEF SendAndWait, set_stream_index, IInv, TypeOK
    <2>5. srv'[next_stream_id] = "open"
      BY <1>0, <2>1, <2>2, Zenon
    <2>6. j # i /\ s # next_stream_id
      BY <2>4, <2>5, Zenon
    <2>7. s \in StreamIds /\ srv[s] = "closed"
      BY <1>0, <2>2, <2>3, <2>6, Zenon
    <2> QED
      BY <1>2, <1>6, <2>2, <2>3, <2>6, <2>7, StillEnding, Zenon
  <1>7. ASSUME NEW m \in Packets, ServerSends(m) PROVE Ending(s)'
    <2>1. /\ inbox' = Append(inbox, m) /\ UNCHANGED recv /\ stream_state_id' = stream_state_id
          /\ srv' = [t \in StreamIds |-> IF t = m.id /\ m.term THEN "closed" ELSE srv[t]]
      BY <1>7, Zenon DEF ServerSends, table
    <2>2. /\ Len(inbox') \in 1..Len(inbox') /\ inbox'[Len(inbox')] = m
          /\ \A k \in 1..Len(inbox) : k \in 1..Len(inbox') /\ inbox'[k] = inbox[k]
      BY <1>0, <2>1
    <2>3. CASE s = m.id /\ m.term
      BY <2>2, <2>3, Zenon DEF Ending
    <2>4. CASE ~(s = m.id /\ m.term)
      <3>1. srv[s] = "closed" /\ Ending(s)
        BY <1>0, <1>1, <2>1, <2>4, Zenon
      <3> QED
        BY <2>1, <2>2, <3>1 DEF Ending
    <2> QED
      BY <2>3, <2>4, Zenon
  <1> QED
    BY <1>3, <1>4, <1>5, <1>6, <1>7, Zenon DEF ServerStep

\* A stream open on the server has its slot, or its TERMINATE packet could not be sent.
LEMMA NoOrphanStep ==
    ASSUME IInv, ServerOK, NoOrphanStream, ServerStep
    PROVE  NoOrphanStream'
  <1>0. /\ next_stream_id \in Nat /\ StreamIds \subseteq Nat /\ 0 \notin StreamIds
        /\ srv \in [StreamIds -> {"unused", "open", "closed"}]
        /\ \A i \in Slots : stream_state_id[i] # 0 => stream_state_id[i] \in StreamIds
    BY ConstantsAssumption DEF IInv, TypeOK, StreamIds
  <1> SUFFICES ASSUME NEW s \in StreamIds, srv'[s] = "open"
               PROVE  InTable(s)' \/ s \in undelivered'
    BY Zenon DEF NoOrphanStream, InTable
  <1>1. CASE UNCHANGED <<stream_state_id, srv, undelivered>>
    BY <1>1, Zenon DEF NoOrphanStream, InTable
  <1>2. ASSUME NEW i \in Slots, close_stream(i) PROVE InTable(s)' \/ s \in undelivered'
    <2>1. \A j \in Slots : j # i => stream_state_id'[j] = stream_state_id[j]
      BY <1>2, ClearEffect, Zenon DEF close_stream, IInv
    <2>2. srv[s] = "open" /\ undelivered \subseteq undelivered'
      BY <1>2, Zenon DEF close_stream, SendTerminate
    <2>3. s = stream_state_id[i] => s \in undelivered'
      BY <1>0, <1>2, Zenon DEF close_stream, SendTerminate
    <2> QED
      BY <2>1, <2>2, <2>3, Zenon DEF NoOrphanStream, InTable
  <1>3. ASSUME NEW i \in Slots, clear_stream_index(i), UNCHANGED server, recv.msg.term,
               stream_state_id[i] \in {0, recv.msg.id}
        PROVE  InTable(s)' \/ s \in undelivered'
    <2>1. \A j \in Slots : j # i => stream_state_id'[j] = stream_state_id[j]
      BY <1>3, ClearEffect, Zenon DEF IInv
    <2>2. srv[s] = "open" /\ undelivered' = undelivered
      BY <1>3, Zenon DEF server
    <2>3. s # stream_state_id[i]
      BY <1>0, <1>3, <2>2, Zenon DEF ServerOK, Known
    <2> QED
      BY <2>1, <2>2, <2>3, Zenon DEF NoOrphanStream, InTable
  <1>4. ASSUME NEW c \in Callers, NEW sub \in BOOLEAN, NEW i \in Slots,
               Requests(c, sub, i), SendAndWait(c, sub, i)
        PROVE  InTable(s)' \/ s \in undelivered'
    <2>1. /\ stream_state_id[i] = 0
          /\ \A j \in Slots : j # i => stream_state_id'[j] = stream_state_id[j]
      BY <1>4, RequestSlots, Zenon
    <2>2. /\ stream_state_id'[i] = next_stream_id /\ undelivered' = undelivered
          /\ srv' = [srv EXCEPT ![next_stream_id] = "open"]
      BY <1>4, Zenon DEF SendAndWait, set_stream_index, IInv, TypeOK
    <2>3. s # next_stream_id => srv[s] = "open"
      BY <1>0, <2>2, Zenon
    <2> QED
      BY <1>0, <2>1, <2>2, <2>3, Zenon DEF NoOrphanStream, InTable
  <1>5. ASSUME NEW m \in Packets, ServerSends(m)
        PROVE  InTable(s)' \/ s \in undelivered'
    <2>1. srv[s] = "open" /\ UNCHANGED <<stream_state_id, undelivered>>
      BY <1>5, Zenon DEF ServerSends, table
    <2> QED
      BY <2>1, Zenon DEF NoOrphanStream, InTable
  <1> QED
    BY <1>1, <1>2, <1>3, <1>4, <1>5, Zenon DEF ServerStep

\* The stream table and the server agree: no stream stays open on the server
\* without a slot unless its TERMINATE packet could not be sent, and a slot whose
\* stream the server has ended is about to be cleared.
THEOREM TableAndServerAgree ==
    ASSUME EarlyClose = FALSE
    PROVE  Spec /\ GenerationsGrow => []TableMatchesServer
  <1> DEFINE Inv == ServerOK /\ NoOrphanStream /\ NoDeadSlot
  <1>1. Init => Inv
    <2> SUFFICES ASSUME Init PROVE Inv
      BY Zenon
    <2>1. ServerOK
      BY DEF Init, ServerOK, Known, Polling, NoPacket
    <2>2. NoOrphanStream /\ NoDeadSlot
      BY Zenon DEF Init, NoOrphanStream, NoDeadSlot
    <2> QED
      BY <2>1, <2>2, Zenon
  <1>2. StreamInv /\ Inv /\ [Next]_vars => Inv'
    <2> SUFFICES ASSUME StreamInv, Inv, [Next]_vars PROVE Inv'
      BY Zenon
    <2>1. ServerStep
      BY ServerSteps, Zenon DEF StreamInv
    <2> QED
      BY <2>1, ServerOKStep, NoOrphanStep, NoDeadSlotStep, Zenon DEF StreamInv
  <1>3. StreamInv /\ Inv => TableMatchesServer
    BY Zenon DEF StreamInv, IInv, TableMatchesServer
  <1> QED
    BY <1>1, <1>2, <1>3, StreamInvariant, PTL DEF Spec

-----------------------------------------------------------------------------
(* The client implements StreamLifecycle.                                     *)

Running == IF recv.pc = "sub_cb" THEN recv.ctx ELSE 0

\* Stream t comes to be in phase p, all others stay in theirs.
PhaseBecomes(t, p) ==
    \A s \in StreamIds : Phase(s)' = IF s = t THEN p ELSE Phase(s)

PhasesStay == \A s \in StreamIds : Phase(s)' = Phase(s)

\* What each phase means for the slots.
LEMMA PhaseMeaning ==
    ASSUME IInv, NEW s \in StreamIds
    PROVE  /\ s >= next_stream_id => Phase(s) = "fresh"
           /\ s < next_stream_id /\ ~InTable(s) => Phase(s) = "gone"
           /\ \A i \in Slots : stream_state_id[i] = s =>
                Phase(s) = IF stream_state_handler[i].fn = "NULL" THEN "pending" ELSE "armed"
           /\ s < next_stream_id => Phase(s) # "fresh"
  <1>0. /\ next_stream_id \in Nat /\ s \in Nat /\ s # 0
        /\ \A i \in Slots : stream_state_id[i] \in Nat /\ stream_state_id[i] < next_stream_id
    BY IdFacts, Zenon
  <1>1. s >= next_stream_id => Phase(s) = "fresh"
    BY <1>0, Zenon DEF Phase
  <1>2. s < next_stream_id /\ ~InTable(s) => Phase(s) = "gone"
    BY <1>0 DEF Phase, InTable
  <1>3. ASSUME NEW i \in Slots, stream_state_id[i] = s
        PROVE  Phase(s) = IF stream_state_handler[i].fn = "NULL" THEN "pending" ELSE "armed"
    <2>1. ~(s >= next_stream_id)
      BY <1>0, <1>3
    <2>2. \A j \in Slots : stream_state_id[j] = s => j = i
      BY <1>0, <1>3, Zenon DEF IInv, StreamIdsUnique
    <2> QED
      BY <1>3, <2>1, <2>2, Zenon DEF Phase
  <1>4. s < next_stream_id => Phase(s) # "fresh"
    BY <1>0 DEF Phase
  <1> QED
    BY <1>1, <1>2, <1>3, <1>4, Zenon

\* A stream whose slots and number a step does not touch stays in its phase.
LEMMA PhaseKept ==
    ASSUME NEW s \in StreamIds,
           s >= next_stream_id <=> s >= next_stream_id',
           \A j \in Slots : stream_state_id'[j] = s <=> stream_state_id[j] = s,
           \A j \in Slots : stream_state_id[j] = s =>
               stream_state_handler'[j].fn = stream_state_handler[j].fn
    PROVE  Phase(s)' = Phase(s)
  BY Zenon DEF Phase

\* A step that keeps the table keeps the phase of every stream.
LEMMA KeepsTablePhase ==
    ASSUME KeepsTable
    PROVE  PhasesStay
  BY Zenon DEF KeepsTable, table, PhasesStay, Phase

\* Clearing a slot ends the stream in it.
LEMMA ClearsPhase ==
    ASSUME IInv, IInv', NEW i \in Slots, Clears(i)
    PROVE  \/ PhasesStay /\ stream_state_id[i] = 0
           \/ /\ stream_state_id[i] \in StreamIds
              /\ Phase(stream_state_id[i]) \in {"pending", "armed"}
              /\ \A s \in StreamIds :
                   Phase(s)' = IF s = stream_state_id[i] THEN "gone" ELSE Phase(s)
  <1>0. /\ next_stream_id \in Nat /\ 0 \notin StreamIds
        /\ stream_state_id[i] < next_stream_id
        /\ stream_state_id[i] # 0 => stream_state_id[i] \in StreamIds
    BY IdFacts, Zenon
  <1>1. /\ stream_state_id'[i] = 0 /\ next_stream_id' = next_stream_id
        /\ \A j \in Slots : j # i =>
             /\ stream_state_id'[j] = stream_state_id[j]
             /\ stream_state_handler'[j] = stream_state_handler[j]
    BY ClearEffect, Zenon DEF Clears, IInv
  <1>2. ASSUME NEW s \in StreamIds, s # stream_state_id[i] PROVE Phase(s)' = Phase(s)
    BY <1>0, <1>1, <1>2, PhaseKept, Zenon
  <1>3. CASE stream_state_id[i] = 0
    BY <1>0, <1>2, <1>3, Zenon DEF PhasesStay
  <1>4. CASE stream_state_id[i] # 0
    <2> DEFINE t == stream_state_id[i]
    <2>1. t \in StreamIds
      BY <1>0, <1>4, Zenon
    <2>2. Phase(t) \in {"pending", "armed"}
      BY <2>1, PhaseMeaning, Zenon
    <2>3. \A j \in Slots : stream_state_id'[j] # t
      BY <1>1, <1>4, Zenon DEF IInv, StreamIdsUnique
    <2>4. ASSUME NEW s \in StreamIds, s = t PROVE Phase(s)' = "gone"
      <3>1. ~(s >= next_stream_id')
        BY <1>0, <1>1, <2>4, IdFacts
      <3> QED
        BY <2>3, <2>4, <3>1, Zenon DEF Phase
    <2> QED
      BY <1>2, <2>1, <2>2, <2>4, Zenon
  <1> QED
    BY <1>3, <1>4, Zenon

\* Arming a slot moves its stream from pending to armed.
LEMMA ArmsPhase ==
    ASSUME IInv, IInv', ResponseSlot, NEW i \in Slots, NEW t \in StreamIds, Arms(i, t)
    PROVE  Phase(t) = "pending" /\ PhaseBecomes(t, "armed")
  <1>1. /\ stream_state_id'[i] = t /\ stream_state_handler'[i] = SubHandler(t)
        /\ \A j \in Slots : j # i =>
             /\ stream_state_id'[j] = stream_state_id[j]
             /\ stream_state_handler'[j] = stream_state_handler[j]
        /\ next_stream_id' = next_stream_id
    BY ArmsEffect, Zenon
  <1>2. stream_state_id[i] = t /\ stream_state_handler[i].fn = "NULL"
    BY Zenon DEF Arms, Subscribed
  <1>3. Phase(t) = "pending"
    BY <1>2, PhaseMeaning, Zenon
  <1>4. ASSUME NEW s \in StreamIds, s = t PROVE Phase(s)' = "armed"
    <2>1. stream_state_handler'[i].fn # "NULL"
      BY <1>1 DEF SubHandler
    <2>2. \A j \in Slots : stream_state_id'[j] = s => j = i
      BY <1>1, <1>4, ConstantsAssumption DEF IInv, StreamIdsUnique, StreamIds
    <2>3. ~(s >= next_stream_id')
      BY <1>1, <1>2, <1>4, IdFacts
    <2> QED
      BY <1>1, <1>4, <2>1, <2>2, <2>3, Zenon DEF Phase
  <1>5. ASSUME NEW s \in StreamIds, s # t PROVE Phase(s)' = Phase(s)
    BY <1>1, <1>2, <1>5, PhaseKept, Zenon
  <1> QED
    BY <1>3, <1>4, <1>5, Zenon DEF PhaseBecomes

\* A request takes the next number; its stream is pending, or gone if the request
\* could not be sent.
LEMMA RequestsPhase ==
    ASSUME IInv, IInv', NEW c \in Callers, NEW sub \in BOOLEAN, NEW i \in Slots, Requests(c, sub, i)
    PROVE  /\ next_stream_id \in StreamIds /\ Phase(next_stream_id) = "fresh"
           /\ \A s \in StreamIds : s < next_stream_id => Phase(s) # "fresh"
           /\ \E p \in {"pending", "gone"} : \A s \in StreamIds :
                Phase(s)' = IF s = next_stream_id THEN p ELSE Phase(s)
  <1>0. /\ next_stream_id \in Nat /\ StreamIds \subseteq Nat /\ 0 \notin StreamIds
        /\ \A j \in Slots : stream_state_id[j] \in Nat /\ stream_state_id[j] < next_stream_id
    BY IdFacts, Zenon
  <1>1. /\ next_stream_id \in StreamIds /\ next_stream_id' = next_stream_id + 1
        /\ stream_state_id[i] = 0
        /\ \A j \in Slots : j # i =>
             /\ stream_state_id'[j] = stream_state_id[j]
             /\ stream_state_handler'[j] = stream_state_handler[j]
        /\ stream_state_handler'[i].fn = "NULL"
        /\ stream_state_id'[i] \in {0, next_stream_id}
    BY RequestSlots, Zenon
  <1>2. Phase(next_stream_id) = "fresh"
    <2>1. next_stream_id >= next_stream_id
      BY <1>0
    <2> QED
      BY <1>1, <2>1, PhaseMeaning, Zenon
  <1>3. \A s \in StreamIds : s < next_stream_id => Phase(s) # "fresh"
    BY PhaseMeaning, Zenon
  <1>4. ASSUME NEW s \in StreamIds, s # next_stream_id PROVE Phase(s)' = Phase(s)
    <2>1. s >= next_stream_id <=> s >= next_stream_id'
      BY <1>0, <1>1, <1>4
    <2>2. \A j \in Slots : stream_state_id'[j] = s <=> stream_state_id[j] = s
      BY <1>0, <1>1, <1>4, Zenon
    <2>3. \A j \in Slots : stream_state_id[j] = s =>
               stream_state_handler'[j].fn = stream_state_handler[j].fn
      BY <1>0, <1>1, Zenon
    <2> QED
      BY <2>1, <2>2, <2>3, PhaseKept, Zenon
  <1>5. ASSUME NEW s \in StreamIds, s = next_stream_id
        PROVE  Phase(s)' = IF stream_state_id'[i] = 0 THEN "gone" ELSE "pending"
    <2>1. ~(s >= next_stream_id')
      BY <1>0, <1>1, <1>5
    <2>2. \A j \in Slots : j # i => stream_state_id'[j] # s
      BY <1>0, <1>1, <1>5
    <2> QED
      BY <1>0, <1>1, <1>5, <2>1, <2>2, Zenon DEF Phase
  <1>6. (IF stream_state_id'[i] = 0 THEN "gone" ELSE "pending") \in {"pending", "gone"}
    BY Zenon
  <1> QED
    BY <1>1, <1>2, <1>3, <1>4, <1>5, <1>6, Zenon

\* The abstract step that a change of phases and of the running callback is.
LEMMA AbstractStutter ==
    ASSUME PhasesStay, Running' = Running
    PROVE  UNCHANGED Lifecycle!vars
  BY Zenon DEF PhasesStay, Running, Lifecycle!vars

\* A stream that goes is an End of the lifecycle.
LEMMA AbstractEnd ==
    ASSUME NEW t \in StreamIds, Phase(t) \in {"pending", "armed"}, Running' = Running,
           \A s \in StreamIds : Phase(s)' = IF s = t THEN "gone" ELSE Phase(s)
    PROVE  Lifecycle!Next
  <1>1. Lifecycle!End(t)
    BY Zenon DEF Lifecycle!End, Running
  <1> QED
    BY <1>1, Zenon DEF Lifecycle!Next, Lifecycle!StreamIds, StreamIds

\* A stream that is armed is an Arm of the lifecycle.
LEMMA AbstractArm ==
    ASSUME NEW t \in StreamIds, Phase(t) = "pending", PhaseBecomes(t, "armed"),
           Running = 0, Running' = 0
    PROVE  Lifecycle!Next
  <1>1. Lifecycle!Arm(t)
    BY Zenon DEF Lifecycle!Arm, Running, PhaseBecomes
  <1> QED
    BY <1>1, Zenon DEF Lifecycle!Next, Lifecycle!StreamIds, StreamIds

\* A claimed or refused stream id is a Request of the lifecycle.
LEMMA AbstractRequest ==
    ASSUME NEW t \in StreamIds, Phase(t) = "fresh", Running = 0, Running' = 0,
           \A s \in StreamIds : s < t => Phase(s) # "fresh",
           NEW p \in {"pending", "gone"},
           \A s \in StreamIds : Phase(s)' = IF s = t THEN p ELSE Phase(s)
    PROVE  Lifecycle!Next
  <1>1. [s \in StreamIds |-> Phase(s)]' = [[s \in StreamIds |-> Phase(s)] EXCEPT ![t] = p]
    BY Zenon
  <1>2. Lifecycle!Request(t)
    BY <1>1, Zenon DEF Lifecycle!Request, Running, Lifecycle!StreamIds, StreamIds
  <1> QED
    BY <1>2, Zenon DEF Lifecycle!Next, Lifecycle!StreamIds, StreamIds

\* A subscription callback that starts is a Deliver of the lifecycle.
LEMMA AbstractDeliver ==
    ASSUME NEW t \in StreamIds, Phase(t) = "armed", PhasesStay, Running = 0, Running' = t
    PROVE  Lifecycle!Next
  <1>1. Lifecycle!Deliver(t)
    BY Zenon DEF Lifecycle!Deliver, Running, PhasesStay
  <1> QED
    BY <1>1, Zenon DEF Lifecycle!Next, Lifecycle!StreamIds, StreamIds

\* A subscription callback that returns is a Return of the lifecycle.
LEMMA AbstractReturn ==
    ASSUME NEW t \in StreamIds, Running = t, Running' = 0,
           \/ PhasesStay
           \/ /\ Phase(t) = "armed"
              /\ \A s \in StreamIds : Phase(s)' = IF s = t THEN "gone" ELSE Phase(s)
    PROVE  Lifecycle!Next
  <1>1. Lifecycle!Return(t)
    BY Zenon DEF Lifecycle!Return, Running, PhasesStay
  <1> QED
    BY <1>1, Zenon DEF Lifecycle!Next, Lifecycle!StreamIds, StreamIds

\* Only its own return ends a subscription callback.
LEMMA EventReturns ==
    ASSUME IInv, [Next]_vars, recv.pc = "sub_cb", recv'.pc # "sub_cb"
    PROVE  \E ok \in BOOLEAN : CallbackReturns(ok)
  <1>0. recv \in Receivers
    BY Zenon DEF IInv, TypeOK
  <1>1. ASSUME NEW c \in Callers, CallerStep(c) PROVE FALSE
    BY <1>1, Zenon DEF CallerStep, LockAndEncode, ggipc_subscribe, Deadline, SpuriousWakeup, Woken, TimedOut
  <1>2. CASE ReadPacket \/ ReceiveError \/ dispatch_incoming_packet
    BY <1>2, Zenon DEF ReadPacket, ReceiveError, dispatch_incoming_packet
  <1>3. CASE CallbackLocksB64 \/ CallbackPublishRefused
    BY <1>0, <1>3, Zenon DEF CallbackLocksB64, CallbackPublishRefused, Receivers
  <1>4. ASSUME NEW s \in StreamIds, ggipc_close_subscription(s) PROVE FALSE
    BY <1>4, Zenon DEF ggipc_close_subscription
  <1>5. ASSUME NEW m \in Packets, ServerSends(m) PROVE FALSE
    BY <1>5, Zenon DEF ServerSends
  <1>6. ~UNCHANGED vars
    BY Zenon DEF vars
  <1> QED
    BY <1>1, <1>2, <1>3, <1>4, <1>5, <1>6, Zenon DEF Next, RecvStep

\* No response is accepted while a subscription callback runs.
LEMMA NotArmedInCallback ==
    ASSUME IInv, ResponseSlot, [Next]_vars, recv.pc = "sub_cb", recv'.pc = "sub_cb",
           NEW i \in Slots, NEW s \in StreamIds, Arms(i, s)
    PROVE  FALSE
  <1>1. stream_state_handler[i].fn = "NULL" /\ stream_state_handler'[i].fn # "NULL"
    <2>1. stream_state_handler'[i] = SubHandler(s)
      BY ArmsEffect, Zenon
    <2> QED
      BY <2>1 DEF Arms, SubHandler
  <1>2. ~UNCHANGED table
    BY <1>1, Zenon DEF table
  <1>3. ASSUME NEW t \in StreamIds, Closes(t) PROVE FALSE
    <2>1. handle[t].index \in Slots /\ clear_stream_index(handle[t].index)
      BY <1>3, Zenon DEF Closes, validate_handle
    <2>2. stream_state_handler'[handle[t].index] = NoHandler
      BY <2>1, Zenon DEF clear_stream_index, set_stream_index, IInv, TypeOK
    <2>3. handle[t].index # i => stream_state_handler'[i] = stream_state_handler[i]
      BY <2>1, ClearEffect, Zenon DEF IInv
    <2> QED
      BY <1>1, <2>2, <2>3 DEF NoHandler
  <1>4. ASSUME NEW j \in Slots, NEW pc, Enters(pc, j) PROVE FALSE
    BY <1>4, Zenon DEF Enters
  <1> QED
    BY <1>2, <1>3, <1>4, RecvSteps, Zenon

\* Every step of the client is a step of the lifecycle or changes nothing of it.
LEMMA LifecycleStep ==
    ASSUME StreamInv, StreamInv', [Next]_vars
    PROVE  [Lifecycle!Next]_(Lifecycle!vars)
  <1>0. /\ IInv /\ IInv' /\ CallbackSlot /\ CallbackSlot' /\ ArmedCtx /\ ResponseSlot
        /\ 0 \notin StreamIds
    BY ConstantsAssumption DEF StreamInv, StreamIds
  <1>1. /\ recv.pc = "sub_cb" => Running = recv.msg.id /\ recv.msg.id \in StreamIds
        /\ recv.pc # "sub_cb" => Running = 0
        /\ recv'.pc # "sub_cb" => Running' = 0
    BY <1>0, Zenon DEF CallbackSlot, InCallback, Running
  <1>2. TableStep
    BY <1>0, TableSteps, Zenon
  <1>3. ASSUME Running' = Running, NEW i \in Slots, Clears(i)
        PROVE  [Lifecycle!Next]_(Lifecycle!vars)
    BY <1>0, <1>3, ClearsPhase, AbstractStutter, AbstractEnd, Zenon
  <1>4. CASE recv.pc # "sub_cb" /\ recv'.pc # "sub_cb"
    <2>1. Running = 0 /\ Running' = 0
      BY <1>1, <1>4, Zenon
    <2>2. ASSUME NEW i \in Slots, NEW s \in StreamIds, Arms(i, s) PROVE Lifecycle!Next
      BY <1>0, <2>1, <2>2, ArmsPhase, AbstractArm, Zenon
    <2>3. ASSUME NEW c \in Callers, NEW sub \in BOOLEAN, NEW i \in Slots, Requests(c, sub, i)
          PROVE  Lifecycle!Next
      <3>1. /\ next_stream_id \in StreamIds /\ Phase(next_stream_id) = "fresh"
            /\ \A s \in StreamIds : s < next_stream_id => Phase(s) # "fresh"
        BY <1>0, <2>3, RequestsPhase, Zenon
      <3>2. PICK p \in {"pending", "gone"} : \A s \in StreamIds :
                Phase(s)' = IF s = next_stream_id THEN p ELSE Phase(s)
        BY <1>0, <2>3, RequestsPhase, Zenon
      <3> QED
        BY <2>1, <3>1, <3>2, AbstractRequest, Zenon
    <2> QED
      BY <1>2, <1>3, <2>1, <2>2, <2>3, KeepsTablePhase, AbstractStutter, Zenon DEF TableStep
  <1>5. CASE recv.pc # "sub_cb" /\ recv'.pc = "sub_cb"
    <2>1. PICK i \in Slots, pc \in {"result_cb", "error_cb", "sub_cb"} : Enters(pc, i)
      BY <1>0, <1>5, RecvSteps, Zenon DEF RecvStays
    <2>2. recv'.pc = pc /\ recv'.ctx = stream_state_handler[i].ctx
      BY <1>0, <2>1, Zenon DEF Enters, EnterCallback, IInv, TypeOK, Receivers
    <2>3. /\ stream_state_id[i] = recv.msg.id /\ recv.msg.id \in StreamIds
      BY <1>0, <2>1, DispatchSlot, Zenon DEF Enters
    <2>4. stream_state_handler[i].fn # "NULL"
      BY <1>5, <2>1, <2>2, Zenon DEF Enters
    <2>5. stream_state_handler[i].ctx = recv.msg.id
      <3>1. stream_state_handler[i] = SubHandler(recv.msg.id)
        BY <1>0, <2>3, <2>4, Zenon DEF ArmedCtx
      <3> QED
        BY <3>1 DEF SubHandler
    <2>6. Running = 0 /\ Running' = recv.msg.id
      BY <1>1, <1>5, <2>2, <2>5, Zenon DEF Running
    <2>7. Phase(recv.msg.id) = "armed"
      BY <1>0, <2>3, <2>4, PhaseMeaning, Zenon
    <2>8. PhasesStay
      BY <2>1, Zenon DEF Enters, EnterCallback, table, PhasesStay, Phase
    <2> QED
      BY <2>3, <2>6, <2>7, <2>8, AbstractDeliver, Zenon
  <1>6. CASE recv.pc = "sub_cb" /\ recv'.pc = "sub_cb"
    <2>1. Running' = Running
      <3>1. RecvStays
        BY <1>0, <1>6, RecvSteps, Zenon DEF Enters
      <3> QED
        BY <3>1, Zenon DEF RecvStays, Running
    <2>2. ~MtxFree
      BY <1>6, Zenon DEF MtxFree
    <2> QED
      BY <1>0, <1>2, <1>3, <1>6, <2>1, <2>2, NotArmedInCallback, KeepsTablePhase, AbstractStutter, Zenon
         DEF TableStep, Requests
  <1>7. CASE recv.pc = "sub_cb" /\ recv'.pc # "sub_cb"
    <2>1. PICK ok \in BOOLEAN : CallbackReturns(ok)
      BY <1>0, <1>7, EventReturns, Zenon
    <2>2. recv.index \in Slots /\ (KeepsTable \/ Clears(recv.index))
      BY <1>0, <1>7, <2>1, CallbackReturnsTable, Zenon
    <2>3. /\ Running = recv.msg.id /\ recv.msg.id \in StreamIds /\ Running' = 0
          /\ stream_state_id[recv.index] \in {0, recv.msg.id}
          /\ stream_state_id[recv.index] # 0 => stream_state_handler[recv.index].fn # "NULL"
      BY <1>0, <1>1, <1>7, Zenon DEF CallbackSlot, InCallback
    <2>4. CASE KeepsTable
      BY <2>3, <2>4, KeepsTablePhase, AbstractReturn, Zenon
    <2>5. CASE Clears(recv.index)
      <3>1. CASE PhasesStay
        BY <2>3, <3>1, AbstractReturn, Zenon
      <3>2. CASE stream_state_id[recv.index] # 0
        <4>1. stream_state_id[recv.index] = recv.msg.id
          BY <2>3, <3>2, Zenon
        <4>2. Phase(recv.msg.id) = "armed"
          BY <1>0, <2>2, <2>3, <3>2, <4>1, PhaseMeaning, Zenon
        <4>3. \A s \in StreamIds : Phase(s)' = IF s = recv.msg.id THEN "gone" ELSE Phase(s)
          BY <1>0, <2>2, <2>5, <3>2, <4>1, ClearsPhase, Zenon
        <4> QED
          BY <2>3, <4>2, <4>3, AbstractReturn, Zenon
      <3> QED
        BY <1>0, <2>2, <2>5, <3>1, <3>2, ClearsPhase, Zenon
    <2> QED
      BY <2>2, <2>4, <2>5, Zenon
  <1> QED
    BY <1>4, <1>5, <1>6, <1>7, Zenon

\* The client implements StreamLifecycle: every step of its threads is a step of
\* the abstract specification or leaves the phases and the running callback as they
\* are.  Ids are used once and in order, an ended stream is never armed again,
\* callbacks run one at a time and only for armed streams.
THEOREM ImplementsLifecycle ==
    ASSUME EarlyClose = FALSE
    PROVE  Spec /\ GenerationsGrow => LifecycleSpec
  <1>1. Init => Lifecycle!Init
    <2> SUFFICES ASSUME Init PROVE Lifecycle!Init
      BY Zenon
    <2>1. \A s \in StreamIds : Phase(s) = "fresh"
      BY ConstantsAssumption DEF Init, Phase, StreamIds
    <2>2. recv.pc # "sub_cb"
      BY Zenon DEF Init, Polling
    <2> QED
      BY <2>1, <2>2, Zenon DEF Lifecycle!Init, Lifecycle!StreamIds, StreamIds
  <1>2. StreamInv /\ StreamInv' /\ [Next]_vars => [Lifecycle!Next]_(Lifecycle!vars)
    BY LifecycleStep, Zenon
  <1> QED
    BY <1>1, <1>2, StreamInvariant, PTL DEF Spec, LifecycleSpec, Lifecycle!Spec
=============================================================================
