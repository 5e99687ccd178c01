--------------------------- MODULE IpcClientProofs ---------------------------
(***************************************************************************)
(* TLAPS proofs about IpcClient, for every number of callers, slots and     *)
(* stream ids, every generation width (wrap-around included) and every      *)
(* choice of the flags: type correctness, and that no response is ever      *)
(* written through a dangling ResponseHandlerCtx and no subscription stays   *)
(* installed after ggipc_subscribe returned an error.                        *)
(***************************************************************************)
EXTENDS IpcClient, TLAPS

-----------------------------------------------------------------------------
(* The inductive invariant. *)

\* What the receive thread's locals are while user code runs: for a response
\* callback, the frame it will complete and the only slot that can carry the
\* stream.
RecvFrame ==
    /\ recv.pc = "sub_cb" => recv.index \in Slots
    /\ recv.pc \in {"result_cb", "error_cb"} =>
         /\ recv.index \in Slots
         /\ recv.msg.id \in StreamIds
         /\ recv.ctx \in Callers
         /\ InCall(recv.ctx)
         /\ call[recv.ctx].id = recv.msg.id
         /\ call[recv.ctx].index = recv.index
         /\ ~call[recv.ctx].ready
         /\ \A i \in Slots : stream_state_id[i] = recv.msg.id => i = recv.index

\* Stream ids in the table and in frames have been handed out, to one call.
IdsHandedOut ==
    /\ \A i \in Slots : stream_state_id[i] < next_stream_id
    /\ \A c \in Callers : call[c].id < next_stream_id
    /\ \A c, d \in Callers : call[c].id # 0 /\ call[c].id = call[d].id => c = d

\* A caller inside ggipc_subscribe has a slot index and a stream id.
FrameOK ==
    \A c \in Callers : InCall(c) => call[c].index \in Slots /\ call[c].id # 0

\* The call that armed a slot has returned GG_ERR_OK, or its frame holds
\* GG_ERR_OK and the index of that very slot (so a timeout clears it).
ArmedByOk ==
    \A i \in Slots : \A c \in Callers :
        /\ stream_state_id[i] # 0
        /\ stream_state_handler[i].fn # "NULL"
        /\ call[c].id = stream_state_id[i]
        => call[c].ret = "OK" /\ (InCall(c) => call[c].ready /\ call[c].index = i)

IInv ==
    /\ TypeOK
    /\ StreamIdsUnique
    /\ PendingCtxAlive
    /\ RecvFrame
    /\ IdsHandedOut
    /\ FrameOK
    /\ ArmedByOk

-----------------------------------------------------------------------------
(* The operators on the table. *)

\* The generation stays within its width.
LEMMA NextGenType ==
    ASSUME NEW g \in Gens
    PROVE  NextGen(g) \in Gens
  BY ConstantsAssumption DEF NextGen, Gens

\* clear_stream_index (client.c:171) keeps the table well-typed and empties
\* exactly one slot.
LEMMA ClearEffect ==
    ASSUME TypeOK, NEW i \in Slots, clear_stream_index(i)
    PROVE  /\ stream_state_id' \in [Slots -> 0..MaxStreamId]
           /\ stream_state_generation' \in [Slots -> Gens]
           /\ stream_state_handler' \in [Slots -> Handlers]
           /\ stream_state_id'[i] = 0
           /\ \A j \in Slots : j # i =>
                /\ stream_state_id'[j] = stream_state_id[j]
                /\ stream_state_handler'[j] = stream_state_handler[j]
  <1>1. stream_state_generation[i] \in Gens
    BY Zenon DEF TypeOK
  <1>2. NextGen(stream_state_generation[i]) \in Gens
    BY <1>1, NextGenType, Zenon
  <1>3. stream_state_generation' \in [Slots -> Gens]
    BY <1>2, Zenon DEF TypeOK, clear_stream_index
  <1>4. NoHandler \in Handlers
    BY Zenon DEF NoHandler, Handlers
  <1>5. stream_state_handler' \in [Slots -> Handlers]
    BY <1>4, Zenon DEF TypeOK, clear_stream_index, set_stream_index
  <1>6. stream_state_id' \in [Slots -> 0..MaxStreamId]
    BY ConstantsAssumption DEF TypeOK, clear_stream_index, set_stream_index
  <1> QED
    BY <1>3, <1>5, <1>6, Zenon DEF TypeOK, clear_stream_index, set_stream_index

\* Telling the server about the end of a stream keeps its state well-typed.
LEMMA TerminateEffect ==
    ASSUME TypeOK, NEW id \in 0..MaxStreamId, SendTerminate(id)
    PROVE  /\ inbox' \in Seq(Packets)
           /\ srv' \in [StreamIds -> {"unused", "open", "closed"}]
           /\ undelivered' \subseteq StreamIds
  <1>1. inbox' \in Seq(Packets)
    BY Zenon DEF TypeOK, SendTerminate
  <1>2. srv' \in [StreamIds -> {"unused", "open", "closed"}]
    BY Zenon DEF TypeOK, SendTerminate
  <1>3. {id} \ {0} \subseteq StreamIds
    BY ConstantsAssumption DEF StreamIds
  <1>4. undelivered' \subseteq StreamIds
    BY <1>3, Zenon DEF TypeOK, SendTerminate
  <1> QED
    BY <1>1, <1>2, <1>4, Zenon

\* The numbers in the table are natural numbers below the next one, and those of
\* taken slots are stream ids.
LEMMA IdFacts ==
    ASSUME IInv
    PROVE  /\ next_stream_id \in Nat \ {0} /\ StreamIds \subseteq Nat /\ 0 \notin StreamIds
           /\ \A j \in Slots :
                /\ stream_state_id[j] \in Nat /\ stream_state_id[j] < next_stream_id
                /\ stream_state_id[j] # 0 => stream_state_id[j] \in StreamIds
  <1>1. /\ next_stream_id \in 1..(MaxStreamId + 1)
        /\ stream_state_id \in [Slots -> 0..MaxStreamId]
        /\ \A j \in Slots : stream_state_id[j] < next_stream_id
    BY Zenon DEF IInv, TypeOK, IdsHandedOut
  <1>2. MaxStreamId \in Nat
    BY ConstantsAssumption, Zenon
  <1>3. next_stream_id \in Nat \ {0} /\ StreamIds \subseteq Nat /\ 0 \notin StreamIds
    BY <1>1, <1>2 DEF StreamIds
  <1>4. ASSUME NEW j \in Slots
        PROVE  /\ stream_state_id[j] \in Nat
               /\ stream_state_id[j] # 0 => stream_state_id[j] \in StreamIds
    BY <1>1, <1>2 DEF StreamIds
  <1> QED
    BY <1>1, <1>3, <1>4, Zenon

\* Emptying a slot while the frames stay as they are preserves everything that
\* relates the table to the frames: every condition is about occupied slots.
LEMMA ClearKeepsOwners ==
    ASSUME IInv, NEW i \in Slots, clear_stream_index(i),
           UNCHANGED <<call, next_stream_id>>
    PROVE  StreamIdsUnique' /\ PendingCtxAlive' /\ IdsHandedOut'
             /\ FrameOK' /\ ArmedByOk'
  <1>1. /\ stream_state_id'[i] = 0
        /\ \A j \in Slots : j # i =>
                /\ stream_state_id'[j] = stream_state_id[j]
                /\ stream_state_handler'[j] = stream_state_handler[j]
    BY ClearEffect, Zenon DEF IInv
  <1>2. StreamIdsUnique'
    BY <1>1 DEF IInv, StreamIdsUnique
  <1>3. PendingCtxAlive'
    BY <1>1 DEF IInv, PendingCtxAlive, InCall
  <1>4. IdsHandedOut'
    <2>1. \A j \in Slots : stream_state_id'[j] < next_stream_id
      BY <1>1, IdFacts
    <2> QED
      BY <2>1, Zenon DEF IInv, IdsHandedOut
  <1>5. FrameOK'
    BY Zenon DEF IInv, FrameOK, InCall
  <1>6. ArmedByOk'
    BY <1>1 DEF IInv, ArmedByOk, InCall
  <1> QED
    BY <1>2, <1>3, <1>4, <1>5, <1>6, Zenon

-----------------------------------------------------------------------------
(* Each step preserves the invariant. *)

\* The first state satisfies the invariant.
LEMMA InitInv == Init => IInv
  <1> SUFFICES ASSUME Init PROVE IInv
    BY Zenon
  <1> USE ConstantsAssumption
  <1>1. TypeOK
    <2>1. stream_state_generation \in [Slots -> Gens]
      BY DEF Init, Gens
    <2>2. stream_state_handler \in [Slots -> Handlers]
      BY Zenon DEF Init, Handlers, NoHandler
    <2>3. call \in [Callers -> Frames]
      BY DEF Init, Frames, NoFrame, Returned, CallPcs, RetCodes
    <2>4. recv \in Receivers
      BY DEF Init, Receivers, Polling, RecvPcs, Packets, NoPacket
    <2>5. handle \in [StreamIds -> Handles]
      BY DEF Init, Handles, NoHandle, Gens
    <2> QED
      BY <2>1, <2>2, <2>3, <2>4, <2>5 DEF Init, TypeOK
  <1>2. StreamIdsUnique /\ PendingCtxAlive /\ ArmedByOk
    BY Zenon DEF Init, StreamIdsUnique, PendingCtxAlive, ArmedByOk
  <1>3. RecvFrame
    BY Zenon DEF Init, RecvFrame, Polling
  <1>4. IdsHandedOut /\ FrameOK
    BY DEF Init, IdsHandedOut, FrameOK, InCall, NoFrame, Returned
  <1> QED
    BY <1>1, <1>2, <1>3, <1>4, Zenon DEF IInv

\* The caller's frame after a return (client.c:631, 646, 650).
LEMMA ReturnEffect ==
    ASSUME TypeOK, NEW c \in Callers, NEW id \in 0..MaxStreamId,
           NEW r \in RetCodes, Return(c, id, r)
    PROVE  /\ call' \in [Callers -> Frames]
           /\ b64_mtx' \in Callers \cup {None}
           /\ call'[c].pc = "idle" /\ call'[c].id = id /\ call'[c].ret = r
           /\ \A d \in Callers : d # c => call'[d] = call[d]
  <1>1. Returned(id, r) \in Frames
    BY ConstantsAssumption DEF Returned, Frames, CallPcs, RetCodes
  <1>2. call' \in [Callers -> Frames]
    BY <1>1, Zenon DEF Return, TypeOK
  <1>3. b64_mtx' \in Callers \cup {None}
    BY Zenon DEF Return, TypeOK
  <1>4. call'[c] = Returned(id, r)
    BY Zenon DEF Return, TypeOK
  <1>5. \A d \in Callers : d # c => call'[d] = call[d]
    BY Zenon DEF Return, TypeOK
  <1> QED
    BY <1>2, <1>3, <1>4, <1>5 DEF Returned

\* A frame that no slot points to may return, keeping its stream id only if the
\* stream is not armed or the result is GG_ERR_OK.
LEMMA ReturnKeepsOwners ==
    ASSUME IInv, NEW c \in Callers, NEW id \in {0, call[c].id},
           NEW r \in RetCodes, Return(c, id, r),
           UNCHANGED <<table, next_stream_id, recv>>,
           ~InCall(c) \/ call[c].ready,
           id = 0 \/ r = "OK" \/ r = call[c].ret
    PROVE  StreamIdsUnique' /\ PendingCtxAlive' /\ RecvFrame' /\ IdsHandedOut'
             /\ FrameOK' /\ ArmedByOk'
  <1> USE DEF table
  <1>1. /\ call'[c].pc = "idle" /\ call'[c].id = id /\ call'[c].ret = r
        /\ \A d \in Callers : d # c => call'[d] = call[d]
    <2>1. id \in 0..MaxStreamId
      BY ConstantsAssumption DEF IInv, TypeOK, Frames
    <2> QED
      BY <2>1, ReturnEffect, Zenon DEF IInv
  <1>2. StreamIdsUnique'
    BY Zenon DEF IInv, StreamIdsUnique
  <1>3. PendingCtxAlive'
    BY <1>1 DEF IInv, PendingCtxAlive, InCall
  <1>4. RecvFrame'
    BY <1>1, Zenon DEF IInv, RecvFrame, InCall
  <1>5. IdsHandedOut'
    <2>1. next_stream_id \in Nat \ {0} /\ next_stream_id' = next_stream_id
      BY ConstantsAssumption DEF IInv, TypeOK
    <2>2. id < next_stream_id
      BY <2>1 DEF IInv, IdsHandedOut
    <2> QED
      BY <1>1, <2>1, <2>2 DEF IInv, IdsHandedOut
  <1>6. FrameOK'
    BY <1>1, Zenon DEF IInv, FrameOK, InCall
  <1>7. ArmedByOk'
    BY <1>1 DEF IInv, ArmedByOk, InCall
  <1> QED
    BY <1>2, <1>3, <1>4, <1>5, <1>6, <1>7, Zenon

\* A caller that only moves between the states of its wait.
LEMMA WaitStepInv ==
    ASSUME IInv, NEW c \in Callers, NEW p \in CallPcs,
           call' = [call EXCEPT ![c].pc = p],
           InCall(c) <=> p \in {"waiting", "woken", "timedout"},
           UNCHANGED <<table, next_stream_id, recv, server, handle, closed>>,
           b64_mtx' \in Callers \cup {None}
    PROVE  IInv'
  <1> USE DEF table, server
  <1>1. TypeOK'
    <2>1. call' \in [Callers -> Frames]
      BY ZenonT(90) DEF IInv, TypeOK, Frames
    <2> QED
      BY <2>1, Zenon DEF IInv, TypeOK
  <1>2. \A d \in Callers :
          /\ InCall(d)' <=> InCall(d)
          /\ call'[d].id = call[d].id /\ call'[d].index = call[d].index
          /\ call'[d].ready = call[d].ready /\ call'[d].ret = call[d].ret
    <2>1. call \in [Callers -> Frames]
      BY Zenon DEF IInv, TypeOK
    <2>2. ASSUME NEW d \in Callers, d # c PROVE call'[d] = call[d]
      BY <2>1, <2>2, Zenon
    <2>3. call'[c] = [call[c] EXCEPT !.pc = p] /\ call[c] \in Frames
      BY <2>1, Zenon
    <2>4. /\ call'[c].pc = p
          /\ call'[c].id = call[c].id /\ call'[c].index = call[c].index
          /\ call'[c].ready = call[c].ready /\ call'[c].ret = call[c].ret
      BY <2>3 DEF Frames
    <2> QED
      BY <2>2, <2>4, Zenon DEF InCall
  <1>3. StreamIdsUnique'
    BY Zenon DEF IInv, StreamIdsUnique
  <1>4. PendingCtxAlive'
    BY <1>2 DEF IInv, PendingCtxAlive
  <1>5. RecvFrame'
    BY <1>2 DEF IInv, RecvFrame
  <1>6. IdsHandedOut'
    BY <1>2 DEF IInv, IdsHandedOut, TypeOK
  <1>7. FrameOK'
    BY <1>2, Zenon DEF IInv, FrameOK
  <1>8. ArmedByOk'
    BY <1>2 DEF IInv, ArmedByOk
  <1> QED
    BY <1>1, <1>3, <1>4, <1>5, <1>6, <1>7, <1>8, Zenon DEF IInv

\* A publisher that locks the encode buffer: only its call and the mutex change.
LEMMA LockAndEncodeInv ==
    ASSUME IInv, NEW c \in Callers, LockAndEncode(c)
    PROVE  IInv'
  <1>1. CASE call' = [call EXCEPT ![c].pc = "encoded"] /\ b64_mtx' = c
    BY <1>1, WaitStepInv, Zenon DEF LockAndEncode, InCall, CallPcs
  <1>2. CASE Return(c, 0, "NOMEM")
    <2>1. ~InCall(c)
      BY Zenon DEF LockAndEncode, InCall
    <2>2. UNCHANGED <<table, next_stream_id, recv, server, handle, closed>>
      BY Zenon DEF LockAndEncode
    <2>3. call' \in [Callers -> Frames] /\ b64_mtx' \in Callers \cup {None}
      BY <1>2, ReturnEffect, ConstantsAssumption DEF IInv, RetCodes
    <2>4. TypeOK'
      BY <2>2, <2>3, Zenon DEF IInv, TypeOK, table, server
    <2>5. StreamIdsUnique' /\ PendingCtxAlive' /\ RecvFrame' /\ IdsHandedOut'
             /\ FrameOK' /\ ArmedByOk'
      BY <1>2, <2>1, <2>2, ReturnKeepsOwners, Zenon DEF RetCodes
    <2> QED
      BY <2>4, <2>5, Zenon DEF IInv
  <1> QED
    BY <1>1, <1>2, Zenon DEF LockAndEncode

\* claim_stream_index fails (client.c:591).
LEMMA NoFreeSlotInv ==
    ASSUME IInv, NEW c \in Callers, ~InCall(c), NoFreeSlot(c),
           UNCHANGED <<recv, closed>>
    PROVE  IInv'
  <1>1. Return(c, 0, "NOMEM") /\ UNCHANGED <<table, next_stream_id, server, handle>>
    BY Zenon DEF NoFreeSlot
  <1>2. call' \in [Callers -> Frames] /\ b64_mtx' \in Callers \cup {None}
    BY <1>1, ReturnEffect, ConstantsAssumption DEF IInv, RetCodes
  <1>3. TypeOK'
    BY <1>1, <1>2, Zenon DEF IInv, TypeOK, table, server
  <1>4. StreamIdsUnique' /\ PendingCtxAlive' /\ RecvFrame' /\ IdsHandedOut'
             /\ FrameOK' /\ ArmedByOk'
    BY <1>1, ReturnKeepsOwners, Zenon DEF RetCodes
  <1> QED
    BY <1>3, <1>4, Zenon DEF IInv

\* A claim advances next_stream_id and stores a well-typed handle.
LEMMA ClaimEffect ==
    ASSUME TypeOK, NEW c \in Callers, NEW sub \in BOOLEAN, NEW i \in Slots,
           Claim(c, sub, i)
    PROVE  /\ next_stream_id \in StreamIds
           /\ next_stream_id' = next_stream_id + 1
           /\ next_stream_id' \in 1..(MaxStreamId + 1)
           /\ handle' \in [StreamIds -> Handles]
           /\ stream_state_id[i] = 0
           /\ NextGen(stream_state_generation[i]) \in Gens
  <1>1. stream_state_generation[i] \in Gens
    BY Zenon DEF TypeOK
  <1>2. NextGen(stream_state_generation[i]) \in Gens
    BY <1>1, NextGenType, Zenon
  <1>3. [index |-> i, gen |-> NextGen(stream_state_generation[i])] \in Handles
    BY <1>2, ConstantsAssumption DEF Handles, Slots
  <1>4. handle' \in [StreamIds -> Handles]
    BY <1>3, Zenon DEF Claim, TypeOK
  <1>5. next_stream_id' \in 1..(MaxStreamId + 1)
    BY ConstantsAssumption DEF Claim, TypeOK, StreamIds
  <1> QED
    BY <1>2, <1>4, <1>5, Zenon DEF Claim, FirstFree

\* The request could not be sent (client.c:629): one stream id is used up.
LEMMA SendFailsInv ==
    ASSUME IInv, NEW c \in Callers, NEW sub \in BOOLEAN, NEW i \in Slots,
           ~InCall(c), MtxFree, SendFails(c, sub, i), UNCHANGED <<recv, closed>>
    PROVE  IInv'
  <1>1. Claim(c, sub, i) /\ TypeOK
    BY Zenon DEF SendFails, IInv
  <1>2. /\ next_stream_id \in StreamIds
        /\ next_stream_id' = next_stream_id + 1
        /\ next_stream_id' \in 1..(MaxStreamId + 1)
        /\ handle' \in [StreamIds -> Handles]
        /\ stream_state_id[i] = 0
        /\ NextGen(stream_state_generation[i]) \in Gens
    BY <1>1, ClaimEffect, Zenon
  <1>3. /\ stream_state_id' = stream_state_id
        /\ \A j \in Slots : j # i => stream_state_handler'[j] = stream_state_handler[j]
    BY <1>2, Zenon DEF SendFails, set_stream_index, IInv, TypeOK
  <1>4. /\ call' \in [Callers -> Frames]
        /\ b64_mtx' \in Callers \cup {None}
        /\ call'[c].pc = "idle" /\ call'[c].id = next_stream_id
        /\ call'[c].ret = "ERR"
        /\ \A d \in Callers : d # c => call'[d] = call[d]
    <2>1. next_stream_id \in 0..MaxStreamId /\ "ERR" \in RetCodes
      BY <1>2, ConstantsAssumption DEF StreamIds, RetCodes
    <2>2. Return(c, next_stream_id, "ERR")
      BY Zenon DEF SendFails
    <2> QED
      BY <1>1, <2>1, <2>2, ReturnEffect, Zenon
  <1>5. TypeOK'
    <2>1. stream_state_generation' \in [Slots -> Gens]
      <3>1. NextGen(NextGen(stream_state_generation[i])) \in Gens
        BY <1>2, NextGenType, Zenon
      <3> QED
        BY <3>1, Zenon DEF SendFails, IInv, TypeOK
    <2>2. stream_state_handler' \in [Slots -> Handlers]
      BY Zenon DEF SendFails, set_stream_index, IInv, TypeOK, NoHandler, Handlers
    <2> QED
      BY <1>2, <1>3, <1>4, <2>1, <2>2, Zenon DEF SendFails, IInv, TypeOK, server
  <1>6. \A j \in Slots : stream_state_id[j] \in Nat /\ stream_state_id[j] < next_stream_id
    BY ConstantsAssumption DEF IInv, IdsHandedOut, TypeOK
  <1>7. \A d \in Callers : call[d].id \in Nat /\ call[d].id < next_stream_id
    BY ConstantsAssumption DEF IInv, IdsHandedOut, TypeOK, Frames
  <1>8. StreamIdsUnique'
    BY Zenon, <1>3 DEF IInv, StreamIdsUnique
  <1>9. PendingCtxAlive'
    BY <1>2, <1>3, <1>4 DEF IInv, PendingCtxAlive, InCall
  <1>10. RecvFrame'
    BY Zenon DEF MtxFree, RecvFrame
  <1>11. IdsHandedOut'
    <2>1. next_stream_id \in Nat
      BY <1>2, ConstantsAssumption DEF StreamIds
    <2> QED
      BY <1>2, <1>3, <1>4, <1>6, <1>7, <2>1 DEF IInv, IdsHandedOut
  <1>12. FrameOK'
    BY <1>4, Zenon DEF IInv, FrameOK, InCall
  <1>13. ArmedByOk'
    BY <1>2, <1>3, <1>4, <1>6 DEF IInv, ArmedByOk, InCall
  <1> QED
    BY <1>5, <1>8, <1>9, <1>10, <1>11, <1>12, <1>13, Zenon DEF IInv

\* The request is sent (client.c:600-639): the slot now points to a frame that
\* is waiting for exactly this stream.
LEMMA SendAndWaitInv ==
    ASSUME IInv, NEW c \in Callers, NEW sub \in BOOLEAN, NEW i \in Slots,
           ~InCall(c), MtxFree, SendAndWait(c, sub, i), UNCHANGED <<recv, closed>>
    PROVE  IInv'
  <1> DEFINE frame == [pc |-> "waiting", index |-> i, id |-> next_stream_id,
                       sub |-> sub, ready |-> FALSE, ret |-> "TIMEOUT"]
  <1>1. Claim(c, sub, i) /\ TypeOK
    BY Zenon DEF SendAndWait, IInv
  <1>2. /\ next_stream_id \in StreamIds
        /\ next_stream_id' = next_stream_id + 1
        /\ next_stream_id' \in 1..(MaxStreamId + 1)
        /\ handle' \in [StreamIds -> Handles]
        /\ stream_state_id[i] = 0
        /\ NextGen(stream_state_generation[i]) \in Gens
    BY <1>1, ClaimEffect, Zenon
  <1>3. /\ stream_state_id'[i] = next_stream_id
        /\ stream_state_handler'[i] = ResponseHandler(c)
        /\ \A j \in Slots : j # i =>
             /\ stream_state_id'[j] = stream_state_id[j]
             /\ stream_state_handler'[j] = stream_state_handler[j]
    BY Zenon DEF SendAndWait, set_stream_index, IInv, TypeOK
  <1>4. call'[c] = frame /\ \A d \in Callers : d # c => call'[d] = call[d]
    BY Zenon DEF SendAndWait, IInv, TypeOK
  <1>5. TypeOK'
    <2>1. stream_state_generation' \in [Slots -> Gens]
      BY <1>2, Zenon DEF SendAndWait, IInv, TypeOK
    <2>2. stream_state_handler' \in [Slots -> Handlers]
      BY Zenon DEF SendAndWait, set_stream_index, IInv, TypeOK, ResponseHandler, Handlers
    <2>3. stream_state_id' \in [Slots -> 0..MaxStreamId]
      BY <1>2, ConstantsAssumption
         DEF SendAndWait, set_stream_index, IInv, TypeOK, StreamIds
    <2>4. frame \in Frames
      BY <1>2, ConstantsAssumption DEF Frames, CallPcs, RetCodes, StreamIds, Slots
    <2>5. call' \in [Callers -> Frames]
      BY <2>4, Zenon DEF SendAndWait, IInv, TypeOK
    <2>6. srv' \in [StreamIds -> {"unused", "open", "closed"}]
      BY Zenon DEF SendAndWait, IInv, TypeOK
    <2> QED
      BY <1>2, <2>1, <2>2, <2>3, <2>5, <2>6, Zenon DEF SendAndWait, IInv, TypeOK
  <1>6. \A j \in Slots : stream_state_id[j] \in Nat /\ stream_state_id[j] < next_stream_id
    BY ConstantsAssumption DEF IInv, IdsHandedOut, TypeOK
  <1>7. \A d \in Callers : call[d].id \in Nat /\ call[d].id < next_stream_id
    BY ConstantsAssumption DEF IInv, IdsHandedOut, TypeOK, Frames
  <1>8. next_stream_id \in Nat \ {0}
    BY <1>2, ConstantsAssumption DEF StreamIds
  <1>9. StreamIdsUnique'
    BY SMTT(30), <1>3, <1>6 DEF IInv, StreamIdsUnique
  <1>10. PendingCtxAlive'
    <2> SUFFICES ASSUME NEW j \in Slots, stream_state_id'[j] # 0,
                        stream_state_handler'[j].fn = "NULL"
                 PROVE  \E d \in Callers :
                          /\ stream_state_handler'[j].ctx = d
                          /\ InCall(d)'
                          /\ call'[d].id = stream_state_id'[j]
                          /\ call'[d].index = j
                          /\ ~call'[d].ready
      BY Zenon DEF PendingCtxAlive
    <2>1. CASE j = i
      BY <2>1, <1>3, <1>4, SMTT(30) DEF ResponseHandler, InCall
    <2>2. CASE j # i
      <3>0. stream_state_id[j] # 0 /\ stream_state_handler[j].fn = "NULL"
        BY <2>2, <1>3, Zenon
      <3>1. PICK d \in Callers :
                          /\ stream_state_handler[j].ctx = d
                          /\ InCall(d)
                          /\ call[d].id = stream_state_id[j]
                          /\ call[d].index = j
                          /\ ~call[d].ready
        BY <3>0, Zenon DEF IInv, PendingCtxAlive
      <3> QED
        BY <3>1, <2>2, <1>3, <1>4, Zenon DEF InCall
    <2> QED
      BY <2>1, <2>2, Zenon
  <1>11. RecvFrame'
    BY Zenon DEF MtxFree, RecvFrame
  <1>12. IdsHandedOut'
    <2>1. ASSUME NEW j \in Slots PROVE stream_state_id'[j] < next_stream_id'
      BY <1>2, <1>3, <1>6, <1>8
    <2>2. ASSUME NEW d \in Callers PROVE call'[d].id < next_stream_id'
      <3>1. CASE d = c
        <4>1. call'[d].id = next_stream_id
          BY <3>1, <1>4
        <4> QED
          BY <4>1, <1>2, <1>8
      <3>2. CASE d # c
        <4>1. call'[d].id = call[d].id
          BY <3>2, <1>4, Zenon
        <4> QED
          BY <4>1, <1>2, <1>7, <1>8
      <3> QED
        BY <3>1, <3>2, Zenon
    <2>3. ASSUME NEW d \in Callers, NEW e \in Callers, d # e PROVE call'[d].id = 0 \/ call'[d].id # call'[e].id
      <3>1. CASE d # c /\ e # c
        BY <1>4, <2>3, <3>1 DEF IInv, IdsHandedOut
      <3>2. CASE d = c \/ e = c
        BY <1>4, <1>7, <1>8, <2>3, <3>2
      <3> QED
        BY <3>1, <3>2, Zenon
    <2> QED
      BY <2>1, <2>2, <2>3, Zenon DEF IdsHandedOut
  <1>13. FrameOK'
    BY <1>4, <1>8 DEF IInv, FrameOK, InCall
  <1>14. ArmedByOk'
    BY <1>3, <1>4, <1>6 DEF IInv, ArmedByOk, InCall, ResponseHandler
  <1> QED
    BY <1>5, <1>9, <1>10, <1>11, <1>12, <1>13, <1>14, Zenon DEF IInv

\* The entry of ggipc_subscribe and ggipc_call: a slot is claimed under a fresh stream id.
LEMMA SubscribeInv ==
    ASSUME IInv, NEW c \in Callers, NEW sub \in BOOLEAN, ggipc_subscribe(c, sub)
    PROVE  IInv'
  <1>1. ~InCall(c) /\ MtxFree /\ UNCHANGED <<recv, closed>>
    BY Zenon DEF ggipc_subscribe, InCall
  <1>2. CASE NoFreeSlot(c)
    BY <1>1, <1>2, NoFreeSlotInv, Zenon
  <1>3. ASSUME NEW i \in Slots, SendFails(c, sub, i) PROVE IInv'
    BY <1>1, <1>3, SendFailsInv, Zenon
  <1>4. ASSUME NEW i \in Slots, SendAndWait(c, sub, i) PROVE IInv'
    BY <1>1, <1>4, SendAndWaitInv, Zenon
  <1> QED
    BY <1>2, <1>3, <1>4, Zenon DEF ggipc_subscribe

\* The woken caller returns the stored result or waits on (client.c:639, 650).
LEMMA WokenInv ==
    ASSUME IInv, NEW c \in Callers, Woken(c)
    PROVE  IInv'
  <1>1. UNCHANGED <<table, next_stream_id, recv, server, handle, closed>>
    BY Zenon DEF Woken
  <1>2. CASE call[c].ready /\ Return(c, call[c].id, call[c].ret)
    <2>1. call[c].id \in 0..MaxStreamId /\ call[c].ret \in RetCodes
      BY Zenon DEF IInv, TypeOK, Frames
    <2>2. call' \in [Callers -> Frames] /\ b64_mtx' \in Callers \cup {None}
      BY <1>2, <2>1, ReturnEffect, Zenon DEF IInv
    <2>3. TypeOK'
      BY <1>1, <2>2, Zenon DEF IInv, TypeOK, table, server
    <2>4. StreamIdsUnique' /\ PendingCtxAlive' /\ RecvFrame' /\ IdsHandedOut'
             /\ FrameOK' /\ ArmedByOk'
      BY <1>1, <1>2, <2>1, ReturnKeepsOwners, Zenon
    <2> QED
      BY <2>3, <2>4, Zenon DEF IInv
  <1>3. CASE call' = [call EXCEPT ![c].pc = "waiting"] /\ b64_mtx' = b64_mtx
    <2>1. InCall(c) /\ b64_mtx' \in Callers \cup {None}
      BY <1>3, Zenon DEF Woken, InCall, IInv, TypeOK
    <2> QED
      BY ZenonT(90), <1>1, <1>3, <2>1, WaitStepInv DEF CallPcs
  <1> QED
    BY <1>2, <1>3, Zenon DEF Woken

\* A wait that ends without a response: only the call moves.
LEMMA LeaveWaitInv ==
    ASSUME IInv, NEW c \in Callers, Deadline(c) \/ SpuriousWakeup(c)
    PROVE  IInv'
  <1>1. /\ InCall(c) /\ b64_mtx' \in Callers \cup {None}
        /\ UNCHANGED <<table, next_stream_id, recv, server, handle, closed>>
    BY Zenon DEF Deadline, SpuriousWakeup, InCall, IInv, TypeOK
  <1>2. CASE call' = [call EXCEPT ![c].pc = "timedout"]
    BY <1>1, <1>2, WaitStepInv, Zenon DEF CallPcs
  <1>3. CASE call' = [call EXCEPT ![c].pc = "woken"]
    BY ZenonT(90), <1>1, <1>3, WaitStepInv DEF CallPcs
  <1> QED
    BY <1>2, <1>3, Zenon DEF Deadline, SpuriousWakeup

\* The timeout path (client.c:642-646).  Whatever the slot holds by now, it is
\* emptied; a slot that still points to this frame is this very slot.
LEMMA TimedOutInv ==
    ASSUME IInv, NEW c \in Callers, TimedOut(c)
    PROVE  IInv'
  <1> DEFINE i == call[c].index
  <1>1. /\ i \in Slots /\ MtxFree /\ InCall(c)
        /\ SendTerminate(stream_state_id[i]) /\ clear_stream_index(i)
        /\ Return(c, call[c].id, "TIMEOUT")
        /\ UNCHANGED <<next_stream_id, recv, handle, closed>>
    BY Zenon DEF TimedOut, close_stream, IInv, FrameOK, InCall
  <1>2. /\ stream_state_id' \in [Slots -> 0..MaxStreamId]
        /\ stream_state_generation' \in [Slots -> Gens]
        /\ stream_state_handler' \in [Slots -> Handlers]
        /\ stream_state_id'[i] = 0
        /\ \A j \in Slots : j # i =>
                /\ stream_state_id'[j] = stream_state_id[j]
                /\ stream_state_handler'[j] = stream_state_handler[j]
    BY <1>1, ClearEffect, Zenon DEF IInv
  <1>3. stream_state_id[i] \in 0..MaxStreamId
    BY <1>1, Zenon DEF IInv, TypeOK
  <1>4. /\ inbox' \in Seq(Packets)
        /\ srv' \in [StreamIds -> {"unused", "open", "closed"}]
        /\ undelivered' \subseteq StreamIds
    BY <1>1, <1>3, TerminateEffect, Zenon DEF IInv
  <1>5. /\ call' \in [Callers -> Frames]
        /\ b64_mtx' \in Callers \cup {None}
        /\ call'[c].pc = "idle" /\ call'[c].id = call[c].id
        /\ \A d \in Callers : d # c => call'[d] = call[d]
    <2>1. call[c].id \in 0..MaxStreamId /\ "TIMEOUT" \in RetCodes
      BY Zenon DEF IInv, TypeOK, Frames, RetCodes
    <2> QED
      BY <1>1, <2>1, ReturnEffect, Zenon DEF IInv
  <1>6. TypeOK'
    BY <1>1, <1>2, <1>4, <1>5, Zenon DEF IInv, TypeOK
  <1>7. StreamIdsUnique'
    BY <1>2 DEF IInv, StreamIdsUnique
  <1>8. PendingCtxAlive'
    BY SMTT(30), <1>2, <1>5 DEF IInv, PendingCtxAlive, InCall
  <1>9. RecvFrame'
    BY <1>1, Zenon DEF MtxFree, RecvFrame
  <1>10. IdsHandedOut'
    <2>1. next_stream_id \in Nat \ {0} /\ next_stream_id' = next_stream_id
      BY <1>1, ConstantsAssumption DEF IInv, TypeOK
    <2> QED
      BY SMTT(30), <1>2, <1>5, <2>1 DEF IInv, IdsHandedOut
  <1>11. FrameOK'
    BY <1>5, Zenon DEF IInv, FrameOK, InCall
  <1>12. ArmedByOk'
    BY <1>1, <1>2, <1>5 DEF IInv, ArmedByOk, InCall
  <1> QED
    BY <1>6, <1>7, <1>8, <1>9, <1>10, <1>11, <1>12, Zenon DEF IInv

\* ggipc_close_subscription (client.c:831), from any thread or from a callback.
LEMMA CloseInv ==
    ASSUME IInv, NEW s \in StreamIds, ggipc_close_subscription(s)
    PROVE  IInv'
  <1>1. /\ UNCHANGED <<next_stream_id, call, recv, b64_mtx, handle>>
        /\ closed' \subseteq StreamIds
    BY Zenon DEF ggipc_close_subscription, IInv, TypeOK
  <1>2. CASE UNCHANGED <<table, server>>
    <2> USE <1>1, <1>2 DEF table, server
    <2>1. TypeOK'
      BY Zenon DEF IInv, TypeOK
    <2>2. StreamIdsUnique' /\ PendingCtxAlive' /\ RecvFrame'
      BY DEF IInv, StreamIdsUnique, PendingCtxAlive, RecvFrame, InCall
    <2>3. IdsHandedOut' /\ FrameOK' /\ ArmedByOk'
      BY DEF IInv, IdsHandedOut, FrameOK, ArmedByOk, InCall
    <2> QED
      BY <2>1, <2>2, <2>3, Zenon DEF IInv
  <1>3. CASE validate_handle(handle[s]) /\ close_stream(handle[s].index)
    <2> DEFINE i == handle[s].index
    <2>1. i \in Slots /\ clear_stream_index(i) /\ SendTerminate(stream_state_id[i])
      BY <1>3, Zenon DEF validate_handle, close_stream
    <2>2. /\ stream_state_id' \in [Slots -> 0..MaxStreamId]
          /\ stream_state_generation' \in [Slots -> Gens]
          /\ stream_state_handler' \in [Slots -> Handlers]
          /\ stream_state_id'[i] = 0
          /\ \A j \in Slots : j # i => stream_state_id'[j] = stream_state_id[j]
      BY <2>1, ClearEffect, Zenon DEF IInv
    <2>3. stream_state_id[i] \in 0..MaxStreamId
      BY <2>1, Zenon DEF IInv, TypeOK
    <2>4. /\ inbox' \in Seq(Packets)
          /\ srv' \in [StreamIds -> {"unused", "open", "closed"}]
          /\ undelivered' \subseteq StreamIds
      BY <2>1, <2>3, TerminateEffect, Zenon DEF IInv
    <2>5. TypeOK'
      BY <1>1, <2>2, <2>4, Zenon DEF IInv, TypeOK
    <2>6. StreamIdsUnique' /\ PendingCtxAlive' /\ IdsHandedOut'
             /\ FrameOK' /\ ArmedByOk'
      BY Zenon, <1>1, <2>1, ClearKeepsOwners
    <2>7. RecvFrame'
      BY <1>1, <2>2, ConstantsAssumption DEF IInv, RecvFrame, InCall, StreamIds
    <2> QED
      BY <2>5, <2>6, <2>7, Zenon DEF IInv
  <1> QED
    BY <1>2, <1>3, Zenon DEF ggipc_close_subscription

\* A well-typed receive thread that polls.
LEMMA PollingType == Polling \in Receivers /\ Polling.pc = "poll"
  BY SMTT(30), ConstantsAssumption
     DEF Polling, Receivers, RecvPcs, Packets, NoPacket

\* response_handler (client.c:508): if the frame it completes is the one that
\* the packet's stream belongs to, the slot is emptied or armed and the frame
\* left ready, so that no slot points to it any more.
LEMMA FinishResponseInv ==
    ASSUME IInv, NEW i \in Slots, NEW m \in Packets, NEW ok \in BOOLEAN,
           NEW c \in Callers, InCall(c), ~call[c].ready, call[c].index = i,
           call[c].id = m.id, m.id \in StreamIds,
           \A j \in Slots : stream_state_id[j] = m.id => j = i,
           FinishResponse(i, c, m, ok),
           UNCHANGED <<next_stream_id, b64_mtx, handle, closed>>
    PROVE  IInv'
  <1> DEFINE armed == /\ stream_state_id'[i] = m.id
                      /\ stream_state_handler'[i] = SubHandler(m.id)
                      /\ ok
             emptied == stream_state_id'[i] = 0
  <1>1. /\ stream_state_id' \in [Slots -> 0..MaxStreamId]
        /\ stream_state_generation' \in [Slots -> Gens]
        /\ stream_state_handler' \in [Slots -> Handlers]
        /\ inbox' \in Seq(Packets)
        /\ srv' \in [StreamIds -> {"unused", "open", "closed"}]
        /\ undelivered' \subseteq StreamIds
        /\ armed \/ emptied
        /\ \A j \in Slots : j # i =>
                /\ stream_state_id'[j] = stream_state_id[j]
                /\ stream_state_handler'[j] = stream_state_handler[j]
    <2>1. CASE close_stream(i)
      <3>1. stream_state_id[i] \in 0..MaxStreamId /\ TypeOK
        BY Zenon DEF IInv, TypeOK
      <3>2. SendTerminate(stream_state_id[i]) /\ clear_stream_index(i)
        BY <2>1, Zenon DEF close_stream
      <3> QED
        BY <3>1, <3>2, ClearEffect, TerminateEffect, Zenon
    <2>2. CASE clear_stream_index(i) /\ UNCHANGED server
      <3>1. TypeOK
        BY Zenon DEF IInv
      <3>2. /\ inbox' \in Seq(Packets)
            /\ srv' \in [StreamIds -> {"unused", "open", "closed"}]
            /\ undelivered' \subseteq StreamIds
        BY <2>2, Zenon DEF IInv, TypeOK, server
      <3> QED
        BY ZenonT(90), <3>1, <3>2, <2>2, ClearEffect
    <2>3. CASE /\ ok
               /\ set_stream_index(i, m.id, SubHandler(m.id))
               /\ UNCHANGED <<stream_state_generation, server>>
      <3>1. SubHandler(m.id) \in Handlers /\ m.id \in 0..MaxStreamId
        BY ConstantsAssumption DEF SubHandler, Handlers, StreamIds
      <3>2. /\ stream_state_id' \in [Slots -> 0..MaxStreamId]
            /\ stream_state_handler' \in [Slots -> Handlers]
        BY <2>3, <3>1, Zenon DEF set_stream_index, IInv, TypeOK
      <3>3. armed
        BY <2>3, Zenon DEF set_stream_index, IInv, TypeOK
      <3>4. \A j \in Slots : j # i =>
                /\ stream_state_id'[j] = stream_state_id[j]
                /\ stream_state_handler'[j] = stream_state_handler[j]
        BY <2>3, Zenon DEF set_stream_index, IInv, TypeOK
      <3> QED
        BY <2>3, <3>2, <3>3, <3>4, Zenon DEF IInv, TypeOK, server
    <2> QED
      BY ZenonT(90), <2>1, <2>2, <2>3 DEF FinishResponse
  <1>2. /\ call' \in [Callers -> Frames]
        /\ call'[c].ready
        /\ ok => call'[c].ret = "OK"
        /\ InCall(c)'
        /\ call'[c].id = call[c].id /\ call'[c].index = call[c].index
        /\ \A d \in Callers : d # c => call'[d] = call[d]
    <2> DEFINE frame == [call[c] EXCEPT
                           !.ready = TRUE, !.ret = IF ok THEN "OK" ELSE "ERR",
                           !.pc = IF @ = "waiting" THEN "woken" ELSE @]
    <2>1. call[c] \in Frames
      BY Zenon DEF IInv, TypeOK
    <2>2. /\ frame \in Frames
          /\ frame.ready /\ frame.id = call[c].id /\ frame.index = call[c].index
          /\ frame.ret = IF ok THEN "OK" ELSE "ERR"
          /\ frame.pc = IF call[c].pc = "waiting" THEN "woken" ELSE call[c].pc
      BY <2>1, Zenon DEF Frames, CallPcs, RetCodes
    <2>3. call' = [d \in Callers |-> IF d # c THEN call[d] ELSE frame]
      BY ZenonT(90) DEF FinishResponse
    <2> HIDE DEF frame
    <2>4. call' \in [Callers -> Frames]
      BY <2>2, <2>3, Zenon DEF IInv, TypeOK
    <2>5. call'[c] = frame /\ \A d \in Callers : d # c => call'[d] = call[d]
      BY <2>3, Zenon
    <2> QED
      BY <2>2, <2>4, <2>5, Zenon DEF InCall
  <1>3. recv' = Polling
    BY ZenonT(90) DEF FinishResponse
  <1>4. TypeOK'
    BY <1>1, <1>2, <1>3, PollingType, Zenon DEF IInv, TypeOK
  <1>5. StreamIdsUnique'
    <2>1. m.id # 0
      BY IdFacts, Zenon
    <2>2. /\ stream_state_id'[i] = 0 \/ stream_state_id'[i] = m.id
          /\ \A j \in Slots : j # i => stream_state_id'[j] = stream_state_id[j]
      BY <1>1, Zenon
    <2>3. \A j, k \in Slots :
            stream_state_id[j] # 0 /\ stream_state_id[j] = stream_state_id[k] => j = k
      BY Zenon DEF IInv, StreamIdsUnique
    <2> QED
      BY <2>1, <2>2, <2>3, ZenonT(90) DEF StreamIdsUnique
  <1>6. PendingCtxAlive'
    <2> SUFFICES ASSUME NEW j \in Slots, stream_state_id'[j] # 0,
                        stream_state_handler'[j].fn = "NULL"
                 PROVE  \E d \in Callers :
                          /\ stream_state_handler'[j].ctx = d
                          /\ InCall(d)'
                          /\ call'[d].id = stream_state_id'[j]
                          /\ call'[d].index = j
                          /\ ~call'[d].ready
      BY Zenon DEF PendingCtxAlive
    <2>1. j # i
      BY SMTT(30), <1>1 DEF SubHandler
    <2>2. PICK d \in Callers :
                          /\ stream_state_handler[j].ctx = d
                          /\ InCall(d)
                          /\ call[d].id = stream_state_id[j]
                          /\ call[d].index = j
                          /\ ~call[d].ready
      BY <2>1, <1>1 DEF IInv, PendingCtxAlive
    <2>3. d # c
      BY <2>1, <2>2, Zenon
    <2> QED
      BY <2>1, <2>2, <2>3, <1>1, <1>2, ZenonT(90) DEF InCall
  <1>7. RecvFrame'
    BY Zenon, <1>3, PollingType DEF RecvFrame
  <1>8. IdsHandedOut'
    <2>1. next_stream_id \in Nat \ {0} /\ next_stream_id' = next_stream_id
      BY SMTT(30), ConstantsAssumption DEF IInv, TypeOK
    <2>2. m.id < next_stream_id
      BY Zenon DEF IInv, IdsHandedOut
    <2>3. \A j \in Slots : stream_state_id'[j] < next_stream_id
      <3>1. ASSUME NEW j \in Slots PROVE stream_state_id'[j] < next_stream_id
        <4>1. \/ stream_state_id'[j] = m.id
              \/ stream_state_id'[j] = 0
              \/ stream_state_id'[j] = stream_state_id[j]
          BY <1>1, Zenon
        <4> QED
          BY <4>1, <2>1, <2>2, IdFacts
      <3> QED
        BY <3>1, Zenon
    <2>4. \A d \in Callers : call'[d].id = call[d].id
      BY <1>2, Zenon
    <2> QED
      BY <2>1, <2>3, <2>4, ZenonT(90) DEF IInv, IdsHandedOut
  <1>9. FrameOK'
    BY SMTT(30), <1>2 DEF IInv, FrameOK, InCall
  <1>10. ArmedByOk'
    <2> SUFFICES ASSUME NEW j \in Slots, NEW d \in Callers,
                        stream_state_id'[j] # 0,
                        stream_state_handler'[j].fn # "NULL",
                        call'[d].id = stream_state_id'[j]
                 PROVE  /\ call'[d].ret = "OK"
                        /\ InCall(d)' => call'[d].ready /\ call'[d].index = j
      BY SMTT(30) DEF ArmedByOk
    <2>1. CASE j = i
      <3>1. armed /\ call[d].id = m.id
        <4>1. armed
          BY <2>1, <1>1, Zenon
        <4>2. call'[d].id = call[d].id
          BY <1>2, Zenon
        <4> QED
          BY <4>1, <4>2, <2>1, Zenon
      <3>2. m.id # 0
        BY IdFacts, Zenon
      <3>3. d = c
        BY ZenonT(90), <3>1, <3>2 DEF IInv, IdsHandedOut
      <3> QED
        BY Zenon, <2>1, <3>1, <3>3, <1>2
    <2>2. CASE j # i
      <3>1. /\ stream_state_id'[j] = stream_state_id[j]
            /\ stream_state_handler'[j] = stream_state_handler[j]
        BY <2>2, <1>1, Zenon
      <3>2. d # c
        BY <2>2, <3>1, <1>2, Zenon
      <3>3. call'[d] = call[d]
        BY Zenon, <3>2, <1>2
      <3>4. /\ call[d].ret = "OK"
            /\ InCall(d) => call[d].ready /\ call[d].index = j
        BY <3>1, <3>3 DEF IInv, ArmedByOk
      <3> QED
        BY ZenonT(90), <3>3, <3>4 DEF InCall
    <2> QED
      BY <2>1, <2>2, Zenon
  <1> QED
    BY <1>4, <1>5, <1>6, <1>7, <1>8, <1>9, <1>10, Zenon DEF IInv

\* The end of an event's dispatch (client.c:790-797).
LEMMA FinishEventInv ==
    ASSUME IInv, NEW i \in Slots, NEW m \in Packets, NEW ok \in BOOLEAN,
           FinishEvent(i, m, ok),
           UNCHANGED <<next_stream_id, b64_mtx, handle, closed>>
    PROVE  IInv'
  <1>1. recv' = Polling /\ call' = call
    BY Zenon DEF FinishEvent
  <1>2. RecvFrame'
    BY <1>1, PollingType, Zenon DEF RecvFrame
  <1>3. ASSUME clear_stream_index(i),
               inbox' \in Seq(Packets),
               srv' \in [StreamIds -> {"unused", "open", "closed"}],
               undelivered' \subseteq StreamIds
        PROVE  IInv'
    <2>1. TypeOK
      BY Zenon DEF IInv
    <2>2. /\ stream_state_id' \in [Slots -> 0..MaxStreamId]
          /\ stream_state_generation' \in [Slots -> Gens]
          /\ stream_state_handler' \in [Slots -> Handlers]
      BY <1>3, <2>1, ClearEffect, Zenon
    <2>3. TypeOK'
      BY <1>1, <1>3, <2>2, PollingType, Zenon DEF IInv, TypeOK
    <2>4. StreamIdsUnique' /\ PendingCtxAlive' /\ IdsHandedOut'
             /\ FrameOK' /\ ArmedByOk'
      BY <1>1, <1>3, ClearKeepsOwners, Zenon
    <2> QED
      BY <1>2, <2>3, <2>4, Zenon DEF IInv
  <1>4. CASE clear_stream_index(i) /\ UNCHANGED server
    <2>1. /\ inbox' \in Seq(Packets)
          /\ srv' \in [StreamIds -> {"unused", "open", "closed"}]
          /\ undelivered' \subseteq StreamIds
      BY <1>4, Zenon DEF IInv, TypeOK, server
    <2> QED
      BY <1>3, <1>4, <2>1, Zenon
  <1>5. CASE close_stream(i)
    <2>1. stream_state_id[i] \in 0..MaxStreamId /\ TypeOK
      BY Zenon DEF IInv, TypeOK
    <2>2. SendTerminate(stream_state_id[i]) /\ clear_stream_index(i)
      BY <1>5, Zenon DEF close_stream
    <2> QED
      BY <1>3, <2>1, <2>2, TerminateEffect, Zenon
  <1>6. CASE UNCHANGED <<table, server>>
    <2> USE <1>1, <1>6 DEF table, server
    <2>1. TypeOK'
      BY PollingType, Zenon DEF IInv, TypeOK
    <2>2. StreamIdsUnique' /\ PendingCtxAlive'
      BY ZenonT(90) DEF IInv, StreamIdsUnique, PendingCtxAlive, InCall
    <2>3. IdsHandedOut' /\ FrameOK' /\ ArmedByOk'
      BY ZenonT(90) DEF IInv, IdsHandedOut, FrameOK, ArmedByOk, InCall
    <2> QED
      BY <1>2, <2>1, <2>2, <2>3, Zenon DEF IInv
  <1> QED
    BY <1>4, <1>5, <1>6, Zenon DEF FinishEvent

\* Steps that only move the receive thread or the server's queue.
LEMMA RecvOnlyInv ==
    ASSUME IInv,
           recv' \in Receivers, RecvFrame', inbox' \in Seq(Packets),
           srv' \in [StreamIds -> {"unused", "open", "closed"}],
           UNCHANGED <<table, next_stream_id, call, b64_mtx, undelivered, handle,
                       closed>>
    PROVE  IInv'
  <1> USE DEF table
  <1>1. TypeOK'
    BY Zenon DEF IInv, TypeOK
  <1>2. StreamIdsUnique' /\ PendingCtxAlive'
    BY ZenonT(90) DEF IInv, StreamIdsUnique, PendingCtxAlive, InCall
  <1>3. IdsHandedOut' /\ FrameOK' /\ ArmedByOk'
    BY ZenonT(90) DEF IInv, IdsHandedOut, FrameOK, ArmedByOk, InCall
  <1> QED
    BY <1>1, <1>2, <1>3, Zenon DEF IInv

\* dispatch_incoming_packet (client.c:761-797): a response goes to the frame
\* its slot points to, which PendingCtxAlive says is the right one.
LEMMA DispatchInv ==
    ASSUME IInv, dispatch_incoming_packet
    PROVE  IInv'
  <1>1. /\ UNCHANGED <<next_stream_id, b64_mtx, handle, closed>>
        /\ recv \in Receivers /\ recv.msg \in Packets
        /\ recv.pc = "read"
    BY Zenon DEF dispatch_incoming_packet, IInv, TypeOK, Receivers
  <1>2. CASE recv' = Polling /\ UNCHANGED <<table, call, server>>
    <2>1. RecvFrame' /\ recv' \in Receivers
      BY <1>2, PollingType, Zenon DEF RecvFrame
    <2>2. /\ inbox' \in Seq(Packets)
          /\ srv' \in [StreamIds -> {"unused", "open", "closed"}]
          /\ undelivered' = undelivered
      BY <1>2, Zenon DEF IInv, TypeOK, server
    <2> QED
      BY <1>1, <1>2, <2>1, <2>2, RecvOnlyInv, Zenon
  <1>3. ASSUME NEW i \in Slots, get_stream_index_from_id(recv.msg.id, i),
               \/ /\ stream_state_handler[i].fn = "NULL"
                  /\ DispatchResponse(i, recv.msg)
               \/ /\ stream_state_handler[i].fn # "NULL"
                  /\ DispatchEvent(i, recv.msg)
        PROVE  IInv'
    <2>1. /\ recv.msg.id \in StreamIds /\ stream_state_id[i] = recv.msg.id
          /\ \A j \in Slots : stream_state_id[j] = recv.msg.id => j = i
      BY <1>1, <1>3, ConstantsAssumption
         DEF get_stream_index_from_id, IInv, StreamIdsUnique, Packets, StreamIds
    <2>2. ASSUME NEW pc \in {"result_cb", "error_cb", "sub_cb"},
                 EnterCallback(pc, i), RecvFrame'
          PROVE  IInv'
      <3>1. stream_state_handler[i].ctx \in Callers \cup StreamIds \cup {None}
        BY Zenon DEF IInv, TypeOK, Handlers
      <3>2. recv' \in Receivers
        <4>1. i \in 0..MaxStreams /\ pc \in RecvPcs
          BY ConstantsAssumption DEF Slots, RecvPcs
        <4>2. recv' = [recv EXCEPT !.pc = pc, !.index = i,
                                   !.ctx = stream_state_handler[i].ctx]
          BY <2>2, Zenon DEF EnterCallback
        <4> QED
          BY ZenonT(90), <1>1, <3>1, <4>1, <4>2 DEF Receivers
      <3>3. /\ inbox' \in Seq(Packets)
            /\ srv' \in [StreamIds -> {"unused", "open", "closed"}]
            /\ undelivered' = undelivered
            /\ UNCHANGED <<table, call>>
        BY <2>2, Zenon DEF EnterCallback, IInv, TypeOK, server
      <3> QED
        BY <1>1, <2>2, <3>2, <3>3, RecvOnlyInv, Zenon
    <2>3. CASE stream_state_handler[i].fn = "NULL" /\ DispatchResponse(i, recv.msg)
      <3>1. PICK c \in Callers :
              /\ stream_state_handler[i].ctx = c
              /\ InCall(c)
              /\ call[c].id = stream_state_id[i]
              /\ call[c].index = i
              /\ ~call[c].ready
        BY <2>1, <2>3, ConstantsAssumption DEF IInv, PendingCtxAlive, StreamIds
      <3>2. ASSUME NEW pc \in {"result_cb", "error_cb"}, EnterCallback(pc, i)
            PROVE  IInv'
        <4>1. /\ recv'.pc = pc /\ recv'.index = i /\ recv'.ctx = c
              /\ recv'.msg = recv.msg /\ UNCHANGED <<table, call>>
          BY Zenon, <1>1, <3>1, <3>2 DEF EnterCallback, Receivers
        <4>2. RecvFrame'
          BY <2>1, <3>1, <4>1, Zenon DEF RecvFrame, InCall, table
        <4> QED
          BY <2>2, <3>2, <4>2, Zenon
      <3>3. ASSUME NEW ok \in BOOLEAN,
                   FinishResponse(i, stream_state_handler[i].ctx, recv.msg, ok)
            PROVE  IInv'
        BY <1>1, <2>1, <3>1, <3>3, FinishResponseInv
      <3> QED
        BY <2>3, <3>2, <3>3, Zenon DEF DispatchResponse
    <2>4. CASE DispatchEvent(i, recv.msg)
      <3>1. CASE EnterCallback("sub_cb", i)
        <4>1. recv'.pc = "sub_cb" /\ recv'.index = i
          BY <1>1, <3>1, Zenon DEF EnterCallback, Receivers
        <4>2. RecvFrame'
          BY <4>1, Zenon DEF RecvFrame
        <4> QED
          BY <2>2, <3>1, <4>2, Zenon
      <3>2. ASSUME NEW ok \in BOOLEAN, FinishEvent(i, recv.msg, ok)
            PROVE  IInv'
        BY <1>1, <3>2, FinishEventInv, Zenon
      <3> QED
        BY <2>4, <3>1, <3>2, Zenon DEF DispatchEvent
    <2> QED
      BY <1>3, <2>3, <2>4, Zenon
  <1> QED
    BY <1>2, <1>3, Zenon DEF dispatch_incoming_packet

\* The user's callback returns (client.c:446, 393, 728).
LEMMA CallbackReturnsInv ==
    ASSUME IInv, NEW ok \in BOOLEAN, CallbackReturns(ok)
    PROVE  IInv'
  <1>1. /\ UNCHANGED <<next_stream_id, b64_mtx, handle, closed>>
        /\ recv.msg \in Packets
    BY Zenon DEF CallbackReturns, IInv, TypeOK, Receivers
  <1>2. CASE /\ recv.pc \in {"result_cb", "error_cb"}
             /\ FinishResponse(recv.index, recv.ctx, recv.msg,
                               ok /\ recv.pc = "result_cb")
    <2>1. (ok /\ recv.pc = "result_cb") \in BOOLEAN
      BY Zenon
    <2>2. /\ recv.index \in Slots /\ recv.msg.id \in StreamIds
          /\ recv.ctx \in Callers /\ InCall(recv.ctx)
          /\ call[recv.ctx].id = recv.msg.id
          /\ call[recv.ctx].index = recv.index
          /\ ~call[recv.ctx].ready
          /\ \A i \in Slots : stream_state_id[i] = recv.msg.id => i = recv.index
      BY <1>2, Zenon DEF IInv, RecvFrame
    <2> QED
      BY ZenonT(90), <1>1, <1>2, <2>1, <2>2, FinishResponseInv
  <1>3. CASE recv.pc = "sub_cb" /\ FinishEvent(recv.index, recv.msg, ok)
    <2>1. recv.index \in Slots
      BY <1>3, Zenon DEF IInv, RecvFrame
    <2> QED
      BY <1>1, <1>3, <2>1, FinishEventInv, Zenon
  <1> QED
    BY <1>2, <1>3, Zenon DEF CallbackReturns

\* The receive thread takes a packet from the connection.
LEMMA ReadPacketInv ==
    ASSUME IInv, ReadPacket
    PROVE  IInv'
  <1>1. recv \in Receivers /\ inbox \in Seq(Packets)
    BY Zenon DEF IInv, TypeOK
  <1>2. Head(inbox) \in Packets /\ inbox' \in Seq(Packets)
    BY <1>1 DEF ReadPacket
  <1>3. recv' \in Receivers
    BY <1>1, <1>2, Zenon DEF ReadPacket, Receivers, RecvPcs
  <1>4. recv'.pc = "read"
    BY <1>1, Zenon DEF ReadPacket, Receivers
  <1>5. RecvFrame'
    BY <1>4, Zenon DEF RecvFrame
  <1>6. srv' \in [StreamIds -> {"unused", "open", "closed"}]
    BY Zenon DEF ReadPacket, IInv, TypeOK
  <1> QED
    BY <1>2, <1>3, <1>5, <1>6, RecvOnlyInv, Zenon DEF ReadPacket

\* The receive thread meets a failed read.
LEMMA ReceiveErrorInv ==
    ASSUME IInv, ReceiveError
    PROVE  IInv'
  <1>1. recv \in Receivers
    BY Zenon DEF IInv, TypeOK
  <1>2. recv' \in Receivers /\ recv'.pc = "exited"
    BY <1>1, Zenon DEF ReceiveError, Receivers, RecvPcs
  <1>3. RecvFrame'
    BY <1>2, Zenon DEF RecvFrame
  <1>4. /\ inbox' \in Seq(Packets)
        /\ srv' \in [StreamIds -> {"unused", "open", "closed"}]
        /\ undelivered' = undelivered
    BY Zenon DEF ReceiveError, IInv, TypeOK, server
  <1> QED
    BY <1>2, <1>3, <1>4, RecvOnlyInv, Zenon DEF ReceiveError

\* A callback that waits for the base64 lock keeps the receive thread's locals.
LEMMA CallbackPublishInv ==
    ASSUME IInv, CallbackLocksB64 \/ CallbackPublishRefused
    PROVE  IInv'
  <1>1. PICK b \in BOOLEAN : recv' = [recv EXCEPT !.blocked = b]
    BY ZenonT(90) DEF CallbackLocksB64, CallbackPublishRefused
  <1>2. /\ UNCHANGED <<table, next_stream_id, call, b64_mtx, handle, closed>>
        /\ UNCHANGED <<inbox, srv, undelivered>>
    BY Zenon DEF CallbackLocksB64, CallbackPublishRefused, server
  <1>3. recv \in Receivers
    BY Zenon DEF IInv, TypeOK
  <1>4. /\ recv' \in Receivers /\ recv'.pc = recv.pc /\ recv'.msg = recv.msg
        /\ recv'.index = recv.index /\ recv'.ctx = recv.ctx
    BY <1>1, <1>3, Zenon DEF Receivers
  <1>5. RecvFrame'
    BY <1>2, <1>4, Zenon DEF IInv, RecvFrame, InCall, table
  <1>6. /\ inbox' \in Seq(Packets)
        /\ srv' \in [StreamIds -> {"unused", "open", "closed"}]
    BY <1>2, Zenon DEF IInv, TypeOK
  <1> QED
    BY <1>2, <1>4, <1>5, <1>6, RecvOnlyInv, Zenon

\* The server sends a packet of its own.
LEMMA ServerSendsInv ==
    ASSUME IInv, NEW m \in Packets, ServerSends(m)
    PROVE  IInv'
  <1>1. inbox' \in Seq(Packets)
    BY DEF ServerSends, IInv, TypeOK
  <1>2. srv' \in [StreamIds -> {"unused", "open", "closed"}]
    BY Zenon DEF ServerSends, IInv, TypeOK
  <1>3. /\ recv' \in Receivers
        /\ UNCHANGED <<table, next_stream_id, call, recv, b64_mtx, undelivered,
                       handle, closed>>
    BY Zenon DEF ServerSends, IInv, TypeOK
  <1>4. RecvFrame'
    BY ZenonT(90), <1>3 DEF IInv, RecvFrame, InCall, table
  <1> QED
    BY <1>1, <1>2, <1>3, <1>4, RecvOnlyInv, Zenon

-----------------------------------------------------------------------------
(* The theorems. *)

\* Every step of every thread and of the server preserves the invariant.
LEMMA NextInv == IInv /\ [Next]_vars => IInv'
  <1> SUFFICES ASSUME IInv, [Next]_vars PROVE IInv'
    BY Zenon
  <1>1. ASSUME NEW c \in Callers, CallerStep(c) PROVE IInv'
    BY <1>1, LockAndEncodeInv, SubscribeInv, LeaveWaitInv, WokenInv, TimedOutInv, Zenon
       DEF CallerStep
  <1>2. CASE RecvStep
    BY <1>2, ReadPacketInv, ReceiveErrorInv, DispatchInv, CallbackReturnsInv,
       CallbackPublishInv, Zenon DEF RecvStep
  <1>3. ASSUME NEW s \in StreamIds, ggipc_close_subscription(s) PROVE IInv'
    BY <1>3, CloseInv, Zenon
  <1>4. ASSUME NEW m \in Packets, ServerSends(m) PROVE IInv'
    BY <1>4, ServerSendsInv, Zenon
  <1>5. CASE UNCHANGED vars
    <2> USE <1>5 DEF vars, table, server
    <2>1. TypeOK'
      BY Zenon DEF IInv, TypeOK
    <2>2. StreamIdsUnique' /\ PendingCtxAlive' /\ RecvFrame'
      BY ZenonT(90) DEF IInv, StreamIdsUnique, PendingCtxAlive, RecvFrame, InCall
    <2>3. IdsHandedOut' /\ FrameOK' /\ ArmedByOk'
      BY ZenonT(90) DEF IInv, IdsHandedOut, FrameOK, ArmedByOk, InCall
    <2> QED
      BY <2>1, <2>2, <2>3, Zenon DEF IInv
  <1> QED
    BY <1>1, <1>2, <1>3, <1>4, <1>5, Zenon DEF Next

\* The invariant holds in every reachable state.
LEMMA InductiveInvariant == Spec => []IInv
  BY InitInv, NextInv, PTL DEF Spec

\* The stream table, the callers' frames and the receive thread stay well-typed,
\* generations within their width included.
THEOREM TypeCorrect == Spec => []TypeOK
  <1>1. IInv => TypeOK
    BY Zenon DEF IInv
  <1> QED
    BY <1>1, InductiveInvariant, PTL

\* get_stream_index_from_id (client.c:135) never has two slots to choose from.
THEOREM IdsUnique == Spec => []StreamIdsUnique
  <1>1. IInv => StreamIdsUnique
    BY Zenon DEF IInv
  <1> QED
    BY <1>1, InductiveInvariant, PTL

\* A slot that waits for a response points to the frame of the call that is
\* waiting for it (client.c:574-607), and while a result or error callback runs
\* so does the receive thread, until response_handler writes the result
\* (client.c:515): no result is written through a pointer to a stack frame that is
\* gone, whatever timeouts, late answers and closes come before it.
THEOREM NoDanglingCtx == Spec => []ContextsAlive
  <1>1. IInv => PendingCtxAlive
    BY Zenon DEF IInv
  <1>2. IInv => ResponseCtxAlive
    BY Zenon DEF IInv, RecvFrame, ResponseCtxAlive
  <1> QED
    BY <1>1, <1>2, InductiveInvariant, PTL DEF ContextsAlive

\* After ggipc_subscribe returned an error, no slot carries its stream: the
\* subscription callback cannot be called with a context the caller has freed.
THEOREM FailedSubscribeIsOff == Spec => []FailedSubscribeNotArmed
  <1>1. IInv => FailedSubscribeNotArmed
    <2> SUFFICES ASSUME IInv, NEW c \in Callers, NEW i \in Slots,
                        call[c].pc \in {"idle", "encoded"}, call[c].ret # "OK",
                        call[c].id # 0, stream_state_id[i] = call[c].id
                 PROVE  FALSE
      BY Zenon DEF FailedSubscribeNotArmed
    <2>1. CASE stream_state_handler[i].fn = "NULL"
      <3>1. PICK d \in Callers : InCall(d) /\ call[d].id = stream_state_id[i]
        BY <2>1, Zenon DEF IInv, PendingCtxAlive
      <3>2. d = c
        BY <3>1, Zenon DEF IInv, IdsHandedOut
      <3> QED
        BY <3>1, <3>2, Zenon DEF InCall
    <2>2. CASE stream_state_handler[i].fn # "NULL"
      BY <2>2, Zenon DEF IInv, ArmedByOk
    <2> QED
      BY <2>1, <2>2, Zenon
  <1> QED
    BY <1>1, InductiveInvariant, PTL
=============================================================================
