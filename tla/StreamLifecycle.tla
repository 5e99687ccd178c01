--------------------------- MODULE StreamLifecycle ---------------------------
(***************************************************************************)
(* What the IPC client promises about streams, without slots, generations,  *)
(* threads or packets: stream ids are used once and in order, a stream goes  *)
(* from pending to armed to gone and never back, subscription callbacks run  *)
(* one at a time and only for an armed stream, and while one runs no request *)
(* is made and no response is processed (streams can only end).              *)
(***************************************************************************)
EXTENDS Integers

CONSTANT MaxStreamId

StreamIds == 1..MaxStreamId

VARIABLES
    phase,      \* stream id -> "fresh", "pending", "armed" or "gone"
    running     \* stream whose subscription callback runs, 0 if none

vars == <<phase, running>>

Init ==
    /\ phase = [s \in StreamIds |-> "fresh"]
    /\ running = 0

\* A request is made on the next id; it may fail to be sent.
Request(s) ==
    /\ running = 0
    /\ phase[s] = "fresh"
    /\ \A t \in StreamIds : t < s => phase[t] # "fresh"
    /\ \E p \in {"pending", "gone"} : phase' = [phase EXCEPT ![s] = p]
    /\ running' = running

\* The response to a subscription request is accepted.
Arm(s) ==
    /\ running = 0
    /\ phase[s] = "pending"
    /\ phase' = [phase EXCEPT ![s] = "armed"]
    /\ running' = running

\* The stream ends: response, error, timeout, close or termination.
End(s) ==
    /\ phase[s] \in {"pending", "armed"}
    /\ phase' = [phase EXCEPT ![s] = "gone"]
    /\ running' = running

Deliver(s) ==
    /\ running = 0
    /\ phase[s] = "armed"
    /\ running' = s
    /\ phase' = phase

\* The callback returns; its error or the packet's flag may end the stream.
Return(s) ==
    /\ running = s
    /\ running' = 0
    /\ \/ phase' = phase
       \/ /\ phase[s] = "armed"
          /\ phase' = [phase EXCEPT ![s] = "gone"]

Next == \E s \in StreamIds :
            Request(s) \/ Arm(s) \/ End(s) \/ Deliver(s) \/ Return(s)

Spec == Init /\ [][Next]_vars
=============================================================================
