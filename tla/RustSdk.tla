------------------------------ MODULE RustSdk ------------------------------
(***************************************************************************)
(* The Rust binding, rust/src/ipc.rs: the CONNECTED latch that lets one    *)
(* caller into ggipc_connect, and the lifetime of the closure a            *)
(* subscription borrows.  A trampoline turns the context pointer back into *)
(* the closure, so the closure must outlive every callback.  The borrow    *)
(* checker keeps it alive while a Subscription<'a, F> exists; everything   *)
(* else rests on what the C library does with the stream.                  *)
(***************************************************************************)
CONSTANTS
    Threads,    \* threads that use the Sdk
    Subs        \* subscriptions, each with a closure of its own

VARIABLES
    CONNECTED,  \* the static AtomicBool
    client,     \* the C library: "down" or "up"
    pc,         \* where a thread is in connect
    sub,        \* the Rust side of every subscription
    stream,     \* the C side: "none", "open" or "closed"
    closure,    \* closures that have not been dropped
    inside     \* subscriptions whose trampoline is on the receive thread

rustVars == <<CONNECTED, client, pc, sub, stream, closure, inside>>

RustInit ==
    /\ CONNECTED = FALSE
    /\ client = "down"
    /\ pc = [t \in Threads |-> "idle"]
    /\ sub = [s \in Subs |-> "none"]
    /\ stream = [s \in Subs |-> "none"]
    /\ closure = Subs
    /\ inside = {}

-----------------------------------------------------------------------------
(* connect and connect_with_token.                                          *)

Connecting == {t \in Threads : pc[t] = "connecting"}

\* CONNECTED.swap(true, AcqRel): the value is read and set in one step.
connect(t) ==
    /\ pc[t] = "idle"
    /\ CONNECTED' = TRUE
    /\ IF CONNECTED THEN UNCHANGED pc ELSE pc' = [pc EXCEPT ![t] = "connecting"]
    /\ UNCHANGED <<client, sub, stream, closure, inside>>

\* ggipc_connect succeeds, or fails: no environment, no socket, not accepted.
ConnectReturns(t) ==
    /\ pc[t] = "connecting"
    /\ pc' = [pc EXCEPT ![t] = "idle"]
    /\ client' = "up" \/ UNCHANGED client
    /\ UNCHANGED <<CONNECTED, sub, stream, closure, inside>>

-----------------------------------------------------------------------------
(* Subscriptions.                                                           *)

\* ggipc_subscribe_to_...: the server accepts the subscription, and its stream
\* can deliver events before the C function has returned.
SubscribeAccepted(s) ==
    /\ client = "up"
    /\ inside = {}
    /\ sub[s] = "none" /\ s \in closure
    /\ sub' = [sub EXCEPT ![s] = "calling"]
    /\ stream' = [stream EXCEPT ![s] = "open"]
    /\ UNCHANGED <<CONNECTED, client, pc, closure, inside>>

\* The C function returns OK and the handle becomes a Subscription ...
SubscribeOk(s) ==
    /\ sub[s] = "calling"
    /\ inside = {}
    /\ sub' = [sub EXCEPT ![s] = "held"]
    /\ UNCHANGED <<CONNECTED, client, pc, stream, closure, inside>>

\* ... or it times out late: "?" returns the error, and nothing on the Rust
\* side will close the stream.  The C library closes it, under its mutex.
SubscribeErr(s) ==
    /\ sub[s] = "calling"
    /\ inside = {}
    /\ sub' = [sub EXCEPT ![s] = "ended"]
    /\ stream' = [stream EXCEPT ![s] = "closed"]
    /\ UNCHANGED <<CONNECTED, client, pc, closure, inside>>

\* Mutant: the stream is closed while a callback runs.
drop_NoWait(s) ==
    /\ sub[s] = "held"
    /\ sub' = [sub EXCEPT ![s] = "ended"]
    /\ stream' = [stream EXCEPT ![s] = "closed"]
    /\ UNCHANGED <<CONNECTED, client, pc, closure, inside>>

\* impl Drop for Subscription: ggipc_close_subscription waits for the mutex
\* that the receive thread holds while a callback runs.
drop(s) ==
    /\ sub[s] = "held"
    /\ inside = {}
    /\ sub' = [sub EXCEPT ![s] = "ended"]
    /\ stream' = [stream EXCEPT ![s] = "closed"]
    /\ UNCHANGED <<CONNECTED, client, pc, closure, inside>>

\* The borrow 'a ends with the Subscription, or with the call that failed.
DropClosure(s) ==
    /\ sub[s] \in {"none", "ended"}
    /\ s \in closure
    /\ closure' = closure \ {s}
    /\ UNCHANGED <<CONNECTED, client, pc, sub, stream, inside>>

\* An event: the trampoline casts ctx back to &F and calls it.
trampoline(s) ==
    /\ stream[s] = "open"
    /\ inside = {}
    /\ inside' = {s}
    /\ UNCHANGED <<CONNECTED, client, pc, sub, stream, closure>>

\* The closure returns; an event that is refused, or was the last, ends the
\* stream while the Subscription still holds its handle.
TrampolineReturns(s) ==
    /\ s \in inside
    /\ inside' = {}
    /\ \/ UNCHANGED stream
       \/ stream' = [stream EXCEPT ![s] = "closed"]
    /\ UNCHANGED <<CONNECTED, client, pc, sub, closure>>

RustNext ==
    \/ \E t \in Threads : connect(t) \/ ConnectReturns(t)
    \/ \E s \in Subs : \/ SubscribeAccepted(s) \/ SubscribeOk(s) \/ SubscribeErr(s)
                       \/ drop(s) \/ DropClosure(s)
                       \/ trampoline(s) \/ TrampolineReturns(s)

RustSpec == RustInit /\ [][RustNext]_rustVars

-----------------------------------------------------------------------------
(* Properties.                                                              *)

\* ggipc_connect_with_token asserts that the client is not connected and uses
\* a static buffer: at most one thread is ever inside it, and none once the
\* client is up.  The C entry point alone does not give this (IpcConnect).
ConnectIsExclusive ==
    /\ \A t, u \in Connecting : t = u
    /\ client = "up" => Connecting = {}

\* A trampoline only ever runs a closure that still exists, whichever of
\* timeout, drop, server and event came first.
ClosureOutlivesCallback == inside \subseteq closure

\* The two promises the binding needs unsafe code for: C functions that are not
\* reentrant are entered once, and a context pointer outlives its callbacks.
BindingSound == ConnectIsExclusive /\ ClosureOutlivesCallback

=============================================================================
