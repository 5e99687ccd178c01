--------------------------- MODULE BindingsProofs ---------------------------
(* The language bindings, for any set of threads, subscriptions and objects. *)
EXTENDS CppSubscription, RustSdk, TLAPS

(* The Rust binding. *)
\* The latch is set as soon as somebody connects, and never reset.
LatchInv ==
    /\ CONNECTED \in BOOLEAN
    /\ pc \in [Threads -> {"idle", "connecting"}]
    /\ Connecting # {} \/ client = "up" => CONNECTED
    /\ ConnectIsExclusive

\* A stream that can deliver events belongs to a call or to a Subscription, and
\* so to a closure that is still borrowed; only such a stream runs a callback.
BorrowInv ==
    /\ sub \in [Subs -> {"none", "calling", "held", "ended"}]
    /\ stream \in [Subs -> {"none", "open", "closed"}]
    /\ \A s \in Subs : stream[s] = "open" => sub[s] \in {"calling", "held"}
    /\ \A s \in Subs : sub[s] \in {"calling", "held"} => s \in closure
    /\ inside \subseteq {s \in Subs : stream[s] = "open"}

\* ConnectIsExclusive holds in every behaviour: CONNECTED.swap lets one thread
\* at most into ggipc_connect, once, for any number of threads.
THEOREM ConnectsAreExclusive == RustSpec => []ConnectIsExclusive
<1>1. RustInit => LatchInv
  BY DEF RustInit, LatchInv, ConnectIsExclusive, Connecting
<1>2. LatchInv /\ [RustNext]_rustVars => LatchInv'
  <2> SUFFICES ASSUME LatchInv, [RustNext]_rustVars PROVE LatchInv'
    OBVIOUS
  <2>1. ASSUME NEW t \in Threads, connect(t) PROVE LatchInv'
    <3>1. CASE CONNECTED
      BY <2>1, <3>1 DEF LatchInv, connect, ConnectIsExclusive, Connecting
    <3>2. CASE ~CONNECTED
      <4>1. Connecting = {} /\ client # "up"
        BY <3>2 DEF LatchInv
      <4>2. Connecting' = {t}
        BY <2>1, <3>2, <4>1 DEF LatchInv, connect, Connecting
      <4> QED
        BY <2>1, <3>2, <4>1, <4>2 DEF LatchInv, connect, ConnectIsExclusive
    <3> QED
      BY <3>1, <3>2
  <2>2. ASSUME NEW t \in Threads, ConnectReturns(t) PROVE LatchInv'
    <3>1. Connecting' = {}
      BY <2>2 DEF LatchInv, ConnectReturns, ConnectIsExclusive, Connecting
    <3>2. CONNECTED
      BY <2>2 DEF LatchInv, ConnectReturns, Connecting
    <3> QED
      BY <2>2, <3>1, <3>2 DEF LatchInv, ConnectReturns, ConnectIsExclusive
  <2>3. ASSUME UNCHANGED <<CONNECTED, client, pc>> PROVE LatchInv'
    BY <2>3 DEF LatchInv, ConnectIsExclusive, Connecting
  <2> QED
    BY <2>1, <2>2, <2>3 DEF RustNext, rustVars, SubscribeAccepted, SubscribeOk, SubscribeErr,
       drop, DropClosure, trampoline, TrampolineReturns
<1> QED
  BY <1>1, <1>2, PTL DEF RustSpec, LatchInv

\* ClosureOutlivesCallback holds in every behaviour: between a late timeout, a
\* drop, the end of the stream and an event, no order lets a trampoline run a
\* closure that was dropped, for any number of subscriptions.
THEOREM ClosuresOutliveCallbacks == RustSpec => []ClosureOutlivesCallback
<1>1. RustInit => BorrowInv
  BY DEF RustInit, BorrowInv
<1>2. BorrowInv /\ [RustNext]_rustVars => BorrowInv'
  <2> SUFFICES ASSUME BorrowInv, [RustNext]_rustVars PROVE BorrowInv'
    OBVIOUS
  <2>1. ASSUME NEW s \in Subs, SubscribeAccepted(s) PROVE BorrowInv'
    BY <2>1 DEF BorrowInv, SubscribeAccepted
  <2>2. ASSUME NEW s \in Subs, SubscribeOk(s) PROVE BorrowInv'
    BY <2>2 DEF BorrowInv, SubscribeOk
  <2>3. ASSUME NEW s \in Subs, SubscribeErr(s) PROVE BorrowInv'
    BY <2>3 DEF BorrowInv, SubscribeErr
  <2>4. ASSUME NEW s \in Subs, drop(s) PROVE BorrowInv'
    BY <2>4 DEF BorrowInv, drop
  <2>5. ASSUME NEW s \in Subs, DropClosure(s) PROVE BorrowInv'
    BY <2>5 DEF BorrowInv, DropClosure
  <2>6. ASSUME NEW s \in Subs, trampoline(s) PROVE BorrowInv'
    BY <2>6 DEF BorrowInv, trampoline
  <2>7. ASSUME NEW s \in Subs, TrampolineReturns(s) PROVE BorrowInv'
    BY <2>7 DEF BorrowInv, TrampolineReturns
  <2>8. ASSUME UNCHANGED <<sub, stream, closure, inside>> PROVE BorrowInv'
    BY <2>8 DEF BorrowInv
  <2> QED
    BY <2>1, <2>2, <2>3, <2>4, <2>5, <2>6, <2>7, <2>8
       DEF RustNext, rustVars, connect, ConnectReturns
<1>3. BorrowInv => ClosureOutlivesCallback
  BY DEF BorrowInv, ClosureOutlivesCallback
<1> QED
  BY <1>1, <1>2, <1>3, PTL DEF RustSpec

\* BindingSound holds in every behaviour.
THEOREM BindingIsSound == RustSpec => []BindingSound
BY ConnectsAreExclusive, ClosuresOutliveCallbacks, PTL DEF BindingSound

------------------------------------------------------------------------------
(* Subscription objects of the C++ binding. *)
\* Handles are numbers of subscriptions made so far.
HandlesOK ==
    /\ made \in Nat
    /\ handle \in [Vars \cup {Locked} -> 0..made]
    /\ open \subseteq 1..made
    /\ unowned \subseteq 1..made
    /\ returning.raw \in 0..made
    /\ returning.raw # 0 => returning.to \in Vars

\* An open subscription has a holder besides the callback: without it, the
\* release() at the end of a callback could lose the subscription.
HeldOutside ==
    \A h \in open :
        \/ \E v \in Vars : handle[v] = h
        \/ returning.raw = h
        \/ h \in unowned

\* Neither a handle on its way to an object nor one that was given up is held
\* by an object, unless a callback copied it.
Apart ==
    /\ \A v \in Vars :
          /\ handle[v] \in unowned => handle[v] \in copied
          /\ handle[v] = returning.raw /\ handle[v] # 0 => handle[v] \in copied
    /\ returning.raw \in unowned => returning.raw \in copied

OwnershipInv == HandlesOK /\ HeldOutside /\ Apart /\ UniqueOwner

USE LockedIsLocal DEF Locked, OwnershipInv, HandlesOK, HeldOutside, Apart, UniqueOwner

\* Default-constructed objects hold nothing.
LEMMA InitIInv == Init => OwnershipInv
BY DEF Init, NotReturning

\* An object v of the component gets the handle h, 0 or one that no other
\* object holds; what v held before is closed or given up.
LEMMA PutIInv ==
    ASSUME OwnershipInv, NEW v \in Vars, NEW h \in 0..made,
           handle' = [handle EXCEPT ![v] = h],
           UNCHANGED <<made, copied>>,
           open' \subseteq open,
           handle[v] \notin open' \/ handle[v] \in unowned',
           unowned' \subseteq unowned \cup ({handle[v]} \ {0}),
           unowned \ {h} \subseteq unowned',
           returning' = returning \/ returning'.raw = 0,
           returning.raw \in {returning'.raw, h},
           returning'.raw # 0 => unowned' \subseteq unowned,
           h # 0 /\ h \notin copied =>
               h \notin unowned' /\ h # returning'.raw
               /\ \A u \in Vars \ {v} : handle[u] # h
    PROVE  OwnershipInv'
<1>1. HandlesOK'
  <2>1. handle' \in [Vars \cup {Locked} -> 0..made']
    OBVIOUS
  <2>2. open' \subseteq 1..made'
    OBVIOUS
  <2>3. handle[v] \in 0..made
    OBVIOUS
  <2>4. unowned' \subseteq 1..made'
    BY <2>3
  <2>5. returning'.raw \in 0..made' /\ (returning'.raw # 0 => returning'.to \in Vars)
    OBVIOUS
  <2> QED
    BY <2>1, <2>2, <2>4, <2>5
<1>2. HeldOutside'
  <2> SUFFICES ASSUME NEW k \in open'
               PROVE  \/ \E u \in Vars : handle'[u] = k
                      \/ returning'.raw = k
                      \/ k \in unowned'
    OBVIOUS
  <2>1. handle'[v] = h
    OBVIOUS
  <2>2. CASE \E u \in Vars : handle[u] = k
    <3>1. PICK u \in Vars : handle[u] = k
      BY <2>2
    <3> QED
      BY <3>1
  <2>3. CASE returning.raw = k \/ k \in unowned
    BY <2>1, <2>3
  <2> QED
    BY <2>2, <2>3
<1>3. UniqueOwner'
  OBVIOUS
<1>4. Apart'
  OBVIOUS
<1> QED
  BY <1>1, <1>2, <1>3, <1>4

\* Close and Destroy: close() on an object of the component.
LEMMA CloseIInv ==
    ASSUME OwnershipInv, NEW v \in Vars, close(v),
           UNCHANGED <<made, returning, unowned, copied>>
    PROVE  OwnershipInv'
<1>1. handle' = [handle EXCEPT ![v] = 0] /\ open' = open \ {handle[v]}
  BY DEF close, release
<1>2. 0 \in 0..made
  OBVIOUS
<1> QED
  BY <1>1, <1>2, PutIInv

\* release() moves the handle to those given up.
LEMMA ReleaseIInv ==
    ASSUME OwnershipInv, NEW v \in Vars, Release(v)
    PROVE  OwnershipInv'
BY PutIInv DEF Release, release, AppRuns

\* reset() with a handle that had been given up.
LEMMA AdoptIInv ==
    ASSUME OwnershipInv, NEW v \in Vars, NEW h \in unowned, Adopt(v, h)
    PROVE  OwnershipInv'
<1>1. /\ handle' = [handle EXCEPT ![v] = h]
      /\ open' = open \ {handle[v]}
      /\ unowned' = unowned \ {h}
      /\ UNCHANGED <<made, returning, copied>>
      /\ returning.raw = 0
  BY DEF Adopt, reset, AppRuns
<1>2. h \in 0..made /\ (h \notin copied => \A u \in Vars : handle[u] # h)
  OBVIOUS
<1> QED
  BY <1>1, <1>2, PutIInv

\* The move constructor passes the handle on.
LEMMA MoveConstructIInv ==
    ASSUME OwnershipInv, NEW v \in Vars, NEW w \in Vars, MoveConstruct(v, w)
    PROVE  OwnershipInv'
BY DEF MoveConstruct, release, holds_subscription, AppRuns

\* The move assignment passes a handle on, closes one, or does nothing.
LEMMA AssignIInv ==
    ASSUME OwnershipInv, NEW v \in Vars, NEW w \in Vars, Assign(v, w)
    PROVE  OwnershipInv'
<1>1. CASE holds_subscription(w) # holds_subscription(v)
  <2>1. v # w
    BY <1>1
  <2>2. handle' = [handle EXCEPT ![w] = 0, ![v] = handle[w]]
    BY <1>1, <2>1 DEF Assign, MoveAssign, reset, release
  <2>3. open' = open \ {handle[v]}
    BY <1>1, <2>1 DEF Assign, MoveAssign, reset, release
  <2>4. handle[v] = 0 \/ handle[w] = 0
    BY <1>1 DEF holds_subscription
  <2>5. UNCHANGED <<made, returning, unowned, copied>>
    BY DEF Assign
  <2> QED
    BY <2>1, <2>2, <2>3, <2>4, <2>5
<1>2. CASE ~(holds_subscription(w) # holds_subscription(v))
  BY <1>2 DEF Assign, MoveAssign
<1> QED
  BY <1>1, <1>2

\* swap() exchanges two handles, or one with itself.
LEMMA SwapIInv ==
    ASSUME OwnershipInv, NEW v \in Vars, NEW w \in Vars, swap(v, w)
    PROVE  OwnershipInv'
BY DEF swap

\* A new subscription has a number no object can hold yet.
LEMMA SubscribeIInv ==
    ASSUME OwnershipInv, Subscribe
    PROVE  OwnershipInv'
<1>1. made' = made + 1 /\ open' = open \cup {made + 1}
      /\ UNCHANGED <<handle, copied>> /\ returning.raw = 0
  BY DEF Subscribe, AppRuns
<1>2. CASE \E v \in Vars : returning' = [raw |-> made', to |-> v] /\ UNCHANGED unowned
  BY <1>1, <1>2
<1>3. CASE unowned' = unowned \cup {made'} /\ UNCHANGED returning
  BY <1>1, <1>3
<1> QED
  BY <1>2, <1>3 DEF Subscribe

\* handle->reset(raw_handle) at the end of Client::subscribe_to_...
LEMMA SubscribeReturnsIInv ==
    ASSUME OwnershipInv, SubscribeReturns
    PROVE  OwnershipInv'
<1>1. PICK v \in Vars : v = returning.to
  BY DEF SubscribeReturns, AppRuns
<1>2. /\ handle' = [handle EXCEPT ![v] = returning.raw]
      /\ open' = open \ {handle[v]}
      /\ returning'.raw = 0
      /\ UNCHANGED <<made, unowned, copied>>
  BY <1>1 DEF SubscribeReturns, reset, NotReturning
<1> QED
  BY <1>1, <1>2, PutIInv

\* The receive thread changes its own object, and ends subscriptions.
LEMMA CallbackIInv ==
    ASSUME OwnershipInv,
           \/ \E h \in open : CallbackBegins(h) \/ ServerEnds(h)
           \/ CallbackCloses \/ CallbackReturns \/ CallbackThrows
    PROVE  OwnershipInv'
<1>1. \E h \in 0..made : handle' = [handle EXCEPT ![Locked] = h]
  BY DEF CallbackBegins, ServerEnds, CallbackCloses, CallbackReturns,
         CallbackThrows, close, release
<1>2. open' \subseteq open /\ UNCHANGED <<made, returning, unowned, copied>>
  BY DEF CallbackBegins, ServerEnds, CallbackCloses, CallbackReturns,
         CallbackThrows, close
<1>3. handle' \in [Vars \cup {Locked} -> 0..made]
      /\ \A v \in Vars : handle'[v] = handle[v]
  BY <1>1
<1> QED
  BY <1>2, <1>3

\* A callback hands out its copy, which becomes a copied handle.
LEMMA MovesOutIInv ==
    ASSUME OwnershipInv, NEW v \in Vars, CallbackMovesOut(v)
    PROVE  OwnershipInv'
<1>1. handle' = [handle EXCEPT ![Locked] = 0, ![v] = handle[Locked]]
  BY DEF CallbackMovesOut, MoveAssign, reset, release, holds_subscription
<1>2. open' = open \ {handle[v]} /\ handle[v] = 0
  BY DEF CallbackMovesOut, MoveAssign, reset, release, holds_subscription
<1>3. copied' = copied \cup {handle[Locked]} /\ UNCHANGED <<made, returning, unowned>>
  BY DEF CallbackMovesOut
<1> QED
  BY <1>1, <1>2, <1>3

\* Every step keeps the invariant.
LEMMA NextIInv == OwnershipInv /\ [Next]_vars => OwnershipInv'
<1> SUFFICES ASSUME OwnershipInv, [Next]_vars PROVE OwnershipInv'
  OBVIOUS
<1>1. ASSUME NEW v \in Vars, Close(v) \/ Destroy(v) PROVE OwnershipInv'
  BY <1>1, CloseIInv DEF Close, Destroy
<1>2. CASE UNCHANGED vars
  BY <1>2 DEF vars
<1> QED
  BY <1>1, <1>2, ReleaseIInv, AdoptIInv, MoveConstructIInv, AssignIInv,
     SwapIInv, SubscribeIInv, SubscribeReturnsIInv, CallbackIInv, MovesOutIInv
     DEF Next

\* SubscriptionsOwned holds in every behaviour: no sequence of moves, resets,
\* callbacks and exceptions leaves a subscription that nobody can end, and apart
\* from the copy a callback hands out, it has one owner among the objects.
THEOREM SubscriptionsAreOwned == Spec => []SubscriptionsOwned
<1>1. OwnershipInv => NoLostSubscription
  BY DEF NoLostSubscription
<1>2. OwnershipInv => UniqueOwner
  BY DEF OwnershipInv
<1> QED
  BY <1>1, <1>2, InitIInv, NextIInv, PTL DEF Spec, SubscriptionsOwned

==============================================================================
