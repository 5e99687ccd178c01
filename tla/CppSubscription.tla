-------------------------- MODULE CppSubscription --------------------------
(***************************************************************************)
(* Ownership of subscriptions in the C++ binding: the Subscription class   *)
(* of cpp/include/gg/ipc/subscription.hpp and the four pairs of callback   *)
(* and Client::subscribe_to_... in cpp/src/ipc, which differ only in the   *)
(* data they pass on.  A handle is the number of its subscription; 0 is    *)
(* the handle of no subscription.  Two threads act: the component's, on    *)
(* the Subscription objects Vars, and the receive thread, on the object    *)
(* "locked" of the callback it runs.  The receive thread holds the C       *)
(* library's recursive stream_state_mtx while it runs a callback.          *)
(***************************************************************************)
EXTENDS Naturals

CONSTANTS
    Vars,              \* the Subscription objects of the component
    MaxSubscriptions   \* bound on the subscriptions made

\* "locked" is the callback's own object.
ASSUME LockedIsLocal == "locked" \notin Vars

VARIABLES
    handle,     \* Subscription::handle of every object, 0 when it holds none
    open,       \* subscriptions the C library still delivers events for
    made,       \* subscriptions made so far
    returning,  \* Client::subscribe_to_... between the C call and reset()
    running,    \* the subscription whose callback runs, or 0
    unowned,    \* handles given up with release(), or never asked for
    copied      \* handles a callback moved out of its own Subscription

vars == <<handle, open, made, returning, running, unowned, copied>>

Locked == "locked"

NotReturning == [raw |-> 0]

Init ==
    /\ handle = [o \in Vars \cup {Locked} |-> 0]
    /\ open = {}
    /\ made = 0
    /\ returning = NotReturning
    /\ running = 0
    /\ unowned = {}
    /\ copied = {}

holds_subscription(o) == handle[o] # 0

\* release() is std::exchange with the null handle.
release(held, o) == [held EXCEPT ![o] = 0]

\* ggipc_close_subscription takes stream_state_mtx; a handle that is no longer
\* open is recognised and ignored.  The null handle does not reach the lock.
MtxFree(o) == holds_subscription(o) => running = 0 \/ o = Locked

close(o) ==
    /\ MtxFree(o)
    /\ handle' = release(handle, o)
    /\ open' = open \ {handle[o]}

\* close(), then the assignment; "held" is handle after its argument was taken.
reset(o, held, new) ==
    /\ MtxFree(o)
    /\ open' = open \ {held[o]}
    /\ handle' = [held EXCEPT ![o] = new]

-----------------------------------------------------------------------------
(* The component's thread.                                                  *)

AppRuns == returning.raw = 0

Close(v) ==
    /\ AppRuns
    /\ close(v)
    /\ UNCHANGED <<made, returning, running, unowned, copied>>

\* The destructor closes; the storage may hold a new object afterwards.
Destroy(v) ==
    /\ AppRuns
    /\ close(v)
    /\ UNCHANGED <<made, returning, running, unowned, copied>>

Release(v) ==
    /\ AppRuns
    /\ handle' = release(handle, v)
    /\ unowned' = unowned \cup ({handle[v]} \ {0})
    /\ UNCHANGED <<open, made, returning, running, copied>>

\* reset() with a handle that was released before.
Adopt(v, h) ==
    /\ AppRuns
    /\ h \in unowned
    /\ reset(v, handle, h)
    /\ unowned' = unowned \ {h}
    /\ UNCHANGED <<made, returning, running, copied>>

\* Mutant: the object moved from keeps its handle.
MoveConstruct_Copies(v, w) ==
    /\ AppRuns
    /\ v # w
    /\ ~holds_subscription(v)
    /\ handle' = [handle EXCEPT ![v] = handle[w]]
    /\ UNCHANGED <<open, made, returning, running, unowned, copied>>

MoveConstruct(v, w) ==
    /\ AppRuns
    /\ v # w
    /\ ~holds_subscription(v)
    /\ handle' = [release(handle, w) EXCEPT ![v] = handle[w]]
    /\ UNCHANGED <<open, made, returning, running, unowned, copied>>

\* Subscription has operator<=> but no operator==, so that the "!=" of
\* operator= compares the two objects converted to bool.
MoveAssign(v, w) ==
    IF holds_subscription(w) # holds_subscription(v)
        THEN reset(v, release(handle, w), handle[w])
        ELSE UNCHANGED <<handle, open>>

Assign(v, w) ==
    /\ AppRuns
    /\ MoveAssign(v, w)
    /\ UNCHANGED <<made, returning, running, unowned, copied>>

swap(v, w) ==
    /\ AppRuns
    /\ handle' = [handle EXCEPT ![v] = handle[w], ![w] = handle[v]]
    /\ UNCHANGED <<open, made, returning, running, unowned, copied>>

\* The C call succeeds; events may arrive at once.  A failed call changes
\* nothing.  The C call takes stream_state_mtx too.
Subscribe ==
    /\ AppRuns
    /\ made < MaxSubscriptions
    /\ running = 0
    /\ made' = made + 1
    /\ open' = open \cup {made'}
    /\ \/ \E v \in Vars :
              /\ returning' = [raw |-> made', to |-> v]
              /\ UNCHANGED unowned
       \/ /\ unowned' = unowned \cup {made'}
          /\ UNCHANGED returning
    /\ UNCHANGED <<handle, running, copied>>

SubscribeReturns ==
    /\ ~AppRuns
    /\ reset(returning.to, handle, returning.raw)
    /\ returning' = NotReturning
    /\ UNCHANGED <<made, running, unowned, copied>>

-----------------------------------------------------------------------------
(* The receive thread.                                                      *)

\* Subscription locked { handle };
CallbackBegins(h) ==
    /\ running = 0
    /\ h \in open
    /\ running' = h
    /\ handle' = [handle EXCEPT ![Locked] = h]
    /\ UNCHANGED <<open, made, returning, unowned, copied>>

\* The component's callback closes the Subscription it was given ...
CallbackCloses ==
    /\ running # 0
    /\ close(Locked)
    /\ UNCHANGED <<made, returning, running, unowned, copied>>

\* ... or moves it to an object of the component, which then has a copy.
CallbackMovesOut(v) ==
    /\ running # 0 /\ holds_subscription(Locked)
    /\ AppRuns
    /\ ~holds_subscription(v)
    /\ MoveAssign(v, Locked)
    /\ copied' = copied \cup {handle[Locked]}
    /\ UNCHANGED <<made, returning, running, unowned>>

\* (void) locked.release(); the destructor then has nothing to close.
CallbackReturns ==
    /\ running # 0
    /\ handle' = release(handle, Locked)
    /\ running' = 0
    /\ UNCHANGED <<open, made, returning, unowned, copied>>

\* An exception skips release(): leaving the try block destroys "locked".
CallbackThrows ==
    /\ running # 0
    /\ close(Locked)
    /\ running' = 0
    /\ UNCHANGED <<made, returning, unowned, copied>>

\* The server ends the subscription.
ServerEnds(h) ==
    /\ running = 0
    /\ open' = open \ {h}
    /\ UNCHANGED <<handle, made, returning, running, unowned, copied>>

Next ==
    \/ \E v \in Vars : Close(v) \/ Destroy(v) \/ Release(v) \/ CallbackMovesOut(v)
    \/ \E v \in Vars, h \in unowned : Adopt(v, h)
    \/ \E v, w \in Vars : MoveConstruct(v, w) \/ Assign(v, w) \/ swap(v, w)
    \/ Subscribe
    \/ SubscribeReturns
    \/ \E h \in open : CallbackBegins(h) \/ ServerEnds(h)
    \/ CallbackCloses
    \/ CallbackReturns
    \/ CallbackThrows

Spec == Init /\ [][Next]_vars

-----------------------------------------------------------------------------
(* Properties.                                                              *)

\* No subscription keeps delivering events that nobody can end: whatever
\* sequence of moves, swaps, resets, callbacks and exceptions happened, an open
\* subscription is held by an object, is about to be, or was given up by name.
NoLostSubscription ==
    \A h \in open :
        \/ \E o \in Vars \cup {Locked} : handle[o] = h
        \/ returning.raw = h
        \/ h \in unowned

\* "std::unique_ptr semantics": two objects of the component hold the same
\* subscription only if a callback handed out its own copy of the handle.
UniqueOwner ==
    \A v, w \in Vars :
        v # w /\ handle[v] = handle[w] /\ handle[v] # 0 => handle[v] \in copied

\* An open subscription has an owner, and one only.
SubscriptionsOwned == NoLostSubscription /\ UniqueOwner

=============================================================================
