------------------------------ MODULE MCClient ------------------------------
(***************************************************************************)
(* What a component sees of the client: the operations (Operations), the      *)
(* events of its subscriptions (Events), and the objects that hold            *)
(* subscriptions in C++ (CppSubscription) and Rust (RustSdk).  The parts      *)
(* share no state; part says which is run.                                   *)
(***************************************************************************)
EXTENDS CppSubscription, RustSdk, ClientInputs, TLC

CONSTANTS
    Callers,                                                        \* threads of Operations
    GG_IPC_MAX_MSG_LEN, NextTokenLen, PageLen, MaxCalls,            \* Operations
    MaxEvents                                                       \* Events

VARIABLES
    part,
    th, gg_ipc_b64_encode_mem, gg_ipc_b64_encode_mtx, net, config, truth, left,
    subscription, events, sent, heard, bad

opVars == <<th, gg_ipc_b64_encode_mem, gg_ipc_b64_encode_mtx, net, config, truth, left>>
eventVars == <<subscription, events, sent, heard, bad>>

ClientSymmetry == Permutations(Callers)

Op == INSTANCE Operations WITH
          Threads <- Callers, Calls <- AllOperations, Config <- MCConfig, Shadows <- MCShadows,
          Documents <- MCDocuments, ErrorCodes <- ServiceErrors, TokenLens <- ShortTokens
Ev == INSTANCE Events WITH
          sub <- subscription, net <- events, Kinds <- AllKinds, Payloads <- EventPayloads,
          Paths <- EventPaths, ErrorCodes <- ServiceErrors

MCInit ==
    /\ part \in {"cpp", "rust", "operations", "events"}
    /\ Init /\ RustInit /\ Op!Init /\ Ev!Init

MCNext ==
    /\ \/ part = "cpp" /\ Next /\ UNCHANGED <<rustVars, opVars, eventVars>>
       \/ part = "rust" /\ RustNext /\ UNCHANGED <<vars, opVars, eventVars>>
       \/ part = "operations" /\ Op!Next /\ UNCHANGED <<vars, rustVars, eventVars>>
       \/ part = "events" /\ Ev!Next /\ UNCHANGED <<vars, rustVars, opVars>>
    /\ UNCHANGED part

allVars == <<part, vars, rustVars, opVars, eventVars>>
MCSpec == MCInit /\ [][MCNext]_allVars

-----------------------------------------------------------------------------
(* The properties of the parts that are instances, stated where they are       *)
(* defined.                                                                    *)

\* A request carries every argument of its call, and the payload of its own caller,
\* whole.
RequestsExact == Op!PayloadIsOwn /\ Op!ArgumentsComplete

\* A configuration is read and updated at the path that the caller named, a result
\* fits the memory of the caller or nothing of it is stored, and a listing that
\* succeeds has every shadow once.
ResultsExact ==
    /\ Op!ConfigReadExact
    /\ Op!ConfigUpdateLands
    /\ Op!OutputFitsOrNothing
    /\ Op!ListIsComplete

\* The callback hears what was published, in order, and only an event that is not
\* well-formed ends a subscription.
EventsExact == Ev!HeardIsSent /\ Ev!WellFormedKeepsOpen

=============================================================================
