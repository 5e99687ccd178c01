------------------------------- MODULE Backoff -------------------------------
(***************************************************************************)
(* gg_backoff (src/src/backoff.c): run fn until it returns GG_ERR_OK or the   *)
(* attempts run out, sleeping a random part of a doubling interval between    *)
(* two calls.  Intervals are uint32_t, the random number is 64-bit.           *)
(***************************************************************************)
EXTENDS Integers

CONSTANTS
    W,              \* 2^32: uint32_t arithmetic is modulo W
    Arguments       \* [base_ms, max_ms, max_attempts]: the calls that are made

VARIABLES
    args,           \* arguments of the call
    pc,             \* "call" fn next, "sleep" next, "returned"
    current_max_ms,
    attempts,
    delay,          \* last argument of backoff_sleep
    calls,          \* history: how often fn was called, counted if attempts are limited
    last,           \* what fn returned last
    ret

backoffVars == <<args, pc, current_max_ms, attempts, delay, calls, last, ret>>

uint32 == 0..(W - 1)

\* gg_backoff asserts that base_ms and max_ms are not zero.
ASSUME BackoffArgs ==
    /\ W \in Nat /\ W > 1
    /\ Arguments \subseteq [base_ms : uint32 \ {0}, max_ms : uint32 \ {0}, max_attempts : uint32]

BackoffInit ==
    /\ args \in Arguments
    /\ pc = "call"
    /\ current_max_ms = args.base_ms
    /\ attempts = 0
    /\ delay = 0
    /\ calls = 0
    /\ last = "none"
    /\ ret = "none"

\* History: without a limit there is nothing to count against.
Counted == IF args.max_attempts = 0 THEN calls ELSE calls + 1

fn_Succeeds ==
    /\ pc = "call"
    /\ calls' = Counted /\ last' = "OK"
    /\ pc' = "returned" /\ ret' = "OK"
    /\ UNCHANGED <<args, current_max_ms, attempts, delay>>

fn_Fails ==
    /\ pc = "call"
    /\ calls' = Counted /\ last' = "FAILURE"
    /\ IF args.max_attempts = 0 THEN pc' = "sleep" /\ UNCHANGED <<attempts, ret>>
       ELSE /\ attempts' = (attempts + 1) % W
            /\ IF attempts' = args.max_attempts
               THEN pc' = "returned" /\ ret' = "FAILURE"
               ELSE pc' = "sleep" /\ UNCHANGED ret
    /\ UNCHANGED <<args, current_max_ms, delay>>

\* Mutant: the interval doubles without looking at the maximum.
Doubled_NoCap == current_max_ms * 2

\* The interval after this sleep.
Doubled ==
    IF current_max_ms <= args.max_ms \div 2 THEN (current_max_ms * 2) % W ELSE args.max_ms

\* backoff_sleep(backoff_get_rand() % current_max_ms)
Sleep ==
    /\ pc = "sleep"
    /\ delay' \in 0..(current_max_ms - 1)
    /\ current_max_ms' = Doubled
    /\ pc' = "call"
    /\ UNCHANGED <<args, attempts, calls, last, ret>>

BackoffNext == fn_Succeeds \/ fn_Fails \/ Sleep

BackoffSpec == BackoffInit /\ [][BackoffNext]_backoffVars
BackoffFairSpec == BackoffSpec /\ WF_backoffVars(fn_Succeeds \/ fn_Fails) /\ WF_backoffVars(Sleep)

-----------------------------------------------------------------------------
\* Type invariant: intervals, delays and attempts are uint32_t, none wraps.
BackoffTypeOK ==
    /\ args \in Arguments
    /\ pc \in {"call", "sleep", "returned"}
    /\ current_max_ms \in uint32
    /\ attempts \in uint32
    /\ delay \in uint32
    /\ calls \in Nat
    /\ last \in {"none", "OK", "FAILURE"}
    /\ ret \in {"none", "OK", "FAILURE"}

Larger == IF args.base_ms > args.max_ms THEN args.base_ms ELSE args.max_ms

\* The interval is never zero, so the remainder is defined, and doubling it never
\* wraps: no sleep is as long as the larger of base_ms and max_ms.
DelayBounded ==
    /\ current_max_ms \in 1..Larger
    /\ delay < Larger

\* The count never misses max_attempts by wrapping or by one: fn is called at most
\* that often, exactly that often when the call fails, and a call that returns has
\* the result of the last fn.
AttemptsExact ==
    args.max_attempts # 0 =>
        /\ pc # "returned" => attempts = calls /\ attempts < args.max_attempts
        /\ calls <= args.max_attempts
        /\ ret = "FAILURE" => calls = args.max_attempts
        /\ pc = "returned" => ret = last

\* A retry loop keeps to its arguments: the delays and the number of calls.
RetriesExact == DelayBounded /\ AttemptsExact

\* The interval never shrinks, except to max_ms when it started above it.
IntervalGrows ==
    [][current_max_ms' >= current_max_ms \/ current_max_ms' = args.max_ms]_backoffVars

\* A call with a maximum of attempts returns, whatever fn does.
BackoffReturns == args.max_attempts # 0 ~> pc = "returned"

=============================================================================
