---------------------------- MODULE BackoffProofs ----------------------------
(***************************************************************************)
(* Proofs about gg_backoff, for every width of the integers and every call.   *)
(***************************************************************************)
EXTENDS Backoff, TLAPS

\* The arguments of a call are as gg_backoff asserts them.
LEMMA ArgsTyped ==
    ASSUME args \in Arguments
    PROVE  /\ args.base_ms \in 1..(W - 1)
           /\ args.max_ms \in 1..(W - 1)
           /\ args.max_attempts \in 0..(W - 1)
    BY BackoffArgs DEF uint32

\* The next interval is in range whenever this one is: it doubles only up to
\* max_ms, so that uint32_t does not wrap.
LEMMA DoubledBounded ==
    ASSUME args \in Arguments, current_max_ms \in 1..Larger
    PROVE  /\ Doubled \in 1..Larger
           /\ Doubled \in uint32
           /\ Doubled >= current_max_ms \/ Doubled = args.max_ms
<1>1. args.base_ms \in 1..(W - 1) /\ args.max_ms \in 1..(W - 1) /\ W \in Nat
    BY ArgsTyped, BackoffArgs
<1>2. CASE current_max_ms <= args.max_ms \div 2
    <2>1. current_max_ms * 2 \in 1..args.max_ms
        BY <1>1, <1>2 DEF Larger
    <2>2. (current_max_ms * 2) % W = current_max_ms * 2
        BY <1>1, <2>1
    <2> QED
        BY <1>1, <1>2, <2>1, <2>2 DEF Doubled, Larger, uint32
<1>3. CASE ~(current_max_ms <= args.max_ms \div 2)
    BY <1>1, <1>3 DEF Doubled, Larger, uint32
<1> QED
    BY <1>2, <1>3

BackoffInv == BackoffTypeOK /\ DelayBounded /\ AttemptsExact

\* The bounds hold when gg_backoff starts.
LEMMA InitBounds == BackoffInit => BackoffInv
<1> SUFFICES ASSUME BackoffInit PROVE BackoffInv
    OBVIOUS
<1>1. args.base_ms \in 1..(W - 1) /\ args.max_ms \in 1..(W - 1)
      /\ args.max_attempts \in 0..(W - 1) /\ W \in Nat
    BY ArgsTyped, BackoffArgs DEF BackoffInit
<1> QED
    BY <1>1 DEF BackoffInit, BackoffInv, BackoffTypeOK, DelayBounded, AttemptsExact, Larger, uint32

\* Every turn of the loop keeps the bounds.
LEMMA StepBounds == BackoffInv /\ [BackoffNext]_backoffVars => BackoffInv'
<1> SUFFICES ASSUME BackoffInv, [BackoffNext]_backoffVars PROVE BackoffInv'
    OBVIOUS
<1> USE DEF BackoffInv
<1>0. args.base_ms \in 1..(W - 1) /\ args.max_ms \in 1..(W - 1)
      /\ args.max_attempts \in 0..(W - 1) /\ W \in Nat /\ W > 1
    BY ArgsTyped, BackoffArgs DEF BackoffTypeOK
<1>1. CASE fn_Succeeds
    <2>1. BackoffTypeOK' /\ DelayBounded'
        BY <1>0, <1>1 DEF fn_Succeeds, Counted, BackoffTypeOK, DelayBounded, Larger, uint32
    <2>2. AttemptsExact'
        BY <1>0, <1>1 DEF fn_Succeeds, Counted, BackoffTypeOK, AttemptsExact, uint32
    <2> QED
        BY <2>1, <2>2
<1>2. CASE fn_Fails
    <2>0. args.max_attempts # 0 => (attempts + 1) % W = attempts + 1
        BY <1>0, <1>2 DEF fn_Fails, BackoffTypeOK, AttemptsExact, uint32
    <2>1. BackoffTypeOK' /\ DelayBounded'
        BY <1>0, <1>2, <2>0 DEF fn_Fails, Counted, BackoffTypeOK, DelayBounded, Larger, uint32
    <2>2. AttemptsExact'
        BY <1>0, <1>2, <2>0 DEF fn_Fails, Counted, BackoffTypeOK, AttemptsExact, uint32
    <2> QED
        BY <2>1, <2>2
<1>3. CASE Sleep
    <2>0. Doubled \in 1..Larger /\ Doubled \in uint32
        BY DoubledBounded DEF BackoffTypeOK, DelayBounded
    <2>1. DelayBounded'
        BY <1>0, <1>3, <2>0 DEF Sleep, BackoffTypeOK, DelayBounded, Larger, uint32
    <2>2. BackoffTypeOK'
        BY <1>0, <1>3, <2>0 DEF Sleep, BackoffTypeOK, DelayBounded, Larger, uint32
    <2>3. AttemptsExact'
        BY <1>3 DEF Sleep, AttemptsExact
    <2> QED
        BY <2>1, <2>2, <2>3
<1>4. CASE UNCHANGED backoffVars
    BY <1>4 DEF backoffVars, BackoffTypeOK, DelayBounded, AttemptsExact, Larger
<1> QED
    BY <1>1, <1>2, <1>3, <1>4 DEF BackoffNext

\* For every width of the integers and all arguments, no interval is zero, wraps
\* or exceeds the larger of base_ms and max_ms, and fn runs at most max_attempts
\* times, exactly that often when gg_backoff gives up.
THEOREM RetriesAreExact == BackoffSpec => []RetriesExact
<1>1. BackoffInv => RetriesExact
    BY DEF BackoffInv, RetriesExact
<1> QED
    BY InitBounds, StepBounds, <1>1, PTL DEF BackoffSpec

\* Between two calls of fn the interval grows, up to max_ms.
THEOREM IntervalsGrow == BackoffSpec => IntervalGrows
<1>1. BackoffInv /\ [BackoffNext]_backoffVars => [current_max_ms' >= current_max_ms \/ current_max_ms' = args.max_ms]_backoffVars
    <2> SUFFICES ASSUME BackoffInv, [BackoffNext]_backoffVars
                 PROVE  current_max_ms' >= current_max_ms \/ current_max_ms' = args.max_ms
                        \/ UNCHANGED backoffVars
        OBVIOUS
    <2>0. current_max_ms \in Int
        BY BackoffArgs DEF BackoffInv, BackoffTypeOK, uint32
    <2>1. CASE Sleep
        BY <2>1, DoubledBounded DEF Sleep, BackoffInv, BackoffTypeOK, DelayBounded
    <2>2. CASE fn_Succeeds \/ fn_Fails
        BY <2>0, <2>2 DEF fn_Succeeds, fn_Fails
    <2> QED
        BY <2>1, <2>2 DEF BackoffNext
<1> QED
    BY InitBounds, StepBounds, <1>1, PTL DEF BackoffSpec, IntervalGrows

==============================================================================
