------------------------------ MODULE LogTrail ------------------------------
(***************************************************************************)
(* The trace context of a thread (src/src/log-trail.c, log.c and              *)
(* priv_include/gg/log-trail.h): a trace id, a span id and the parent's span   *)
(* id, kept in thread-local storage, opened and closed by nested scopes, and   *)
(* carried to other threads and processes in the headers T, S and P of a       *)
(* frame.                                                                     *)
(***************************************************************************)
EXTENDS Integers, Sequences, FiniteSets, ProcessThreads

CONSTANTS
    W,              \* 2^16: ids are uint16_t
    Random,         \* what gg_rand_fill can return here, a subset of 0..W-1
    Foreign,        \* header lists of frames that others send
    MaxScopes, MaxFrames, MaxSpans     \* bounds

\* The random numbers are 16-bit, headers [name, type, value] have integer values.
ASSUME TrailIds ==
    /\ W \in Nat /\ W > 1
    /\ Random \subseteq 0..(W - 1)
    /\ \A h \in Foreign : \A i \in DOMAIN h : h[i][3] \in Int

VARIABLES
    tls,            \* [trace_id, span_id, parent_span_id] of each thread
    scopes,         \* open scopes of each thread, innermost last
    frames,         \* frames on their way: [headers, sender]
    spans           \* history: the spans opened, each with the context it was opened in

vars == <<tls, scopes, frames, spans>>

NoTrail == [trace_id |-> 0, span_id |-> 0, parent_span_id |-> 0]
trail(t, s, p) == [trace_id |-> t, span_id |-> s, parent_span_id |-> p]

Init ==
    /\ tls = [t \in Threads |-> NoTrail]
    /\ scopes = [t \in Threads |-> <<>>]
    /\ frames = {}
    /\ spans = {}

gen_nonzero_id == {IF id = 0 THEN 1 ELSE id : id \in Random}

\* gg_log_set_trail for a span opened in context cause.
OpenSpan(t, new, cause) ==
    /\ tls' = [tls EXCEPT ![t] = new]
    /\ spans' = spans \cup {[trail |-> new, cause |-> cause]}

\* The scopes open in all threads.
OpenScopes == UNION {{<<t, i>> : i \in DOMAIN scopes[t]} : t \in Threads}

\* A scope that will leave context "after" when it exits; "opened" is the context it
\* starts with (history).
EnterScope(t, after) ==
    /\ Cardinality(OpenScopes) < MaxScopes /\ Cardinality(spans) < MaxSpans
    /\ scopes' = [scopes EXCEPT ![t] = Append(@, [after |-> after, opened |-> tls'[t]])]

\* GG_LOG_TRAIL_SCOPE_GUARD clears the context when its scope exits.
GG_LOG_TRAIL_SCOPE_GUARD(t) == EnterScope(t, NoTrail)

\* gg_log_trail_root_begin with a guard: no new trace if one is active.
gg_log_trail_root_begin(t) ==
    /\ IF tls[t].trace_id # 0 THEN UNCHANGED <<tls, spans>>
       ELSE \E trace, span \in gen_nonzero_id : OpenSpan(t, trail(trace, span, 0), NoTrail)
    /\ GG_LOG_TRAIL_SCOPE_GUARD(t)
    /\ UNCHANGED frames

\* GG_LOG_TRAIL_ROOT_SCOPE clears the context first.
RootScope(t) ==
    /\ \E trace, span \in gen_nonzero_id : OpenSpan(t, trail(trace, span, 0), NoTrail)
    /\ GG_LOG_TRAIL_SCOPE_GUARD(t)
    /\ UNCHANGED frames

\* Mutant: the parent goes out where the span belongs.
gg_log_trail_attach_headers_Swapped(ctx, capacity) ==
    IF ctx.trace_id = 0 \/ capacity < 3 THEN <<>>
    ELSE << <<"T", "int32", ctx.trace_id>>, <<"S", "int32", ctx.parent_span_id>>,
            <<"P", "int32", ctx.span_id>> >>

gg_log_trail_attach_headers(ctx, capacity) ==
    IF ctx.trace_id = 0 \/ capacity < 3 THEN <<>>
    ELSE << <<"T", "int32", ctx.trace_id>>, <<"S", "int32", ctx.span_id>>,
            <<"P", "int32", ctx.parent_span_id>> >>

Send(t) ==
    /\ Cardinality(frames) < MaxFrames
    /\ \E capacity \in {2, 3} :
           frames' = frames \cup {[headers |-> gg_log_trail_attach_headers(tls[t], capacity),
                                   sender |-> tls[t]]}
    /\ UNCHANGED <<tls, scopes, spans>>

SendForeign ==
    /\ Cardinality(frames) < MaxFrames
    /\ \E h \in Foreign : frames' = frames \cup {[headers |-> h, sender |-> NoTrail]}
    /\ UNCHANGED <<tls, scopes, spans>>

\* The value of the last int32 header of a name, truncated to 16 bits, or 0 if there
\* is none: a set of one element.
HeaderValue(headers, name) ==
    LET at == {i \in DOMAIN headers : headers[i][1] = name /\ headers[i][2] = "int32"}
    IN  IF at = {} THEN {0} ELSE {headers[i][3] % W : i \in {k \in at : \A j \in at : j <= k}}

HasTrace(headers) == \E i \in DOMAIN headers : headers[i][1] = "T" /\ headers[i][2] = "int32"

\* GG_LOG_TRAIL_INHERIT_SCOPE: clear, gg_log_trail_extract_and_apply, guard.
Inherit(t) ==
    \E f \in frames :
        /\ IF HasTrace(f.headers)
           THEN \E span \in gen_nonzero_id, trace \in HeaderValue(f.headers, "T"),
                   parent \in HeaderValue(f.headers, "S") :
                    OpenSpan(t, trail(trace, span, parent), f.sender)
           ELSE tls' = [tls EXCEPT ![t] = NoTrail] /\ UNCHANGED spans
        /\ GG_LOG_TRAIL_SCOPE_GUARD(t)
        /\ frames' = frames \ {f}

\* GG_LOG_TRAIL_SUBSPAN_SCOPE: gg_log_trail_subspan_begin saves the context.
Subspan(t) ==
    /\ IF tls[t].trace_id = 0 THEN UNCHANGED <<tls, spans>>
       ELSE \E span \in gen_nonzero_id :
                OpenSpan(t, trail(tls[t].trace_id, span, tls[t].span_id), tls[t])
    /\ EnterScope(t, tls[t])
    /\ UNCHANGED frames

\* gg_log_trail_scope_clear_ and gg_log_trail_subspan_end_.
Exit(t) ==
    /\ scopes[t] # <<>>
    /\ tls' = [tls EXCEPT ![t] = scopes[t][Len(scopes[t])].after]
    /\ scopes' = [scopes EXCEPT ![t] = SubSeq(@, 1, Len(@) - 1)]
    /\ UNCHANGED <<frames, spans>>

Next ==
    \/ \E t \in Threads : \/ gg_log_trail_root_begin(t)
                          \/ RootScope(t)
                          \/ Send(t)
                          \/ Inherit(t)
                          \/ Subspan(t)
                          \/ Exit(t)
    \/ SendForeign

Spec == Init /\ [][Next]_vars

-----------------------------------------------------------------------------
\* A thread's context is one that a scope still open began with: what one request
\* traced never shows up in the log lines of the next, however scopes nest.
ContextHasOpenScope ==
    \A t \in Threads :
        tls[t] # NoTrail => \E i \in DOMAIN scopes[t] : scopes[t][i].opened = tls[t]

\* Spans form trees across threads: a span opened in some context, the sender's
\* when it came in a frame, belongs to that context's trace and has its span as
\* parent.
SpanTree ==
    \A s \in spans : s.cause.trace_id # 0 =>
        s.trail.trace_id = s.cause.trace_id /\ s.trail.parent_span_id = s.cause.span_id

\* Trails follow the calls: what a thread logs belongs to a scope it is in, and
\* what a scope causes elsewhere hangs below it.
TrailsFollowCalls == ContextHasOpenScope /\ SpanTree

=============================================================================
