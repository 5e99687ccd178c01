------------------------------ MODULE LogProofs ------------------------------
(* gg_log for any number of threads, lines and values of errno, and trace contexts
   for any number of threads, scopes and frames. *)
EXTENDS Log, LogTrail, TLAPS

-----------------------------------------------------------------------------
(* gg_log.                                                                   *)

Piece == [thread : Threads, piece : {"prefix", "message", "newline"}, errno : Errnos]

LogTypeOK ==
    /\ pc \in [Threads -> {"idle", "lock", "prefix", "message", "newline", "unlock", "returned"}]
    /\ errno \in [Threads -> Errnos]
    /\ saved_errno \in [Threads -> Errnos]
    /\ caller_errno \in [Threads -> Errnos]
    /\ log_mutex \in Threads \cup {Free}
    /\ stderr \in Seq(Piece)

\* Between pthread_mutex_lock and the scope guard.
Writing(t) == pc[t] \in {"prefix", "message", "newline", "unlock"}

\* How many pieces of the current line are written when its thread is at a place.
Written(at) == IF at = "message" THEN 1 ELSE IF at = "newline" THEN 2 ELSE 0

\* Only the holder of the mutex writes, it continues its own line, and nobody
\* leaves a line unfinished.
HolderWrites ==
    /\ \A t \in Threads : Writing(t) <=> log_mutex = t
    /\ log_mutex = Free => Len(stderr) % 3 = 0
    /\ \A t \in Threads : Writing(t) => Len(stderr) % 3 = Written(pc[t])
    /\ \A t \in Threads : pc[t] \in {"message", "newline"} => stderr[Len(stderr)].thread = t

\* gg_log keeps the caller's errno in a local until it returns.
ErrnoKept ==
    \A t \in Threads : pc[t] = "lock" \/ Writing(t) => saved_errno[t] = caller_errno[t]

LogInv == LogTypeOK /\ HolderWrites /\ ErrnoKept /\ LinesAreWhole /\ ErrnoPreserved

\* The line of a piece starts with the piece or where that of the piece before it
\* does.
LEMMA LineStarts ==
    ASSUME NEW n \in Nat
    PROVE  /\ \A i \in 1..(n + 1) : LineStart(i) \in 1..i
           /\ n % 3 = 0 => LineStart(n + 1) = n + 1 /\ PieceAt(n + 1) = "prefix"
           /\ n % 3 = 1 => PieceAt(n + 1) = "message"
           /\ n % 3 = 2 => PieceAt(n + 1) = "newline"
           /\ n % 3 # 0 => n >= 1 /\ LineStart(n + 1) = LineStart(n)
<1>1. n + 1 - 1 = n
  OBVIOUS
<1>2. n % 3 # 0 => n >= 1 /\ n \div 3 = (n - 1) \div 3
  OBVIOUS
<1>3. n % 3 = 0 => 3 * (n \div 3) + 1 = n + 1
  OBVIOUS
<1>4. \A i \in 1..(n + 1) : LineStart(i) \in 1..i
  BY DEF LineStart
<1> QED BY <1>1, <1>2, <1>3, <1>4 DEF LineStart, PieceAt

\* A piece that continues the line, by the thread of the last piece, or that
\* starts one after a whole line, leaves all lines whole.
LEMMA OnePiece ==
    ASSUME stderr \in Seq(Piece), LinesAreWhole,
           NEW p \in Piece,
           p.piece = PieceAt(Len(stderr) + 1),
           Len(stderr) % 3 # 0 => p.thread = stderr[Len(stderr)].thread,
           stderr' = Append(stderr, p)
    PROVE  LinesAreWhole'
<1>1. PICK n \in Nat : n = Len(stderr)
  OBVIOUS
<1>2. DOMAIN stderr = 1..n /\ DOMAIN stderr' = 1..(n + 1)
  BY <1>1
<1>3. \A i \in 1..n : stderr'[i] = stderr[i]
  BY <1>1
<1>4. stderr'[n + 1] = p
  BY <1>1
<1>5. ASSUME NEW i \in 1..n
      PROVE  stderr'[i].thread = stderr'[LineStart(i)].thread /\ stderr'[i].piece = PieceAt(i)
  <2>1. i \in 1..(n + 1) /\ 1..i \subseteq 1..n
    OBVIOUS
  <2>2. LineStart(i) \in 1..n
    BY <2>1, LineStarts, Zenon
  <2> QED BY <1>2, <1>3, <2>2 DEF LinesAreWhole
<1>6. stderr'[n + 1].thread = stderr'[LineStart(n + 1)].thread
  <2>1. CASE n % 3 = 0
    BY <2>1, LineStarts, Zenon
  <2>2. CASE n % 3 # 0
    <3>1. n \in 1..n /\ LineStart(n + 1) = LineStart(n) /\ LineStart(n) \in 1..n
      BY <2>2, LineStarts, SMTT(30)
    <3>2. stderr[n].thread = stderr[LineStart(n)].thread BY <3>1, <1>2 DEF LinesAreWhole
    <3> QED BY <1>1, <1>3, <1>4, <2>2, <3>1, <3>2
  <2> QED BY <2>1, <2>2, Zenon
<1>7. \A i \in 1..(n + 1) : i \in 1..n \/ i = n + 1
  OBVIOUS
<1>8. \A i \in 1..(n + 1) : stderr'[i].thread = stderr'[LineStart(i)].thread /\ stderr'[i].piece = PieceAt(i)
  BY <1>1, <1>4, <1>5, <1>6, <1>7, Zenon
<1> QED BY <1>2, <1>8, Zenon DEF LinesAreWhole

\* Writing a piece keeps the invariant, if it is the piece due and its thread
\* holds the mutex.
LEMMA EmitStep ==
    ASSUME NEW t \in Threads, LogInv, log_mutex = t, Writing(t),
           NEW piece, NEW before \in Errnos, NEW next,
           Emit(t, piece, before, next),
           \/ pc[t] = "prefix" /\ piece = "prefix" /\ next = "message"
           \/ /\ pc[t] = "message" /\ piece = "message" /\ next = "newline"
              /\ before = saved_errno[t]
           \/ pc[t] = "newline" /\ piece = "newline" /\ next = "unlock"
    PROVE  LogInv'
<1> DEFINE p == [thread |-> t, piece |-> piece, errno |-> before]
<1>1. p \in Piece /\ p.thread = t /\ p.piece = piece /\ p.errno = before
  BY DEF Piece
<1>2. LogTypeOK'
  <2>1. stderr' \in Seq(Piece) BY <1>1 DEF LogInv, LogTypeOK, Emit
  <2> QED BY <2>1 DEF LogInv, LogTypeOK, Emit
<1>3. PICK n \in Nat : n = Len(stderr)
  BY DEF LogInv, LogTypeOK
<1>4. Len(stderr') = n + 1 /\ stderr'[n + 1] = p
  BY <1>1, <1>3 DEF LogInv, LogTypeOK, Emit
<1>5. n % 3 = Written(pc[t])
  BY <1>3 DEF LogInv, HolderWrites
<1>6. (n + 1) % 3 = Written(next)
  <2>1. Written(pc[t]) \in {0, 1, 2} /\ Written(next) = IF Written(pc[t]) = 2 THEN 0 ELSE Written(pc[t]) + 1
    BY DEF Written
  <2>2. (n + 1) % 3 = IF n % 3 = 2 THEN 0 ELSE (n % 3) + 1
    OBVIOUS
  <2> QED BY <1>5, <2>1, <2>2
<1>7. pc'[t] = next /\ \A u \in Threads : u # t => pc'[u] = pc[u]
  BY DEF LogInv, LogTypeOK, Emit
<1>8. LinesAreWhole'
  <2>1. stderr' = Append(stderr, p) BY DEF Emit
  <2>2. piece = PieceAt(n + 1) BY <1>5, LineStarts, Zenon DEF Written
  <2>3. n % 3 # 0 => stderr[n].thread = t
    BY <1>3, <1>5 DEF LogInv, HolderWrites, Written
  <2> HIDE DEF p
  <2> QED BY <1>1, <1>3, <2>1, <2>2, <2>3, OnePiece DEF LogInv, LogTypeOK
<1>9. HolderWrites'
  <2>1. \A u \in Threads : u # t => ~Writing(u) BY DEF LogInv, HolderWrites
  <2>2. \A u \in Threads : u # t => ~(Writing(u))' /\ pc'[u] \notin {"message", "newline"}
    BY <1>7, <2>1 DEF Writing
  <2>3. log_mutex' = t /\ (Writing(t))' BY <1>7 DEF Emit, Writing
  <2>4. t # Free BY FreeIsNoThread
  <2>5. stderr'[Len(stderr')].thread = t BY <1>1, <1>4
  <2>6. Len(stderr') % 3 = Written(pc'[t]) BY <1>4, <1>6, <1>7
  <2> HIDE DEF p
  <2> QED BY <2>2, <2>3, <2>4, <2>5, <2>6 DEF HolderWrites
<1>10. ErrnoKept'
  BY <1>7 DEF LogInv, ErrnoKept, Emit, Writing
<1>11. ErrnoPreserved'
  <2>1. ASSUME NEW u \in Threads, pc'[u] = "returned" PROVE errno'[u] = caller_errno'[u]
    BY <1>7, <2>1 DEF LogInv, ErrnoPreserved, Emit, LogTypeOK
  <2>2. ASSUME NEW u \in Threads, pc'[u] = "newline" PROVE stderr'[Len(stderr')].errno = caller_errno'[u]
    <3>1. u = t /\ pc[t] = "message" BY <1>7, <2>2 DEF LogInv, HolderWrites, Writing
    <3>2. before = caller_errno[t] BY <3>1 DEF LogInv, ErrnoKept, Writing
    <3> QED BY <1>1, <1>4, <3>1, <3>2 DEF Emit
  <2> QED BY <2>1, <2>2 DEF ErrnoPreserved
<1> QED BY <1>2, <1>8, <1>9, <1>10, <1>11 DEF LogInv

\* The lock is taken only when free, so that its holder is the only writer; every
\* step of gg_log keeps the invariant.
LEMMA LogStepInv == LogInv /\ [LogNext]_logVars => LogInv'
<1> SUFFICES ASSUME LogInv, [LogNext]_logVars PROVE LogInv'
  OBVIOUS
<1>1. CASE UNCHANGED logVars
  BY <1>1 DEF LogInv, logVars, LogTypeOK, HolderWrites, ErrnoKept, LinesAreWhole, ErrnoPreserved, Writing
<1>2. ASSUME NEW t \in Threads, SetErrno(t) \/ gg_log(t) \/ LogLock(t) \/ LogReturn(t) \/ LogContinue(t)
      PROVE  LogInv'
  <2>1. stderr' = stderr BY <1>2 DEF SetErrno, gg_log, LogLock, LogReturn, LogContinue
  <2>2. LinesAreWhole' BY <2>1 DEF LogInv, LinesAreWhole
  <2>3. LogTypeOK'
    BY <1>2 DEF LogInv, LogTypeOK, SetErrno, gg_log, LogLock, LogReturn, LogContinue
  <2>4. HolderWrites'
    BY <1>2, <2>1, FreeIsNoThread
       DEF LogInv, LogTypeOK, HolderWrites, Writing, Written, SetErrno, gg_log, LogLock, LogReturn, LogContinue
  <2>5. ErrnoKept'
    BY <1>2 DEF LogInv, LogTypeOK, ErrnoKept, Writing, SetErrno, gg_log, LogLock, LogReturn, LogContinue
  <2>6. ErrnoPreserved'
    BY <1>2, <2>1 DEF LogInv, LogTypeOK, ErrnoPreserved, ErrnoKept, Writing, SetErrno, gg_log, LogLock, LogReturn,
                      LogContinue
  <2> QED BY <2>2, <2>3, <2>4, <2>5, <2>6 DEF LogInv
<1>3. ASSUME NEW t \in Threads, WritePrefix(t) \/ WriteMessage(t) \/ WriteNewline(t)
      PROVE  LogInv'
  <2>1. Writing(t) /\ log_mutex = t
    BY <1>3 DEF LogInv, HolderWrites, Writing, WritePrefix, WriteMessage, WriteNewline
  <2>2. errno[t] \in Errnos /\ saved_errno[t] \in Errnos BY DEF LogInv, LogTypeOK
  <2> QED BY <1>3, <2>1, <2>2, EmitStep DEF WritePrefix, WriteMessage, WriteNewline
<1> QED BY <1>1, <1>2, <1>3 DEF LogNext, LogStep

\* gg_log writes whole lines and keeps errno for its message and its caller, in
\* every interleaving of any number of threads.
THEOREM LogsAreTransparent == LogSpec => []LogIsTransparent
<1>1. LogInit => LogInv
  <2> SUFFICES ASSUME LogInit PROVE LogInv
    OBVIOUS
  <2>1. LogTypeOK BY DEF LogInit, LogTypeOK
  <2>2. Len(stderr) = 0 /\ DOMAIN stderr = {} BY DEF LogInit
  <2>3. HolderWrites BY <2>2, FreeIsNoThread DEF LogInit, HolderWrites, Writing
  <2> QED BY <2>1, <2>2, <2>3 DEF LogInit, LogInv, ErrnoKept, LinesAreWhole, ErrnoPreserved, Writing
<1>2. LogInv => LogIsTransparent
  BY DEF LogInv, LogIsTransparent
<1> QED BY <1>1, <1>2, LogStepInv, PTL DEF LogSpec

-----------------------------------------------------------------------------
(* Trace contexts.                                                           *)

Trail == [trace_id : 0..(W - 1), span_id : 0..(W - 1), parent_span_id : 0..(W - 1)]
Scope == [after : Trail, opened : Trail]

\* A frame of this library carries its sender's context or none.
FrameOfSender(f) ==
    /\ f.sender \in Trail
    /\ \A i \in DOMAIN f.headers : f.headers[i][3] \in Int
    /\ f.sender.trace_id # 0 =>
           \/ f.headers = <<>>
           \/ f.headers = << <<"T", "int32", f.sender.trace_id>>, <<"S", "int32", f.sender.span_id>>,
                             <<"P", "int32", f.sender.parent_span_id>> >>

\* The context a scope leaves is none or that of a scope around it.
AfterIsOuter ==
    \A t \in Threads : \A i \in DOMAIN scopes[t] :
        scopes[t][i].after # NoTrail =>
            \E j \in 1..(i - 1) : scopes[t][j].opened = scopes[t][i].after

TypeOK ==
    /\ tls \in [Threads -> Trail]
    /\ scopes \in [Threads -> Seq(Scope)]
    /\ \A f \in frames : FrameOfSender(f)

Inv == TypeOK /\ ContextHasOpenScope /\ AfterIsOuter /\ SpanTree

\* Ids are 16-bit and not zero.
LEMMA IdsNonzero == gen_nonzero_id \subseteq 1..(W - 1)
    BY TrailIds DEF gen_nonzero_id

\* No context is a context.
LEMMA NoTrailTyped == NoTrail \in Trail
    BY TrailIds DEF NoTrail, Trail

\* The headers of a sender give its trace and its span back.
LEMMA HeadersOfSender ==
    ASSUME NEW f, FrameOfSender(f), f.sender.trace_id # 0, HasTrace(f.headers)
    PROVE  /\ HeaderValue(f.headers, "T") = {f.sender.trace_id}
           /\ HeaderValue(f.headers, "S") = {f.sender.span_id}
<1> DEFINE h == << <<"T", "int32", f.sender.trace_id>>, <<"S", "int32", f.sender.span_id>>,
                   <<"P", "int32", f.sender.parent_span_id>> >>
           at(name) == {i \in DOMAIN h : h[i][1] = name /\ h[i][2] = "int32"}
<1>1. f.headers = h
    BY DEF FrameOfSender, HasTrace
<1>2. at("T") = {1} /\ at("S") = {2}
    OBVIOUS
<1>3. /\ h[1][3] = f.sender.trace_id /\ h[2][3] = f.sender.span_id
      /\ f.sender.trace_id % W = f.sender.trace_id
      /\ f.sender.span_id % W = f.sender.span_id
    <2>1. f.sender.trace_id \in 0..(W - 1) /\ f.sender.span_id \in 0..(W - 1)
        BY DEF FrameOfSender, Trail
    <2>2. W \in Nat \ {0}
        BY TrailIds
    <2> HIDE DEF h
    <2>3. \A n \in 0..(W - 1) : n % W = n
        BY <2>2
    <2>4. f.sender.trace_id % W = f.sender.trace_id /\ f.sender.span_id % W = f.sender.span_id
        BY <2>1, <2>3, Zenon
    <2>5. h[1][3] = f.sender.trace_id /\ h[2][3] = f.sender.span_id
        BY DEF h
    <2> QED
        BY <2>4, <2>5, Zenon
<1> HIDE DEF h
<1>4. HeaderValue(h, "T") = {h[1][3] % W} /\ HeaderValue(h, "S") = {h[2][3] % W}
    BY <1>2 DEF HeaderValue
<1> QED
    BY <1>1, <1>3, <1>4

\* What a frame says is 16-bit.
LEMMA HeaderValueTyped ==
    ASSUME NEW headers, NEW name, \A i \in DOMAIN headers : headers[i][3] \in Int
    PROVE  HeaderValue(headers, name) \subseteq 0..(W - 1)
    BY TrailIds DEF HeaderValue

\* A new scope keeps the invariant when the context it opens is the thread's own new
\* one, and the one it leaves is none or the one before.
LEMMA ScopeKeeps ==
    ASSUME Inv, NEW t \in Threads, NEW after \in {NoTrail, tls[t]}, NEW new \in Trail,
           tls' = [tls EXCEPT ![t] = new], EnterScope(t, after)
    PROVE  /\ scopes' \in [Threads -> Seq(Scope)]
           /\ ContextHasOpenScope'
           /\ AfterIsOuter'
<1> DEFINE s == [after |-> after, opened |-> new]
           n == Len(scopes[t])
<1>1. tls[t] \in Trail /\ scopes[t] \in Seq(Scope) /\ after \in Trail /\ s \in Scope /\ n \in Nat
    <2>1. tls[t] \in Trail /\ scopes[t] \in Seq(Scope)
        BY DEF Inv, TypeOK
    <2>2. after \in Trail
        BY <2>1, NoTrailTyped
    <2>3. s \in Scope
        BY <2>2 DEF Scope
    <2> QED
        BY <2>1, <2>2, <2>3
<1>a. tls'[t] = new
    BY DEF Inv, TypeOK
<1>b. scopes' = [scopes EXCEPT ![t] = Append(scopes[t], [after |-> after, opened |-> tls'[t]])]
    BY DEF EnterScope
<1>2. scopes' = [scopes EXCEPT ![t] = Append(scopes[t], s)]
    BY <1>a, <1>b
<1>3. /\ scopes' \in [Threads -> Seq(Scope)]
      /\ \A u \in Threads : u # t => scopes'[u] = scopes[u] /\ tls'[u] = tls[u]
      /\ DOMAIN scopes[t] = 1..n
      /\ DOMAIN scopes'[t] = 1..(n + 1)
      /\ scopes'[t][n + 1] = s
      /\ \A i \in 1..n : scopes'[t][i] = scopes[t][i]
      /\ tls'[t] = new
    BY <1>1, <1>2 DEF Inv, TypeOK
<1> HIDE DEF n
<1>4. ContextHasOpenScope'
    <2>1. n + 1 \in 1..(n + 1)
        BY <1>1
    <2>2. \E i \in DOMAIN scopes'[t] : scopes'[t][i].opened = tls'[t]
        BY <1>3, <2>1
    <2>3. ASSUME NEW u \in Threads, u # t, tls'[u] # NoTrail
          PROVE  \E i \in DOMAIN scopes'[u] : scopes'[u][i].opened = tls'[u]
        <3>1. scopes'[u] = scopes[u] /\ tls'[u] = tls[u]
            BY <1>3, <2>3, Zenon
        <3>2. tls[u] # NoTrail => \E i \in DOMAIN scopes[u] : scopes[u][i].opened = tls[u]
            BY Zenon DEF Inv, ContextHasOpenScope
        <3> QED
            BY <2>3, <3>1, <3>2
    <2>4. NoTrail' = NoTrail
        BY DEF NoTrail
    <2> QED
        BY <2>2, <2>3, <2>4, Zenon DEF ContextHasOpenScope
<1>5. AfterIsOuter'
    <2> SUFFICES ASSUME NEW u \in Threads, NEW i \in DOMAIN scopes'[u], scopes'[u][i].after # NoTrail
                 PROVE  \E j \in 1..(i - 1) : scopes'[u][j].opened = scopes'[u][i].after
        BY DEF AfterIsOuter, NoTrail
    <2>1. CASE u # t
        <3>1. scopes'[u] = scopes[u]
            BY <1>3, <2>1
        <3>2. PICK j \in 1..(i - 1) : scopes[u][j].opened = scopes[u][i].after
            BY <3>1 DEF Inv, AfterIsOuter
        <3> QED
            BY <3>1, <3>2
    <2>2. CASE u = t /\ i \in 1..n
        <3>1. scopes'[t][i] = scopes[t][i] /\ i \in DOMAIN scopes[t] /\ scopes[t][i].after # NoTrail
            BY <1>3, <2>2
        <3>2. PICK j \in 1..(i - 1) : scopes[t][j].opened = scopes[t][i].after
            BY <3>1 DEF Inv, AfterIsOuter
        <3>3. scopes'[t][j] = scopes[t][j]
            BY <1>1, <1>3, <2>2, <3>2
        <3> QED
            BY <2>2, <3>1, <3>2, <3>3
    <2>3. CASE u = t /\ i = n + 1
        <3>1. after = tls[t] /\ tls[t] # NoTrail
            BY <1>3, <2>3
        <3>2. PICK j \in 1..n : scopes[t][j].opened = tls[t]
            BY <1>3, <3>1, Zenon DEF Inv, ContextHasOpenScope
        <3> QED
            BY <1>1, <1>3, <2>3, <3>1, <3>2
    <2> QED
        BY <1>1, <1>3, <2>1, <2>2, <2>3
<1> QED
    BY <1>3, <1>4, <1>5

\* The invariant holds before any scope is opened.
LEMMA InitTrails == Init => Inv
    BY NoTrailTyped
       DEF Init, Inv, TypeOK, ContextHasOpenScope, AfterIsOuter, SpanTree

\* A span with the trace and the parent of its cause keeps the tree.
LEMMA SpanKeeps ==
    ASSUME Inv, NEW new, NEW cause, spans' = spans \cup {[trail |-> new, cause |-> cause]},
           cause.trace_id # 0 => new.trace_id = cause.trace_id /\ new.parent_span_id = cause.span_id
    PROVE  SpanTree'
    BY DEF Inv, SpanTree

\* Every operation on a thread's context keeps the invariant.
LEMMA StepTrails == Inv /\ [Next]_vars => Inv'
<1> SUFFICES ASSUME Inv, [Next]_vars PROVE Inv'
    OBVIOUS
<1>0. /\ tls \in [Threads -> Trail] /\ scopes \in [Threads -> Seq(Scope)]
      /\ NoTrail \in Trail /\ NoTrail.trace_id = 0
      /\ \A f \in frames : FrameOfSender(f)
    BY NoTrailTyped DEF Inv, TypeOK, NoTrail
<1>1. ASSUME NEW t \in Threads, gg_log_trail_root_begin(t) PROVE Inv'
    <2>1. CASE tls[t].trace_id # 0
        <3>1. tls' = [tls EXCEPT ![t] = tls[t]] /\ spans' = spans /\ frames' = frames
            BY <1>0, <1>1, <2>1 DEF gg_log_trail_root_begin
        <3>2. scopes' \in [Threads -> Seq(Scope)] /\ ContextHasOpenScope' /\ AfterIsOuter'
            BY <1>0, <1>1, <3>1, ScopeKeeps, Zenon
               DEF gg_log_trail_root_begin, GG_LOG_TRAIL_SCOPE_GUARD
        <3> QED
            BY <1>0, <3>1, <3>2, Zenon DEF Inv, TypeOK, SpanTree
    <2>2. CASE tls[t].trace_id = 0
        <3>1. PICK trace \in gen_nonzero_id, span \in gen_nonzero_id :
                  OpenSpan(t, trail(trace, span, 0), NoTrail)
            BY <1>1, <2>2 DEF gg_log_trail_root_begin
        <3>2. trail(trace, span, 0) \in Trail
            BY <3>1, IdsNonzero, TrailIds DEF trail, Trail
        <3>3. scopes' \in [Threads -> Seq(Scope)] /\ ContextHasOpenScope' /\ AfterIsOuter'
            BY <1>0, <1>1, <3>1, <3>2, ScopeKeeps, Zenon
               DEF gg_log_trail_root_begin, GG_LOG_TRAIL_SCOPE_GUARD, OpenSpan
        <3>4. SpanTree'
            BY <1>0, <3>1, SpanKeeps, Zenon DEF OpenSpan
        <3> QED
            BY <1>0, <1>1, <3>1, <3>2, <3>3, <3>4, Zenon
               DEF Inv, TypeOK, OpenSpan, gg_log_trail_root_begin
    <2> QED
        BY <2>1, <2>2
<1>2. ASSUME NEW t \in Threads, RootScope(t) PROVE Inv'
    <2>1. PICK trace \in gen_nonzero_id, span \in gen_nonzero_id :
              OpenSpan(t, trail(trace, span, 0), NoTrail)
        BY <1>2 DEF RootScope
    <2>2. trail(trace, span, 0) \in Trail
        BY <2>1, IdsNonzero, TrailIds DEF trail, Trail
    <2>3. scopes' \in [Threads -> Seq(Scope)] /\ ContextHasOpenScope' /\ AfterIsOuter'
        BY <1>0, <1>2, <2>1, <2>2, ScopeKeeps, Zenon DEF RootScope, GG_LOG_TRAIL_SCOPE_GUARD, OpenSpan
    <2>4. SpanTree'
        BY <1>0, <2>1, SpanKeeps, Zenon DEF OpenSpan
    <2> QED
        BY <1>0, <1>2, <2>1, <2>2, <2>3, <2>4, Zenon DEF Inv, TypeOK, OpenSpan, RootScope
<1>3. ASSUME NEW t \in Threads, Send(t) PROVE Inv'
    <2>1. PICK capacity \in {2, 3} :
              frames' = frames \cup {[headers |-> gg_log_trail_attach_headers(tls[t], capacity),
                                      sender |-> tls[t]]}
        BY <1>3 DEF Send
    <2>2. FrameOfSender([headers |-> gg_log_trail_attach_headers(tls[t], capacity), sender |-> tls[t]])
        BY <1>0, TrailIds DEF FrameOfSender, gg_log_trail_attach_headers, Trail
    <2>3. \A f \in frames' : FrameOfSender(f)
        BY <1>0, <2>1, <2>2
    <2> QED
        BY <1>3, <2>3 DEF Send, Inv, TypeOK, ContextHasOpenScope, AfterIsOuter, SpanTree
<1>4. ASSUME SendForeign PROVE Inv'
    <2>1. PICK h \in Foreign : frames' = frames \cup {[headers |-> h, sender |-> NoTrail]}
        BY <1>4 DEF SendForeign
    <2>2. FrameOfSender([headers |-> h, sender |-> NoTrail])
        BY <1>0, TrailIds DEF FrameOfSender
    <2>3. \A f \in frames' : FrameOfSender(f)
        BY <1>0, <2>1, <2>2
    <2> QED
        BY <1>4, <2>3 DEF SendForeign, Inv, TypeOK, ContextHasOpenScope, AfterIsOuter, SpanTree
<1>5. ASSUME NEW t \in Threads, Inherit(t) PROVE Inv'
    <2>1. PICK f \in frames :
              /\ IF HasTrace(f.headers)
                 THEN \E span \in gen_nonzero_id, trace \in HeaderValue(f.headers, "T"),
                         parent \in HeaderValue(f.headers, "S") :
                          OpenSpan(t, trail(trace, span, parent), f.sender)
                 ELSE tls' = [tls EXCEPT ![t] = NoTrail] /\ UNCHANGED spans
              /\ GG_LOG_TRAIL_SCOPE_GUARD(t)
              /\ frames' = frames \ {f}
        BY <1>5 DEF Inherit
    <2>2. CASE HasTrace(f.headers)
        <3>1. PICK span \in gen_nonzero_id, trace \in HeaderValue(f.headers, "T"),
                   parent \in HeaderValue(f.headers, "S") :
                       OpenSpan(t, trail(trace, span, parent), f.sender)
            BY <2>1, <2>2
        <3>2. trail(trace, span, parent) \in Trail
            <4>1. \A i \in DOMAIN f.headers : f.headers[i][3] \in Int
                BY <1>0 DEF FrameOfSender
            <4>2. trace \in 0..(W - 1) /\ parent \in 0..(W - 1)
                BY <3>1, <4>1, HeaderValueTyped
            <4>3. span \in 0..(W - 1)
                BY <3>1, IdsNonzero, TrailIds
            <4> QED
                BY <4>2, <4>3 DEF trail, Trail
        <3>3. scopes' \in [Threads -> Seq(Scope)] /\ ContextHasOpenScope' /\ AfterIsOuter'
            BY <1>0, <2>1, <3>1, <3>2, ScopeKeeps, Zenon DEF GG_LOG_TRAIL_SCOPE_GUARD, OpenSpan
        <3>4. f.sender.trace_id # 0 => trace = f.sender.trace_id /\ parent = f.sender.span_id
            BY <1>0, <2>2, <3>1, HeadersOfSender, Zenon
        <3>5. SpanTree'
            BY <3>1, <3>4, SpanKeeps, Zenon DEF OpenSpan, trail
        <3> QED
            BY <1>0, <2>1, <3>1, <3>2, <3>3, <3>5, Zenon DEF Inv, TypeOK, OpenSpan
    <2>3. CASE ~HasTrace(f.headers)
        <3>1. scopes' \in [Threads -> Seq(Scope)] /\ ContextHasOpenScope' /\ AfterIsOuter'
            BY <1>0, <2>1, <2>3, ScopeKeeps DEF GG_LOG_TRAIL_SCOPE_GUARD
        <3> QED
            BY <1>0, <2>1, <2>3, <3>1, Zenon DEF Inv, TypeOK, SpanTree
    <2> QED
        BY <2>2, <2>3
<1>6. ASSUME NEW t \in Threads, Subspan(t) PROVE Inv'
    <2>1. CASE tls[t].trace_id = 0
        <3>1. tls' = [tls EXCEPT ![t] = tls[t]] /\ spans' = spans /\ frames' = frames
            BY <1>0, <1>6, <2>1 DEF Subspan
        <3>2. scopes' \in [Threads -> Seq(Scope)] /\ ContextHasOpenScope' /\ AfterIsOuter'
            BY <1>0, <1>6, <3>1, ScopeKeeps, Zenon DEF Subspan
        <3> QED
            BY <1>0, <3>1, <3>2, Zenon DEF Inv, TypeOK, SpanTree
    <2>2. CASE tls[t].trace_id # 0
        <3>1. PICK span \in gen_nonzero_id :
                  OpenSpan(t, trail(tls[t].trace_id, span, tls[t].span_id), tls[t])
            BY <1>6, <2>2 DEF Subspan
        <3>2. trail(tls[t].trace_id, span, tls[t].span_id) \in Trail
            BY <1>0, <3>1, IdsNonzero, TrailIds DEF trail, Trail
        <3>3. scopes' \in [Threads -> Seq(Scope)] /\ ContextHasOpenScope' /\ AfterIsOuter'
            BY <1>6, <3>1, <3>2, ScopeKeeps, Zenon DEF Subspan, OpenSpan
        <3>4. SpanTree'
            BY <3>1, SpanKeeps, Zenon DEF OpenSpan, trail
        <3> QED
            BY <1>0, <1>6, <3>1, <3>2, <3>3, <3>4, Zenon DEF Inv, TypeOK, OpenSpan, Subspan
    <2> QED
        BY <2>1, <2>2
<1>7. ASSUME NEW t \in Threads, Exit(t) PROVE Inv'
    <2> DEFINE n == Len(scopes[t])
    <2>1. scopes[t] \in Seq(Scope) /\ n \in Nat \ {0} /\ scopes[t][n] \in Scope
        BY <1>0, <1>7 DEF Exit
    <2>2. /\ \A u \in Threads : u # t => scopes'[u] = scopes[u] /\ tls'[u] = tls[u]
          /\ scopes' \in [Threads -> Seq(Scope)]
          /\ DOMAIN scopes[t] = 1..n
          /\ DOMAIN scopes'[t] = 1..(n - 1)
          /\ \A i \in 1..(n - 1) : scopes'[t][i] = scopes[t][i]
          /\ tls'[t] = scopes[t][n].after
        BY <1>0, <1>7, <2>1 DEF Exit
    <2> HIDE DEF n
    <2>3. TypeOK'
        BY <1>0, <1>7, <2>1, <2>2 DEF Exit, TypeOK, Scope, n
    <2>4. ContextHasOpenScope'
        <3> SUFFICES ASSUME NEW u \in Threads, tls'[u] # NoTrail
                     PROVE  \E i \in DOMAIN scopes'[u] : scopes'[u][i].opened = tls'[u]
            BY DEF ContextHasOpenScope, NoTrail
        <3>1. CASE u # t
            BY <2>2, <3>1 DEF Inv, ContextHasOpenScope
        <3>2. CASE u = t
            <4>1. scopes[t][n].after # NoTrail /\ n \in DOMAIN scopes[t]
                BY <2>1, <2>2, <3>2
            <4>2. PICK j \in 1..(n - 1) : scopes[t][j].opened = scopes[t][n].after
                BY <4>1 DEF Inv, AfterIsOuter
            <4> QED
                BY <2>2, <3>2, <4>2
        <3> QED
            BY <3>1, <3>2
    <2>5. AfterIsOuter'
        <3> SUFFICES ASSUME NEW u \in Threads, NEW i \in DOMAIN scopes'[u],
                            scopes'[u][i].after # NoTrail
                     PROVE  \E j \in 1..(i - 1) : scopes'[u][j].opened = scopes'[u][i].after
            BY DEF AfterIsOuter, NoTrail
        <3>1. /\ scopes'[u][i] = scopes[u][i] /\ i \in DOMAIN scopes[u]
              /\ u = t => i \in 1..(n - 1)
            BY <2>1, <2>2
        <3>2. PICK j \in 1..(i - 1) : scopes[u][j].opened = scopes[u][i].after
            BY <3>1 DEF Inv, AfterIsOuter
        <3>3. scopes'[u][j] = scopes[u][j]
            <4>1. CASE u # t
                BY <2>2, <4>1
            <4>2. CASE u = t
                <5>1. j \in 1..(n - 1)
                    BY <2>1, <3>1, <4>2
                <5> QED
                    BY <2>2, <4>2, <5>1
            <4> QED
                BY <4>1, <4>2
        <3> QED
            BY <3>1, <3>2, <3>3
    <2> QED
        BY <1>7, <2>3, <2>4, <2>5 DEF Exit, Inv, SpanTree
<1>8. CASE UNCHANGED vars
    BY <1>8 DEF vars, Inv, TypeOK, ContextHasOpenScope, AfterIsOuter, SpanTree
<1> QED
    BY <1>1, <1>2, <1>3, <1>4, <1>5, <1>6, <1>7, <1>8 DEF Next

\* However scopes nest and frames travel, the context of a thread belongs to a
\* scope that is open, and spans form trees across any number of threads.
THEOREM TrailsAreRight == Spec => []TrailsFollowCalls
<1>1. Inv => TrailsFollowCalls
    BY DEF Inv, TrailsFollowCalls
<1> QED
    BY InitTrails, StepTrails, <1>1, PTL DEF Spec

=============================================================================
