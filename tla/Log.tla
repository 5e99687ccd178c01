-------------------------------- MODULE Log --------------------------------
(***************************************************************************)
(* gg_log (src/src/log.c): threads write lines to stderr in several pieces    *)
(* under a mutex.  The stdio functions may change errno, which the message    *)
(* may print (%m) and the caller may still need.                              *)
(***************************************************************************)
EXTENDS Integers, Sequences, ProcessThreads

CONSTANTS
    Errnos,         \* values of errno
    MaxLines        \* calls of gg_log in all (bound)

VARIABLES
    pc,             \* where each thread is
    errno,          \* thread-local errno
    saved_errno,    \* local of gg_log
    caller_errno,   \* history: errno when gg_log was called
    log_mutex,      \* its holder, or Free
    stderr,         \* the pieces written: [thread, piece, errno]
    lines           \* calls made

logVars == <<pc, errno, saved_errno, caller_errno, log_mutex, stderr, lines>>

LogInit ==
    /\ pc = [t \in Threads |-> "idle"]
    /\ errno \in [Threads -> Errnos]
    /\ saved_errno = errno
    /\ caller_errno = errno
    /\ log_mutex = Free
    /\ stderr = <<>>
    /\ lines = 0

\* The code between two log lines fails a system call.
SetErrno(t) ==
    /\ pc[t] = "idle"
    /\ \E e \in Errnos : errno' = [errno EXCEPT ![t] = e]
    /\ UNCHANGED <<pc, saved_errno, caller_errno, log_mutex, stderr, lines>>

gg_log(t) ==
    /\ pc[t] = "idle" /\ lines < MaxLines
    /\ lines' = lines + 1
    /\ saved_errno' = [saved_errno EXCEPT ![t] = errno[t]]
    /\ caller_errno' = [caller_errno EXCEPT ![t] = errno[t]]
    /\ pc' = [pc EXCEPT ![t] = "lock"]
    /\ UNCHANGED <<errno, log_mutex, stderr>>

LogLock(t) ==
    /\ pc[t] = "lock" /\ log_mutex = Free
    /\ log_mutex' = t
    /\ pc' = [pc EXCEPT ![t] = "prefix"]
    /\ UNCHANGED <<errno, saved_errno, caller_errno, stderr, lines>>

\* fprintf or vfprintf: a piece of the line; errno may change.
Emit(t, piece, before, next) ==
    /\ stderr' = Append(stderr, [thread |-> t, piece |-> piece, errno |-> before])
    /\ \E e \in Errnos : errno' = [errno EXCEPT ![t] = e]
    /\ pc' = [pc EXCEPT ![t] = next]
    /\ UNCHANGED <<saved_errno, caller_errno, log_mutex, lines>>

\* Level, tag, trail, file and line.
WritePrefix(t) == pc[t] = "prefix" /\ Emit(t, "prefix", errno[t], "message")

\* Mutant: errno is not put back before the message.
WriteMessage_OwnErrno(t) == pc[t] = "message" /\ Emit(t, "message", errno[t], "newline")

\* errno = saved_errno; vfprintf
WriteMessage(t) == pc[t] = "message" /\ Emit(t, "message", saved_errno[t], "newline")

\* The newline and fflush.
WriteNewline(t) == pc[t] = "newline" /\ Emit(t, "newline", errno[t], "unlock")

\* The scope guard unlocks; errno = saved_errno.
LogReturn(t) ==
    /\ pc[t] = "unlock"
    /\ log_mutex' = Free
    /\ errno' = [errno EXCEPT ![t] = saved_errno[t]]
    /\ pc' = [pc EXCEPT ![t] = "returned"]
    /\ UNCHANGED <<saved_errno, caller_errno, stderr, lines>>

LogContinue(t) ==
    /\ pc[t] = "returned"
    /\ pc' = [pc EXCEPT ![t] = "idle"]
    /\ UNCHANGED <<errno, saved_errno, caller_errno, log_mutex, stderr, lines>>

LogStep(t) ==
    \/ LogLock(t) \/ WritePrefix(t) \/ WriteMessage(t) \/ WriteNewline(t) \/ LogReturn(t) \/ LogContinue(t)

LogNext == \E t \in Threads : SetErrno(t) \/ gg_log(t) \/ LogStep(t)

LogSpec == LogInit /\ [][LogNext]_logVars
\* A thread that is scheduled gets the mutex at last, as others release it often.
LogFairSpec == LogSpec /\ \A t \in Threads : SF_logVars(LogStep(t))

-----------------------------------------------------------------------------
\* If lines are whole, piece i is in the line that starts at LineStart(i), and is
\* PieceAt(i) of it.
LineStart(i) == 3 * ((i - 1) \div 3) + 1
PieceAt(i) == <<"prefix", "message", "newline">>[((i - 1) % 3) + 1]

\* Lines of concurrent threads never mix: the pieces come in threes, of one thread
\* each.
LinesAreWhole ==
    \A i \in DOMAIN stderr :
        /\ stderr[i].thread = stderr[LineStart(i)].thread
        /\ stderr[i].piece = PieceAt(i)

\* gg_log is transparent to errno: the message sees the caller's value, and so does
\* the caller afterwards, whatever stdio and other threads did.
ErrnoPreserved ==
    \A t \in Threads :
        /\ pc[t] = "returned" => errno[t] = caller_errno[t]
        /\ pc[t] = "newline" => stderr[Len(stderr)].errno = caller_errno[t]

\* A log line disturbs neither the lines of other threads nor its caller.
LogIsTransparent == LinesAreWhole /\ ErrnoPreserved

\* Every call of gg_log returns.
LogReturns == \A t \in Threads : pc[t] = "lock" ~> pc[t] = "idle"

=============================================================================
