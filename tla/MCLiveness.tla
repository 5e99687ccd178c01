----------------------------- MODULE MCLiveness -----------------------------
(***************************************************************************)
(* What has to happen at last: the loss of the connection ends the process    *)
(* (IpcConnect), packets arrive (PacketStream), operations (Operations),      *)
(* opening of files (FileOpen), log lines (Log) and retries (Backoff) return. *)
(* The parts share no state; part says which is run.                          *)
(***************************************************************************)
EXTENDS IpcConnect, Backoff, FileInputs, ClientInputs

CONSTANTS
    Threads, None,
    MaxName, MaxStr, MaxLen, SendMem, RecvMem, Pipe,                \* PacketStream
    GG_IPC_MAX_MSG_LEN, NextTokenLen, PageLen, MaxCalls,            \* Operations
    NAME_MAX, BufLen, MaxFds, MaxFaults,                            \* FileOpen
    Errnos, MaxLines                                                \* Log

VARIABLES
    part,
    mtx, rest, msg, pipe, sends, gone, rd, delivered, started, whole, cut,
    th, gg_ipc_b64_encode_mem, gg_ipc_b64_encode_mtx, net, config, truth, left,
    file_th, fds, path_comp_buf, path_comp_buf_mtx, dirs, files, size, durable, unsynced, foreign, file_left,
    log_pc, errno, saved_errno, caller_errno, log_mutex, stderr, lines

packetVars == <<mtx, rest, msg, pipe, sends, gone, rd, delivered, started, whole, cut>>
opVars == <<th, gg_ipc_b64_encode_mem, gg_ipc_b64_encode_mtx, net, config, truth, left>>
fileVars == <<file_th, fds, path_comp_buf, path_comp_buf_mtx, dirs, files, size, durable, unsynced, foreign,
              file_left>>
logVars == <<log_pc, errno, saved_errno, caller_errno, log_mutex, stderr, lines>>
allVars == <<part, vars, backoffVars, packetVars, opVars, fileVars, logVars>>

Es == INSTANCE EventStream

\* One message that fits and one that the receiver refuses.
FewMessages ==
    {[headers |-> <<>>, payload |-> << <<8>> >>],
     [headers |-> << [name |-> Es!StreamId, type |-> Es!EVENTSTREAM_STRING, val |-> <<>>] >>, payload |-> <<>>]}

\* Every pair of small intervals, base above maximum and the top of the range
\* included.
MCArguments == [base_ms : 1..(W - 1), max_ms : 1..(W - 1), max_attempts : {0, 1, 2, 4, W - 1}]

Ps == INSTANCE PacketStream WITH calls <- sends, Messages <- FewMessages
Op == INSTANCE Operations WITH
          Calls <- FewOperations, Config <- MCConfig, Shadows <- MCShadows, Documents <- MCDocuments,
          ErrorCodes <- FewErrors, TokenLens <- ShortTokens
File == INSTANCE FileOpen WITH
            th <- file_th, left <- file_left, Calls <- FewFileCalls, Dirs <- MCDirs, Files <- MCFiles,
            Others <- {}, Sizes <- {3}, MaxCrashes <- 0
Lg == INSTANCE Log WITH pc <- log_pc

MCInit ==
    /\ part \in {"connect", "backoff", "packets", "operations", "files", "log"}
    /\ Init /\ BackoffInit /\ Ps!Init /\ Op!Init /\ File!FileInit /\ Lg!LogInit
    /\ part # "backoff" => args = [base_ms |-> 1, max_ms |-> 1, max_attempts |-> 0]
    /\ part # "log" => \A t \in Threads : errno[t] = 0

\* A step of one part leaves the others as they are.
ConnectOnly ==
    part = "connect" /\ UNCHANGED <<part, backoffVars, packetVars, opVars, fileVars, logVars>>
BackoffOnly == part = "backoff" /\ UNCHANGED <<part, vars, packetVars, opVars, fileVars, logVars>>
PacketsOnly == part = "packets" /\ UNCHANGED <<part, vars, backoffVars, opVars, fileVars, logVars>>
OperationsOnly == part = "operations" /\ UNCHANGED <<part, vars, backoffVars, packetVars, fileVars, logVars>>
FilesOnly == part = "files" /\ UNCHANGED <<part, vars, backoffVars, packetVars, opVars, logVars>>
LogOnly == part = "log" /\ UNCHANGED <<part, vars, backoffVars, packetVars, opVars, fileVars>>

MCNext ==
    \/ ConnectOnly /\ Next
    \/ BackoffOnly /\ BackoffNext
    \/ PacketsOnly /\ Ps!Next
    \/ OperationsOnly /\ Op!Next
    \/ FilesOnly /\ File!FileNext
    \/ LogOnly /\ Lg!LogNext

\* The fairness of each part, as its module states it.  part never changes, so
\* fairness of a disjunction over the parts is fairness of the part that runs.
Fairness ==
    /\ WF_allVars(\/ ConnectOnly /\ proc = "running" /\ RecvProgress
                  \/ PacketsOnly /\ Ps!Receiving
                  \/ BackoffOnly /\ (fn_Succeeds \/ fn_Fails))
    /\ WF_allVars(BackoffOnly /\ Sleep)
    /\ \A c \in Connectors : WF_allVars(ConnectOnly /\ proc = "running" /\ Publish(c))
    /\ \A t \in Threads :
         /\ SF_allVars(LogOnly /\ Lg!LogStep(t))
         /\ WF_allVars(\/ OperationsOnly /\ Op!Step(t)
                       \/ FilesOnly /\ File!FileStep(t)
                       \/ PacketsOnly /\ \E n \in 1..Pipe : Ps!gg_file_write_partial(t, n)
                       \/ PacketsOnly /\ Ps!WriteFails(t))

MCSpec == MCInit /\ [][MCNext]_allVars /\ Fairness

-----------------------------------------------------------------------------
(* The properties of the parts that are instances, stated where they are       *)
(* defined.                                                                    *)

\* A packet whose write returned GG_ERR_OK arrives, unless one end fails.
WrittenPacketsArrive == Ps!WrittenPacketsArrive

\* Every operation, file call, log call and bounded retry loop returns: no path
\* keeps a lock that another call waits for.
EveryCallReturns == Op!OperationsReturn /\ File!CallsReturn /\ Lg!LogReturns /\ BackoffReturns

=============================================================================
