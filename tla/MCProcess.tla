------------------------------ MODULE MCProcess ------------------------------
(***************************************************************************)
(* What the threads of a component share besides the connection: the trace    *)
(* contexts (LogTrail), the log (Log), and the buffer through which files     *)
(* are opened (FileOpen).  The parts share no state; part says which is run.  *)
(***************************************************************************)
EXTENDS LogTrail, Log, FileOpen, FileInputs, TLC

VARIABLE part

ThreadSymmetry == Permutations(Threads)

\* T of another type, and T without S and with an id wider than 16 bits.
MCForeign == { << <<"T", "string", 0>>, <<"S", "int32", 2>> >>, << <<"T", "int32", W + 2>> >> }

MCInit ==
    /\ part \in {"trail", "file", "log"}
    /\ Init /\ FileInit /\ LogInit
    /\ size = BufLen        \* OtherResize writes the other sizes before fstat and after
    /\ part # "log" => \A t, u \in Threads : errno[t] = errno[u] /\ errno[t] = 0

MCNext ==
    /\ \/ part = "trail" /\ Next /\ UNCHANGED <<fileVars, logVars>>
       \/ part = "file" /\ FileNext /\ UNCHANGED <<vars, logVars>>
       \/ part = "log" /\ LogNext /\ UNCHANGED <<vars, fileVars>>
    /\ UNCHANGED part

allVars == <<part, vars, fileVars, logVars>>
MCSpec == MCInit /\ [][MCNext]_allVars

=============================================================================
