--------------------------- MODULE ProcessThreads ---------------------------
(* The threads of one process, which the modules of process-wide state share. *)

CONSTANT Threads

\* A mutex holds the thread that locked it, or this.
Free == "free"

ASSUME FreeIsNoThread == Free \notin Threads

=============================================================================
