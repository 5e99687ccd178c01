------------------------------ MODULE FileOpen ------------------------------
(***************************************************************************)
(* Opening files and directories (src/src/file.c).  A path is walked one      *)
(* component at a time through a buffer that all threads share under          *)
(* path_comp_buf_mtx.  Threads of the process, another process that creates   *)
(* directories, failing system calls, and a crash that loses the directories  *)
(* whose entry was not synced.                                                *)
(*                                                                         *)
(* A path argument is a sequence of characters, a place in the file system a   *)
(* sequence of names.                                                         *)
(***************************************************************************)
EXTENDS Integers, Sequences, ProcessThreads

CONSTANTS
    Calls,          \* [op, path, create]: op is "dir", "file" or "read"
    Dirs, Files,    \* what exists at first
    Others,         \* directories that another process may create
    Sizes,          \* sizes of a file that is read
    NAME_MAX,
    BufLen,         \* size of the caller's buffer for gg_file_read_path
    MaxFds,         \* the limit on open descriptors
    MaxCalls, MaxFaults, MaxCrashes     \* bounds

Path == Seq(STRING)         \* characters
Place == Seq(Path)          \* names from the root

ASSUME FileAssumption ==
    /\ Calls \subseteq [op : {"dir", "file", "read"}, path : Path, create : BOOLEAN]
    /\ <<>> \in Dirs /\ Dirs \cup Files \cup Others \subseteq Place
    /\ Sizes \subseteq Nat /\ BufLen \in Nat /\ NAME_MAX \in Nat /\ MaxFds \in Nat

VARIABLES
    th,             \* locals of the call each thread is in
    fds,            \* open descriptors: number to place
    path_comp_buf, path_comp_buf_mtx,
    dirs, files, size,
    durable,        \* directories that survive a crash
    unsynced,       \* history: created here, but the fsync failed
    foreign,        \* history: created by the other process
    left            \* [calls, faults, crashes] that may still happen

fileVars == <<th, fds, path_comp_buf, path_comp_buf_mtx, dirs, files, size, durable, unsynced, foreign, left>>
disk == <<dirs, files, size, durable, unsynced, foreign>>

NoFd == 0
Slash == "/"

Idle == [pc |-> "idle", call |-> [op |-> "none", path |-> <<>>, create |-> FALSE],
         base |-> NoFd, cur |-> NoFd, parent |-> NoFd, rest |-> <<>>, file |-> <<>>,
         last |-> FALSE, fd |-> NoFd, ret |-> "none", content |-> BufLen, stat |-> 0]

FileInit ==
    /\ th = [t \in Threads |-> Idle]
    /\ fds = << >>
    /\ path_comp_buf = <<>> /\ path_comp_buf_mtx = Free
    /\ dirs = Dirs /\ files = Files /\ durable = Dirs
    /\ size \in Sizes
    /\ unsynced = {} /\ foreign = {}
    /\ left = [calls |-> MaxCalls, faults |-> MaxFaults, crashes |-> MaxCrashes]

-----------------------------------------------------------------------------
(* Paths.                                                                    *)

SlashAt(p) == {i \in DOMAIN p : p[i] = Slash}

\* [found, comp, rest]: the part before the first slash and the part after.
split_path_first_comp(p) ==
    IF SlashAt(p) = {} THEN [found |-> FALSE, comp |-> p, rest |-> <<>>]
    ELSE LET i == CHOOSE k \in SlashAt(p) : \A j \in SlashAt(p) : k <= j
         IN  [found |-> TRUE, comp |-> SubSeq(p, 1, i - 1), rest |-> SubSeq(p, i + 1, Len(p))]

\* [found, prefix, comp]: the part before the last slash and the part after.
split_path_last_comp(p) ==
    IF SlashAt(p) = {} THEN [found |-> FALSE, prefix |-> <<>>, comp |-> p]
    ELSE LET i == CHOOSE k \in SlashAt(p) : \A j \in SlashAt(p) : k >= j
         IN  [found |-> TRUE, prefix |-> SubSeq(p, 1, i - 1), comp |-> SubSeq(p, i + 1, Len(p))]

\* The longest prefix that does not end in a slash.
strip_trailing_slashes(p) ==
    LET n == CHOOSE k \in 0..Len(p) :
                 /\ k = 0 \/ p[k] # Slash
                 /\ \A j \in (k + 1)..Len(p) : p[j] = Slash
    IN  SubSeq(p, 1, n)

IsAbsolute(p) == p # <<>> /\ p[1] = Slash
Relative(p) == IF IsAbsolute(p) THEN Tail(p) ELSE p

\* Reference: ns are the names in the first m characters of p, that is, its longest
\* runs of other characters than slashes, which start at the positions at.
NamesUpTo(ns, p, m) ==
    \E at \in [DOMAIN ns -> 1..m] :
        LET next(k) == at[k] + Len(ns[k])       \* the position after a name
        IN  /\ \A k \in DOMAIN ns :
                   /\ ns[k] # <<>> /\ next(k) <= m + 1
                   /\ \A j \in DOMAIN ns[k] : ns[k][j] = p[at[k] + j - 1] /\ ns[k][j] # Slash
                   /\ at[k] = 1 \/ p[at[k] - 1] = Slash
                   /\ next(k) = Len(p) + 1 \/ p[next(k)] = Slash
            /\ \A j, k \in DOMAIN ns : j < k => at[j] < at[k]
            /\ \A i \in 1..m : p[i] # Slash => \E k \in DOMAIN ns : at[k] <= i /\ i < next(k)

IsNamesOf(ns, p) == NamesUpTo(ns, p, Len(p))

\* The directory that has the entry of a place other than the root.
Parent(place) == SubSeq(place, 1, Len(place) - 1)

-----------------------------------------------------------------------------
(* Descriptors.                                                              *)

Lowest(table) == CHOOSE n \in 1..MaxFds : n \notin DOMAIN table /\ 1..(n - 1) \subseteq DOMAIN table
Opened(table, place) ==
    [n \in DOMAIN table \cup {Lowest(table)} |-> IF n = Lowest(table) THEN place ELSE table[n]]

\* gg_close of some descriptors: close releases it, whoever opened it.
gg_close(table, ns) == [n \in DOMAIN table \ ns |-> table[n]]

\* The process has as many descriptors as it may: opening fails with EMFILE.
Full == 1..MaxFds \subseteq DOMAIN fds

Fault == left.faults > 0 /\ left' = [left EXCEPT !.faults = @ - 1]
NoFault == UNCHANGED left

\* Mutant: the mutex is not released on the way out.
Return_KeepsLock(t, table, ret, fd) ==
    /\ th' = [th EXCEPT ![t] = [@ EXCEPT !.pc = "done", !.ret = ret, !.fd = fd,
                                         !.base = NoFd, !.cur = NoFd, !.parent = NoFd]]
    /\ fds' = gg_close(table, {th[t].base, th[t].cur, th[t].parent})
    /\ UNCHANGED path_comp_buf_mtx

\* The call returns: the cleanups close base_fd, cur_fd and parent_fd and release
\* the mutex if this thread holds it.
Return(t, table, ret, fd) ==
    /\ th' = [th EXCEPT ![t] = [@ EXCEPT !.pc = "done", !.ret = ret, !.fd = fd,
                                         !.base = NoFd, !.cur = NoFd, !.parent = NoFd]]
    /\ fds' = gg_close(table, {th[t].base, th[t].cur, th[t].parent})
    /\ path_comp_buf_mtx' = IF path_comp_buf_mtx = t THEN Free ELSE path_comp_buf_mtx

Fails(t) == Fault /\ Return(t, fds, "FAILURE", NoFd) /\ UNCHANGED <<path_comp_buf, disk>>

\* Opening fails for lack of descriptors, or as every system call may.
OpenFails(t) ==
    /\ IF Full THEN NoFault ELSE Fault
    /\ Return(t, fds, "FAILURE", NoFd) /\ UNCHANGED <<path_comp_buf, disk>>

\* The call goes on with the locals l.
Goto(t, l) == th' = [th EXCEPT ![t] = l]

-----------------------------------------------------------------------------
(* Entry: gg_dir_open, gg_file_open, gg_file_read_path.                       *)

\* A call with the relative path rel; a path that is not valid returns at once.
Begin(t, c, rel, valid) ==
    /\ th[t].pc = "idle" /\ left.calls > 0
    /\ left' = [left EXCEPT !.calls = @ - 1]
    /\ th' = [th EXCEPT ![t] = [@ EXCEPT !.call = c, !.rest = rel,
                                         !.pc = IF valid THEN "base" ELSE "done",
                                         !.ret = IF valid THEN "none" ELSE "INVALID"]]
    /\ UNCHANGED <<fds, path_comp_buf, path_comp_buf_mtx, disk>>

\* Slashes alone are the root.
gg_dir_open(t) ==
    \E c \in {d \in Calls : d.op = "dir"} :
        LET rel == strip_trailing_slashes(Relative(c.path))
        IN  Begin(t, c, rel, rel # <<>> \/ IsAbsolute(c.path))

gg_file_open(t) ==
    \E c \in {d \in Calls : d.op = "file"} : Begin(t, c, Relative(c.path), Relative(c.path) # <<>>)

gg_file_read_path(t) ==
    \E c \in {d \in Calls : d.op = "read"} : Begin(t, c, Relative(c.path), Relative(c.path) # <<>>)

\* open("/") or open("."), both the root here.  A path of slashes is the result
\* already; a file path is split at its last slash.
OpenBase(t) ==
    /\ th[t].pc = "base"
    /\ \/ /\ ~Full /\ NoFault
          /\ LET split == split_path_last_comp(th[t].rest)
                 table == Opened(fds, <<>>)
                 l == [th[t] EXCEPT !.pc = "copy", !.base = Lowest(fds)]
             IN  \/ th[t].rest = <<>> /\ Return(t, table, "OK", Lowest(fds))
                 \/ /\ th[t].rest # <<>> /\ fds' = table
                    /\ Goto(t, IF th[t].call.op = "dir" THEN l
                               ELSE [l EXCEPT !.file = split.comp,
                                              !.rest = IF split.found THEN strip_trailing_slashes(split.prefix)
                                                       ELSE <<Slash>>])
                    /\ UNCHANGED path_comp_buf_mtx
          /\ UNCHANGED <<path_comp_buf, disk>>
       \/ OpenFails(t)

\* copy_dir_fd: for gg_dir_openat, or for gg_file_openat when there is no slash
\* (rest = a slash alone, which no stripped path is).
CopyDir(t) ==
    /\ th[t].pc = "copy"
    /\ \/ /\ ~Full /\ NoFault
          /\ fds' = Opened(fds, fds[th[t].base])
          /\ Goto(t, [th[t] EXCEPT !.pc = IF th[t].rest = <<Slash>> THEN "file" ELSE "lock",
                                   !.cur = Lowest(fds)])
          /\ UNCHANGED <<path_comp_buf, path_comp_buf_mtx, disk>>
       \/ OpenFails(t)

-----------------------------------------------------------------------------
(* gg_dir_openat.                                                            *)

PathLock(t) ==
    /\ th[t].pc = "lock" /\ path_comp_buf_mtx = Free
    /\ path_comp_buf_mtx' = t
    /\ Goto(t, [th[t] EXCEPT !.pc = "walk"])
    /\ UNCHANGED <<fds, path_comp_buf, disk, left>>

\* The next component goes into the buffer; empty ones are skipped except at the end.
Walk(t) ==
    /\ th[t].pc = "walk"
    /\ LET s == split_path_first_comp(th[t].rest)
       IN  \/ /\ s.found /\ s.comp = <<>>
              /\ Goto(t, [th[t] EXCEPT !.rest = s.rest])
              /\ UNCHANGED <<fds, path_comp_buf, path_comp_buf_mtx>>
           \/ /\ Len(s.comp) > NAME_MAX
              /\ Return(t, fds, IF s.found THEN "RANGE" ELSE "NOMEM", NoFd)
              /\ UNCHANGED path_comp_buf
           \/ /\ ~(s.found /\ s.comp = <<>>) /\ Len(s.comp) <= NAME_MAX
              /\ path_comp_buf' = s.comp
              /\ Goto(t, [th[t] EXCEPT !.pc = "open", !.rest = s.rest, !.last = ~s.found])
              /\ UNCHANGED <<fds, path_comp_buf_mtx>>
    /\ UNCHANGED <<disk, left>>

Target(t) == Append(fds[th[t].cur], path_comp_buf)

\* Mutant: the parent that was left is not closed.
Entered_NoClose(t) ==
    LET new == Lowest(fds)
        table == Opened(fds, Target(t))
    IN  \/ /\ ~th[t].last /\ fds' = table /\ UNCHANGED path_comp_buf_mtx
           /\ Goto(t, [th[t] EXCEPT !.pc = "walk", !.cur = new])
        \/ th[t].last /\ th[t].call.op = "dir" /\ Return(t, table, "OK", new)
        \/ /\ th[t].last /\ th[t].call.op # "dir" /\ fds' = table /\ path_comp_buf_mtx' = Free
           /\ Goto(t, [th[t] EXCEPT !.pc = "file", !.cur = new])

\* openat succeeded: swap cur_fd, or after the last component return the result.
Entered(t) ==
    LET new == Lowest(fds)
        table == gg_close(Opened(fds, Target(t)), {th[t].cur})
    IN  \/ /\ ~th[t].last /\ fds' = table /\ UNCHANGED path_comp_buf_mtx
           /\ Goto(t, [th[t] EXCEPT !.pc = "walk", !.cur = new])
        \/ th[t].last /\ th[t].call.op = "dir" /\ Return(t, Opened(fds, Target(t)), "OK", new)
        \/ /\ th[t].last /\ th[t].call.op # "dir" /\ fds' = table /\ path_comp_buf_mtx' = Free
           /\ Goto(t, [th[t] EXCEPT !.pc = "file", !.cur = new])

\* gg_openat, and the first half of gg_dir_openat_mkdir; an empty name is ENOENT.
OpenDir(t) ==
    /\ th[t].pc = "open"
    /\ \/ /\ ~Full /\ NoFault
          /\ LET found == path_comp_buf # <<>> /\ Target(t) \in dirs
                 mkdir == ~found /\ th[t].call.create /\ Target(t) \notin files
             IN  \/ found /\ Entered(t)
                 \/ mkdir /\ Goto(t, [th[t] EXCEPT !.pc = "mkcopy"]) /\ UNCHANGED <<fds, path_comp_buf_mtx>>
                 \/ ~found /\ ~mkdir /\ Return(t, fds, "FAILURE", NoFd)
          /\ UNCHANGED <<path_comp_buf, disk>>
       \/ OpenFails(t)

\* gg_mkdirat: a copy of the parent, mkdirat, fsync of the parent.
CopyParent(t) ==
    /\ th[t].pc = "mkcopy"
    /\ \/ /\ ~Full /\ NoFault
          /\ fds' = Opened(fds, fds[th[t].cur])
          /\ Goto(t, [th[t] EXCEPT !.pc = "mkdir", !.parent = Lowest(fds)])
          /\ UNCHANGED <<path_comp_buf, path_comp_buf_mtx, disk>>
       \/ OpenFails(t)

\* A directory that exists by now is a failure like any other.
MkDir(t) ==
    /\ th[t].pc = "mkdir"
    /\ \/ /\ NoFault
          /\ LET refused == path_comp_buf = <<>> \/ Target(t) \in dirs \cup files
             IN  \/ refused /\ Return(t, fds, "FAILURE", NoFd) /\ UNCHANGED dirs
                 \/ /\ ~refused /\ dirs' = dirs \cup {Target(t)}
                    /\ Goto(t, [th[t] EXCEPT !.pc = "fsync"])
                    /\ UNCHANGED <<fds, path_comp_buf_mtx>>
          /\ UNCHANGED <<path_comp_buf, files, size, durable, unsynced, foreign>>
       \/ Fails(t)

\* Mutant: the new directory is synced, not the parent that holds its entry.
Fsync_Child(t) ==
    /\ th[t].pc = "fsync"
    /\ fds' = gg_close(fds, {th[t].parent})
    /\ Goto(t, [th[t] EXCEPT !.pc = "reopen", !.parent = NoFd])
    /\ UNCHANGED <<path_comp_buf, path_comp_buf_mtx, disk, left>>

\* Every entry of the parent becomes durable.
Fsync(t) ==
    /\ th[t].pc = "fsync"
    /\ \/ /\ NoFault
          /\ durable' = durable \cup {d \in dirs : d # <<>> /\ Parent(d) = fds[th[t].parent]
                                                   /\ Parent(d) \in durable}
          /\ fds' = gg_close(fds, {th[t].parent})
          /\ Goto(t, [th[t] EXCEPT !.pc = "reopen", !.parent = NoFd])
          /\ UNCHANGED <<path_comp_buf, path_comp_buf_mtx, dirs, files, size, unsynced, foreign>>
       \/ /\ Fault
          /\ unsynced' = unsynced \cup {Target(t)}
          /\ Return(t, fds, "FAILURE", NoFd)
          /\ UNCHANGED <<path_comp_buf, dirs, files, size, durable, foreign>>

Reopen(t) ==
    /\ th[t].pc = "reopen"
    /\ \/ ~Full /\ NoFault /\ Entered(t) /\ UNCHANGED <<path_comp_buf, disk>>
       \/ OpenFails(t)

-----------------------------------------------------------------------------
(* gg_file_openat after its directory is open, and gg_file_read_path_at.      *)

FileLock(t) ==
    /\ th[t].pc = "file"
    /\ \/ /\ Len(th[t].file) > NAME_MAX
          /\ Return(t, fds, "NOMEM", NoFd) /\ UNCHANGED path_comp_buf
       \/ /\ Len(th[t].file) <= NAME_MAX
          /\ path_comp_buf_mtx = Free
          /\ path_comp_buf_mtx' = t
          /\ path_comp_buf' = th[t].file
          /\ Goto(t, [th[t] EXCEPT !.pc = "openfile"])
          /\ UNCHANGED fds
    /\ UNCHANGED <<disk, left>>

OpenFile(t) ==
    /\ th[t].pc = "openfile"
    /\ \/ /\ ~Full /\ NoFault
          /\ LET found == path_comp_buf # <<>> /\ Target(t) \in files \cup (IF th[t].call.create THEN {} ELSE dirs)
                 made == path_comp_buf # <<>> /\ th[t].call.create /\ Target(t) \notin dirs
             IN  \/ ~found /\ ~made /\ Return(t, fds, "FAILURE", NoFd) /\ UNCHANGED files
                 \/ /\ found \/ made
                    /\ files' = IF found THEN files ELSE files \cup {Target(t)}
                    /\ \/ /\ th[t].call.op = "file"
                          /\ Return(t, Opened(fds, Target(t)), "OK", Lowest(fds))
                       \/ /\ th[t].call.op = "read"
                          /\ fds' = gg_close(Opened(fds, Target(t)), {th[t].cur})
                          /\ Goto(t, [th[t] EXCEPT !.pc = "fstat", !.cur = Lowest(fds)])
                          /\ path_comp_buf_mtx' = Free
          /\ UNCHANGED <<path_comp_buf, dirs, size, durable, unsynced, foreign>>
       \/ OpenFails(t)

Fstat(t) ==
    /\ th[t].pc = "fstat"
    /\ \/ /\ NoFault
          /\ \/ size > th[t].content /\ Return(t, fds, "NOMEM", NoFd)
             \/ /\ size <= th[t].content
                /\ Goto(t, [th[t] EXCEPT !.pc = "read", !.stat = size])
                /\ UNCHANGED <<fds, path_comp_buf_mtx>>
          /\ UNCHANGED <<path_comp_buf, disk>>
       \/ Fails(t)

\* gg_file_read_exact: the file may have been cut since fstat.
ReadExact(t) ==
    /\ th[t].pc = "read"
    /\ \/ /\ NoFault
          /\ \/ fds[th[t].cur] \in dirs /\ Return(t, fds, "FAILURE", NoFd)
             \/ fds[th[t].cur] \notin dirs /\ size < th[t].stat /\ Return(t, fds, "NODATA", NoFd)
             \/ /\ fds[th[t].cur] \notin dirs /\ size >= th[t].stat
                /\ Goto(t, [th[t] EXCEPT !.pc = "done", !.ret = "OK", !.base = NoFd, !.cur = NoFd,
                                         !.content = th[t].stat])
                /\ fds' = gg_close(fds, {th[t].base, th[t].cur})
                /\ UNCHANGED path_comp_buf_mtx
          /\ UNCHANGED <<path_comp_buf, disk>>
       \/ Fails(t)

\* The caller closes the descriptor it was given.
Finish(t) ==
    /\ th[t].pc = "done"
    /\ th' = [th EXCEPT ![t] = Idle]
    /\ fds' = gg_close(fds, {th[t].fd})
    /\ UNCHANGED <<path_comp_buf, path_comp_buf_mtx, disk, left>>

FileStep(t) ==
    \/ OpenBase(t) \/ CopyDir(t) \/ PathLock(t) \/ Walk(t) \/ OpenDir(t) \/ CopyParent(t)
    \/ MkDir(t) \/ Fsync(t) \/ Reopen(t) \/ FileLock(t) \/ OpenFile(t) \/ Fstat(t) \/ ReadExact(t)

-----------------------------------------------------------------------------
(* The environment.                                                          *)

\* Another process creates a directory, and does not sync it.
OtherMkDir ==
    /\ \E d \in Others \ (dirs \cup files) :
           /\ Parent(d) \in dirs
           /\ dirs' = dirs \cup {d}
           /\ foreign' = foreign \cup {d}
    /\ UNCHANGED <<th, fds, path_comp_buf, path_comp_buf_mtx, files, size, durable, unsynced, left>>

\* Another process rewrites the file with another length.
OtherResize ==
    /\ \E t \in Threads : th[t].pc \in {"fstat", "read"}
    /\ size' \in Sizes \ {size}
    /\ UNCHANGED <<th, fds, path_comp_buf, path_comp_buf_mtx, dirs, files, durable, unsynced, foreign, left>>

\* The machine stops and the process starts again: directories whose entry was
\* not synced are gone, and new files may be.
Crash ==
    /\ left.crashes > 0
    /\ left' = [left EXCEPT !.crashes = @ - 1]
    /\ dirs' = durable
    /\ \E lost \in SUBSET (files \ Files) : files' = {f \in files \ lost : Parent(f) \in durable}
    /\ unsynced' = {} /\ foreign' = foreign \cap durable
    /\ th' = [t \in Threads |-> Idle]
    /\ fds' = << >>
    /\ path_comp_buf' = <<>> /\ path_comp_buf_mtx' = Free
    /\ UNCHANGED <<size, durable>>

FileNext ==
    \/ \E t \in Threads :
           gg_dir_open(t) \/ gg_file_open(t) \/ gg_file_read_path(t) \/ FileStep(t) \/ Finish(t)
    \/ OtherMkDir \/ OtherResize \/ Crash

FileSpec == FileInit /\ [][FileNext]_fileVars

\* A thread in a call runs on whenever it can.  (Calls are finite in number, so
\* that a free mutex is in the end free for good and needs no fair hand-over.)
FileFairSpec == FileSpec /\ \A t \in Threads : WF_fileVars(FileStep(t))

-----------------------------------------------------------------------------
(* Properties.                                                               *)

\* A call that returns GG_ERR_OK with a descriptor opened the place its path
\* names, repeated slashes counted as one, although every thread passes its
\* components through the one path_comp_buf.
OpensNamedPlace ==
    \A t \in Threads : th[t].pc = "done" /\ th[t].ret = "OK" /\ th[t].fd # NoFd =>
        IsNamesOf(fds[th[t].fd], th[t].call.path)

\* The descriptors that the locals of a call or its result hold.
Held(t) == {th[t].base, th[t].cur, th[t].parent, th[t].fd} \ {NoFd}

\* No descriptor leaks and none is closed twice: the open ones are exactly those
\* that the locals of a running call or the result of a finished one hold.
NoDescriptorLeak ==
    /\ DOMAIN fds = UNION {Held(t) : t \in Threads}
    /\ \A t, u \in Threads : t # u => Held(t) \cap Held(u) = {}
    /\ \A t \in Threads : th[t].pc = "done" => Held(t) = {th[t].fd} \ {NoFd}

\* A crash does not lose directory d, or only together with one that another
\* process made or whose fsync failed.
Covered(d) == d \in durable \/ \E j \in 1..Len(d) : SubSeq(d, 1, j) \in unsynced \cup foreign

\* After a call returned GG_ERR_OK a crash loses no directory on the way to what it
\* opened: gg_mkdirat synced the parent of every directory it made, before any
\* other thread could enter it.
CreatedDirsDurable ==
    \A t \in Threads : th[t].pc = "done" /\ th[t].ret = "OK" /\ th[t].fd # NoFd =>
        LET place == fds[th[t].fd]
            depth == IF th[t].call.op = "dir" THEN Len(place) ELSE Len(place) - 1
        IN  \A k \in 1..depth : Covered(SubSeq(place, 1, k))

\* gg_file_read_path changes *content only when it returns GG_ERR_OK, and then to
\* the size fstat saw: a file cut short meanwhile is GG_ERR_NODATA, never a
\* shorter content.
ContentIsWholeFile ==
    \A t \in Threads : th[t].call.op = "read" /\ th[t].pc = "done" =>
        th[t].content = IF th[t].ret = "OK" THEN th[t].stat ELSE BufLen

\* A call that returns GG_ERR_OK opened the place its path names or gives the
\* whole file, and the open descriptors are exactly those that a call or a result
\* holds.
FilesExact == OpensNamedPlace /\ ContentIsWholeFile /\ NoDescriptorLeak

\* Every call returns: path_comp_buf_mtx is released on every path.
CallsReturn == \A t \in Threads : th[t].pc \notin {"idle", "done"} ~> th[t].pc \in {"idle", "done"}

=============================================================================
