------------------------------- MODULE Files -------------------------------
(***************************************************************************)
(* The guest's file calls (loader/doscalls.rs, loader/stubs.rs) over       *)
(* DriveManager (loader/vfs.rs), which owns file and search handles, and   *)
(* HandleManager (loader/managers.rs), which owns pipes.  The number of a  *)
(* handle says which of the two a call goes to.                            *)
(*                                                                         *)
(* A call on a file works with drive_mgr locked, one on a pipe with        *)
(* handle_mgr locked.  Only the second can block: the host's read of an    *)
(* empty pipe and write to a full one keep handle_mgr, here the call that  *)
(* sleeps with it.  The calls of the other guest threads go on meanwhile.  *)
(*                                                                         *)
(* Paths are on the mounted drive; resolve_path refuses the others and     *)
(* open_file refuses device names.                                         *)
(***************************************************************************)
EXTENDS HostDir

CONSTANTS PIPE_HANDLE_BASE,
          FirstFile, FirstFind, \* the first numbers DriveManager hands out
          Requests,      \* the access and sharing modes guests ask for
          MaxMade,       \* bound on the handles made by a process
          PipeSize,      \* chunks a pipe holds
          DupTargets     \* handles guests name as the target of DosDupHandle

ASSUME FilesAssumption ==
  /\ {PIPE_HANDLE_BASE, FirstFile, FirstFind, MaxMade, PipeSize} \subseteq Nat
  /\ Requests \subseteq [mode : Modes, share : Shares]
  /\ DupTargets \subseteq Nat

VARIABLES next_file_handle, next_find_handle,  \* DriveManager's counters
          next_handle,                         \* HandleManager's
          handles,     \* HandleManager: handle to an end of a pipe
          chunks,      \* what each pipe holds
          handle_mgr,  \* Free, or the blocked call that keeps the lock
          given        \* history: what each handle was given out for

driveVars == <<next_file_handle, next_find_handle>>
pipeVars  == <<next_handle, handles, chunks, handle_mgr>>
fileVars  == <<hostVars, driveVars, pipeVars, given>>

Free == [op |-> "none", h |-> 0]
Made == (next_file_handle - FirstFile) + (next_find_handle - FirstFind)
          + (next_handle - PIPE_HANDLE_BASE)

\* A number that is in use keeps the meaning it was given first.
FirstUse(g, h, what) == IF h \in DOMAIN g THEN g ELSE With(g, h, what)

DriveManagerInit == next_file_handle = FirstFile /\ next_find_handle = FirstFind

HandleManagerInit == /\ next_handle = PIPE_HANDLE_BASE
                     /\ handles = <<>> /\ chunks = <<>> /\ handle_mgr = Free

FilesInit == HostDirInit /\ DriveManagerInit /\ HandleManagerInit /\ given = <<>>

----------------------------------------------------------------------------
(* DriveManager: the numbers of files and searches.                        *)

open_file(n, req, exist, new) ==
  \E r \in resolve_ci(n) :
    \/ /\ OpenRefused(r, n, req, exist, new) \/ open(r, n, req, exist, new, next_file_handle, FALSE)
       /\ UNCHANGED <<driveVars, given>>
    \/ /\ open(r, n, req, exist, new, next_file_handle, TRUE)
       /\ given' = FirstUse(given, next_file_handle, <<"file", next_file_handle>>)
       /\ next_file_handle' = next_file_handle + 1
       /\ UNCHANGED next_find_handle

close_file(h) == close(h) /\ given' = Without(given, h) /\ UNCHANGED driveVars

OpenSearch(pattern, withDirs, k) ==
  /\ find_first(next_find_handle, pattern, withDirs, k)
  /\ next_find_handle' = next_find_handle + 1
  /\ UNCHANGED <<next_file_handle, given>>

----------------------------------------------------------------------------
(* The calls on files and names.                                           *)

DosOpen(n, req, exist, new) == Made < MaxMade /\ open_file(n, req, exist, new) /\ UNCHANGED pipeVars

DosCloseFile(h) == h < PIPE_HANDLE_BASE /\ close_file(h) /\ UNCHANGED pipeVars

\* Both ranges may be empty; then nothing is done.
DosSetFileLocks(h, unlock, lock) ==
  /\ unlock \/ lock
  /\ set_file_locks(h, unlock, lock)
  /\ UNCHANGED <<driveVars, pipeVars, given>>

\* The calls take as many entries as were asked for, even when the guest's
\* buffer has no room for all of them; a buffer without room for one is an
\* error that leaves the search open.
DosFindFirst(pattern, withDirs, requested) ==
  Made < MaxMade /\ OpenSearch(pattern, withDirs, requested) /\ UNCHANGED pipeVars

DosFindNext(h, requested) == find_next(h, requested) /\ UNCHANGED <<driveVars, pipeVars, given>>
DosFindClose(h)           == find_close(h) /\ UNCHANGED <<driveVars, pipeVars, given>>
DosDelete(n)              == delete(n)     /\ UNCHANGED <<driveVars, pipeVars, given>>
DosDeleteDir(n)           == delete_dir(n) /\ UNCHANGED <<driveVars, pipeVars, given>>
DosCreateDir(n)           == create_dir(n) /\ UNCHANGED <<driveVars, pipeVars, given>>
DosMove(old, new)         == rename(old, new) /\ UNCHANGED <<driveVars, pipeVars, given>>
DosCopy(src, dst)         == copy(src, dst)   /\ UNCHANGED <<driveVars, pipeVars, given>>
DosQueryPathInfo(n)       == query_path_info(n) /\ UNCHANGED <<driveVars, pipeVars, given>>

----------------------------------------------------------------------------
(* Pipes.  A pipe is named by the number of its first read handle.         *)

Ends(p, end) == {h \in DOMAIN handles : handles[h] = <<p, end>>}

DosCreatePipe ==
  LET r == next_handle
  IN
  /\ Made + 1 < MaxMade
  /\ handle_mgr = Free
  /\ handles' = With(With(handles, r, <<r, "read">>), r + 1, <<r, "write">>)
  /\ next_handle' = r + 2
  /\ chunks' = With(chunks, r, 0)
  /\ given' = FirstUse(FirstUse(given, r, <<r, "read">>), r + 1, <<r, "write">>)
  /\ UNCHANGED <<hostVars, driveVars, handle_mgr>>

\* What the host's read does: nothing, the end of the pipe, or some of its chunks.
HostRead(p) ==
  \/ chunks[p] = 0 /\ Ends(p, "write") = {} /\ chunks' = chunks
  \/ chunks[p] > 0 /\ \E left \in 0..chunks[p] - 1 : chunks' = [chunks EXCEPT ![p] = left]

\* What the host's write does: fail for want of a reader, or add a chunk.
HostWrite(p) ==
  \/ Ends(p, "read") = {} /\ chunks' = chunks
  \/ Ends(p, "read") # {} /\ chunks[p] < PipeSize /\ chunks' = [chunks EXCEPT ![p] = @ + 1]

DosReadPipe(h) ==
  /\ h >= PIPE_HANDLE_BASE /\ h \in DOMAIN handles
  /\ handles[h][2] = "read"
  /\ handle_mgr = Free
  /\ IF chunks[handles[h][1]] = 0 /\ Ends(handles[h][1], "write") # {}
     THEN handle_mgr' = [op |-> "read", h |-> h] /\ chunks' = chunks
     ELSE HostRead(handles[h][1]) /\ handle_mgr' = Free
  /\ UNCHANGED <<hostVars, driveVars, next_handle, handles, given>>

DosWritePipe(h) ==
  /\ h >= PIPE_HANDLE_BASE /\ h \in DOMAIN handles
  /\ handles[h][2] = "write"
  /\ handle_mgr = Free
  /\ IF chunks[handles[h][1]] = PipeSize /\ Ends(handles[h][1], "read") # {}
     THEN handle_mgr' = [op |-> "write", h |-> h] /\ chunks' = chunks
     ELSE HostWrite(handles[h][1]) /\ handle_mgr' = Free
  /\ UNCHANGED <<hostVars, driveVars, next_handle, handles, given>>

\* The host lets a blocked call go on, which gives the lock back.
PipeReturns ==
  /\ handle_mgr # Free
  /\ LET p == handles[handle_mgr.h][1]
     IN  \/ handle_mgr.op = "read" /\ HostRead(p)
         \/ handle_mgr.op = "write" /\ HostWrite(p)
  /\ handle_mgr' = Free
  /\ UNCHANGED <<hostVars, driveVars, next_handle, handles, given>>

DosClosePipe(h) ==
  /\ h >= PIPE_HANDLE_BASE /\ h \in DOMAIN handles
  /\ handle_mgr = Free
  /\ handles' = Without(handles, h)
  /\ given' = Without(given, h)
  /\ UNCHANGED <<hostVars, driveVars, next_handle, chunks, handle_mgr>>

\* mutant of add: the number is handed out and not used up.
AddKeepsCounter(end) == handles' = With(handles, next_handle, end) /\ next_handle' = next_handle

\* HandleManager::add.
add(end) == handles' = With(handles, next_handle, end) /\ next_handle' = next_handle + 1

\* A file handle cannot be duplicated: it is not in HandleManager.
DosDupHandle(old) ==
  /\ Made < MaxMade
  /\ old \in DOMAIN handles
  /\ handle_mgr = Free
  /\ add(handles[old])
  /\ given' = FirstUse(given, next_handle, handles[old])
  /\ UNCHANGED <<hostVars, driveVars, chunks, handle_mgr>>

DosDupHandleTo(old, target) ==
  /\ old \in DOMAIN handles
  /\ handle_mgr = Free
  /\ handles' = With(handles, target, handles[old])
  /\ given' = With(given, target, handles[old])
  /\ UNCHANGED <<hostVars, driveVars, next_handle, chunks, handle_mgr>>

----------------------------------------------------------------------------
FileCall(h) == DosCloseFile(h) \/ \E u, l \in BOOLEAN : DosSetFileLocks(h, u, l)

Patterns == {{Fold[n] : n \in Names}} \cup {{Fold[n]} : n \in Names}
FindCall == \/ \E d \in BOOLEAN, k \in 1..2, pattern \in Patterns : DosFindFirst(pattern, d, k)
            \/ \E h \in DOMAIN finds : DosFindClose(h) \/ \E k \in 1..2 : DosFindNext(h, k)

NameCall(n) == \/ DosDelete(n) \/ DosDeleteDir(n) \/ DosCreateDir(n) \/ DosQueryPathInfo(n)
               \/ \E m \in Names : DosMove(n, m) \/ DosCopy(n, m)

PipeCall(h) == \/ DosReadPipe(h) \/ DosWritePipe(h) \/ DosClosePipe(h) \/ DosDupHandle(h)
               \/ \E target \in DupTargets : DosDupHandleTo(h, target)

Environment == (Expire \/ \E n \in Names : HostChanges(n)) /\ UNCHANGED <<driveVars, pipeVars, given>>

FilesNext ==
  \/ \E n \in Names, r \in Requests, x \in {"Fail", "Open", "Replace"}, w \in {"Fail", "Create"} :
       DosOpen(n, r, x, w)
  \/ \E h \in DOMAIN files : FileCall(h)
  \/ FindCall
  \/ \E n \in Names : NameCall(n)
  \/ DosCreatePipe \/ PipeReturns
  \/ \E h \in DOMAIN handles : PipeCall(h)
  \/ Environment

FilesSpec == FilesInit /\ [][FilesNext]_fileVars

----------------------------------------------------------------------------
\* The type invariant.
FilesTypeOK ==
  /\ disk \in [Names -> 0..Dir] /\ locks \subseteq 1..Dir
  /\ cache.fresh \in BOOLEAN
  /\ \A f \in DOMAIN cache.names : cache.names[f] \in Names
  /\ \A h \in DOMAIN files : /\ h \in FirstFile..next_file_handle - 1
                             /\ files[h] \in [path : Names, ino : 1..Dir, mode : Modes, share : Shares]
  /\ \A h \in DOMAIN finds : finds[h] \subseteq Names \cup Dots
  /\ \A p \in DOMAIN chunks : chunks[p] \in 0..PipeSize
  /\ handle_mgr # Free => handle_mgr.h \in DOMAIN handles

\* What a call on h works on.
Route(h) == IF h >= PIPE_HANDLE_BASE
            THEN (IF h \in DOMAIN handles THEN handles[h] ELSE <<"none">>)
            ELSE (IF h \in DOMAIN files THEN <<"file", h>> ELSE <<"none">>)

\* A handle means what it was given out for until it is closed: no number is
\* handed out twice and the routing by PIPE_HANDLE_BASE (doscalls.rs:54) finds
\* the manager that made it.
HandleStaysBound == \A h \in DOMAIN given : Route(h) = given[h]

\* Two opens of one path never go together when one denies what the other does,
\* and the SharingTable knows exactly the files that are open, failed opens and
\* closes included (vfs_hostdir.rs:401, :852, :877).
SharingHolds ==
  /\ sharing = {[path |-> files[h].path, h |-> h, mode |-> files[h].mode,
                 share |-> files[h].share] : h \in DOMAIN files}
  /\ \A a, b \in DOMAIN files :
       (a # b /\ files[a].path = files[b].path) => is_sharing_compatible(files[a], files[b])

\* As long as nobody else works on the directory, the cached listing is the
\* directory's: every call that makes, moves or removes a name invalidates it
\* (vfs_hostdir.rs:150), so a lookup never misses a file of this process.
CacheExact == (cache.fresh /\ ~changed) => cache.names \in Listings
=============================================================================
