------------------------ MODULE InputOutput_proofs -------------------------
(***************************************************************************)
(* Proofs about what a program reads and writes, for every set of names,   *)
(* of requests and every bound: handles mean what they were given out for, *)
(* sharing is enforced, the cached listing is the directory's (module      *)
(* Files), names lead where the calls led and children start there (module *)
(* Directories), what the shell and the keyboard calls change for a while  *)
(* is put back (module Console), and every cell of the screen shows its    *)
(* byte (module Vio).                                                      *)
(***************************************************************************)
EXTENDS InputOutput, SequenceTheorems, FiniteSetTheorems, WellFoundedInduction, TLAPS

-----------------------------------------------------------------------------
(* Handles.                                                                *)

\* The handles a process may make fit below the first pipe handle: with the
\* code's numbers, fewer than 4093.
HandlesFit == FirstFile + MaxMade <= PIPE_HANDLE_BASE

\* A guest that names a target for DosDupHandle names one that HandleManager
\* has given out before.
DupsMade ==
  \A old \in DOMAIN handles, target \in DupTargets :
    DosDupHandleTo(old, target) => target \in PIPE_HANDLE_BASE .. next_handle - 1

\* The targets are the two handles of the first pipe.
FirstPipeTargets == DupTargets \subseteq {PIPE_HANDLE_BASE, PIPE_HANDLE_BASE + 1}

\* The counters only grow, and a process makes at most MaxMade handles.
Counters ==
  /\ next_file_handle \in Nat /\ next_file_handle >= FirstFile
  /\ next_find_handle \in Nat /\ next_find_handle >= FirstFind
  /\ next_handle \in Nat
  /\ next_handle = PIPE_HANDLE_BASE \/ next_handle >= PIPE_HANDLE_BASE + 2
  /\ Made <= MaxMade

\* Each manager's handles come from its counter, and only they are given out.
HandlesMade ==
  /\ DOMAIN files \subseteq FirstFile .. next_file_handle - 1
  /\ DOMAIN handles \subseteq PIPE_HANDLE_BASE .. next_handle - 1
  /\ DOMAIN given \subseteq DOMAIN files \cup DOMAIN handles

\* The inductive invariant.
HandleInv == Counters /\ HandlesMade /\ HandleStaysBound

\* What a call on h works on, by the range h is in.
LEMMA RouteFacts ==
  ASSUME NEW h
  PROVE  /\ h >= PIPE_HANDLE_BASE /\ h \in DOMAIN handles => Route(h) = handles[h]
         /\ ~(h >= PIPE_HANDLE_BASE) /\ h \in DOMAIN files => Route(h) = <<"file", h>>
BY DEF Route

\* The same after a step.
LEMMA RouteFactsNext ==
  ASSUME NEW h
  PROVE  /\ h >= PIPE_HANDLE_BASE /\ h \in DOMAIN handles' => Route(h)' = handles'[h]
         /\ ~(h >= PIPE_HANDLE_BASE) /\ h \in DOMAIN files' => Route(h)' = <<"file", h>>
BY DEF Route

\* With HandlesFit no file handle reaches the range of the pipes.
LEMMA Ranges ==
  ASSUME HandleInv, HandlesFit
  PROVE  /\ PIPE_HANDLE_BASE \in Nat /\ FirstFile \in Nat /\ FirstFind \in Nat /\ MaxMade \in Nat
         /\ next_file_handle <= PIPE_HANDLE_BASE
         /\ Made < MaxMade => next_file_handle < PIPE_HANDLE_BASE
         /\ \A h \in DOMAIN files : h \in Nat /\ h < next_file_handle /\ ~(h >= PIPE_HANDLE_BASE)
         /\ \A h \in DOMAIN handles : h \in Nat /\ h >= PIPE_HANDLE_BASE /\ h < next_handle
<1>1. PIPE_HANDLE_BASE \in Nat /\ FirstFile \in Nat /\ FirstFind \in Nat /\ MaxMade \in Nat
  BY FilesAssumption
<1>2. /\ next_file_handle <= PIPE_HANDLE_BASE
      /\ Made < MaxMade => next_file_handle < PIPE_HANDLE_BASE
  BY <1>1 DEF HandleInv, Counters, Made, HandlesFit
<1>3. \A h \in DOMAIN files : h \in Nat /\ h < next_file_handle
  BY <1>1 DEF HandleInv, Counters, HandlesMade
<1>4. \A h \in DOMAIN handles : h \in Nat /\ h >= PIPE_HANDLE_BASE /\ h < next_handle
  BY <1>1 DEF HandleInv, Counters, HandlesMade
<1>5. next_file_handle \in Nat
  BY DEF HandleInv, Counters
<1>6. \A h \in DOMAIN files : ~(h >= PIPE_HANDLE_BASE)
  BY <1>1, <1>2, <1>3, <1>5
<1>7. QED
  BY <1>1, <1>2, <1>3, <1>4, <1>6

\* A step that leaves the numbers of files and pipes alone keeps the invariant.
LEMMA HandlesQuiet ==
  ASSUME HandleInv, UNCHANGED <<files, handles, given, next_file_handle, next_handle>>,
         UNCHANGED next_find_handle
  PROVE  HandleInv'
BY DEF HandleInv, Counters, Made, HandlesMade, HandleStaysBound, Route

\* Opening a file: its number is new and below the pipes'.
LEMMA OpenHandle ==
  ASSUME HandleInv, HandlesFit, NEW n, NEW req, NEW x, NEW w, DosOpen(n, req, x, w)
  PROVE  HandleInv'
<1>1. Made < MaxMade /\ UNCHANGED <<next_handle, handles>>
  BY DEF DosOpen, pipeVars
<1>2. PICK r \in resolve_ci(n) :
        \/ /\ OpenRefused(r, n, req, x, w) \/ open(r, n, req, x, w, next_file_handle, FALSE)
           /\ UNCHANGED <<driveVars, given>>
        \/ /\ open(r, n, req, x, w, next_file_handle, TRUE)
           /\ given' = FirstUse(given, next_file_handle, <<"file", next_file_handle>>)
           /\ next_file_handle' = next_file_handle + 1
           /\ UNCHANGED next_find_handle
  BY DEF DosOpen, open_file
<1>3. CASE /\ OpenRefused(r, n, req, x, w) \/ open(r, n, req, x, w, next_file_handle, FALSE)
           /\ UNCHANGED <<driveVars, given>>
  <2>1. UNCHANGED files
    BY <1>3 DEF OpenRefused, open
  <2>2. QED
    BY <1>1, <1>3, <2>1, HandlesQuiet DEF driveVars
<1>4. CASE /\ open(r, n, req, x, w, next_file_handle, TRUE)
           /\ given' = FirstUse(given, next_file_handle, <<"file", next_file_handle>>)
           /\ next_file_handle' = next_file_handle + 1
           /\ UNCHANGED next_find_handle
  <2>1. PICK e : files' = With(files, next_file_handle, e)
    BY <1>4 DEF open
  <2>2. DOMAIN files' = DOMAIN files \cup {next_file_handle}
    BY <2>1 DEF With
  <2>3. next_file_handle \notin DOMAIN files /\ next_file_handle \notin DOMAIN handles
    BY <1>1, Ranges DEF HandleInv, Counters
  <2>4. next_file_handle \notin DOMAIN given
    BY <2>3 DEF HandleInv, HandlesMade
  <2>5. /\ DOMAIN given' = DOMAIN given \cup {next_file_handle}
        /\ given'[next_file_handle] = <<"file", next_file_handle>>
        /\ \A y \in DOMAIN given : given'[y] = given[y]
    <3>1. PICK e1 : e1 = <<"file", next_file_handle>>
      OBVIOUS
    <3>2. given' = FirstUse(given, next_file_handle, e1)
      BY <1>4, <3>1
    <3>3. QED
      BY <2>4, <3>1, <3>2 DEF FirstUse, With
  <2>6. Counters'
    BY <1>1, <1>4, Ranges DEF HandleInv, Counters, Made
  <2>7. HandlesMade'
    <3>1. DOMAIN files' \subseteq FirstFile .. next_file_handle' - 1
      BY <1>4, <2>2, Ranges DEF HandleInv, Counters, HandlesMade
    <3>2. DOMAIN given' \subseteq DOMAIN files' \cup DOMAIN handles'
      BY <1>1, <2>2, <2>5 DEF HandleInv, HandlesMade
    <3>3. QED
      BY <1>1, <3>1, <3>2 DEF HandleInv, HandlesMade
  <2>8. HandleStaysBound'
    <3> SUFFICES ASSUME NEW h \in DOMAIN given' PROVE Route(h)' = given'[h]
      BY DEF HandleStaysBound
    <3>1. CASE h = next_file_handle
      <4>1. ~(h >= PIPE_HANDLE_BASE) /\ h \in DOMAIN files'
        BY <3>1, <1>1, <2>2, Ranges DEF HandleInv, Counters
      <4>2. Route(h)' = <<"file", h>>
        BY <4>1, RouteFactsNext
      <4>3. QED
        BY <3>1, <4>2, <2>5
    <3>2. CASE h # next_file_handle
      <4>1. h \in DOMAIN given /\ Route(h) = given[h] /\ given'[h] = given[h]
        BY <3>2, <2>5 DEF HandleInv, HandleStaysBound
      <4>2. h \in DOMAIN files' <=> h \in DOMAIN files
        BY <3>2, <2>2
      <4>3. Route(h)' = Route(h)
        BY <1>1, <4>2 DEF Route
      <4>4. QED
        BY <4>1, <4>3
    <3>3. QED
      BY <3>1, <3>2
  <2>9. QED
    BY <2>6, <2>7, <2>8 DEF HandleInv
<1>5. QED
  BY <1>2, <1>3, <1>4

\* Closing a file takes its number out of use.
LEMMA CloseHandle ==
  ASSUME HandleInv, HandlesFit, NEW h \in DOMAIN files, DosCloseFile(h)
  PROVE  HandleInv'
<1>1. /\ files' = Without(files, h) /\ given' = Without(given, h)
      /\ UNCHANGED <<next_file_handle, next_find_handle, next_handle, handles>>
  BY DEF DosCloseFile, close_file, close, driveVars, pipeVars
<1>2. /\ DOMAIN files' = DOMAIN files \ {h} /\ DOMAIN given' = DOMAIN given \ {h}
      /\ \A g \in DOMAIN given' : given'[g] = given[g]
  BY <1>1 DEF Without
<1>3. Counters'
  BY <1>1 DEF HandleInv, Counters, Made
<1>4. HandlesMade'
  BY <1>1, <1>2 DEF HandleInv, HandlesMade
<1>5. HandleStaysBound'
  <2> SUFFICES ASSUME NEW g \in DOMAIN given' PROVE Route(g)' = given'[g]
    BY DEF HandleStaysBound
  <2>1. g \in DOMAIN given /\ g # h /\ Route(g) = given[g] /\ given'[g] = given[g]
    BY <1>2 DEF HandleInv, HandleStaysBound
  <2>2. Route(g)' = Route(g)
    BY <1>1, <1>2, <2>1 DEF Route
  <2>3. QED
    BY <2>1, <2>2
<1>6. QED
  BY <1>3, <1>4, <1>5 DEF HandleInv

\* A step of HandleManager keeps the invariant if its numbers are pipe handles
\* below the counter and it agrees with what was given out.
LEMMA PipeHandles ==
  ASSUME HandleInv, HandlesFit, UNCHANGED <<files, next_file_handle, next_find_handle>>, Counters',
         DOMAIN handles' \subseteq PIPE_HANDLE_BASE .. next_handle' - 1,
         DOMAIN given' \subseteq DOMAIN files \cup DOMAIN handles',
         \A g \in DOMAIN given' :
           \/ g \in DOMAIN handles' /\ given'[g] = handles'[g]
           \/ g \in DOMAIN given /\ g \in DOMAIN files /\ given'[g] = given[g]
  PROVE  HandleInv'
<1>1. HandlesMade'
  BY DEF HandleInv, HandlesMade
<1>2. HandleStaysBound'
  <2> SUFFICES ASSUME NEW g \in DOMAIN given' PROVE Route(g)' = given'[g]
    BY DEF HandleStaysBound
  <2>1. CASE g \in DOMAIN handles' /\ given'[g] = handles'[g]
    <3>1. g >= PIPE_HANDLE_BASE
      BY <2>1
    <3>2. QED
      BY <2>1, <3>1, RouteFactsNext
  <2>2. CASE g \in DOMAIN given /\ g \in DOMAIN files /\ given'[g] = given[g]
    <3>1. ~(g >= PIPE_HANDLE_BASE) /\ g \in DOMAIN files'
      BY <2>2, Ranges
    <3>2. Route(g) = <<"file", g>> /\ Route(g)' = <<"file", g>>
      BY <2>2, <3>1, RouteFacts, RouteFactsNext
    <3>3. QED
      BY <2>2, <3>2 DEF HandleInv, HandleStaysBound
  <2>3. QED
    BY <2>1, <2>2
<1>3. QED
  BY <1>1, <1>2 DEF HandleInv

\* What was given out is a pipe's end or a file.
LEMMA GivenFacts ==
  ASSUME HandleInv, HandlesFit
  PROVE  \A g \in DOMAIN given :
           \/ g \in DOMAIN handles /\ given[g] = handles[g] /\ g < next_handle /\ g \in Nat
           \/ g \in DOMAIN files /\ g \notin DOMAIN handles /\ g < PIPE_HANDLE_BASE /\ g \in Nat
<1> SUFFICES ASSUME NEW g \in DOMAIN given
             PROVE  \/ g \in DOMAIN handles /\ given[g] = handles[g] /\ g < next_handle /\ g \in Nat
                    \/ g \in DOMAIN files /\ g \notin DOMAIN handles /\ g < PIPE_HANDLE_BASE /\ g \in Nat
  OBVIOUS
<1>1. g \in DOMAIN files \/ g \in DOMAIN handles
  BY DEF HandleInv, HandlesMade
<1>2. CASE g \in DOMAIN handles
  <2>1. g >= PIPE_HANDLE_BASE /\ g < next_handle /\ g \in Nat
    BY <1>2, Ranges
  <2>2. Route(g) = handles[g]
    BY <1>2, <2>1, RouteFacts
  <2>3. QED
    BY <1>2, <2>1, <2>2 DEF HandleInv, HandleStaysBound
<1>3. CASE g \in DOMAIN files
  <2>1. ~(g >= PIPE_HANDLE_BASE) /\ g \in Nat /\ PIPE_HANDLE_BASE \in Nat
    BY <1>3, Ranges
  <2>2. g \notin DOMAIN handles
    BY <2>1, Ranges
  <2>3. QED
    BY <1>3, <2>1, <2>2
<1>4. QED
  BY <1>1, <1>2, <1>3

\* A new pipe: both numbers are new.
LEMMA CreatePipeHandle ==
  ASSUME HandleInv, HandlesFit, DosCreatePipe
  PROVE  HandleInv'
<1>1. PICK r : r = next_handle
  OBVIOUS
<1>2. PICK a, b : a = <<r, "read">> /\ b = <<r, "write">>
  OBVIOUS
<1>3. /\ Made + 1 < MaxMade
      /\ handles' = With(With(handles, r, a), r + 1, b)
      /\ given' = FirstUse(FirstUse(given, r, a), r + 1, b)
      /\ next_handle' = r + 2 /\ UNCHANGED <<files, next_file_handle, next_find_handle>>
  BY <1>1, <1>2 DEF DosCreatePipe, hostVars, driveVars
<1>4. /\ r \in Nat /\ PIPE_HANDLE_BASE \in Nat /\ r >= PIPE_HANDLE_BASE /\ r + 1 # r
      /\ r \notin DOMAIN given /\ r + 1 \notin DOMAIN given
  <2>1. r \in Nat /\ PIPE_HANDLE_BASE \in Nat /\ r >= PIPE_HANDLE_BASE /\ r + 1 # r
    BY <1>1, Ranges DEF HandleInv, Counters
  <2>2. \A g \in DOMAIN given : g # r /\ g # r + 1
    BY <1>1, <2>1, GivenFacts, Ranges
  <2>3. QED
    BY <2>1, <2>2
<1>5. /\ DOMAIN handles' = DOMAIN handles \cup {r, r + 1}
      /\ handles'[r] = a /\ handles'[r + 1] = b
      /\ \A g \in DOMAIN handles : g # r /\ g # r + 1 => handles'[g] = handles[g]
  BY <1>3, <1>4 DEF With
<1>6. /\ DOMAIN given' = DOMAIN given \cup {r, r + 1}
      /\ given'[r] = a /\ given'[r + 1] = b
      /\ \A g \in DOMAIN given : given'[g] = given[g]
  BY <1>3, <1>4 DEF FirstUse, With
<1>7. Counters'
  BY <1>1, <1>3, <1>4, Ranges DEF HandleInv, Counters, Made
<1>8. DOMAIN handles' \subseteq PIPE_HANDLE_BASE .. next_handle' - 1
  BY <1>1, <1>3, <1>4, <1>5 DEF HandleInv, HandlesMade
<1>9. DOMAIN given' \subseteq DOMAIN files \cup DOMAIN handles'
  BY <1>5, <1>6 DEF HandleInv, HandlesMade
<1>10. \A g \in DOMAIN given' :
         \/ g \in DOMAIN handles' /\ given'[g] = handles'[g]
         \/ g \in DOMAIN given /\ g \in DOMAIN files /\ given'[g] = given[g]
  BY <1>4, <1>5, <1>6, GivenFacts
<1>11. QED
  BY <1>3, <1>7, <1>8, <1>9, <1>10, PipeHandles

\* Closing a pipe handle takes its number out of use.
LEMMA ClosePipeHandle ==
  ASSUME HandleInv, HandlesFit, NEW h \in DOMAIN handles, DosClosePipe(h)
  PROVE  HandleInv'
<1>1. /\ handles' = Without(handles, h) /\ given' = Without(given, h)
      /\ UNCHANGED <<files, next_file_handle, next_find_handle, next_handle>>
  BY DEF DosClosePipe, hostVars, driveVars
<1>2. /\ DOMAIN handles' = DOMAIN handles \ {h} /\ DOMAIN given' = DOMAIN given \ {h}
      /\ \A g \in DOMAIN handles' : handles'[g] = handles[g]
      /\ \A g \in DOMAIN given' : given'[g] = given[g]
  BY <1>1 DEF Without
<1>3. Counters'
  BY <1>1 DEF HandleInv, Counters, Made
<1>4. DOMAIN handles' \subseteq PIPE_HANDLE_BASE .. next_handle' - 1
  BY <1>1, <1>2 DEF HandleInv, HandlesMade
<1>5. DOMAIN given' \subseteq DOMAIN files \cup DOMAIN handles'
  BY <1>2 DEF HandleInv, HandlesMade
<1>6. \A g \in DOMAIN given' :
         \/ g \in DOMAIN handles' /\ given'[g] = handles'[g]
         \/ g \in DOMAIN given /\ g \in DOMAIN files /\ given'[g] = given[g]
  BY <1>2, GivenFacts
<1>7. QED
  BY <1>1, <1>3, <1>4, <1>5, <1>6, PipeHandles

\* A duplicate with a new number.
LEMMA DupHandle ==
  ASSUME HandleInv, HandlesFit, NEW old \in DOMAIN handles, DosDupHandle(old)
  PROVE  HandleInv'
<1>1. PICK r, a : r = next_handle /\ a = handles[old]
  OBVIOUS
<1>2. /\ Made < MaxMade
      /\ handles' = With(handles, r, a) /\ given' = FirstUse(given, r, a)
      /\ next_handle' = r + 1 /\ UNCHANGED <<files, next_file_handle, next_find_handle>>
  BY <1>1 DEF DosDupHandle, add, hostVars, driveVars
<1>3. r \in Nat /\ PIPE_HANDLE_BASE \in Nat /\ r >= PIPE_HANDLE_BASE + 2
  <2>1. old < next_handle /\ old >= PIPE_HANDLE_BASE /\ old \in Nat /\ PIPE_HANDLE_BASE \in Nat
    BY Ranges
  <2>2. QED
    BY <1>1, <2>1 DEF HandleInv, Counters
<1>4. \A g \in DOMAIN given : g # r
  BY <1>1, <1>3, GivenFacts
<1>5. /\ DOMAIN handles' = DOMAIN handles \cup {r} /\ handles'[r] = a
      /\ \A g \in DOMAIN handles : g # r => handles'[g] = handles[g]
  BY <1>2 DEF With
<1>6. /\ DOMAIN given' = DOMAIN given \cup {r} /\ given'[r] = a
      /\ \A g \in DOMAIN given : given'[g] = given[g]
  BY <1>2, <1>4 DEF FirstUse, With
<1>7. Counters'
  BY <1>1, <1>2, <1>3, Ranges DEF HandleInv, Counters, Made
<1>8. DOMAIN handles' \subseteq PIPE_HANDLE_BASE .. next_handle' - 1
  BY <1>1, <1>2, <1>3, <1>5 DEF HandleInv, HandlesMade
<1>9. DOMAIN given' \subseteq DOMAIN files \cup DOMAIN handles'
  BY <1>5, <1>6 DEF HandleInv, HandlesMade
<1>10. \A g \in DOMAIN given' :
         \/ g \in DOMAIN handles' /\ given'[g] = handles'[g]
         \/ g \in DOMAIN given /\ g \in DOMAIN files /\ given'[g] = given[g]
  BY <1>4, <1>5, <1>6, GivenFacts
<1>11. QED
  BY <1>2, <1>7, <1>8, <1>9, <1>10, PipeHandles

\* A duplicate onto a number that was made.
LEMMA DupHandleTo ==
  ASSUME HandleInv, HandlesFit, DupsMade, NEW old \in DOMAIN handles,
         NEW target \in DupTargets, DosDupHandleTo(old, target)
  PROVE  HandleInv'
<1>1. PICK a : a = handles[old]
  OBVIOUS
<1>2. /\ handles' = With(handles, target, a) /\ given' = With(given, target, a)
      /\ UNCHANGED <<files, next_file_handle, next_find_handle, next_handle>>
  BY <1>1 DEF DosDupHandleTo, hostVars, driveVars
<1>3. target \in PIPE_HANDLE_BASE .. next_handle - 1
  BY DEF DupsMade
<1>4. /\ DOMAIN handles' = DOMAIN handles \cup {target} /\ handles'[target] = a
      /\ \A g \in DOMAIN handles : g # target => handles'[g] = handles[g]
  BY <1>2 DEF With
<1>5. /\ DOMAIN given' = DOMAIN given \cup {target} /\ given'[target] = a
      /\ \A g \in DOMAIN given : g # target => given'[g] = given[g]
  BY <1>2 DEF With
<1>6. Counters'
  BY <1>2 DEF HandleInv, Counters, Made
<1>7. DOMAIN handles' \subseteq PIPE_HANDLE_BASE .. next_handle' - 1
  BY <1>2, <1>3, <1>4 DEF HandleInv, HandlesMade
<1>8. DOMAIN given' \subseteq DOMAIN files \cup DOMAIN handles'
  BY <1>4, <1>5 DEF HandleInv, HandlesMade
<1>9. \A g \in DOMAIN given' :
         \/ g \in DOMAIN handles' /\ given'[g] = handles'[g]
         \/ g \in DOMAIN given /\ g \in DOMAIN files /\ given'[g] = given[g]
  BY <1>4, <1>5, GivenFacts
<1>10. QED
  BY <1>2, <1>6, <1>7, <1>8, <1>9, PipeHandles

\* Calls that look at files, names, searches or the content of pipes leave the
\* numbers alone, except that a new search takes one of its own.
LEMMA OtherHandles ==
  ASSUME HandleInv, HandlesFit,
         \/ \E h \in DOMAIN files, u, l \in BOOLEAN : DosSetFileLocks(h, u, l)
         \/ FindCall
         \/ \E n \in Names : NameCall(n)
         \/ \E h \in DOMAIN handles : DosReadPipe(h) \/ DosWritePipe(h)
         \/ PipeReturns \/ Environment
  PROVE  HandleInv'
<1>1. CASE \E h \in DOMAIN files, u, l \in BOOLEAN : DosSetFileLocks(h, u, l)
  BY <1>1, HandlesQuiet DEF DosSetFileLocks, set_file_locks, driveVars, pipeVars
<1>2. CASE FindCall
  <2>1. ASSUME NEW d, NEW k, NEW p, DosFindFirst(p, d, k) PROVE HandleInv'
    <3>1. /\ Made < MaxMade /\ next_find_handle' = next_find_handle + 1
          /\ UNCHANGED <<files, handles, given, next_file_handle, next_handle>>
      BY <2>1 DEF DosFindFirst, OpenSearch, find_first, pipeVars
    <3>2. Counters'
      BY <3>1, Ranges DEF HandleInv, Counters, Made
    <3>3. HandlesMade' /\ HandleStaysBound'
      BY <3>1 DEF HandleInv, HandlesMade, HandleStaysBound, Route
    <3>4. QED
      BY <3>2, <3>3 DEF HandleInv
  <2>2. ASSUME NEW h, DosFindClose(h) PROVE HandleInv'
    BY <2>2, HandlesQuiet DEF DosFindClose, find_close, driveVars, pipeVars
  <2>3. ASSUME NEW h, NEW k, DosFindNext(h, k) PROVE HandleInv'
    BY <2>3, HandlesQuiet DEF DosFindNext, find_next, driveVars, pipeVars
  <2>4. QED
    BY <1>2, <2>1, <2>2, <2>3 DEF FindCall
<1>3. ASSUME NEW ok, NEW c, NEW d, Named(ok, c, d), UNCHANGED <<driveVars, pipeVars, given>>
      PROVE  HandleInv'
  BY <1>3, HandlesQuiet DEF Named, driveVars, pipeVars
<1>4. ASSUME NEW n \in Names, NameCall(n) PROVE HandleInv'
  <2>1. CASE DosDelete(n) \/ DosDeleteDir(n) \/ DosCreateDir(n) \/ DosQueryPathInfo(n)
    BY <1>3, <2>1 DEF DosDelete, DosDeleteDir, DosCreateDir, DosQueryPathInfo, delete, delete_dir,
                      create_dir, query_path_info
  <2>2. ASSUME NEW m \in Names, DosMove(n, m) \/ DosCopy(n, m) PROVE HandleInv'
    BY <1>3, <2>2 DEF DosMove, DosCopy, rename, copy
  <2>3. QED
    BY <1>4, <2>1, <2>2 DEF NameCall
<1>5. CASE PipeReturns \/ \E h \in DOMAIN handles : DosReadPipe(h) \/ DosWritePipe(h)
  BY <1>5, HandlesQuiet DEF PipeReturns, DosReadPipe, DosWritePipe, hostVars, driveVars
<1>6. CASE Environment
  BY <1>6, HandlesQuiet DEF Environment, Expire, HostChanges, driveVars, pipeVars
<1>7. QED
  BY <1>1, <1>2, <1>4, <1>5, <1>6

\* The invariant is inductive.
LEMMA HandleStep ==
  ASSUME HandlesFit, HandleInv, [IoNext]_ioVars, [DupsMade]_ioVars
  PROVE  HandleInv'
<1>1. CASE UNCHANGED fileVars
  BY <1>1, HandlesQuiet DEF fileVars, hostVars, driveVars, pipeVars
<1>2. CASE FilesNext /\ DupsMade
  <2>1. ASSUME NEW n \in Names, NEW r \in Requests, NEW x, NEW w, DosOpen(n, r, x, w) PROVE HandleInv'
    BY <2>1, OpenHandle
  <2>2. ASSUME NEW h \in DOMAIN files, FileCall(h) PROVE HandleInv'
    BY <2>2, CloseHandle, OtherHandles DEF FileCall
  <2>3. ASSUME NEW h \in DOMAIN handles, PipeCall(h) PROVE HandleInv'
    BY <1>2, <2>3, ClosePipeHandle, DupHandle, DupHandleTo, OtherHandles DEF PipeCall
  <2>4. QED
    BY <1>2, <2>1, <2>2, <2>3, CreatePipeHandle, OtherHandles DEF FilesNext
<1>3. QED
  BY <1>1, <1>2 DEF IoNext, ioVars

\* No handle is made yet, so the invariant holds at the start.
LEMMA HandleInit == IoInit => HandleInv
<1> SUFFICES ASSUME IoInit PROVE HandleInv
  OBVIOUS
<1>1. /\ files = <<>> /\ handles = <<>> /\ given = <<>>
      /\ next_file_handle = FirstFile /\ next_find_handle = FirstFind
      /\ next_handle = PIPE_HANDLE_BASE
  BY DEF IoInit, FilesInit, HostDirInit, DriveManagerInit, HandleManagerInit
<1>2. Counters
  BY <1>1, FilesAssumption DEF Counters, Made
<1>3. HandlesMade /\ HandleStaysBound
  BY <1>1 DEF HandlesMade, HandleStaysBound
<1>4. QED
  BY <1>2, <1>3 DEF HandleInv

\* A handle means what it was given out for until it is closed, however calls on
\* files, searches and pipes follow one another, for programs that make fewer
\* handles than there are below PIPE_HANDLE_BASE (doscalls.rs:54) and name only
\* handles that were made as targets of DosDupHandle.
THEOREM FileHandlesSafe ==
  ASSUME HandlesFit PROVE IoSpec /\ [][DupsMade]_ioVars => []HandleStaysBound
<1>1. HandleInv /\ [IoNext]_ioVars /\ [DupsMade]_ioVars => HandleInv'
  BY HandleStep
<1>2. HandleInv => HandleStaysBound
  BY DEF HandleInv
<1>3. QED
  BY <1>1, <1>2, HandleInit, PTL DEF IoSpec

\* A call that duplicates a handle comes after the first pipe was made, so
\* guests that name only the two handles of that pipe meet the hypothesis of
\* FileHandlesSafe: the property holds of every behaviour (doscalls.rs:1364).
THEOREM FirstPipeSafe ==
  ASSUME HandlesFit, FirstPipeTargets PROVE IoSpec => []HandleStaysBound
<1>1. HandleInv => DupsMade
  <2> SUFFICES ASSUME HandleInv, NEW old \in DOMAIN handles, NEW target \in DupTargets
               PROVE  target \in PIPE_HANDLE_BASE .. next_handle - 1
    BY DEF DupsMade
  <2>1. old < next_handle /\ old >= PIPE_HANDLE_BASE /\ old \in Nat /\ PIPE_HANDLE_BASE \in Nat
    BY Ranges
  <2>2. QED
    BY <2>1 DEF HandleInv, Counters, FirstPipeTargets
<1>2. HandleInv /\ [IoNext]_ioVars => HandleInv'
  BY <1>1, HandleStep
<1>3. HandleInv => HandleStaysBound
  BY DEF HandleInv
<1>4. QED
  BY <1>2, <1>3, HandleInit, PTL DEF IoSpec

-----------------------------------------------------------------------------
(* Sharing.                                                                *)

\* The numbers of open files are below the counter, so a new one is not in the
\* table.
FilesNumbered ==
  /\ next_file_handle \in Nat
  /\ DOMAIN files \subseteq 0 .. next_file_handle - 1

\* The inductive invariant.
SharingInv == FilesNumbered /\ SharingHolds

\* The table's entry for an open file.
Entry(h) == [path |-> files[h].path, h |-> h, mode |-> files[h].mode, share |-> files[h].share]

\* The table is the set of the entries of open files.
Tabled == sharing = {Entry(h) : h \in DOMAIN files}

Compatible ==
  \A a, b \in DOMAIN files :
    (a # b /\ files[a].path = files[b].path) => is_sharing_compatible(files[a], files[b])

\* SharingHolds with its parts named.
LEMMA SharingParts == (SharingHolds <=> Tabled /\ Compatible) /\ (SharingHolds' <=> Tabled' /\ Compatible')
BY DEF SharingHolds, Tabled, Compatible, Entry

\* A step that leaves files and table alone keeps the invariant.
LEMMA SharingQuiet ==
  ASSUME SharingInv, UNCHANGED <<files, sharing, next_file_handle>>
  PROVE  SharingInv'
BY DEF SharingInv, FilesNumbered, SharingHolds

\* An open that the table lets through: the new file is compatible with every
\* other open of its path, and the table gets its entry.
LEMMA OpenShares ==
  ASSUME SharingInv, NEW r, NEW n, NEW req, NEW x, NEW w,
         open(r, n, req, x, w, next_file_handle, TRUE),
         next_file_handle' = next_file_handle + 1
  PROVE  SharingInv'
<1>1. PICK h : h = next_file_handle
  OBVIOUS
<1>2. PICK p, ino :
        /\ check_and_add(p, req)
        /\ files' = With(files, h, [path |-> p, ino |-> ino, mode |-> req.mode, share |-> req.share])
        /\ sharing' = sharing \cup {[path |-> p, h |-> h, mode |-> req.mode, share |-> req.share]}
  BY <1>1 DEF open
<1>3. PICK f : f = [path |-> p, ino |-> ino, mode |-> req.mode, share |-> req.share]
  OBVIOUS
<1>4. f.path = p /\ f.mode = req.mode /\ f.share = req.share
  BY <1>3
<1>5. h \notin DOMAIN files /\ h \in Nat
  BY <1>1 DEF SharingInv, FilesNumbered
<1>6. /\ DOMAIN files' = DOMAIN files \cup {h} /\ files'[h] = f
      /\ \A a \in DOMAIN files : files'[a] = files[a]
  BY <1>2, <1>3, <1>5 DEF With
<1>7. FilesNumbered'
  BY <1>1, <1>5, <1>6 DEF SharingInv, FilesNumbered
<1>8. Tabled'
  <2>1. sharing = {Entry(a) : a \in DOMAIN files}
    BY SharingParts DEF SharingInv, Tabled
  <2>2. \A a \in DOMAIN files : Entry(a)' = Entry(a)
    BY <1>6 DEF Entry
  <2>3. [path |-> p, h |-> h, mode |-> req.mode, share |-> req.share] =
        [path |-> files'[h].path, h |-> h, mode |-> files'[h].mode, share |-> files'[h].share]
    BY <1>4, <1>6
  <2>4. sharing' = {[path |-> files'[a].path, h |-> a, mode |-> files'[a].mode,
                     share |-> files'[a].share] : a \in DOMAIN files'}
    BY <1>2, <1>6, <2>1, <2>2, <2>3 DEF Entry
  <2>5. QED
    BY <2>4 DEF Tabled, Entry
<1>9. Compatible'
  <2>1. ASSUME NEW a \in DOMAIN files, files[a].path = p
        PROVE  is_sharing_compatible(files[a], f) /\ is_sharing_compatible(f, files[a])
    <3>1. Entry(a) \in sharing
      BY SharingParts DEF SharingInv, Tabled
    <3>2. Entry(a).path = p /\ Entry(a).mode = files[a].mode /\ Entry(a).share = files[a].share
      BY <2>1 DEF Entry
    <3>3. is_sharing_compatible(Entry(a), req)
      BY <1>2, <3>1, <3>2 DEF check_and_add
    <3>4. QED
      BY <1>4, <3>2, <3>3 DEF is_sharing_compatible
  <2>2. Compatible
    BY SharingParts DEF SharingInv
  <2> SUFFICES ASSUME NEW a \in DOMAIN files', NEW b \in DOMAIN files', a # b,
                      files'[a].path = files'[b].path
               PROVE  is_sharing_compatible(files'[a], files'[b])
    BY DEF Compatible, is_sharing_compatible
  <2>3. CASE a = h
    BY <1>4, <1>6, <2>1, <2>3
  <2>4. CASE b = h
    BY <1>4, <1>6, <2>1, <2>4
  <2>5. CASE a # h /\ b # h
    BY <1>6, <2>2, <2>5 DEF Compatible
  <2>6. QED
    BY <2>3, <2>4, <2>5
<1>10. QED
  BY <1>7, <1>8, <1>9, SharingParts DEF SharingInv

\* An open that fails takes its entry out of the table, and nobody else's.
LEMMA FailedOpenShares ==
  ASSUME SharingInv, NEW r, NEW n, NEW req, NEW x, NEW w,
         open(r, n, req, x, w, next_file_handle, FALSE), UNCHANGED next_file_handle
  PROVE  SharingInv'
<1>0. PICK p :
        /\ files' = files
        /\ ErrorPath([path |-> p, h |-> next_file_handle, mode |-> req.mode, share |-> req.share])
  BY DEF open
<1> DEFINE e == [path |-> p, h |-> next_file_handle, mode |-> req.mode, share |-> req.share]
<1>1. sharing' = (sharing \cup {e}) \ {e} /\ e.h = next_file_handle /\ files' = files
  BY <1>0 DEF ErrorPath
<1> HIDE DEF e
<1>2. \A a \in DOMAIN files : a # next_file_handle
  BY DEF SharingInv, FilesNumbered
<1>3. \A d \in sharing : d.h \in DOMAIN files
  <2>1. \A a \in DOMAIN files : Entry(a).h = a
    BY DEF Entry
  <2>2. QED
    BY <2>1, SharingParts DEF SharingInv, Tabled
<1>4. e \notin sharing
  BY <1>1, <1>2, <1>3
<1>5. sharing' = sharing
  BY <1>1, <1>4
<1>6. QED
  BY <1>1, <1>5, SharingQuiet

\* A close takes just the entry of its file out of the table.
LEMMA CloseShares ==
  ASSUME SharingInv, NEW h \in DOMAIN files, close(h), UNCHANGED next_file_handle
  PROVE  SharingInv'
<1>1. /\ files' = Without(files, h)
      /\ sharing' = {e \in sharing : e.path # files[h].path \/ e.h # h}
  BY DEF close, remove
<1>2. DOMAIN files' = DOMAIN files \ {h} /\ \A a \in DOMAIN files' : files'[a] = files[a]
  BY <1>1 DEF Without
<1>3. FilesNumbered'
  BY <1>2 DEF SharingInv, FilesNumbered
<1>4. Compatible'
  BY <1>2, SharingParts DEF SharingInv, Compatible, is_sharing_compatible
<1>5. Tabled'
  <2>1. sharing = {Entry(a) : a \in DOMAIN files}
    BY SharingParts DEF SharingInv, Tabled
  <2>2. \A a \in DOMAIN files : Entry(a).h = a /\ Entry(a).path = files[a].path
    BY DEF Entry
  <2>3. sharing' = {Entry(a) : a \in DOMAIN files \ {h}}
    BY <1>1, <2>1, <2>2
  <2>4. \A a \in DOMAIN files' :
          Entry(a) = [path |-> files'[a].path, h |-> a, mode |-> files'[a].mode,
                      share |-> files'[a].share]
    BY <1>2 DEF Entry
  <2>5. sharing' = {[path |-> files'[a].path, h |-> a, mode |-> files'[a].mode,
                     share |-> files'[a].share] : a \in DOMAIN files'}
    BY <1>2, <2>3, <2>4
  <2>6. QED
    BY <2>5 DEF Tabled, Entry
<1>6. QED
  BY <1>3, <1>4, <1>5, SharingParts DEF SharingInv

\* The invariant of the sharing table is inductive.
LEMMA SharingStep ==
  ASSUME SharingInv, [IoNext]_ioVars
  PROVE  SharingInv'
<1>1. CASE UNCHANGED fileVars
  BY <1>1, SharingQuiet DEF fileVars, hostVars, driveVars
<1>2. ASSUME NEW n, NEW req, NEW x, NEW w, DosOpen(n, req, x, w) PROVE SharingInv'
  <2>1. PICK r \in resolve_ci(n) :
          \/ /\ OpenRefused(r, n, req, x, w) \/ open(r, n, req, x, w, next_file_handle, FALSE)
             /\ UNCHANGED driveVars
          \/ /\ open(r, n, req, x, w, next_file_handle, TRUE)
             /\ next_file_handle' = next_file_handle + 1
    BY <1>2 DEF DosOpen, open_file
  <2>2. CASE OpenRefused(r, n, req, x, w) /\ UNCHANGED driveVars
    BY <2>2, SharingQuiet DEF OpenRefused, driveVars
  <2>3. CASE open(r, n, req, x, w, next_file_handle, FALSE) /\ UNCHANGED driveVars
    BY <2>3, FailedOpenShares DEF driveVars
  <2>4. CASE /\ open(r, n, req, x, w, next_file_handle, TRUE)
             /\ next_file_handle' = next_file_handle + 1
    BY <2>4, OpenShares
  <2>5. QED
    BY <2>1, <2>2, <2>3, <2>4
<1>3. ASSUME NEW h \in DOMAIN files, FileCall(h) PROVE SharingInv'
  <2>1. CASE DosCloseFile(h)
    BY <2>1, CloseShares DEF DosCloseFile, close_file, driveVars
  <2>2. CASE \E u, l \in BOOLEAN : DosSetFileLocks(h, u, l)
    BY <2>2, SharingQuiet DEF DosSetFileLocks, set_file_locks, driveVars
  <2>3. QED
    BY <1>3, <2>1, <2>2 DEF FileCall
<1>4. CASE FindCall
  <2>1. ASSUME NEW d, NEW k, NEW p, DosFindFirst(p, d, k) PROVE SharingInv'
    BY <2>1, SharingQuiet DEF DosFindFirst, OpenSearch, find_first
  <2>2. ASSUME NEW h, DosFindClose(h) PROVE SharingInv'
    BY <2>2, SharingQuiet DEF DosFindClose, find_close, driveVars
  <2>3. ASSUME NEW h, NEW k, DosFindNext(h, k) PROVE SharingInv'
    BY <2>3, SharingQuiet DEF DosFindNext, find_next, driveVars
  <2>4. QED
    BY <1>4, <2>1, <2>2, <2>3 DEF FindCall
<1>5. ASSUME NEW ok, NEW c, NEW d, Named(ok, c, d), UNCHANGED <<driveVars, pipeVars, given>>
      PROVE  SharingInv'
  BY <1>5, SharingQuiet DEF Named, driveVars
<1>6. ASSUME NEW n \in Names, NameCall(n) PROVE SharingInv'
  <2>1. CASE DosDelete(n) \/ DosDeleteDir(n) \/ DosCreateDir(n) \/ DosQueryPathInfo(n)
    BY <1>5, <2>1 DEF DosDelete, DosDeleteDir, DosCreateDir, DosQueryPathInfo, delete, delete_dir,
                      create_dir, query_path_info
  <2>2. ASSUME NEW m \in Names, DosMove(n, m) \/ DosCopy(n, m) PROVE SharingInv'
    BY <1>5, <2>2 DEF DosMove, DosCopy, rename, copy
  <2>3. QED
    BY <1>6, <2>1, <2>2 DEF NameCall
<1>7. CASE DosCreatePipe \/ PipeReturns \/ \E h \in DOMAIN handles : PipeCall(h)
  <2>1. UNCHANGED <<hostVars, driveVars>>
    BY <1>7 DEF DosCreatePipe, PipeReturns, PipeCall, DosReadPipe, DosWritePipe, DosClosePipe,
                DosDupHandle, DosDupHandleTo
  <2>2. QED
    BY <2>1, SharingQuiet DEF hostVars, driveVars
<1>8. CASE Environment
  BY <1>8, SharingQuiet DEF Environment, Expire, HostChanges, driveVars
<1>9. QED
  BY <1>1, <1>2, <1>3, <1>4, <1>6, <1>7, <1>8 DEF IoNext, ioVars, FilesNext

\* No two files are open at once when one denies what the other does, and the
\* SharingTable knows exactly the open files, failed opens included, for any
\* names, requests and number of opens (vfs_hostdir.rs:401, :852, :877).
THEOREM SharingSafe == IoSpec => []SharingHolds
<1>1. IoInit => SharingInv
  <2> SUFFICES ASSUME IoInit PROVE SharingInv
    OBVIOUS
  <2>1. files = <<>> /\ sharing = {} /\ next_file_handle = FirstFile
    BY DEF IoInit, FilesInit, HostDirInit, DriveManagerInit
  <2>2. FilesNumbered
    BY <2>1, FilesAssumption DEF FilesNumbered
  <2>3. DOMAIN files = {}
    BY <2>1
  <2>4. SharingHolds
    BY <2>1, <2>3 DEF SharingHolds
  <2>5. QED
    BY <2>2, <2>4 DEF SharingInv
<1>2. SharingInv => SharingHolds
  BY DEF SharingInv
<1>3. QED
  BY <1>1, <1>2, SharingStep, PTL DEF IoSpec

-----------------------------------------------------------------------------
(* The cache of listings.                                                  *)

\* The inductive invariant.
CacheInv == disk \in [Names -> Nat] /\ CacheExact

\* What a lookup may leave as the cache: what was there, or the directory's
\* listing of this moment.
ExactListing(c) == c = cache \/ \E g \in Listings : c = [fresh |-> TRUE, names |-> g]

\* The name a host finds is an entry of the directory.
LEMMA HostEntryFacts ==
  ASSUME NEW n, Exists(n)
  PROVE  HostEntry(n) \in Names
<1> DEFINE same == {m \in Present : IF kernel_casefold THEN Fold[m] = Fold[n] ELSE m = n}
<1>1. HostEntry(n) = IF same = {} THEN Missing ELSE CHOOSE m \in same : TRUE
  BY DEF HostEntry
<1>2. same # {}
  BY <1>1 DEF Exists
<1>3. same \subseteq Names
  BY DEF Present
<1> HIDE DEF same
<1>4. (CHOOSE m \in same : TRUE) \in same
  BY <1>2
<1>5. QED
  BY <1>1, <1>2, <1>3, <1>4

\* A free inode is a number.
LEMMA NewInodeFacts == ASSUME FreeInodes # {} PROVE NewInode \in Nat
<1>1. NewInode \in FreeInodes
  BY DEF NewInode
<1>2. QED
  BY <1>1, HostDirAssumption DEF FreeInodes

\* What a lookup leaves as the cache is exact.
LEMMA ResolveFacts ==
  ASSUME NEW n \in Names, NEW r \in resolve_ci(n)
  PROVE  ExactListing(r.cache)
<1>1. CASE r.cache = cache
  BY <1>1 DEF ExactListing
<1>2. CASE r \in lookup(n)
  <2>1. CASE cache.fresh
    <3>1. r.cache = cache
      BY <1>2, <2>1 DEF lookup
    <3>2. QED
      BY <3>1, <1>1
  <2>2. CASE ~cache.fresh
    <3>1. PICK g \in Listings :
            \E m : r = [name |-> m, cache |-> [fresh |-> TRUE, names |-> g]]
      BY <1>2, <2>2 DEF lookup
    <3>2. r.cache = [fresh |-> TRUE, names |-> g]
      BY <3>1
    <3>3. QED
      BY <3>2 DEF ExactListing
  <2>3. QED
    BY <2>1, <2>2
<1>3. r.cache = cache \/ r \in lookup(n)
  BY DEF resolve_ci, resolve_component
<1>4. QED
  BY <1>1, <1>2, <1>3

\* A lookup that leaves the directory alone keeps the listing exact.
LEMMA LookedExact ==
  ASSUME CacheInv, UNCHANGED disk, NEW c, ExactListing(c), Looked(c)
  PROVE  CacheInv'
<1>1. Listings' = Listings
  BY DEF Listings, Present
<1>2. CASE c = cache
  <2>1. cache' = cache /\ (changed' <=> changed)
    BY <1>2 DEF Looked
  <2>2. QED
    BY <1>1, <2>1 DEF CacheInv, CacheExact
<1>3. ASSUME NEW g \in Listings, c = [fresh |-> TRUE, names |-> g] PROVE CacheInv'
  <2>1. cache'.names = g
    BY <1>3 DEF Looked
  <2>2. QED
    BY <1>1, <1>3, <2>1 DEF CacheInv, CacheExact
<1>4. QED
  BY <1>2, <1>3 DEF ExactListing

\* A step that changes the directory and drops the listing.
LEMMA DroppedExact ==
  ASSUME disk' \in [Names -> Nat], Invalidated
  PROVE  CacheInv'
<1>1. ~cache'.fresh
  BY DEF Invalidated, NoListing
<1>2. QED
  BY <1>1 DEF CacheInv, CacheExact

\* An operation on names.
LEMMA NamedExact ==
  ASSUME CacheInv, NEW ok, NEW c, NEW d, Named(ok, c, d), ExactListing(c),
         ok => d \in [Names -> Nat]
  PROVE  CacheInv'
<1>1. CASE ok
  BY <1>1, DroppedExact DEF Named
<1>2. CASE ~ok
  BY <1>2, LookedExact DEF Named
<1>3. QED
  BY <1>1, <1>2

\* A step that leaves directory and listing alone.
LEMMA CacheQuiet ==
  ASSUME CacheInv, UNCHANGED <<disk, cache, changed>>
  PROVE  CacheInv'
BY DEF CacheInv, CacheExact, Listings, Present

\* An open: the host's file is there, or made and the listing dropped.
LEMMA OpenExact ==
  ASSUME CacheInv, NEW n \in Names, NEW req, NEW x, NEW w, NEW h, NEW ok \in BOOLEAN,
         NEW r \in resolve_ci(n), open(r, n, req, x, w, h, ok)
  PROVE  CacheInv'
<1>1. PICK act, p :
        \/ Looked(r.cache) /\ UNCHANGED disk
        \/ /\ HostOpens(p, req, act)
           /\ disk' = [disk EXCEPT ![IF Exists(p) THEN HostEntry(p) ELSE p] =
                                     IF Exists(p) THEN Inode(p) ELSE NewInode]
           /\ CacheAfterOpen(r, act)
  BY DEF open
<1>2. CASE Looked(r.cache) /\ UNCHANGED disk
  BY <1>2, ResolveFacts, LookedExact
<1>3. CASE /\ HostOpens(p, req, act)
           /\ disk' = [disk EXCEPT ![IF Exists(p) THEN HostEntry(p) ELSE p] =
                                     IF Exists(p) THEN Inode(p) ELSE NewInode]
           /\ CacheAfterOpen(r, act)
  <2>1. CASE Exists(p)
    <3>1. disk' = [disk EXCEPT ![HostEntry(p)] = disk[HostEntry(p)]]
      BY <1>3, <2>1 DEF Inode
    <3>2. disk' = disk
      BY <2>1, <3>1, HostEntryFacts DEF CacheInv
    <3>3. Looked(r.cache) \/ Invalidated
      BY <1>3 DEF CacheAfterOpen
    <3>4. disk' \in [Names -> Nat]
      BY <3>2 DEF CacheInv
    <3>5. QED
      BY <3>2, <3>3, <3>4, ResolveFacts, LookedExact, DroppedExact
  <2>2. CASE ~Exists(p)
    <3>1. act # "Existed" /\ FreeInodes # {}
      BY <1>3, <2>2 DEF HostOpens
    <3>2. disk' = [disk EXCEPT ![p] = NewInode] /\ Invalidated
      BY <1>3, <2>2, <3>1 DEF CacheAfterOpen
    <3>3. disk' \in [Names -> Nat]
      BY <3>1, <3>2, NewInodeFacts DEF CacheInv
    <3>4. QED
      BY <3>2, <3>3, DroppedExact
  <2>3. QED
    BY <2>1, <2>2
<1>4. QED
  BY <1>1, <1>2, <1>3

\* Making, removing, moving and copying names.
LEMMA NameCallExact ==
  ASSUME CacheInv, NEW n \in Names, NameCall(n)
  PROVE  CacheInv'
<1>1. \A r \in resolve_existing(n) : ExactListing(r.cache)
  BY ResolveFacts DEF resolve_existing
<1>2. \A m : Exists(m) => Inode(m) \in Nat /\ [disk EXCEPT ![HostEntry(m)] = 0] \in [Names -> Nat]
  BY HostEntryFacts DEF CacheInv, Inode
<1>3. CASE DosDelete(n)
  <2>1. PICK r \in resolve_existing(n) :
          Named(Exists(r.name) /\ ~IsDir(r.name), r.cache, [disk EXCEPT ![HostEntry(r.name)] = 0])
    BY <1>3 DEF DosDelete, delete
  <2>2. QED
    BY <1>1, <1>2, <2>1, NamedExact
<1>4. CASE DosDeleteDir(n)
  <2>1. PICK r \in resolve_existing(n) :
          Named(IsDir(r.name), r.cache, [disk EXCEPT ![HostEntry(r.name)] = 0])
    BY <1>4 DEF DosDeleteDir, delete_dir
  <2>2. IsDir(r.name) => Exists(r.name)
    BY DEF IsDir
  <2>3. QED
    BY <1>1, <1>2, <2>1, <2>2, NamedExact
<1>5. CASE DosCreateDir(n)
  <2>1. Named(~Exists(n), cache, [disk EXCEPT ![n] = Dir])
    BY <1>5 DEF DosCreateDir, create_dir
  <2>2. [disk EXCEPT ![n] = Dir] \in [Names -> Nat]
    BY HostDirAssumption DEF CacheInv, Dir
  <2>3. ExactListing(cache)
    BY DEF ExactListing
  <2>4. QED
    BY <2>1, <2>2, <2>3, NamedExact
<1>6. CASE DosQueryPathInfo(n)
  <2>1. PICK r \in resolve_existing(n) : Named(FALSE, r.cache, disk)
    BY <1>6 DEF DosQueryPathInfo, query_path_info
  <2>2. QED
    BY <1>1, <2>1, NamedExact
<1>7. ASSUME NEW to \in Names, DosMove(n, to) PROVE CacheInv'
  <2>1. PICK r \in resolve_existing(n) :
          LET moved == [[disk EXCEPT ![HostEntry(r.name)] = 0]
                          EXCEPT ![IF Exists(to) /\ ~kernel_casefold THEN HostEntry(to) ELSE to] = Inode(r.name)]
              clear == IF kernel_casefold /\ Exists(to) /\ HostEntry(to) # to
                       THEN [moved EXCEPT ![HostEntry(to)] = 0] ELSE moved
          IN  Named(Exists(r.name) /\ (Exists(to) => (IsDir(r.name) <=> IsDir(to))), r.cache, clear)
    BY <1>7 DEF DosMove, rename, resolve_for_create
  <2> DEFINE gone  == [disk EXCEPT ![HostEntry(r.name)] = 0]
             moved == [gone EXCEPT ![IF Exists(to) /\ ~kernel_casefold THEN HostEntry(to) ELSE to] = Inode(r.name)]
             clear == IF kernel_casefold /\ Exists(to) /\ HostEntry(to) # to
                      THEN [moved EXCEPT ![HostEntry(to)] = 0] ELSE moved
             ok    == Exists(r.name) /\ (Exists(to) => (IsDir(r.name) <=> IsDir(to)))
  <2>2. Named(ok, r.cache, clear)
    BY <2>1
  <2>3. ok => gone \in [Names -> Nat] /\ Inode(r.name) \in Nat
    BY <1>2
  <2> HIDE DEF gone
  <2>4. ok => moved \in [Names -> Nat]
    BY <2>3
  <2> HIDE DEF moved, ok
  <2>5. ok => clear \in [Names -> Nat]
    BY <2>4
  <2> HIDE DEF clear
  <2>6. QED
    BY <1>1, <2>2, <2>5, NamedExact
<1>8. ASSUME NEW to \in Names, DosCopy(n, to) PROVE CacheInv'
  <2>1. PICK r \in resolve_existing(n) :
          Named(/\ Exists(r.name) /\ ~IsDir(r.name) /\ ~IsDir(to)
                /\ Exists(to) \/ FreeInodes # {},
                r.cache, IF Exists(to) THEN disk ELSE [disk EXCEPT ![to] = NewInode])
    BY <1>8 DEF DosCopy, copy, resolve_for_create
  <2> DEFINE ok == /\ Exists(r.name) /\ ~IsDir(r.name) /\ ~IsDir(to)
                   /\ Exists(to) \/ FreeInodes # {}
             made == IF Exists(to) THEN disk ELSE [disk EXCEPT ![to] = NewInode]
  <2>2. Named(ok, r.cache, made)
    BY <2>1
  <2>3. ok => made \in [Names -> Nat]
    BY NewInodeFacts DEF CacheInv
  <2> HIDE DEF ok, made
  <2>4. QED
    BY <1>1, <2>2, <2>3, NamedExact
<1>9. QED
  BY <1>3, <1>4, <1>5, <1>6, <1>7, <1>8 DEF NameCall

\* The invariant of the cache is inductive.
LEMMA CacheStep ==
  ASSUME CacheInv, [IoNext]_ioVars
  PROVE  CacheInv'
<1>1. CASE UNCHANGED fileVars
  BY <1>1, CacheQuiet DEF fileVars, hostVars
<1>2. ASSUME NEW n \in Names, NEW req, NEW x, NEW w, DosOpen(n, req, x, w) PROVE CacheInv'
  <2>1. PICK r \in resolve_ci(n) :
          \/ OpenRefused(r, n, req, x, w)
          \/ open(r, n, req, x, w, next_file_handle, FALSE)
          \/ open(r, n, req, x, w, next_file_handle, TRUE)
    BY <1>2 DEF DosOpen, open_file
  <2>2. CASE OpenRefused(r, n, req, x, w)
    BY <2>2, ResolveFacts, LookedExact DEF OpenRefused
  <2>3. QED
    BY <2>1, <2>2, OpenExact
<1>3. ASSUME NEW h \in DOMAIN files, FileCall(h) PROVE CacheInv'
  BY <1>3, CacheQuiet DEF FileCall, DosCloseFile, close_file, close, DosSetFileLocks, set_file_locks
<1>4. CASE FindCall
  <2>1. ASSUME NEW d, NEW k, NEW p, DosFindFirst(p, d, k) PROVE CacheInv'
    BY <2>1, CacheQuiet DEF DosFindFirst, OpenSearch, find_first
  <2>2. ASSUME NEW h, DosFindClose(h) PROVE CacheInv'
    BY <2>2, CacheQuiet DEF DosFindClose, find_close
  <2>3. ASSUME NEW h, NEW k, DosFindNext(h, k) PROVE CacheInv'
    BY <2>3, CacheQuiet DEF DosFindNext, find_next
  <2>4. QED
    BY <1>4, <2>1, <2>2, <2>3 DEF FindCall
<1>5. CASE DosCreatePipe \/ PipeReturns \/ \E h \in DOMAIN handles : PipeCall(h)
  <2>1. UNCHANGED hostVars
    BY <1>5 DEF DosCreatePipe, PipeReturns, PipeCall, DosReadPipe, DosWritePipe, DosClosePipe,
                DosDupHandle, DosDupHandleTo
  <2>2. QED
    BY <2>1, CacheQuiet DEF hostVars
<1>6. CASE Environment
  <2>1. CASE Expire
    BY <2>1, DroppedExact DEF Expire, CacheInv
  <2>2. ASSUME NEW n \in Names, HostChanges(n) PROVE CacheInv'
    <3>1. disk' \in [Names -> Nat]
      BY <2>2, NewInodeFacts DEF HostChanges, CacheInv
    <3>2. (cache'.fresh /\ ~changed') => FALSE
      BY <2>2 DEF HostChanges
    <3>3. QED
      BY <3>1, <3>2 DEF CacheInv, CacheExact
  <2>3. QED
    BY <1>6, <2>1, <2>2 DEF Environment
<1>7. QED
  BY <1>1, <1>2, <1>3, <1>4, <1>5, <1>6, NameCallExact DEF IoNext, ioVars, FilesNext

\* As long as nobody else works on the directory, the cached listing is the
\* directory's, whatever this process opens, makes, moves, copies or removes
\* (invalidation in vfs_hostdir.rs:150).
THEOREM CacheSafe == IoSpec => []CacheExact
<1>1. IoInit => CacheInv
  <2> SUFFICES ASSUME IoInit PROVE CacheInv
    OBVIOUS
  <2>1. disk = [n \in Names |-> 0] /\ cache = NoListing
    BY DEF IoInit, FilesInit, HostDirInit
  <2>2. ~cache.fresh
    BY <2>1 DEF NoListing
  <2>3. QED
    BY <2>1, <2>2 DEF CacheInv, CacheExact
<1>2. CacheInv => CacheExact
  BY DEF CacheInv
<1>3. QED
  BY <1>1, <1>2, CacheStep, PTL DEF IoSpec

-----------------------------------------------------------------------------
(* The current directory.                                                  *)

\* A set of numbers that is not empty has a least one: the inductions below
\* look at the least counterexample.
LEMMA LeastNat ==
  ASSUME NEW S, S \subseteq Nat, S # {}
  PROVE  \E m \in S : \A n \in S : m <= n
<1>1. PICK m \in S : \A n \in S : ~(<<n, m>> \in OpToRel(<, Nat))
  BY WFMin, NatLessThanWellFounded, Zenon
<1>2. \A n \in S : ~(n < m)
  <2> SUFFICES ASSUME NEW n \in S, n < m PROVE FALSE
    OBVIOUS
  <2>1. n \in Nat /\ m \in Nat
    OBVIOUS
  <2>2. <<n, m>> \in OpToRel(<, Nat)
    BY <2>1 DEF OpToRel
  <2>3. QED
    BY <1>1, <2>2
<1>3. QED
  BY <1>2

\* f[n] is the directory the first n components of a path lead to.
Along(f, path, k) == f = [n \in 0 .. k |-> IF n = 0 THEN <<>> ELSE Descend(f[n - 1], path[n])]

\* There are such directories: the recursive function of Walk is one.
LEMMA AlongExists ==
  ASSUME NEW path, NEW k \in Nat
  PROVE  \E f : Along(f, path, k)
<1> DEFINE Bad == {m \in Nat : ~\E f : Along(f, path, m)}
<1> SUFFICES ASSUME Bad # {} PROVE FALSE
  OBVIOUS
<1>1. PICK m \in Bad : \A n \in Bad : m <= n
  <2> Bad \subseteq Nat
    OBVIOUS
  <2> HIDE DEF Bad
  <2> QED
    BY LeastNat
<1>2. CASE m = 0
  <2> DEFINE f == [n \in 0 .. 0 |-> <<>>]
  <2>1. f = [n \in 0 .. 0 |-> IF n = 0 THEN <<>> ELSE Descend(f[n - 1], path[n])]
    OBVIOUS
  <2>2. Along(f, path, 0)
    BY <2>1 DEF Along
  <2> QED
    BY <1>2, <2>2
<1>3. CASE m # 0
  <2>1. m - 1 \in Nat /\ m - 1 \notin Bad
    BY <1>1, <1>3
  <2>2. PICK g : Along(g, path, m - 1)
    BY <2>1
  <2> DEFINE f == [n \in 0 .. m |-> IF n = m THEN Descend(g[m - 1], path[m]) ELSE g[n]]
  <2>3. \A n \in 0 .. m : f[n] = IF n = 0 THEN <<>> ELSE Descend(f[n - 1], path[n])
    <3> SUFFICES ASSUME NEW n \in 0 .. m PROVE f[n] = IF n = 0 THEN <<>> ELSE Descend(f[n - 1], path[n])
      OBVIOUS
    <3>0. \A i \in 0 .. m - 1 : g[i] = IF i = 0 THEN <<>> ELSE Descend(g[i - 1], path[i])
      BY <2>2, <2>1 DEF Along
    <3>1. CASE n = m
      <4>1. f[n] = Descend(g[m - 1], path[m])
        BY <3>1
      <4>2. f[m - 1] = g[m - 1]
        BY <2>1, <1>3
      <4>3. QED
        BY <4>1, <4>2, <3>1, <1>3
    <3>2. CASE n # m
      <4>1. f[n] = g[n] /\ n \in 0 .. m - 1
        BY <3>2
      <4>2. n # 0 => f[n - 1] = g[n - 1]
        BY <4>1
      <4>3. QED
        BY <4>1, <4>2, <3>0
    <3>3. QED
      BY <3>1, <3>2
  <2>4. Along(f, path, m)
    <3>1. f = [n \in 0 .. m |-> f[n]]
      OBVIOUS
    <3>2. QED
      BY <2>3, <3>1, Zenon DEF Along
  <2>5. QED
    BY <2>4
<1>4. QED
  BY <1>2, <1>3

\* Walk is the last of the directories along its path.
LEMMA WalkAlong ==
  ASSUME NEW path, Len(path) \in Nat
  PROVE  \E f : Along(f, path, Len(path)) /\ Walk(path) = f[Len(path)]
<1> DEFINE after == CHOOSE f : f = [n \in 0 .. Len(path) |-> IF n = 0 THEN <<>> ELSE Descend(f[n - 1], path[n])]
<1>1. \E f : f = [n \in 0 .. Len(path) |-> IF n = 0 THEN <<>> ELSE Descend(f[n - 1], path[n])]
  BY AlongExists DEF Along
<1>2. after = [n \in 0 .. Len(path) |-> IF n = 0 THEN <<>> ELSE Descend(after[n - 1], path[n])]
  BY <1>1, Zenon
<1>3. Along(after, path, Len(path))
  BY <1>2, Zenon DEF Along
<1>4. Walk(path) = after[Len(path)]
  BY Zenon DEF Walk
<1>5. QED
  BY <1>3, <1>4, Zenon

\* Two paths that begin alike lead through the same directories.
LEMMA AlongUnique ==
  ASSUME NEW p, NEW q, NEW k \in Nat, NEW m \in Nat, k <= m,
         NEW f, NEW g, Along(f, p, k), Along(g, q, m),
         \A i \in 1 .. k : p[i] = q[i]
  PROVE  \A n \in 0 .. k : f[n] = g[n]
<1> DEFINE Bad == {n \in Nat : n <= k /\ f[n] # g[n]}
<1> SUFFICES ASSUME Bad # {} PROVE FALSE
  OBVIOUS
<1>1. PICK n \in Bad : \A i \in Bad : n <= i
  <2> Bad \subseteq Nat
    OBVIOUS
  <2> HIDE DEF Bad
  <2> QED
    BY LeastNat
<1>2. /\ f[n] = IF n = 0 THEN <<>> ELSE Descend(f[n - 1], p[n])
      /\ g[n] = IF n = 0 THEN <<>> ELSE Descend(g[n - 1], q[n])
  BY DEF Along
<1>3. n # 0 => f[n - 1] = g[n - 1] /\ p[n] = q[n]
  BY <1>1
<1>4. QED
  BY <1>2, <1>3

\* One more component is one more step from where the path led.
LEMMA WalkAppend ==
  ASSUME NEW S, NEW a \in Seq(S), NEW c \in S
  PROVE  Walk(<<>>) = <<>> /\ Walk(Append(a, c)) = Descend(Walk(a), c)
<1> DEFINE b == Append(a, c)
<1>1. /\ Len(a) \in Nat /\ Len(b) = Len(a) + 1 /\ b[Len(a) + 1] = c
      /\ \A i \in 1 .. Len(a) : a[i] = b[i]
  BY AppendProperties
<1> HIDE DEF b
<1>2. PICK f : Along(f, a, Len(a)) /\ Walk(a) = f[Len(a)]
  BY <1>1, WalkAlong
<1>3. PICK g : Along(g, b, Len(a) + 1) /\ Walk(b) = g[Len(a) + 1]
  BY <1>1, WalkAlong
<1>4. f[Len(a)] = g[Len(a)]
  <2>1. Len(a) + 1 \in Nat /\ Len(a) <= Len(a) + 1 /\ Len(a) \in 0 .. Len(a)
    BY <1>1
  <2>2. \A n \in 0 .. Len(a) : f[n] = g[n]
    <3>1. \A i \in 1 .. Len(a) : a[i] = b[i]
      BY <1>1
    <3>2. Along(f, a, Len(a)) /\ Along(g, b, Len(a) + 1)
      BY <1>2, <1>3
    <3>3. QED
      BY <1>1, <2>1, <3>1, <3>2, AlongUnique, SMTT(30)
  <2>3. QED
    BY <2>1, <2>2
<1>5. g[Len(a) + 1] = Descend(g[Len(a)], b[Len(a) + 1])
  BY <1>1, <1>3 DEF Along
<1>6. Walk(<<>>) = <<>>
  <2>1. Len(<<>>) = 0
    BY EmptySeq
  <2>2. PICK e : Along(e, <<>>, 0) /\ Walk(<<>>) = e[0]
    BY <2>1, WalkAlong
  <2>3. QED
    BY <2>2 DEF Along
<1>7. QED
  BY <1>1, <1>2, <1>3, <1>4, <1>5, <1>6 DEF b

\* A path leads to a directory, in whose name neither `.' nor `..' is left.
LEMMA WalkType ==
  ASSUME NEW path \in Seq(Components \cup {".", ".."})
  PROVE  Walk(path) \in Seq(Components)
<1> DEFINE S == Components \cup {".", ".."}
           Bad == {n \in Nat : \E p \in Seq(S) : Len(p) = n /\ Walk(p) \notin Seq(Components)}
<1> SUFFICES ASSUME Bad # {} PROVE FALSE
  BY LenProperties
<1>1. PICK n \in Bad : \A i \in Bad : n <= i
  <2> Bad \subseteq Nat
    OBVIOUS
  <2> HIDE DEF Bad
  <2> QED
    BY LeastNat
<1>2. PICK p \in Seq(S) : Len(p) = n /\ Walk(p) \notin Seq(Components)
  OBVIOUS
<1>3. CASE p = <<>>
  BY <1>2, <1>3, WalkAppend
<1>4. CASE p # <<>>
  <2>1. PICK q \in Seq(S), c \in S : p = Append(q, c)
    BY <1>4, SequenceEmptyOrAppend
  <2>2. Len(q) = n - 1 /\ n - 1 \in Nat
    BY <1>2, <2>1, AppendProperties, LenProperties
  <2>3. Walk(q) \in Seq(Components)
    BY <1>1, <2>2
  <2>4. Walk(p) = Descend(Walk(q), c)
    BY <2>1, WalkAppend
  <2>5. PICK w \in Seq(Components) : w = Walk(q)
    BY <2>3
  <2>6. w # <<>> => Front(w) \in Seq(Components)
    BY DEF Front
  <2>7. Descend(w, c) \in Seq(Components)
    BY <2>6 DEF Descend
  <2>8. QED
    BY <1>2, <2>4, <2>5, <2>7
<1>5. QED
  BY <1>3, <1>4

\* A name without them leads to itself.
LEMMA WalkPlain ==
  ASSUME {".", ".."} \cap Components = {}, NEW dir \in Seq(Components)
  PROVE  Walk(dir) = dir
<1> DEFINE Bad == {n \in Nat : \E p \in Seq(Components) : Len(p) = n /\ Walk(p) # p}
<1> SUFFICES ASSUME Bad # {} PROVE FALSE
  BY LenProperties
<1>1. PICK n \in Bad : \A i \in Bad : n <= i
  <2> Bad \subseteq Nat
    OBVIOUS
  <2> HIDE DEF Bad
  <2> QED
    BY LeastNat
<1>2. PICK p \in Seq(Components) : Len(p) = n /\ Walk(p) # p
  OBVIOUS
<1>3. CASE p = <<>>
  BY <1>2, <1>3, WalkAppend
<1>4. CASE p # <<>>
  <2>1. PICK q \in Seq(Components), c \in Components : p = Append(q, c)
    BY <1>4, SequenceEmptyOrAppend
  <2>2. Len(q) = n - 1 /\ n - 1 \in Nat
    BY <1>2, <2>1, AppendProperties, LenProperties
  <2>3. Walk(q) = q
    BY <1>1, <2>2
  <2>4. Walk(p) = Descend(q, c)
    BY <2>1, <2>3, WalkAppend
  <2>5. QED
    BY <1>2, <2>1, <2>4 DEF Descend
<1>5. QED
  BY <1>3, <1>4

\* What a path leads to depends on its first part only through where that leads:
\* resolving late, as DriveManager does, is resolving call by call.
LEMMA WalkOn ==
  ASSUME {".", ".."} \cap Components = {},
         NEW path \in Seq(Components \cup {".", ".."}),
         NEW more \in Seq(Components \cup {".", ".."})
  PROVE  Walk(path \o more) = Walk(Walk(path) \o more)
<1> DEFINE S == Components \cup {".", ".."}
           w == Walk(path)
           Bad == {n \in Nat : \E p \in Seq(S) : Len(p) = n /\ Walk(path \o p) # Walk(w \o p)}
<1> SUFFICES ASSUME Bad # {} PROVE FALSE
  BY LenProperties
<1>1. PICK n \in Bad : \A i \in Bad : n <= i
  <2> Bad \subseteq Nat
    OBVIOUS
  <2> HIDE DEF Bad
  <2> QED
    BY LeastNat
<1>2. PICK p \in Seq(S) : Len(p) = n /\ Walk(path \o p) # Walk(w \o p)
  OBVIOUS
<1>w. w \in Seq(Components) /\ w \in Seq(S) /\ Walk(w) = w
  <2>1. w \in Seq(Components)
    BY WalkType
  <2>2. Components \subseteq S
    OBVIOUS
  <2>3. w \in Seq(S)
    BY <2>1, <2>2, SeqMonotonic
  <2>4. Walk(w) = w
    <3> HIDE DEF w
    <3> QED
      BY <2>1, WalkPlain
  <2>5. QED
    BY <2>1, <2>3, <2>4
<1>3. CASE p = <<>>
  <2>1. path \o p = path
    BY <1>3
  <2>2. w \o p = w
    <3> HIDE DEF w
    <3> QED
      BY <1>3, <1>w
  <2>3. QED
    BY <1>2, <1>w, <2>1, <2>2
<1>4. CASE p # <<>>
  <2>1. PICK q \in Seq(S), c \in S : p = Append(q, c)
    BY <1>4, SequenceEmptyOrAppend
  <2>2. Len(q) = n - 1 /\ n - 1 \in Nat
    BY <1>2, <2>1, AppendProperties, LenProperties
  <2>3. Walk(path \o q) = Walk(w \o q)
    BY <1>1, <2>2
  <2>4. path \o q \in Seq(S) /\ path \o p = Append(path \o q, c)
    BY <2>1
  <2>5. w \o q \in Seq(S) /\ w \o p = Append(w \o q, c)
    <3> HIDE DEF w
    <3> QED
      BY <1>w, <2>1
  <2>6. Walk(path \o p) = Descend(Walk(path \o q), c)
    BY <2>4, WalkAppend
  <2>7. Walk(w \o p) = Descend(Walk(w \o q), c)
    BY <2>5, WalkAppend
  <2>8. QED
    BY <1>2, <2>3, <2>6, <2>7
<1>5. QED
  BY <1>3, <1>4

\* The copy that names are looked up with is a list of components.
DirTypes == current_dirs \in Seq(Components \cup {".", ".."})

\* The inductive invariant.
DirInv == DirTypes /\ OneDirectory

\* Both calls keep the invariant.
LEMMA DirectoriesStep ==
  ASSUME DirInv, DirectoriesNext
  PROVE  DirInv'
<1>1. PICK p \in Paths : dos_set_current_dir(p) \/ cmd_cd(p)
  BY DEF DirectoriesNext
<1>2. PICK c \in Seq(Components \cup {".", ".."}) : c = p.components
  <2>1. p.components \in BoundedSeq(Components \cup {".", ".."}, 2)
    BY DEF Paths
  <2>2. PICK m \in 0 .. 2 : p.components \in [1 .. m -> Components \cup {".", ".."}]
    BY <2>1 DEF BoundedSeq, SeqOf
  <2>3. p.components \in Seq(Components \cup {".", ".."})
    BY <2>2, SeqDef
  <2>4. QED
    BY <2>3
<1>3. PICK d \in Seq(Components \cup {".", ".."}) : d = current_dirs
  BY DEF DirInv, DirTypes
<1>4. /\ current_dirs' = IF c = <<>> THEN d ELSE IF p.absolute THEN c ELSE d \o c
      /\ where' = IF c = <<>> THEN where ELSE Walk((IF p.absolute THEN <<>> ELSE where) \o c)
  BY <1>1, <1>2, <1>3 DEF dos_set_current_dir, cmd_cd, set_current_dir, resolve_path
<1>5. DirTypes'
  BY <1>4 DEF DirTypes
<1>6. NamesLead'
  <2>1. Walk(d) = where
    BY <1>3 DEF DirInv, OneDirectory, NamesLead
  <2>2. CASE c = <<>>
    BY <1>4, <2>1, <2>2 DEF NamesLead
  <2>3. CASE c # <<>> /\ p.absolute
    <3>1. <<>> \o c = c
      OBVIOUS
    <3>2. QED
      BY <1>4, <2>3, <3>1 DEF NamesLead
  <2>4. CASE c # <<>> /\ ~p.absolute
    <3>1. Walk(d \o c) = Walk(where \o c)
      BY <2>1, WalkOn, DirectoriesAssumption
    <3>2. current_dirs' = d \o c /\ where' = Walk(where \o c)
      BY <1>4, <2>4
    <3>3. QED
      BY <3>1, <3>2 DEF NamesLead
  <2>5. QED
    BY <2>2, <2>3, <2>4
<1>7. CASE cmd_cd(p)
  BY <1>5, <1>7, <1>6 DEF cmd_cd, DirInv, OneDirectory, SameDirectory
<1>8. CASE dos_set_current_dir(p)
  <2> SUFFICES ASSUME ~split' PROVE current_dir' = current_dirs'
    BY <1>5, <1>6 DEF DirInv, OneDirectory, SameDirectory
  <2>1. ~split /\ ~(p.drive /\ ~p.absolute) /\ ~(p.absolute /\ p.components = <<>>)
    BY <1>8 DEF dos_set_current_dir
  <2>2. current_dir = d
    BY <1>3, <2>1 DEF DirInv, OneDirectory, SameDirectory
  <2>3. current_dir' = IF p.drive \/ p.absolute THEN c ELSE d \o c
    BY <1>2, <1>8, <2>2 DEF dos_set_current_dir
  <2>4. CASE p.absolute
    BY <1>2, <1>4, <2>1, <2>3, <2>4
  <2>5. CASE ~p.absolute
    <3>1. current_dir' = d \o c
      BY <2>1, <2>3, <2>5
    <3>2. c = <<>> => d \o c = d
      OBVIOUS
    <3>3. QED
      BY <1>4, <2>5, <3>1, <3>2
  <2>6. QED
    BY <2>4, <2>5
<1>9. QED
  BY <1>1, <1>7, <1>8

\* There is one current directory, however many paths with `.' and `..' in them
\* were strung together: the components DriveManager keeps lead where the calls
\* led one after the other, and child processes start there, unless a path named
\* C: without a backslash or just the root (DriveManager::resolve_path,
\* dos_set_current_dir and the shell's CD).
THEOREM DirectoryIsOne == IoSpec => []OneDirectory
<1>1. IoInit => DirInv
  <2>1. Walk(<<>>) = <<>>
    <3>1. "." \in {"."} /\ <<>> \in Seq({"."})
      OBVIOUS
    <3>2. QED
      BY <3>1, WalkAppend
  <2>2. QED
    BY <2>1 DEF IoInit, DirectoriesInit, DirInv, DirTypes, OneDirectory, NamesLead, SameDirectory
<1>2. DirInv /\ [IoNext]_ioVars => DirInv'
  <2> SUFFICES ASSUME DirInv, [IoNext]_ioVars PROVE DirInv'
    OBVIOUS
  <2>1. CASE UNCHANGED dirVars
    BY <2>1 DEF dirVars, DirInv, DirTypes, OneDirectory, NamesLead, SameDirectory
  <2>2. QED
    BY <2>1, DirectoriesStep DEF IoNext, ioVars
<1>3. DirInv => OneDirectory
  BY DEF DirInv
<1>4. QED
  BY <1>1, <1>2, <1>3, PTL DEF IoSpec

-----------------------------------------------------------------------------
(* The console.                                                            *)

\* The shell reads the keyboard and writes the screen not only at its prompt
\* but from the moment it goes back to it.
ShellDefaults ==
  at \in {"interactive_loop", "read_line"} => output_sink = "Vio" /\ input_source = "Kbd"

\* The inductive invariant.
PutBackInv == TerminalRestored /\ ShellDefaults

\* Every step of the shell keeps the invariant.
LEMMA ShellPutsBack ==
  ASSUME PutBackInv, ShellNext
  PROVE  PutBackInv'
<1> USE DEF PutBackInv, TerminalRestored, ShellDefaults, startVars, shellVars, endVars, editVars
<1>1. CASE run_builtin_cmd
  BY <1>1 DEF run_builtin_cmd, Guest
<1>2. CASE interactive_loop \/ ReadLineShutDown
  <2>1. UNCHANGED <<output_sink, input_source>> /\ UNCHANGED program
    BY <1>2 DEF interactive_loop, ReadLineShutDown
  <2>2. output_sink = "Vio" /\ input_source = "Kbd"
    BY <1>2 DEF interactive_loop, ReadLineShutDown
  <2>3. over' => program # "guest"
    <3>1. CASE LeaveShell
      BY <3>1 DEF LeaveShell
    <3>2. CASE ~over /\ UNCHANGED over
      BY <3>2
    <3>3. QED
      BY <1>2, <3>1, <3>2 DEF interactive_loop, ReadLineShutDown
  <2>4. QED
    BY <2>1, <2>2, <2>3
<1>3. CASE read_line
  BY <1>3 DEF read_line
<1>4. CASE execute_line
  BY <1>4 DEF execute_line, Redirected, Took
<1>5. CASE execute_segment
  BY <1>5 DEF execute_segment, NextSegment
<1>6. CASE ChildWrites \/ ChildEnds
  BY <1>6 DEF ChildWrites, ChildEnds, NextSegment
<1>7. CASE RestoreDefaults
  BY <1>7 DEF RestoreDefaults, LeaveShell
<1>8. QED
  BY <1>1, <1>2, <1>3, <1>4, <1>5, <1>6, <1>7 DEF ShellNext

\* Every other step of the console keeps the invariant.
LEMMA ConsolePutsBack ==
  ASSUME PutBackInv, VioNext \/ KbdNext \/ RequestExit \/ run_text_loop \/ setup_and_run_cli
  PROVE  PutBackInv'
<1> USE DEF PutBackInv, TerminalRestored, ShellDefaults, startVars, shellVars, endVars
<1>1. ASSUME NEW s, Shows(s) PROVE PutBackInv'
  BY <1>1 DEF Shows
<1>2. CASE VioNext
  BY <1>1, <1>2 DEF VioNext, vio_wrt_tty, vio_set_cur_pos, vio_scroll_up, vio_scroll_dn,
                    vio_wrt_char_str_att, vio_wrt_n_cell, vio_set_mode
<1>3. ASSUME NEW call \in {"KbdCharIn", "KbdStringIn", "DosRead"}, Begin(call) PROVE PutBackInv'
  BY <1>3 DEF Begin, Guest
<1>4. CASE kbd_char_in \/ kbd_string_in \/ dos_read_stdin
  BY <1>3, <1>4 DEF kbd_char_in, kbd_string_in, dos_read_stdin
<1>5. CASE KeyDown \/ ReadShutDown \/ CharInReturns
  BY <1>5 DEF KeyDown, ReadShutDown, CharInReturns
<1>6. CASE StringInKey
  BY <1>6 DEF StringInKey
<1>7. CASE ReadStdinKey
  BY <1>7 DEF ReadStdinKey, Enter, Backspace, Character
<1>8. CASE RequestExit \/ run_text_loop \/ setup_and_run_cli
  BY <1>8 DEF RequestExit, run_text_loop, setup_and_run_cli, disable_raw_mode
<1>9. QED
  BY <1>2, <1>4, <1>5, <1>6, <1>7, <1>8 DEF KbdNext

\* What is changed for a while is put back: a guest program that ends leaves the
\* terminal as it found it, and at its prompt the shell reads the keyboard and
\* writes the screen, for any screens, lines and history (disable_raw_mode,
\* execute_pipeline).
THEOREM ConsoleSafe == IoSpec => []PutBack
<1>1. IoInit => PutBackInv
  BY DEF IoInit, ConsoleInit, PutBackInv, TerminalRestored, ShellDefaults
<1>2. PutBackInv /\ [IoNext]_ioVars => PutBackInv'
  <2> SUFFICES ASSUME PutBackInv, [IoNext]_ioVars PROVE PutBackInv'
    OBVIOUS
  <2>1. CASE UNCHANGED consoleVars
    BY <2>1 DEF consoleVars, PutBackInv, TerminalRestored, ShellDefaults, startVars, shellVars, endVars
  <2>2. CASE ConsoleNext
    BY <2>2, ShellPutsBack, ConsolePutsBack DEF ConsoleNext
  <2>3. QED
    BY <2>1, <2>2 DEF IoNext, ioVars
<1>3. PutBackInv => PutBack
  BY DEF PutBackInv, ShellDefaults, PutBack, SinksRestored
<1>4. QED
  BY <1>1, <1>2, <1>3, PTL DEF IoSpec

-----------------------------------------------------------------------------
(* The screen, operation by operation (module Vio).                        *)

\* Row and column of a place.
LEMMA DivFacts ==
  ASSUME NEW k \in Nat, NEW c \in Nat \ {0}
  PROVE  /\ k \div c \in Nat /\ k % c \in 0 .. c - 1
         /\ k = c * (k \div c) + (k % c)
OBVIOUS

\* Multiplication is monotonic.
LEMMA Times == \A a, b, c \in Nat : a <= b => a * c <= b * c
OBVIOUS

\* Every row and column has a cell.
LEMMA AtRange ==
  ASSUME NEW R \in Nat, NEW C \in Nat, NEW r \in 0 .. R - 1, NEW c \in 0 .. C - 1
  PROVE  r * C + c + 1 \in 1 .. R * C
<1>1. r * C \in Nat /\ R * C \in Nat /\ (r + 1) * C = r * C + C
  OBVIOUS
<1>2. (r + 1) * C <= R * C
  BY Times
<1>3. QED
  BY <1>1, <1>2

\* The cell n rows below.
LEMMA RowBelow ==
  ASSUME NEW R \in Nat \ {0}, NEW C \in Nat \ {0}, NEW i \in 1 .. R * C, NEW n \in Nat,
         (i - 1) \div C + n < R
  PROVE  i + n * C \in 1 .. R * C
<1>1. PICK q \in Nat, m \in 0 .. C - 1 : q = (i - 1) \div C /\ i - 1 = C * q + m
  BY DivFacts
<1>2. (q + n) * C + m + 1 \in 1 .. R * C
  BY <1>1, AtRange
<1>3. (q + n) * C = C * q + n * C
  OBVIOUS
<1>4. C * q \in Nat /\ n * C \in Nat
  OBVIOUS
<1>5. QED
  BY <1>1, <1>2, <1>3, <1>4

\* The cell n rows above.
LEMMA RowAbove ==
  ASSUME NEW R \in Nat \ {0}, NEW C \in Nat \ {0}, NEW i \in 1 .. R * C, NEW n \in Nat,
         n <= (i - 1) \div C
  PROVE  i - n * C \in 1 .. R * C
<1>1. PICK q \in Nat, m \in 0 .. C - 1 : q = (i - 1) \div C /\ i - 1 = C * q + m
  BY DivFacts
<1>2. n * C <= q * C
  BY <1>1, Times
<1>3. q * C = C * q /\ C * q \in Nat /\ n * C \in Nat /\ R * C \in Nat
  OBVIOUS
<1>4. QED
  BY <1>1, <1>2, <1>3

\* A cell shows what its byte decodes to.
Decodes(c) == c.ch = decode_vio_byte(c.raw)

\* A screen with a cell that decodes for every place, wherever its cursor is.
Decoded(s) ==
  /\ s = [rows |-> s.rows, cols |-> s.cols, row |-> s.row, col |-> s.col, cells |-> s.cells]
  /\ s.rows \in Nat \ {0} /\ s.cols \in Nat \ {0} /\ s.row \in Nat /\ s.col \in Nat
  /\ DOMAIN s.cells = 1 .. s.rows * s.cols
  /\ \A i \in 1 .. s.rows * s.cols : Decodes(s.cells[i])

\* The cursor is on it, too.
ScreenOK(s) == Decoded(s) /\ s.row < s.rows /\ s.col < s.cols

\* A cell is made from its byte.
LEMMA CellDecodes == \A b : Decodes(Cell(b))
BY DEF Decodes, Cell

\* t has the size of s.
SameSize(t, s) == t.rows = s.rows /\ t.cols = s.cols

\* Other cells in a screen.
LEMMA WithCells ==
  ASSUME NEW s, Decoded(s), NEW cells,
         DOMAIN cells = 1 .. s.rows * s.cols,
         \A i \in 1 .. s.rows * s.cols : Decodes(cells[i])
  PROVE  LET t == [s EXCEPT !.cells = cells]
         IN  Decoded(t) /\ SameSize(t, s) /\ t.row = s.row /\ t.col = s.col
<1> DEFINE t == [s EXCEPT !.cells = cells]
<1>1. PICK R \in Nat \ {0}, C \in Nat \ {0}, r \in Nat, c \in Nat :
         s = [rows |-> R, cols |-> C, row |-> r, col |-> c, cells |-> s.cells]
  BY DEF Decoded
<1>2. t = [rows |-> R, cols |-> C, row |-> r, col |-> c, cells |-> cells]
  BY <1>1
<1> HIDE DEF t
<1>3. Decoded(t) /\ SameSize(t, s) /\ t.row = s.row /\ t.col = s.col
  BY <1>1, <1>2 DEF Decoded, SameSize
<1>4. QED
  BY <1>3 DEF t

\* Another row for the cursor.
LEMMA WithRow ==
  ASSUME NEW s, Decoded(s), NEW row \in Nat
  PROVE  LET t == [s EXCEPT !.row = row]
         IN  Decoded(t) /\ SameSize(t, s) /\ t.row = row /\ t.col = s.col
<1> DEFINE t == [s EXCEPT !.row = row]
<1>1. PICK R \in Nat \ {0}, C \in Nat \ {0}, r \in Nat, c \in Nat :
         s = [rows |-> R, cols |-> C, row |-> r, col |-> c, cells |-> s.cells]
  BY DEF Decoded
<1>2. t = [rows |-> R, cols |-> C, row |-> row, col |-> c, cells |-> s.cells]
  BY <1>1
<1> HIDE DEF t
<1>3. Decoded(t) /\ SameSize(t, s) /\ t.row = row /\ t.col = s.col
  BY <1>1, <1>2 DEF Decoded, SameSize
<1>4. QED
  BY <1>3 DEF t

\* Another column.
LEMMA WithCol ==
  ASSUME NEW s, Decoded(s), NEW col \in Nat
  PROVE  LET t == [s EXCEPT !.col = col]
         IN  Decoded(t) /\ SameSize(t, s) /\ t.row = s.row /\ t.col = col
<1> DEFINE t == [s EXCEPT !.col = col]
<1>1. PICK R \in Nat \ {0}, C \in Nat \ {0}, r \in Nat, c \in Nat :
         s = [rows |-> R, cols |-> C, row |-> r, col |-> c, cells |-> s.cells]
  BY DEF Decoded
<1>2. t = [rows |-> R, cols |-> C, row |-> r, col |-> col, cells |-> s.cells]
  BY <1>1
<1> HIDE DEF t
<1>3. Decoded(t) /\ SameSize(t, s) /\ t.row = s.row /\ t.col = col
  BY <1>1, <1>2 DEF Decoded, SameSize
<1>4. QED
  BY <1>3 DEF t

\* Another place.
LEMMA WithCursor ==
  ASSUME NEW s, Decoded(s), NEW row \in Nat, NEW col \in Nat
  PROVE  LET t == [s EXCEPT !.row = row, !.col = col]
         IN  /\ Decoded(t) /\ SameSize(t, s) /\ t.row = row /\ t.col = col
             /\ [s EXCEPT !.col = col, !.row = row] = t
<1> DEFINE t == [s EXCEPT !.row = row]
           u == [t EXCEPT !.col = col]
           v == [s EXCEPT !.col = col]
           w == [v EXCEPT !.row = row]
<1>1. PICK R \in Nat \ {0}, C \in Nat \ {0}, r \in Nat, c \in Nat :
         s = [rows |-> R, cols |-> C, row |-> r, col |-> c, cells |-> s.cells]
  BY DEF Decoded
<1>2. /\ t = [rows |-> R, cols |-> C, row |-> row, col |-> c, cells |-> s.cells]
      /\ v = [rows |-> R, cols |-> C, row |-> r, col |-> col, cells |-> s.cells]
  BY <1>1
<1>3. [s EXCEPT !.row = row, !.col = col] = u /\ [s EXCEPT !.col = col, !.row = row] = w
  BY <1>1
<1> HIDE DEF t, v
<1>4. /\ u = [rows |-> R, cols |-> C, row |-> row, col |-> col, cells |-> s.cells]
      /\ w = [rows |-> R, cols |-> C, row |-> row, col |-> col, cells |-> s.cells]
  BY <1>2
<1> HIDE DEF u, w
<1>5. Decoded(u) /\ SameSize(u, s) /\ u.row = row /\ u.col = col
  BY <1>1, <1>4 DEF Decoded, SameSize
<1>6. QED
  BY <1>3, <1>4, <1>5, Zenon

\* Scrolling up takes cells from the rows below, all of them in the region.
LEMMA ScrollUpDecodes ==
  ASSUME NEW s, Decoded(s), NEW top \in Nat, NEW bottom \in Nat, NEW lines \in Nat, NEW fill
  PROVE  LET t == scroll_up(s, top, bottom, lines, fill)
         IN  Decoded(t) /\ SameSize(t, s) /\ t.row = s.row /\ t.col = s.col
<1> DEFINE n == IF lines = 0 THEN bottom - top + 1 ELSE Least(lines, bottom - top + 1)
           cells == [i \in DOMAIN s.cells |->
              CASE Row(s, i) < top \/ Row(s, i) > bottom -> s.cells[i]
                [] Row(s, i) \in top .. bottom /\ Row(s, i) + n <= bottom -> Moved(s, i, i + n * s.cols)
                [] OTHER -> Cell(fill)]
<1>1. CASE top > bottom \/ bottom >= s.rows
  BY <1>1 DEF scroll_up, SameSize
<1>2. CASE ~(top > bottom \/ bottom >= s.rows)
  <2>1. n \in Nat
    BY <1>2 DEF Least
  <2>2. scroll_up(s, top, bottom, lines, fill) = [s EXCEPT !.cells = cells]
    BY <1>2 DEF scroll_up
  <2>3. DOMAIN cells = 1 .. s.rows * s.cols
    BY DEF Decoded
  <2>4. ASSUME NEW i \in 1 .. s.rows * s.cols PROVE Decodes(cells[i])
    <3>1. PICK q \in Nat : q = Row(s, i)
      <4>1. s.rows * s.cols \in Nat /\ i - 1 \in Nat /\ s.cols \in Nat \ {0}
        BY DEF Decoded
      <4>2. QED
        BY <4>1, DivFacts DEF Row
    <3>2. cells[i] = CASE q < top \/ q > bottom -> s.cells[i]
                       [] q \in top .. bottom /\ q + n <= bottom -> s.cells[i + n * s.cols]
                       [] OTHER -> Cell(fill)
      BY <3>1 DEF Decoded, Moved
    <3>3. CASE q < top \/ q > bottom
      BY <3>2, <3>3 DEF Decoded
    <3>4. CASE q \in top .. bottom /\ q + n <= bottom
      <4>1. i + n * s.cols \in 1 .. s.rows * s.cols
        <5>1. (i - 1) \div s.cols + n < s.rows
          BY <1>2, <2>1, <3>1, <3>4 DEF Row, Decoded
        <5> HIDE DEF n
        <5>2. QED
          BY <2>1, <5>1, RowBelow DEF Decoded
      <4>2. cells[i] = s.cells[i + n * s.cols]
        <5> HIDE DEF cells, n
        <5> QED
          BY <3>2, <3>4
      <4>3. QED
        BY <4>1, <4>2 DEF Decoded
    <3>5. CASE ~(q < top \/ q > bottom) /\ ~(q \in top .. bottom /\ q + n <= bottom)
      <4>1. cells[i] = Cell(fill)
        <5> HIDE DEF cells, n
        <5> QED
          BY <3>2, <3>5
      <4>2. QED
        BY <4>1, CellDecodes
    <3>6. QED
      BY <3>3, <3>4, <3>5
  <2> HIDE DEF cells, n
  <2>5. LET t == [s EXCEPT !.cells = cells]
        IN  Decoded(t) /\ SameSize(t, s) /\ t.row = s.row /\ t.col = s.col
    BY <2>3, <2>4, WithCells
  <2>6. QED
    BY <2>2, <2>5, Zenon
<1>3. QED
  BY <1>1, <1>2
\* Scrolling down takes them from the rows above.
LEMMA ScrollDownDecodes ==
  ASSUME NEW s, Decoded(s), NEW top \in Nat, NEW bottom \in Nat, NEW lines \in Nat, NEW fill
  PROVE  LET t == scroll_down(s, top, bottom, lines, fill)
         IN  Decoded(t) /\ SameSize(t, s) /\ t.row = s.row /\ t.col = s.col
<1> DEFINE n == IF lines = 0 THEN bottom - top + 1 ELSE Least(lines, bottom - top + 1)
           cells == [i \in DOMAIN s.cells |->
              CASE Row(s, i) < top \/ Row(s, i) > bottom -> s.cells[i]
                [] Row(s, i) \in top .. bottom /\ Row(s, i) >= top + n -> Moved(s, i, i - n * s.cols)
                [] OTHER -> Cell(fill)]
<1>1. CASE top > bottom \/ bottom >= s.rows
  BY <1>1 DEF scroll_down, SameSize
<1>2. CASE ~(top > bottom \/ bottom >= s.rows)
  <2>1. n \in Nat
    BY <1>2 DEF Least
  <2>2. scroll_down(s, top, bottom, lines, fill) = [s EXCEPT !.cells = cells]
    BY <1>2 DEF scroll_down
  <2>3. DOMAIN cells = 1 .. s.rows * s.cols
    BY DEF Decoded
  <2>4. ASSUME NEW i \in 1 .. s.rows * s.cols PROVE Decodes(cells[i])
    <3>1. PICK q \in Nat : q = Row(s, i)
      <4>1. s.rows * s.cols \in Nat /\ i - 1 \in Nat /\ s.cols \in Nat \ {0}
        BY DEF Decoded
      <4>2. QED
        BY <4>1, DivFacts DEF Row
    <3>2. cells[i] = CASE q < top \/ q > bottom -> s.cells[i]
                       [] q \in top .. bottom /\ q >= top + n -> s.cells[i - n * s.cols]
                       [] OTHER -> Cell(fill)
      BY <3>1 DEF Decoded, Moved
    <3>3. CASE q < top \/ q > bottom
      BY <3>2, <3>3 DEF Decoded
    <3>4. CASE q \in top .. bottom /\ q >= top + n
      <4>1. i - n * s.cols \in 1 .. s.rows * s.cols
        <5>1. n <= (i - 1) \div s.cols
          BY <1>2, <2>1, <3>1, <3>4 DEF Row, Decoded
        <5> HIDE DEF n
        <5>2. QED
          BY <2>1, <5>1, RowAbove DEF Decoded
      <4>2. cells[i] = s.cells[i - n * s.cols]
        <5> HIDE DEF cells, n
        <5> QED
          BY <3>2, <3>4
      <4>3. QED
        BY <4>1, <4>2 DEF Decoded
    <3>5. CASE ~(q < top \/ q > bottom) /\ ~(q \in top .. bottom /\ q >= top + n)
      <4>1. cells[i] = Cell(fill)
        <5> HIDE DEF cells, n
        <5> QED
          BY <3>2, <3>5
      <4>2. QED
        BY <4>1, CellDecodes
    <3>6. QED
      BY <3>3, <3>4, <3>5
  <2> HIDE DEF cells, n
  <2>5. LET t == [s EXCEPT !.cells = cells]
        IN  Decoded(t) /\ SameSize(t, s) /\ t.row = s.row /\ t.col = s.col
    BY <2>3, <2>4, WithCells
  <2>6. QED
    BY <2>2, <2>5, Zenon
<1>3. QED
  BY <1>1, <1>2

\* A cursor below the screen comes back to it.
LEMMA ScrolledDecodes ==
  ASSUME NEW s, Decoded(s), s.row <= s.rows
  PROVE  LET t == Scrolled(s)
         IN  Decoded(t) /\ SameSize(t, s) /\ t.row < t.rows /\ t.col = s.col
<1>0. s.rows \in Nat \ {0} /\ s.row \in Nat /\ s.rows - 1 \in Nat
  BY DEF Decoded
<1>1. CASE s.row < s.rows
  BY <1>1 DEF Scrolled, SameSize
<1>2. CASE ~(s.row < s.rows)
  <2> DEFINE u == scroll_up(s, 0, s.rows - 1, 1, " ")
             t == [u EXCEPT !.row = s.rows - 1]
  <2>1. Decoded(u) /\ SameSize(u, s) /\ u.row = s.row /\ u.col = s.col
    <3> DEFINE fill == " "
    <3>1. PICK top \in Nat, bottom \in Nat, n \in Nat : top = 0 /\ bottom = s.rows - 1 /\ n = 1
      BY <1>0
    <3>2. u = scroll_up(s, top, bottom, n, fill)
      BY <3>1
    <3> HIDE DEF u, fill
    <3>3. LET v == scroll_up(s, top, bottom, n, fill)
          IN  Decoded(v) /\ SameSize(v, s) /\ v.row = s.row /\ v.col = s.col
      BY ScrollUpDecodes
    <3>4. QED
      BY <3>2, <3>3
  <2>2. Scrolled(s) = t
    BY <1>2 DEF Scrolled
  <2> HIDE DEF u
  <2>3. Decoded(t) /\ SameSize(t, u) /\ t.row = s.rows - 1 /\ t.col = u.col
    BY <1>0, <2>1, WithRow
  <2> HIDE DEF t
  <2>4. t.row < t.rows /\ SameSize(t, s)
    BY <1>0, <2>1, <2>3 DEF SameSize
  <2>5. QED
    BY <2>1, <2>2, <2>3, <2>4
<1>3. QED
  BY <1>1, <1>2

\* A printed character.
LEMMA PrintedDecodes ==
  ASSUME NEW s, ScreenOK(s), NEW b
  PROVE  ScreenOK(Printed(s, b)) /\ SameSize(Printed(s, b), s)
<1> DEFINE k == At(s, s.row, s.col)
           cells == [s.cells EXCEPT ![k] = Cell(b)]
           put == [s EXCEPT !.cells = cells]
<1>1. /\ s.rows \in Nat \ {0} /\ s.cols \in Nat \ {0} /\ s.row \in 0 .. s.rows - 1
      /\ s.col \in 0 .. s.cols - 1 /\ Decoded(s)
  BY DEF ScreenOK, Decoded
<1>2. DOMAIN cells = 1 .. s.rows * s.cols
  BY <1>1 DEF Decoded
<1>3. \A i \in 1 .. s.rows * s.cols : Decodes(cells[i])
  <2> SUFFICES ASSUME NEW i \in 1 .. s.rows * s.cols PROVE Decodes(cells[i])
    OBVIOUS
  <2>1. cells[i] = IF i = k THEN Cell(b) ELSE s.cells[i]
    BY <1>1 DEF Decoded
  <2>2. Decodes(s.cells[i])
    BY <1>1 DEF Decoded
  <2> HIDE DEF cells, k
  <2>3. QED
    BY <2>1, <2>2, CellDecodes
<1>4. Printed(s, b) = IF s.col + 1 < s.cols THEN [put EXCEPT !.col = s.col + 1]
                      ELSE Scrolled([put EXCEPT !.col = 0, !.row = s.row + 1])
  <2>1. s.row < s.rows /\ s.col < s.cols
    BY <1>1
  <2>2. [s EXCEPT !.cells[k] = Cell(b)] = put
    BY <1>1 DEF Decoded
  <2> HIDE DEF put
  <2>3. QED
    BY <2>1, <2>2, Zenon DEF Printed
<1> HIDE DEF cells
<1>5. Decoded(put) /\ SameSize(put, s) /\ put.row = s.row /\ put.col = s.col
  BY <1>1, <1>2, <1>3, WithCells
<1> HIDE DEF put
<1>6. CASE s.col + 1 < s.cols
  <2> DEFINE t == [put EXCEPT !.col = s.col + 1]
  <2>1. Decoded(t) /\ SameSize(t, put) /\ t.row = put.row /\ t.col = s.col + 1
    BY <1>1, <1>5, WithCol
  <2>2. Printed(s, b) = t
    BY <1>4, <1>6
  <2> HIDE DEF t
  <2>3. QED
    BY <1>1, <1>5, <1>6, <2>1, <2>2 DEF ScreenOK, SameSize
<1>7. CASE ~(s.col + 1 < s.cols)
  <2> DEFINE t == [put EXCEPT !.row = s.row + 1, !.col = 0]
  <2>1. /\ Decoded(t) /\ SameSize(t, put) /\ t.row = s.row + 1 /\ t.col = 0
        /\ [put EXCEPT !.col = 0, !.row = s.row + 1] = t
    <3>1. s.row + 1 \in Nat /\ 0 \in Nat
      BY <1>1
    <3>2. QED
      BY <1>5, <3>1, WithCursor, Zenon
  <2>2. Printed(s, b) = Scrolled(t)
    BY <1>4, <1>7, <2>1
  <2> HIDE DEF t
  <2>3. t.row <= t.rows
    BY <1>1, <1>5, <2>1 DEF SameSize
  <2>4. /\ Decoded(Scrolled(t)) /\ SameSize(Scrolled(t), t) /\ Scrolled(t).row < Scrolled(t).rows
        /\ Scrolled(t).col = t.col
    BY <2>1, <2>3, ScrolledDecodes
  <2>5. QED
    BY <1>1, <1>5, <2>1, <2>2, <2>4 DEF ScreenOK, SameSize
<1>8. QED
  BY <1>6, <1>7

\* A byte written in teletype mode.
LEMMA TtyByteDecodes ==
  ASSUME NEW s, ScreenOK(s), NEW b
  PROVE  ScreenOK(TtyByte(s, b)) /\ SameSize(TtyByte(s, b), s)
<1>1. /\ s.rows \in Nat \ {0} /\ s.cols \in Nat \ {0} /\ s.row \in 0 .. s.rows - 1
      /\ s.col \in 0 .. s.cols - 1 /\ Decoded(s)
  BY DEF ScreenOK, Decoded
<1>2. CASE b = "lf"
  <2> DEFINE t == [s EXCEPT !.row = s.row + 1, !.col = 0]
  <2>1. /\ Decoded(t) /\ SameSize(t, s) /\ t.row = s.row + 1 /\ t.col = 0
        /\ [s EXCEPT !.col = 0, !.row = s.row + 1] = t
    <3>1. s.row + 1 \in Nat /\ 0 \in Nat
      BY <1>1
    <3>2. QED
      BY <1>1, <3>1, WithCursor, Zenon
  <2>2. TtyByte(s, b) = Scrolled(t)
    BY <1>2 DEF TtyByte
  <2> HIDE DEF t
  <2>3. t.row <= t.rows
    BY <1>1, <2>1 DEF SameSize
  <2>4. /\ Decoded(Scrolled(t)) /\ SameSize(Scrolled(t), t) /\ Scrolled(t).row < Scrolled(t).rows
        /\ Scrolled(t).col = t.col
    BY <2>1, <2>3, ScrolledDecodes
  <2>5. QED
    BY <1>1, <2>1, <2>2, <2>4 DEF ScreenOK, SameSize
<1>3. ASSUME NEW c \in 0 .. s.cols - 1
      PROVE  LET t == [s EXCEPT !.col = c] IN ScreenOK(t) /\ SameSize(t, s)
  <2> DEFINE t == [s EXCEPT !.col = c]
  <2>1. Decoded(t) /\ SameSize(t, s) /\ t.row = s.row /\ t.col = c
    BY <1>1, WithCol
  <2> HIDE DEF t
  <2>2. ScreenOK(t) /\ SameSize(t, s)
    BY <1>1, <2>1 DEF ScreenOK, SameSize
  <2>3. QED
    BY <2>2 DEF t
<1>4. CASE b = "cr"
  <2>1. TtyByte(s, b) = [s EXCEPT !.col = 0] /\ 0 \in 0 .. s.cols - 1
    BY <1>1, <1>4 DEF TtyByte
  <2>2. QED
    BY <1>3, <2>1
<1>5. CASE b = "bs"
  <2> DEFINE c == IF s.col > 0 THEN s.col - 1 ELSE 0
  <2>1. TtyByte(s, b) = [s EXCEPT !.col = c] /\ c \in 0 .. s.cols - 1
    BY <1>1, <1>5 DEF TtyByte
  <2> HIDE DEF c
  <2>2. QED
    BY <1>3, <2>1
<1>6. CASE b \notin {"lf", "cr", "bs"}
  <2>1. TtyByte(s, b) = Printed(s, b)
    BY <1>6 DEF TtyByte
  <2>2. QED
    BY <2>1, PrintedDecodes
<1>7. QED
  BY <1>2, <1>4, <1>5, <1>6
\* f[n] is the screen after the first n bytes of a text.
Typed(f, s, text, k) == f = [n \in 0 .. k |-> IF n = 0 THEN s ELSE TtyByte(f[n - 1], text[n])]

\* There are such screens: the recursive function of write_tty is one.
LEMMA TypedExists ==
  ASSUME NEW s, NEW text, NEW k \in Nat
  PROVE  \E f : Typed(f, s, text, k)
<1> DEFINE Bad == {m \in Nat : ~\E f : Typed(f, s, text, m)}
<1> SUFFICES ASSUME Bad # {} PROVE FALSE
  OBVIOUS
<1>1. PICK m \in Bad : \A n \in Bad : m <= n
  <2> Bad \subseteq Nat
    OBVIOUS
  <2> HIDE DEF Bad
  <2> QED
    BY LeastNat
<1>2. CASE m = 0
  <2> DEFINE f == [n \in 0 .. 0 |-> s]
  <2>1. f = [n \in 0 .. 0 |-> IF n = 0 THEN s ELSE TtyByte(f[n - 1], text[n])]
    OBVIOUS
  <2>2. Typed(f, s, text, 0)
    BY <2>1 DEF Typed
  <2> QED
    BY <1>2, <2>2
<1>3. CASE m # 0
  <2>1. m - 1 \in Nat /\ m - 1 \notin Bad
    BY <1>1, <1>3
  <2>2. PICK g : Typed(g, s, text, m - 1)
    BY <2>1
  <2> DEFINE f == [n \in 0 .. m |-> IF n = m THEN TtyByte(g[m - 1], text[m]) ELSE g[n]]
  <2>3. \A n \in 0 .. m : f[n] = IF n = 0 THEN s ELSE TtyByte(f[n - 1], text[n])
    <3> SUFFICES ASSUME NEW n \in 0 .. m PROVE f[n] = IF n = 0 THEN s ELSE TtyByte(f[n - 1], text[n])
      OBVIOUS
    <3>0. \A i \in 0 .. m - 1 : g[i] = IF i = 0 THEN s ELSE TtyByte(g[i - 1], text[i])
      BY <2>2, <2>1 DEF Typed
    <3>1. CASE n = m
      <4>1. f[n] = TtyByte(g[m - 1], text[m])
        BY <3>1
      <4>2. f[m - 1] = g[m - 1]
        BY <2>1, <1>3
      <4>3. QED
        BY <4>1, <4>2, <3>1, <1>3
    <3>2. CASE n # m
      <4>1. f[n] = g[n] /\ n \in 0 .. m - 1
        BY <3>2
      <4>2. n # 0 => f[n - 1] = g[n - 1]
        BY <4>1
      <4>3. QED
        BY <4>1, <4>2, <3>0
    <3>3. QED
      BY <3>1, <3>2
  <2>4. Typed(f, s, text, m)
    <3>1. f = [n \in 0 .. m |-> f[n]]
      OBVIOUS
    <3>2. QED
      BY <2>3, <3>1, Zenon DEF Typed
  <2>5. QED
    BY <2>4
<1>4. QED
  BY <1>2, <1>3

\* write_tty shows the last of them.
LEMMA WriteTyped ==
  ASSUME NEW s, NEW text, Len(text) \in Nat
  PROVE  \E f : Typed(f, s, text, Len(text)) /\ write_tty(s, text) = f[Len(text)]
<1> DEFINE after == CHOOSE f : f = [n \in 0 .. Len(text) |-> IF n = 0 THEN s ELSE TtyByte(f[n - 1], text[n])]
<1>1. \E f : f = [n \in 0 .. Len(text) |-> IF n = 0 THEN s ELSE TtyByte(f[n - 1], text[n])]
  <2>1. \E f : Typed(f, s, text, Len(text))
    BY TypedExists
  <2>2. QED
    BY <2>1, Zenon DEF Typed
<1>2. after = [n \in 0 .. Len(text) |-> IF n = 0 THEN s ELSE TtyByte(after[n - 1], text[n])]
  BY <1>1, Zenon
<1>3. Typed(after, s, text, Len(text))
  BY <1>2, Zenon DEF Typed
<1>4. write_tty(s, text) = after[Len(text)]
  BY Zenon DEF write_tty
<1>5. QED
  BY <1>3, <1>4, Zenon

\* A text, byte by byte.
LEMMA WriteTtyDecodes ==
  ASSUME NEW s, ScreenOK(s), NEW text, Len(text) \in Nat
  PROVE  ScreenOK(write_tty(s, text)) /\ SameSize(write_tty(s, text), s)
<1>1. PICK f : Typed(f, s, text, Len(text)) /\ write_tty(s, text) = f[Len(text)]
  BY WriteTyped
<1> DEFINE Bad == {n \in Nat : n <= Len(text) /\ ~(ScreenOK(f[n]) /\ SameSize(f[n], s))}
<1>2. CASE Bad = {}
  BY <1>1, <1>2
<1>3. CASE Bad # {}
  <2>1. PICK n \in Bad : \A i \in Bad : n <= i
    <3> Bad \subseteq Nat
      OBVIOUS
    <3> HIDE DEF Bad
    <3> QED
      BY <1>3, LeastNat
  <2>2. f[n] = IF n = 0 THEN s ELSE TtyByte(f[n - 1], text[n])
    BY <1>1 DEF Typed
  <2>3. CASE n = 0
    BY <2>2, <2>3 DEF SameSize
  <2>4. CASE n # 0
    <3>1. ScreenOK(f[n - 1]) /\ SameSize(f[n - 1], s)
      BY <2>1, <2>4
    <3>2. ScreenOK(TtyByte(f[n - 1], text[n])) /\ SameSize(TtyByte(f[n - 1], text[n]), f[n - 1])
      BY <3>1, TtyByteDecodes
    <3>3. QED
      BY <2>2, <2>4, <3>1, <3>2 DEF SameSize
  <2>5. QED
    BY <2>3, <2>4
<1>4. QED
  BY <1>2, <1>3

\* Cells written in place.
LEMMA WriteNDecodes ==
  ASSUME NEW s, ScreenOK(s), NEW row, NEW col, NEW b, NEW n
  PROVE  LET t == write_n_cell(s, row, col, b, n) IN ScreenOK(t) /\ SameSize(t, s)
<1> DEFINE cells == [i \in DOMAIN s.cells |->
                       IF i \in Span(s, row, col, n) THEN Cell(b) ELSE s.cells[i]]
           t == [s EXCEPT !.cells = cells]
<1>1. /\ DOMAIN cells = 1 .. s.rows * s.cols
      /\ \A i \in 1 .. s.rows * s.cols : Decodes(cells[i])
  BY CellDecodes DEF ScreenOK, Decoded
<1>2. write_n_cell(s, row, col, b, n) = t
  BY DEF write_n_cell
<1> HIDE DEF cells
<1>3. Decoded(t) /\ SameSize(t, s) /\ t.row = s.row /\ t.col = s.col
  BY <1>1, WithCells DEF ScreenOK
<1> HIDE DEF t
<1>4. QED
  BY <1>2, <1>3 DEF ScreenOK, SameSize

\* A string written in place.
LEMMA WriteStrDecodes ==
  ASSUME NEW s, ScreenOK(s), NEW row, NEW col, NEW text
  PROVE  LET t == write_char_str_att(s, row, col, text) IN ScreenOK(t) /\ SameSize(t, s)
<1> DEFINE cells == [i \in DOMAIN s.cells |->
                       IF i \in Span(s, row, col, Len(text))
                       THEN Cell(text[i - At(s, row, col) + 1]) ELSE s.cells[i]]
           t == [s EXCEPT !.cells = cells]
<1>1. /\ DOMAIN cells = 1 .. s.rows * s.cols
      /\ \A i \in 1 .. s.rows * s.cols : Decodes(cells[i])
  BY CellDecodes DEF ScreenOK, Decoded
<1>2. write_char_str_att(s, row, col, text) = t
  BY DEF write_char_str_att
<1> HIDE DEF cells
<1>3. Decoded(t) /\ SameSize(t, s) /\ t.row = s.row /\ t.col = s.col
  BY <1>1, WithCells DEF ScreenOK
<1> HIDE DEF t
<1>4. QED
  BY <1>2, <1>3 DEF ScreenOK, SameSize

\* The scroll calls leave the cursor alone.
LEMMA ScrollsDecode ==
  ASSUME NEW s, ScreenOK(s), NEW top \in Nat, NEW bottom \in Nat, NEW n \in Nat, NEW fill
  PROVE  /\ ScreenOK(scroll_up(s, top, bottom, n, fill))
         /\ SameSize(scroll_up(s, top, bottom, n, fill), s)
         /\ ScreenOK(scroll_down(s, top, bottom, n, fill))
         /\ SameSize(scroll_down(s, top, bottom, n, fill), s)
BY ScrollUpDecodes, ScrollDownDecodes DEF ScreenOK, SameSize

\* The cursor, cut to the screen.
LEMMA CursorDecodes ==
  ASSUME NEW s, ScreenOK(s), NEW row \in Nat, NEW col \in Nat
  PROVE  LET t == set_cursor_pos(s, row, col) IN ScreenOK(t) /\ SameSize(t, s)
<1> DEFINE r == Least(row, s.rows - 1)
           c == Least(col, s.cols - 1)
           t == [s EXCEPT !.row = r, !.col = c]
<1>1. /\ r \in Nat /\ c \in Nat /\ r < s.rows /\ c < s.cols
      /\ s.rows \in Nat /\ s.cols \in Nat /\ Decoded(s)
  BY DEF ScreenOK, Decoded, Least
<1>2. set_cursor_pos(s, row, col) = t
  BY DEF set_cursor_pos
<1> HIDE DEF r, c
<1>3. /\ Decoded(t) /\ SameSize(t, s) /\ t.row = r /\ t.col = c
      /\ [s EXCEPT !.col = c, !.row = r] = t
  BY <1>1, WithCursor
<1> HIDE DEF t
<1>4. QED
  BY <1>1, <1>2, <1>3 DEF ScreenOK, SameSize

\* A new screen.
LEMMA NewDecodes ==
  ASSUME NEW R \in Nat \ {0}, NEW C \in Nat \ {0}
  PROVE  ScreenOK(new(R, C)) /\ new(R, C).rows = R /\ new(R, C).cols = C
<1> DEFINE cells == [i \in 1 .. R * C |-> Blank]
           t == [rows |-> R, cols |-> C, row |-> 0, col |-> 0, cells |-> cells]
<1>1. DOMAIN cells = 1 .. R * C /\ \A i \in 1 .. R * C : Decodes(cells[i])
  BY CellDecodes DEF Blank
<1>2. new(R, C) = t
  BY DEF new
<1> HIDE DEF cells
<1>3. ScreenOK(t) /\ t.rows = R /\ t.cols = C
  BY <1>1 DEF ScreenOK, Decoded
<1> HIDE DEF t
<1>4. QED
  BY <1>2, <1>3

\* What is kept when the mode changes has a cell in the old screen.
LEMMA ResizeDecodes ==
  ASSUME NEW s, ScreenOK(s), NEW R \in Nat \ {0}, NEW C \in Nat \ {0}
  PROVE  LET t == resize(s, R, C) IN ScreenOK(t) /\ t.rows = R /\ t.cols = C
<1> DEFINE cells == [i \in 1 .. R * C |->
                LET r == (i - 1) \div C
                    c == (i - 1) % C
                IN  IF r < s.rows /\ c < s.cols THEN s.cells[At(s, r, c)] ELSE Blank]
           row == Least(s.row, R - 1)
           col == Least(s.col, C - 1)
           t == [rows |-> R, cols |-> C, row |-> row, col |-> col, cells |-> cells]
<1>1. /\ s.rows \in Nat /\ s.cols \in Nat /\ s.row \in Nat /\ s.col \in Nat
      /\ \A i \in 1 .. s.rows * s.cols : Decodes(s.cells[i])
  BY DEF ScreenOK, Decoded
<1>2. row \in Nat /\ col \in Nat /\ row < R /\ col < C
  BY <1>1 DEF Least
<1>3. \A i \in 1 .. R * C : Decodes(cells[i])
  <2> SUFFICES ASSUME NEW i \in 1 .. R * C PROVE Decodes(cells[i])
    OBVIOUS
  <2>1. PICK r \in Nat, c \in Nat : r = (i - 1) \div C /\ c = (i - 1) % C
    <3>1. R * C \in Nat /\ i - 1 \in Nat
      OBVIOUS
    <3>2. (i - 1) \div C \in Nat /\ (i - 1) % C \in Nat
      BY <3>1, DivFacts
    <3>3. QED
      BY <3>2
  <2>2. cells[i] = IF r < s.rows /\ c < s.cols THEN s.cells[r * s.cols + c + 1] ELSE Blank
    BY <2>1 DEF At
  <2> HIDE DEF cells
  <2>3. CASE r < s.rows /\ c < s.cols
    <3>1. r \in 0 .. s.rows - 1 /\ c \in 0 .. s.cols - 1
      BY <1>1, <2>3
    <3>2. r * s.cols + c + 1 \in 1 .. s.rows * s.cols
      BY <1>1, <3>1, AtRange, Zenon
    <3>3. QED
      BY <1>1, <2>2, <2>3, <3>2
  <2>4. CASE ~(r < s.rows /\ c < s.cols)
    BY <2>2, <2>4, CellDecodes DEF Blank
  <2>5. QED
    BY <2>3, <2>4
<1>4. DOMAIN cells = 1 .. R * C
  OBVIOUS
<1>5. resize(s, R, C) = t
  BY DEF resize
<1> HIDE DEF cells, row, col
<1>6. ScreenOK(t) /\ t.rows = R /\ t.cols = C
  BY <1>2, <1>3, <1>4 DEF ScreenOK, Decoded
<1> HIDE DEF t
<1>7. QED
  BY <1>5, <1>6

\* CLS.
LEMMA ClearedDecodes ==
  ASSUME NEW s, ScreenOK(s)
  PROVE  ScreenOK(Cleared(s)) /\ SameSize(Cleared(s), s)
<1>1. s.rows \in Nat \ {0} /\ s.cols \in Nat \ {0}
  BY DEF ScreenOK, Decoded
<1> DEFINE u == new(s.rows, s.cols)
           t == [u EXCEPT !.row = 0, !.col = 0]
<1>2. ScreenOK(u) /\ u.rows = s.rows /\ u.cols = s.cols
  BY <1>1, NewDecodes
<1>3. Cleared(s) = t
  BY DEF Cleared
<1> HIDE DEF u
<1>4. /\ Decoded(t) /\ SameSize(t, u) /\ t.row = 0 /\ t.col = 0
      /\ [u EXCEPT !.col = 0, !.row = 0] = t
  <2>1. 0 \in Nat /\ Decoded(u)
    BY <1>2 DEF ScreenOK
  <2>2. QED
    BY <2>1, WithCursor, Zenon
<1> HIDE DEF t
<1>5. QED
  BY <1>1, <1>2, <1>3, <1>4 DEF ScreenOK, SameSize

-----------------------------------------------------------------------------
(* The console keeps the screen.                                           *)

\* The screen is as large as a mode that was asked for.
ScreenInv == ScreenOK(screen) /\ <<screen.rows, screen.cols>> \in Sizes

\* What the keyboard and the line editor hold.
LinesInv ==
  /\ keys \in Seq(Keys) /\ line \in Seq(Chars) /\ history \in Seq(Seq(Chars))
  /\ Len(history) <= HistorySize /\ hist_idx \in 0 .. Len(history)
  /\ output_sink \in {"Vio", "File"} /\ input_source \in {"Kbd", "Lines"}

\* The inductive invariant.
ConsoleInv == ScreenInv /\ LinesInv

\* Modes have at least a row and a column.
LEMMA SizesPositive ==
  ASSUME NEW z \in Sizes
  PROVE  z[1] \in Nat \ {0} /\ z[2] \in Nat \ {0} /\ z = <<z[1], z[2]>>
BY ConsoleAssumption

\* A text written to the screen.
LEMMA TextKeepsScreen ==
  ASSUME ScreenInv, NEW text, Len(text) \in Nat, screen' = write_tty(screen, text)
  PROVE  ScreenInv'
BY WriteTtyDecodes DEF ScreenInv, SameSize

\* The texts the console writes by itself are finite.
LEMMA TextLengths ==
  /\ \A a : Len(<<a>>) \in Nat /\ <<a>> \in Seq({a})
  /\ \A a, b : Len(<<a, b>>) \in Nat
  /\ \A a, b, c : Len(<<a, b, c>>) \in Nat
  /\ Len(Erase) \in Nat
  /\ Len(NewLine) \in Nat
  /\ \A a : Len(<<a>> \o NewLine) \in Nat /\ Len(NewLine \o <<a>> \o NewLine) \in Nat
<1>1. /\ \A a : Len(<<a>>) \in Nat /\ <<a>> \in Seq({a})
      /\ \A a, b : Len(<<a, b>>) \in Nat
      /\ \A a, b, c : Len(<<a, b, c>>) \in Nat
  OBVIOUS
<1>2. Len(Erase) \in Nat /\ Len(NewLine) \in Nat
  BY <1>1 DEF Erase, NewLine
<1>3. ASSUME NEW a
      PROVE  Len(<<a>> \o NewLine) \in Nat /\ Len(NewLine \o <<a>> \o NewLine) \in Nat
  <2> DEFINE S == {a, "cr", "lf"}
  <2>1. <<a>> \in Seq(S) /\ NewLine \in Seq(S)
    BY DEF NewLine
  <2> HIDE DEF S
  <2>2. <<a>> \o NewLine \in Seq(S) /\ NewLine \o <<a>> \o NewLine \in Seq(S)
    BY <2>1
  <2>3. QED
    BY <2>2, LenProperties
<1>4. QED
  BY <1>1, <1>2, <1>3

\* Rubbing a line out and writing another.
LEMMA ReplaceLength ==
  ASSUME NEW l \in Seq(Chars), NEW m \in Seq(Chars)
  PROVE  Len(Erasing(ByteLen(l)) \o m) \in Nat
<1>1. ByteLen(l) \in Nat
  <2>1. DOMAIN l = 1 .. Len(l) /\ Len(l) \in Nat
    BY LenProperties
  <2>2. IsFiniteSet(1 .. Len(l))
    BY <2>1, FS_Interval
  <2>3. IsFiniteSet({i \in DOMAIN l : l[i] = "h"})
    BY <2>1, <2>2, FS_Subset
  <2>4. Cardinality({i \in DOMAIN l : l[i] = "h"}) \in Nat
    BY <2>3, FS_CardinalityType
  <2>5. QED
    BY <2>1, <2>4 DEF ByteLen
<1> DEFINE n == 3 * ByteLen(l)
           S == {Erase[j] : j \in 1 .. 3} \cup Chars
<1>2. n \in Nat
  BY <1>1
<1>3. Erasing(ByteLen(l)) \in [1 .. n -> S]
  <2>1. \A i \in 1 .. n : ((i - 1) % 3) + 1 \in 1 .. 3
    BY <1>2
  <2>2. QED
    BY <2>1 DEF Erasing
<1> HIDE DEF n
<1>4. Erasing(ByteLen(l)) \in Seq(S)
  BY <1>2, <1>3, SeqDef
<1>5. m \in Seq(S)
  <2>1. Chars \subseteq S
    OBVIOUS
  <2>2. QED
    BY <2>1, SeqMonotonic
<1> HIDE DEF S
<1>6. QED
  BY <1>4, <1>5, ConcatProperties, LenProperties

\* VIOCALLS.
LEMMA VioKeeps ==
  ASSUME ConsoleInv, VioNext
  PROVE  ConsoleInv'
<1>0. ScreenOK(screen) /\ screen.rows \in Nat \ {0} /\ screen.cols \in Nat \ {0}
  BY DEF ConsoleInv, ScreenInv, ScreenOK, Decoded
<1>1. ASSUME NEW s, Shows(s), ScreenOK(s), <<s.rows, s.cols>> \in Sizes PROVE ConsoleInv'
  BY <1>1 DEF Shows, ConsoleInv, ScreenInv, LinesInv, editVars, shellVars
<1>2. ASSUME NEW s, Shows(s), ScreenOK(s), SameSize(s, screen) PROVE ConsoleInv'
  BY <1>1, <1>2 DEF ConsoleInv, ScreenInv, SameSize
<1>3. CASE vio_wrt_tty
  <2>1. PICK text \in {<<"a">>, <<"h">>, <<"lf">>, <<"bs">>} : Shows(write_tty(screen, text))
    BY <1>3 DEF vio_wrt_tty
  <2>2. Len(text) \in Nat
    BY TextLengths
  <2>3. QED
    BY <1>0, <1>2, <2>1, <2>2, WriteTtyDecodes
<1>4. CASE vio_set_cur_pos
  <2>1. PICK r \in Nat, c \in Nat : Shows(set_cursor_pos(screen, r, c))
    BY <1>0, <1>4 DEF vio_set_cur_pos
  <2>2. QED
    BY <1>0, <1>2, <2>1, CursorDecodes
<1>5. CASE vio_scroll_up
  <2>1. PICK top \in Nat, bottom \in Nat, n \in Nat : Shows(scroll_up(screen, top, bottom, n, "a"))
    BY <1>0, <1>5 DEF vio_scroll_up
  <2>2. QED
    BY <1>0, <1>2, <2>1, ScrollsDecode
<1>6. CASE vio_scroll_dn
  <2>1. PICK top \in Nat, bottom \in Nat, n \in Nat : Shows(scroll_down(screen, top, bottom, n, "a"))
    BY <1>0, <1>6 DEF vio_scroll_dn
  <2>2. QED
    BY <1>0, <1>2, <2>1, ScrollsDecode
<1>7. CASE vio_wrt_char_str_att
  <2>1. PICK r \in Nat, c \in Nat : Shows(write_char_str_att(screen, r, c, <<"h", "a">>))
    BY <1>0, <1>7 DEF vio_wrt_char_str_att
  <2>2. QED
    BY <1>0, <1>2, <2>1, WriteStrDecodes
<1>8. CASE vio_wrt_n_cell
  <2>1. PICK r \in Nat, c \in Nat, n \in Nat : Shows(write_n_cell(screen, r, c, "h", n))
    BY <1>0, <1>8 DEF vio_wrt_n_cell
  <2>2. QED
    BY <1>0, <1>2, <2>1, WriteNDecodes
<1>9. CASE vio_set_mode
  <2>1. PICK z \in Sizes : Shows(resize(screen, z[1], z[2]))
    BY <1>9 DEF vio_set_mode
  <2>2. PICK R \in Nat \ {0}, C \in Nat \ {0} : R = z[1] /\ C = z[2] /\ <<R, C>> \in Sizes
    BY SizesPositive
  <2> DEFINE t == resize(screen, R, C)
  <2>3. ScreenOK(t) /\ t.rows = R /\ t.cols = C
    BY <1>0, ResizeDecodes
  <2>4. Shows(t)
    BY <2>1, <2>2
  <2> HIDE DEF t
  <2>5. QED
    BY <1>1, <2>2, <2>3, <2>4
<1>10. QED
  BY <1>3, <1>4, <1>5, <1>6, <1>7, <1>8, <1>9 DEF VioNext

\* Taking a key leaves keys.
LEMMA TookKeys ==
  ASSUME keys \in Seq(Keys), NEW k, Took(k)
  PROVE  keys' \in Seq(Keys)
BY HeadTailProperties DEF Took

\* The keyboard.
LEMMA KbdKeeps ==
  ASSUME ConsoleInv, KbdNext
  PROVE  ConsoleInv'
<1>0. ScreenInv /\ LinesInv
  BY DEF ConsoleInv
<1> USE DEF editVars, shellVars
<1>1. ASSUME UNCHANGED screen PROVE ScreenInv'
  BY <1>0, <1>1 DEF ScreenInv
<1>2. ASSUME keys' \in Seq(Keys), UNCHANGED <<editVars, shellVars>> PROVE LinesInv'
  BY <1>0, <1>2 DEF LinesInv
<1>3. CASE KeyDown
  <2>1. keys' \in Seq(Keys)
    BY <1>0, <1>3 DEF KeyDown, LinesInv
  <2>2. QED
    BY <1>1, <1>2, <1>3, <2>1 DEF KeyDown, ConsoleInv
<1>4. CASE kbd_char_in \/ kbd_string_in \/ dos_read_stdin \/ ReadShutDown
  <2>1. UNCHANGED <<screen, keys, editVars, shellVars>>
    BY <1>4 DEF kbd_char_in, kbd_string_in, dos_read_stdin, ReadShutDown, Begin
  <2>2. QED
    BY <1>0, <1>1, <1>2, <2>1 DEF LinesInv, ConsoleInv
<1>5. CASE CharInReturns
  <2>1. keys' \in Seq(Keys)
    BY <1>0, <1>5, TookKeys DEF CharInReturns, LinesInv
  <2>2. QED
    BY <1>1, <1>2, <1>5, <2>1 DEF CharInReturns, ConsoleInv
<1>6. CASE StringInKey
  <2>1. PICK k \in Keys :
          /\ Took(k)
          /\ \/ UNCHANGED screen
             \/ screen' = write_tty(screen, Erase)
             \/ screen' = write_tty(screen, <<k>>)
    BY <1>6 DEF StringInKey
  <2>2. ScreenInv'
    BY <1>0, <1>1, <2>1, TextKeepsScreen, TextLengths
  <2>3. LinesInv'
    BY <1>0, <1>2, <1>6, <2>1, TookKeys DEF StringInKey, LinesInv
  <2>4. QED
    BY <2>2, <2>3 DEF ConsoleInv
<1>7. CASE ReadStdinKey
  <2>1. PICK k \in Keys :
          /\ Took(k)
          /\ \/ UNCHANGED screen
             \/ screen' = write_tty(screen, Erase)
             \/ screen' = write_tty(screen, <<k>>)
             \/ screen' = write_tty(screen, <<"cr", "lf">>)
    BY <1>7 DEF ReadStdinKey, Enter, Backspace, Character
  <2>2. ScreenInv'
    BY <1>0, <1>1, <2>1, TextKeepsScreen, TextLengths
  <2>3. LinesInv'
    BY <1>0, <1>2, <1>7, <2>1, TookKeys DEF ReadStdinKey, LinesInv
  <2>4. QED
    BY <2>2, <2>3 DEF ConsoleInv
<1>8. QED
  BY <1>3, <1>4, <1>5, <1>6, <1>7 DEF KbdNext

\* The line editor.
LEMMA EditKeeps ==
  ASSUME ConsoleInv, read_line
  PROVE  ConsoleInv'
<1>0. /\ ScreenInv /\ LinesInv /\ line \in Seq(Chars) /\ history \in Seq(Seq(Chars))
      /\ hist_idx \in 0 .. Len(history) /\ Len(history) \in Nat
  BY LenProperties DEF ConsoleInv, LinesInv
<1>1. PICK k \in Keys : Took(k) /\ EditKey(k)
  BY DEF read_line
<1>2. keys' \in Seq(Keys)
  BY <1>0, <1>1, TookKeys DEF LinesInv
<1>3. ASSUME line' \in Seq(Chars), hist_idx' \in 0 .. Len(history) PROVE LinesInv'
  BY <1>0, <1>2, <1>3 DEF read_line, LinesInv, shellVars
<1>4. ASSUME UNCHANGED screen PROVE ScreenInv'
  BY <1>0, <1>4 DEF ScreenInv
<1>5. ASSUME NEW l \in Seq(Chars), replace_input(l) PROVE ScreenInv' /\ line' \in Seq(Chars)
  <2>1. Len(Erasing(ByteLen(line)) \o l) \in Nat
    BY <1>0, ReplaceLength
  <2>2. ScreenInv'
    BY <1>0, <1>5, <2>1, TextKeepsScreen DEF replace_input
  <2>3. QED
    BY <1>5, <2>2 DEF replace_input
<1>6. CASE k = "bs" /\ line = <<>> /\ UNCHANGED <<hist_idx, line, screen>>
  BY <1>0, <1>3, <1>4, <1>6 DEF ConsoleInv
<1>7. CASE /\ k = "bs" /\ line # <<>> /\ UNCHANGED hist_idx
           /\ line' = Front(line) /\ screen' = write_tty(screen, Erase)
  <2>1. Front(line) \in Seq(Chars)
    <3>1. PICK l \in Seq(Chars) : l = line
      BY <1>0
    <3>2. Front(l) \in Seq(Chars)
      BY <1>7, <3>1 DEF Front
    <3>3. QED
      BY <3>1, <3>2
  <2>2. ScreenInv'
    BY <1>0, <1>7, TextKeepsScreen, TextLengths
  <2>3. QED
    BY <1>0, <1>3, <1>7, <2>1, <2>2 DEF ConsoleInv
<1>8. CASE k = "esc" /\ replace_input(<<>>) /\ hist_idx' = Len(history)
  <2>1. <<>> \in Seq(Chars) /\ Len(history) \in 0 .. Len(history)
    BY <1>0
  <2>2. QED
    BY <1>3, <1>5, <1>8, <2>1 DEF ConsoleInv
<1>9. CASE k = "up" /\ hist_idx > 0 /\ hist_idx' = hist_idx - 1 /\ replace_input(history[hist_idx])
  <2>1. history[hist_idx] \in Seq(Chars) /\ hist_idx - 1 \in 0 .. Len(history)
    BY <1>0, <1>9, ElementOfSeq
  <2>2. QED
    BY <1>3, <1>5, <1>9, <2>1 DEF ConsoleInv
<1>10. CASE /\ k = "down" /\ hist_idx < Len(history) /\ hist_idx' = hist_idx + 1
            /\ replace_input(IF hist_idx + 1 < Len(history) THEN history[hist_idx + 2] ELSE <<>>)
  <2> DEFINE l == IF hist_idx + 1 < Len(history) THEN history[hist_idx + 2] ELSE <<>>
  <2>1. l \in Seq(Chars) /\ hist_idx + 1 \in 0 .. Len(history)
    BY <1>0, <1>10, ElementOfSeq
  <2>2. replace_input(l)
    BY <1>10
  <2> HIDE DEF l
  <2>3. QED
    BY <1>3, <1>5, <1>10, <2>1, <2>2 DEF ConsoleInv
<1>11. CASE UNCHANGED <<line, screen, hist_idx>>
  BY <1>0, <1>3, <1>4, <1>11 DEF ConsoleInv
<1>12. CASE /\ k \in Chars /\ line' = Append(line, k) /\ screen' = write_tty(screen, <<k>>)
            /\ UNCHANGED hist_idx
  <2>1. Append(line, k) \in Seq(Chars)
    BY <1>0, <1>12
  <2>2. ScreenInv'
    BY <1>0, <1>12, TextKeepsScreen, TextLengths
  <2>3. QED
    BY <1>0, <1>3, <1>12, <2>1, <2>2 DEF ConsoleInv
<1>13. QED
  BY <1>1, <1>6, <1>7, <1>8, <1>9, <1>10, <1>11, <1>12 DEF EditKey

\* Enter.
LEMMA ExecuteKeeps ==
  ASSUME ConsoleInv, execute_line
  PROVE  ConsoleInv'
<1>0. /\ ScreenInv /\ LinesInv /\ line \in Seq(Chars) /\ history \in Seq(Seq(Chars))
      /\ Len(history) \in Nat /\ Len(history) <= HistorySize /\ HistorySize \in Nat /\ HistorySize > 0
  BY LenProperties, ConsoleAssumption DEF ConsoleInv, LinesInv
<1>1. keys' \in Seq(Keys) /\ line' = <<>> /\ hist_idx' = 0
  BY <1>0, TookKeys DEF execute_line, LinesInv
<1>2. \/ screen' = write_tty(screen, NewLine)
      \/ screen' = write_tty(screen, NewLine \o <<"a">> \o NewLine)
  BY DEF execute_line
<1>3. ScreenInv'
  BY <1>0, <1>2, TextKeepsScreen, TextLengths
<1>4. history' \in Seq(Seq(Chars)) /\ Len(history') <= HistorySize
  <2>1. CASE UNCHANGED history
    BY <1>0, <2>1
  <2>2. CASE history_push(line)
    <3>1. PICK h \in Seq(Seq(Chars)) : h = IF Len(history) >= HistorySize THEN Tail(history) ELSE history
      <4>1. CASE Len(history) >= HistorySize
        <5>1. history # <<>>
          BY <1>0, <4>1
        <5>2. Tail(history) \in Seq(Seq(Chars))
          BY <1>0, <5>1, HeadTailProperties
        <5>3. QED
          BY <4>1, <5>2
      <4>2. CASE ~(Len(history) >= HistorySize)
        BY <1>0, <4>2
      <4>3. QED
        BY <4>1, <4>2
    <3>2. Len(h) < HistorySize
      <4>1. CASE Len(history) >= HistorySize
        <5>1. history # <<>>
          BY <1>0, <4>1
        <5>2. Len(Tail(history)) = Len(history) - 1
          BY <1>0, <5>1, HeadTailProperties
        <5>3. QED
          BY <1>0, <3>1, <4>1, <5>2
      <4>2. CASE ~(Len(history) >= HistorySize)
        BY <1>0, <3>1, <4>2
      <4>3. QED
        BY <4>1, <4>2
    <3>3. history' = history \/ history' = Append(h, line)
      BY <2>2, <3>1 DEF history_push
    <3>4. Append(h, line) \in Seq(Seq(Chars)) /\ Len(Append(h, line)) = Len(h) + 1 /\ Len(h) \in Nat
      BY <1>0, AppendProperties, LenProperties
    <3>5. CASE history' = history
      BY <1>0, <3>5
    <3>6. CASE history' = Append(h, line)
      <4>1. Len(h) + 1 <= HistorySize
        BY <1>0, <3>2, <3>4
      <4>2. QED
        BY <3>4, <3>6, <4>1
    <3>7. QED
      BY <3>3, <3>5, <3>6
  <2>3. UNCHANGED history \/ history_push(line)
    BY DEF execute_line
  <2>4. QED
    BY <2>1, <2>2, <2>3
<1>5. output_sink' \in {"Vio", "File"} /\ input_source' \in {"Kbd", "Lines"}
  <2>1. CASE UNCHANGED shellVars
    BY <1>0, <2>1 DEF LinesInv, shellVars
  <2>2. CASE \E out \in {"Vio", "File", "bad"}, in \in {"Kbd", "Lines", "bad"} : Redirected(out, in)
    BY <2>2 DEF Redirected
  <2>3. QED
    BY <2>1, <2>2 DEF execute_line
<1>6. <<>> \in Seq(Chars) /\ 0 \in 0 .. Len(history')
  BY <1>4, LenProperties
<1>7. QED
  BY <1>1, <1>3, <1>4, <1>5, <1>6 DEF ConsoleInv, LinesInv

\* The shell returns.
LEMMA LeaveKeeps ==
  ASSUME LinesInv, LeaveShell, UNCHANGED keys,
         output_sink' \in {"Vio", "File"}, input_source' \in {"Kbd", "Lines"}
  PROVE  LinesInv'
<1>1. <<>> \in Seq(Chars) /\ <<>> \in Seq(Seq(Chars)) /\ Len(<<>>) = 0
  OBVIOUS
<1>2. HistorySize \in Nat
  BY ConsoleAssumption
<1>3. QED
  BY <1>1, <1>2 DEF LeaveShell, LinesInv

\* The other steps of the shell.
LEMMA ShellKeeps ==
  ASSUME ConsoleInv, ShellNext
  PROVE  ConsoleInv'
<1>0. ScreenInv /\ LinesInv /\ Len(history) \in Nat
  BY LenProperties DEF ConsoleInv, LinesInv
<1>1. ASSUME UNCHANGED screen PROVE ScreenInv'
  BY <1>0, <1>1 DEF ScreenInv
<1>2. ASSUME UNCHANGED <<keys, editVars>>, output_sink' \in {"Vio", "File"},
             input_source' \in {"Kbd", "Lines"}
      PROVE  LinesInv'
  BY <1>0, <1>2 DEF LinesInv, editVars
<1>3. output_sink \in {"Vio", "File"} /\ input_source \in {"Kbd", "Lines"}
  BY <1>0 DEF LinesInv
<1>4. CASE run_builtin_cmd
  <2>1. <<>> \in Seq(Chars) /\ <<>> \in Seq(Seq(Chars)) /\ Len(<<>>) = 0 /\ HistorySize \in Nat
    BY ConsoleAssumption
  <2>2. LinesInv'
    BY <1>0, <1>4, <2>1 DEF run_builtin_cmd, LinesInv
  <2>3. QED
    BY <1>1, <1>4, <2>2 DEF run_builtin_cmd, ConsoleInv
<1>5. CASE interactive_loop
  <2>1. CASE exit_requested /\ LeaveShell /\ UNCHANGED <<screen, keys, shellVars>>
    BY <1>0, <1>1, <1>3, <2>1, LeaveKeeps DEF ConsoleInv, shellVars
  <2>2. CASE /\ line' = <<>> /\ hist_idx' = Len(history) /\ UNCHANGED <<history, keys, shellVars>>
             /\ screen' = write_tty(screen, <<"a">>)
    <3>1. <<>> \in Seq(Chars) /\ Len(history) \in 0 .. Len(history)
      BY <1>0
    <3>2. LinesInv'
      BY <1>0, <2>2, <3>1 DEF LinesInv, shellVars
    <3>3. QED
      BY <1>0, <2>2, <3>2, TextKeepsScreen, TextLengths DEF ConsoleInv
  <2>3. QED
    BY <1>5, <2>1, <2>2 DEF interactive_loop
<1>6. CASE ReadLineShutDown
  BY <1>0, <1>1, <1>3, <1>6, LeaveKeeps DEF ReadLineShutDown, ConsoleInv, shellVars
<1>7. CASE execute_segment
  <2>1. \/ UNCHANGED screen
        \/ screen' = write_tty(screen, <<"a">> \o NewLine)
        \/ screen' = Cleared(screen)
    BY <1>7 DEF execute_segment, write_sink
  <2>2. ASSUME screen' = Cleared(screen) PROVE ScreenInv'
    <3>1. ScreenOK(Cleared(screen)) /\ SameSize(Cleared(screen), screen)
      BY <1>0, ClearedDecodes DEF ScreenInv
    <3>2. QED
      BY <1>0, <2>2, <3>1 DEF ScreenInv, SameSize
  <2>3. ScreenInv'
    BY <1>0, <1>1, <2>1, <2>2, TextKeepsScreen, TextLengths
  <2>4. UNCHANGED output_sink /\ input_source' \in {input_source, "Lines"} /\ UNCHANGED <<keys, editVars>>
    BY <1>7 DEF execute_segment, NextSegment, shellVars
  <2>5. QED
    BY <1>2, <1>3, <2>3, <2>4 DEF ConsoleInv
<1>8. CASE ChildWrites
  <2>1. ScreenInv'
    BY <1>0, <1>8, TextKeepsScreen, TextLengths DEF ChildWrites
  <2>2. QED
    BY <1>2, <1>3, <1>8, <2>1 DEF ChildWrites, ConsoleInv, shellVars
<1>9. CASE ChildEnds
  BY <1>1, <1>2, <1>3, <1>9 DEF ChildEnds, NextSegment, ConsoleInv
<1>10. CASE RestoreDefaults
  <2>1. /\ output_sink' = "Vio" /\ input_source' = "Kbd" /\ UNCHANGED <<screen, keys>>
        /\ LeaveShell \/ UNCHANGED editVars
    BY <1>10 DEF RestoreDefaults
  <2>2. QED
    BY <1>0, <1>1, <1>2, <2>1, LeaveKeeps DEF ConsoleInv
<1>11. QED
  BY <1>4, <1>5, <1>6, <1>7, <1>8, <1>9, <1>10, EditKeeps, ExecuteKeeps DEF ShellNext

\* The two vectors of the screen agree after any number of writes, scrolls and
\* changes of mode, on a screen of any size: every place has a cell, whose
\* character is what the byte kept for it decodes to, and the cursor never leaves
\* the screen (VioManager::write_tty, scroll_up, scroll_down and resize); nor
\* does the line editor's history index leave the history.
THEOREM ScreenSafe == IoSpec => [](ConsoleTypeOK /\ CellsDecode)
<1>1. IoInit => ConsoleInv
  <2> SUFFICES ASSUME IoInit PROVE ConsoleInv
    OBVIOUS
  <2>1. ConsoleInit
    BY DEF IoInit
  <2>2. PICK z \in Sizes : screen = new(z[1], z[2])
    BY <2>1 DEF ConsoleInit
  <2>3. PICK R \in Nat \ {0}, C \in Nat \ {0} : R = z[1] /\ C = z[2] /\ <<R, C>> \in Sizes
    BY SizesPositive
  <2>4. ScreenInv
    BY <2>2, <2>3, NewDecodes DEF ScreenInv
  <2>5. /\ <<>> \in Seq(Chars) /\ <<>> \in Seq(Seq(Chars)) /\ <<>> \in Seq(Keys)
        /\ Len(<<>>) = 0 /\ HistorySize \in Nat
    BY ConsoleAssumption
  <2>6. LinesInv
    BY <2>1, <2>5 DEF ConsoleInit, LinesInv
  <2>7. QED
    BY <2>4, <2>6 DEF ConsoleInv
<1>2. ConsoleInv /\ [IoNext]_ioVars => ConsoleInv'
  <2> SUFFICES ASSUME ConsoleInv, [IoNext]_ioVars PROVE ConsoleInv'
    OBVIOUS
  <2>1. CASE UNCHANGED consoleVars
    BY <2>1 DEF consoleVars, ConsoleInv, ScreenInv, LinesInv, editVars, shellVars
  <2>2. CASE RequestExit \/ run_text_loop \/ setup_and_run_cli
    BY <2>2 DEF RequestExit, run_text_loop, setup_and_run_cli, ConsoleInv, ScreenInv, LinesInv,
                editVars, shellVars
  <2>3. CASE ConsoleNext
    BY <2>2, <2>3, VioKeeps, KbdKeeps, ShellKeeps DEF ConsoleNext
  <2>4. QED
    BY <2>1, <2>3 DEF IoNext, ioVars
<1>3. ConsoleInv => ConsoleTypeOK /\ CellsDecode
  BY DEF ConsoleInv, ScreenInv, LinesInv, ScreenOK, Decoded, Decodes, ConsoleTypeOK, CellsDecode
<1>4. QED
  BY <1>1, <1>2, <1>3, PTL DEF IoSpec

=============================================================================
