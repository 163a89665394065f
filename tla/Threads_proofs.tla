--------------------------- MODULE Threads_proofs ---------------------------
(***************************************************************************)
(* Proofs, for any number of threads, looks and exit codes, that           *)
(* DosWaitThread tells the truth and that the process does not end with    *)
(* status 0 when an exit code or a fault asked for its end.                *)
(***************************************************************************)
EXTENDS Threads, TLAPS

Places == {"none", "loop", "guest", "faulted", "exiting", "sleep", "insert", "poll",
           "join", "stopped", "panicked"}

\* A tid that has not been given out belongs to no thread and to no JoinHandle.
Unborn ==
  /\ \A x \in threads : x < next_tid
  /\ \A t \in Tids :
       /\ pc[t] # "none" => t < next_tid
       /\ HasHandle(t) => target[t] < next_tid
       /\ pc[t] = "insert" => target[t] > 0

\* What asked for the end first, or is about to ask, has stored its code.
CodeStored ==
  /\ raiser \in {"exit", "fault"} => exit_code # 0
  /\ \A t \in Tids : pc[t] \in {"exiting", "faulted"} => exit_code # 0

\* The inductive invariant.
ThreadInv ==
  ThreadTypeOK /\ OneHandle /\ WaitTellsTruth /\ Unborn /\ CodeStored /\ StatusReported

\* Initially only tid 0 runs.
LEMMA ThreadInitInv == ThreadInit => ThreadInv
<1> SUFFICES ASSUME ThreadInit PROVE ThreadInv
  OBVIOUS
<1>1. 0 \in Tids /\ 1 \in 1 .. (MaxTid + 1) /\ 0 \in 0 .. MaxPolls /\ MaxTid \in Nat
  BY ThreadAssumption DEF Tids
<1>2. ThreadTypeOK
  BY <1>1 DEF ThreadInit, ThreadTypeOK
<1>3. OneHandle /\ WaitTellsTruth /\ CodeStored /\ StatusReported
  BY DEF ThreadInit, OneHandle, HasHandle, WaitTellsTruth, CodeStored, StatusReported, Running
<1>4. Unborn
  BY <1>1 DEF ThreadInit, Unborn, HasHandle
<1>5. QED
  BY <1>2, <1>3, <1>4 DEF ThreadInv

\* Types of what the handlers work on.
LEMMA ThreadFacts ==
  ASSUME ThreadInv
  PROVE  /\ pc \in [Tids -> Places] /\ target \in [Tids -> Tids] /\ polls \in [Tids -> 0 .. MaxPolls]
         /\ threads \subseteq 1 .. MaxTid /\ joined \subseteq Tids /\ next_tid \in 1 .. (MaxTid + 1)
         /\ exit_code \in Codes \cup {0, 1} /\ MaxTid \in Nat /\ MaxPolls \in Nat
         /\ 0 \in Tids /\ 0 \in 0 .. MaxPolls /\ Codes \subseteq Nat \ {0} /\ Tids \subseteq Nat
<1>1. /\ MaxTid \in Nat /\ MaxPolls \in Nat /\ 0 \in Tids /\ 0 \in 0 .. MaxPolls
      /\ Codes \subseteq Nat \ {0} /\ Tids \subseteq Nat
  BY ThreadAssumption DEF Tids
<1>2. QED
  BY <1>1 DEF ThreadInv, ThreadTypeOK, Places

\* A step after which threads hold only JoinHandles they held.
LEMMA HandlesKept ==
  ASSUME ThreadInv, threads' \subseteq threads, next_tid' = next_tid,
         \A t \in Tids : pc'[t] # "none" => pc[t] # "none",
         \A t \in Tids : HasHandle(t)' =>
            HasHandle(t) /\ target'[t] = target[t] /\ (pc'[t] = "insert" => pc[t] = "insert")
  PROVE  OneHandle' /\ Unborn'
<1>1. OneHandle'
  BY DEF ThreadInv, OneHandle
<1>2. Unborn'
  BY DEF ThreadInv, Unborn, HasHandle
<1>3. QED
  BY <1>1, <1>2

\* A step after which the threads that had stopped are still stopped, and that
\* reports only such threads.
LEMMA TruthKept ==
  ASSUME ThreadInv, \A x \in Tids : pc[x] = "stopped" => pc'[x] = "stopped",
         \A x \in joined' : x \in joined \/ (x \in Tids /\ pc[x] = "stopped")
  PROVE  WaitTellsTruth'
<1>1. joined \subseteq Tids /\ \A x \in joined : pc[x] = "stopped"
  BY ThreadFacts DEF ThreadInv, WaitTellsTruth
<1>2. QED
  BY <1>1 DEF WaitTellsTruth

\* A step that stores no code 0, by threads that owe the flag only once the code is
\* stored.
LEMMA CodeKept ==
  ASSUME ThreadInv, status = Running, status' = status,
         exit_code' = exit_code \/ exit_code' # 0,
         \A t \in Tids : pc'[t] \in {"exiting", "faulted"} => pc[t] \in {"exiting", "faulted"} \/ exit_code' # 0,
         raiser' \in {"exit", "fault"} => raiser \in {"exit", "fault"} \/ exit_code # 0
  PROVE  CodeStored' /\ StatusReported'
<1>1. exit_code # 0 => exit_code' # 0
  OBVIOUS
<1>2. CodeStored'
  BY <1>1 DEF ThreadInv, CodeStored
<1>3. StatusReported'
  BY DEF StatusReported, Running
<1>4. QED
  BY <1>2, <1>3

\* A step of t alone, to a place where it has no JoinHandle.
LEMMA MoveKeeps ==
  ASSUME ThreadInv, NEW t \in Tids, pc[t] \notin {"none", "stopped"},
         NEW to \in Places \ {"none", "insert", "join"}, pc' = [pc EXCEPT ![t] = to],
         \A u \in Tids \ {t} : target'[u] = target[u],
         threads' \subseteq threads, next_tid' = next_tid,
         \A x \in joined' : x \in joined \/ (x \in Tids /\ pc[x] = "stopped")
  PROVE  OneHandle' /\ Unborn' /\ WaitTellsTruth'
<1>1. pc \in [Tids -> Places]
  BY ThreadFacts
<1>2. pc'[t] = to /\ \A u \in Tids \ {t} : pc'[u] = pc[u]
  BY <1>1
<1>3. \A u \in Tids : HasHandle(u)' =>
        HasHandle(u) /\ target'[u] = target[u] /\ (pc'[u] = "insert" => pc[u] = "insert")
  BY <1>2 DEF HasHandle
<1>4. OneHandle' /\ Unborn'
  BY <1>2, <1>3, HandlesKept
<1>5. WaitTellsTruth'
  BY <1>2, TruthKept
<1>6. QED
  BY <1>4, <1>5

\* Back in the loop nothing is owed.
LEMMA ReturnMoves ==
  ASSUME ThreadInv, NEW t \in Tids, Return(t)
  PROVE  /\ pc' = [pc EXCEPT ![t] = "loop"] /\ \A u \in Tids \ {t} : target'[u] = target[u]
         /\ pc' \in [Tids -> Places] /\ target' \in [Tids -> Tids] /\ polls' \in [Tids -> 0 .. MaxPolls]
BY ThreadFacts DEF Return, Goto, Places

\* A step that only moves t.
LEMMA OnlyPcStep ==
  ASSUME ThreadInv, NEW t \in Tids, status = Running, pc[t] \notin {"none", "stopped"},
         NEW to \in Places \ {"none", "insert", "join", "exiting", "faulted"}, Goto(t, to), OnlyPc
  PROVE  ThreadInv'
<1>1. /\ windowed' = windowed /\ next_tid' = next_tid /\ threads' = threads
      /\ exit_requested' = exit_requested /\ exit_code' = exit_code /\ raiser' = raiser
      /\ target' = target /\ polls' = polls /\ status' = status /\ joined' = joined
  BY DEF OnlyPc, flagVars
<1>2. pc' = [pc EXCEPT ![t] = to] /\ pc' \in [Tids -> Places] /\ pc \in [Tids -> Places]
  BY ThreadFacts DEF Goto
<1>3. ThreadTypeOK'
  BY <1>1, <1>2 DEF ThreadInv, ThreadTypeOK, Places
<1>4. OneHandle' /\ Unborn' /\ WaitTellsTruth'
  BY <1>1, <1>2, MoveKeeps
<1>5. \A u \in Tids : pc'[u] \in {"exiting", "faulted"} => pc[u] \in {"exiting", "faulted"}
  BY <1>2
<1>6. CodeStored' /\ StatusReported'
  BY <1>1, <1>5, CodeKept
<1>7. QED
  BY <1>3, <1>4, <1>6 DEF ThreadInv

\* A step that returns to the loop with the flags, the tids and the status as they
\* were.
LEMMA ReturnStep ==
  ASSUME ThreadInv, NEW t \in Tids, status = Running, pc[t] \notin {"none", "stopped"}, Return(t),
         UNCHANGED <<windowed, next_tid, threads, flagVars, status>>, joined' \subseteq Tids,
         \A x \in joined' : x \in joined \/ (x \in Tids /\ pc[x] = "stopped")
  PROVE  ThreadInv'
<1>1. /\ windowed' = windowed /\ next_tid' = next_tid /\ threads' = threads
      /\ exit_requested' = exit_requested /\ exit_code' = exit_code /\ raiser' = raiser
      /\ status' = status
  BY DEF flagVars
<1>2. /\ pc' = [pc EXCEPT ![t] = "loop"] /\ \A u \in Tids \ {t} : target'[u] = target[u]
      /\ pc' \in [Tids -> Places] /\ target' \in [Tids -> Tids] /\ polls' \in [Tids -> 0 .. MaxPolls]
      /\ pc \in [Tids -> Places]
  BY ReturnMoves, ThreadFacts
<1>3. ThreadTypeOK'
  BY <1>1, <1>2 DEF ThreadInv, ThreadTypeOK, Places
<1>4. "loop" \in Places \ {"none", "insert", "join"}
  BY DEF Places
<1>5. OneHandle' /\ Unborn' /\ WaitTellsTruth'
  BY <1>1, <1>2, <1>4, MoveKeeps
<1>6. \A u \in Tids : pc'[u] \in {"exiting", "faulted"} => pc[u] \in {"exiting", "faulted"}
  BY <1>2
<1>7. CodeStored' /\ StatusReported'
  BY <1>1, <1>6, CodeKept
<1>8. QED
  BY <1>3, <1>5, <1>7 DEF ThreadInv

\* The steps that end a thread or ask for the end of the process.
LEMMA EndSteps ==
  ASSUME ThreadInv, NEW t \in Tids, status = Running,
         \/ ExitTrap(t) \/ Fault(t) \/ FaultStops(t) \/ DosExitRaises(t)
         \/ \E c \in Codes : DosExit(t, c)
  PROVE  ThreadInv'
<1>0. /\ pc \in [Tids -> Places] /\ target \in [Tids -> Tids] /\ polls \in [Tids -> 0 .. MaxPolls]
      /\ Codes \subseteq Nat \ {0} /\ threads \subseteq 1 .. MaxTid /\ joined \subseteq Tids
  BY ThreadFacts
<1>1. /\ windowed' = windowed /\ next_tid' = next_tid /\ threads' = threads
      /\ status' = status /\ joined' = joined
      /\ pc[t] \in {"guest", "faulted", "exiting"}
      /\ \A u \in Tids \ {t} : target'[u] = target[u]
      /\ target' \in [Tids -> Tids] /\ polls' \in [Tids -> 0 .. MaxPolls]
  BY <1>0, ReturnMoves DEF ExitTrap, Fault, FaultStops, DosExitRaises, DosExit
<1>2. PICK to \in {"stopped", "faulted", "exiting", "loop"} : pc' = [pc EXCEPT ![t] = to]
  BY ReturnMoves DEF ExitTrap, Fault, FaultStops, DosExitRaises, DosExit, Goto
<1>3. /\ exit_code' \in Codes \cup {0, 1} /\ (exit_code' = exit_code \/ exit_code' # 0)
      /\ exit_requested' \in BOOLEAN
      /\ raiser' \in {"none", "exit", "fault", "main", "return", "window"}
  <2>1. exit_code' \in Codes \cup {0, 1} /\ (exit_code' = exit_code \/ exit_code' # 0)
    BY <1>0 DEF ThreadInv, ThreadTypeOK, ExitTrap, Fault, FaultStops, DosExitRaises, DosExit
  <2>2. exit_requested' = exit_requested \/ exit_requested' = TRUE
    BY DEF ExitTrap, Fault, FaultStops, DosExitRaises, DosExit, Raise
  <2>3. exit_requested' \in BOOLEAN
    BY <2>2 DEF ThreadInv, ThreadTypeOK
  <2>4. raiser' \in {raiser, "exit", "fault", "main", "return"}
    BY DEF ExitTrap, Fault, FaultStops, DosExitRaises, DosExit, Raise
  <2>5. QED
    BY <2>1, <2>3, <2>4 DEF ThreadInv, ThreadTypeOK
<1>4. \A u \in Tids : pc'[u] \in {"exiting", "faulted"} => pc[u] \in {"exiting", "faulted"} \/ exit_code' # 0
  <2> SUFFICES ASSUME NEW u \in Tids, pc'[u] \in {"exiting", "faulted"}, pc[u] \notin {"exiting", "faulted"}
               PROVE  exit_code' # 0
    OBVIOUS
  <2>1. u = t
    BY <1>0, <1>2
  <2>2. Fault(t) \/ \E c \in Codes : DosExit(t, c)
    BY <1>0, <2>1, ReturnMoves DEF ExitTrap, FaultStops, DosExitRaises, Goto
  <2>3. QED
    BY <1>0, <2>2 DEF Fault, DosExit
<1>5. raiser' \in {"exit", "fault"} => raiser \in {"exit", "fault"} \/ exit_code # 0
  BY DEF ThreadInv, CodeStored, ExitTrap, Fault, FaultStops, DosExitRaises, DosExit, Raise
<1>6. to \in Places \ {"none", "insert", "join"} /\ pc' \in [Tids -> Places]
  BY <1>0, <1>2 DEF Places
<1>7. OneHandle' /\ Unborn' /\ WaitTellsTruth'
  BY <1>1, <1>2, <1>6, MoveKeeps
<1>8. CodeStored' /\ StatusReported'
  BY <1>1, <1>3, <1>4, <1>5, CodeKept
<1>9. ThreadTypeOK'
  BY <1>0, <1>1, <1>3, <1>6 DEF ThreadInv, ThreadTypeOK, Places
<1>10. QED
  BY <1>7, <1>8, <1>9 DEF ThreadInv

\* A new tid is given out: the thread runs, its JoinHandle is with its creator.
LEMMA CreateStep ==
  ASSUME ThreadInv, NEW t \in Tids, status = Running, DosCreateThread(t)
  PROVE  ThreadInv'
<1> DEFINE n == next_tid
<1>0. /\ pc \in [Tids -> Places] /\ target \in [Tids -> Tids] /\ next_tid \in 1 .. (MaxTid + 1)
      /\ MaxTid \in Nat /\ threads \subseteq 1 .. MaxTid /\ Tids \subseteq Nat
  BY ThreadFacts
<1>1. /\ pc[t] = "guest" /\ n \in Tids /\ next_tid' = n + 1 /\ target' = [target EXCEPT ![t] = n]
      /\ pc' = [pc EXCEPT ![t] = "insert", ![n] = "loop"]
      /\ windowed' = windowed /\ threads' = threads /\ exit_requested' = exit_requested
      /\ exit_code' = exit_code /\ raiser' = raiser /\ polls' = polls /\ status' = status
      /\ joined' = joined
  BY DEF DosCreateThread, flagVars
<1>2. pc[n] = "none" /\ n # t /\ n \in Nat /\ n > 0
  <2>1. ~(n < n)
    BY <1>0
  <2>2. QED
    BY <1>0, <1>1, <2>1 DEF ThreadInv, Unborn
<1>3. /\ pc'[t] = "insert" /\ pc'[n] = "loop" /\ \A u \in Tids \ {t, n} : pc'[u] = pc[u]
      /\ target'[t] = n /\ \A u \in Tids \ {t} : target'[u] = target[u]
      /\ pc' \in [Tids -> Places] /\ target' \in [Tids -> Tids]
  BY <1>0, <1>1, <1>2 DEF Places
<1> HIDE DEF n
<1>4. next_tid' \in 1 .. (MaxTid + 1)
  BY <1>0, <1>1, <1>2 DEF Tids
<1>5. ThreadTypeOK'
  BY <1>1, <1>3, <1>4 DEF ThreadInv, ThreadTypeOK, Places
<1>6. n \notin threads /\ \A u \in Tids : HasHandle(u) => target[u] # n
  <2>1. \A x \in Nat : x < n => x # n
    BY <1>2
  <2>2. QED
    BY <1>0, <1>2, <2>1 DEF ThreadInv, Unborn, n
<1>7. \A u \in Tids : HasHandle(u)' => u = t \/ (u # t /\ u # n /\ HasHandle(u) /\ target'[u] = target[u])
  BY <1>3 DEF HasHandle
<1>8. OneHandle'
  BY <1>1, <1>3, <1>6, <1>7 DEF ThreadInv, OneHandle
<1>9. Unborn'
  <2>1. \A x \in Nat : x < n => x < n + 1
    BY <1>2
  <2>2. \A x \in threads' : x < next_tid'
    BY <1>0, <1>1, <2>1 DEF ThreadInv, Unborn, n
  <2>3. ASSUME NEW u \in Tids PROVE (pc'[u] # "none" => u < n + 1)
    <3>1. CASE u = n
      BY <1>2, <3>1
    <3>2. CASE u # n
      <4>1. pc'[u] # "none" => pc[u] # "none"
        BY <1>1, <1>3, <3>2
      <4>2. QED
        BY <1>0, <2>1, <4>1 DEF ThreadInv, Unborn, n
    <3>3. QED
      BY <3>1, <3>2
  <2>4. ASSUME NEW u \in Tids, HasHandle(u)' PROVE target'[u] < n + 1
    <3>1. CASE u = t
      BY <1>2, <1>3, <3>1
    <3>2. CASE u # t
      <4>1. HasHandle(u) /\ target'[u] = target[u] /\ target[u] \in Nat
        BY <1>0, <1>7, <2>4, <3>2
      <4>2. QED
        BY <2>1, <4>1 DEF ThreadInv, Unborn, n
    <3>3. QED
      BY <3>1, <3>2
  <2>5. ASSUME NEW u \in Tids, pc'[u] = "insert" PROVE target'[u] > 0
    <3>1. CASE u = t
      BY <1>2, <1>3, <3>1
    <3>2. CASE u # t
      BY <1>3, <2>5, <3>2 DEF ThreadInv, Unborn
    <3>3. QED
      BY <3>1, <3>2
  <2>6. QED
    BY <1>1, <2>2, <2>3, <2>4, <2>5 DEF Unborn
<1>10. WaitTellsTruth'
  <2>1. \A x \in Tids : pc[x] = "stopped" => pc'[x] = "stopped"
    BY <1>1, <1>2, <1>3
  <2>2. QED
    BY <1>1, <2>1, TruthKept
<1>11. CodeStored' /\ StatusReported'
  <2>1. \A u \in Tids : pc'[u] \in {"exiting", "faulted"} => pc[u] \in {"exiting", "faulted"}
    BY <1>3
  <2>2. QED
    BY <1>1, <2>1, CodeKept
<1>12. QED
  BY <1>5, <1>8, <1>9, <1>10, <1>11 DEF ThreadInv

\* The JoinHandle goes from the creator to the table.
LEMMA InsertStep ==
  ASSUME ThreadInv, NEW t \in Tids, status = Running, CreateInserts(t)
  PROVE  ThreadInv'
<1>0. /\ pc \in [Tids -> Places] /\ target \in [Tids -> Tids] /\ next_tid \in 1 .. (MaxTid + 1)
      /\ MaxTid \in Nat /\ threads \subseteq 1 .. MaxTid /\ Tids \subseteq Nat
  BY ThreadFacts
<1>1. /\ pc[t] = "insert" /\ threads' = threads \cup {target[t]} /\ Return(t)
      /\ windowed' = windowed /\ next_tid' = next_tid /\ exit_requested' = exit_requested
      /\ exit_code' = exit_code /\ raiser' = raiser /\ status' = status /\ joined' = joined
  BY DEF CreateInserts, flagVars
<1>2. /\ pc' = [pc EXCEPT ![t] = "loop"] /\ \A u \in Tids \ {t} : target'[u] = target[u]
      /\ pc' \in [Tids -> Places] /\ target' \in [Tids -> Tids] /\ polls' \in [Tids -> 0 .. MaxPolls]
  BY <1>1, ReturnMoves
<1>3. pc'[t] = "loop" /\ \A u \in Tids \ {t} : pc'[u] = pc[u]
  BY <1>0, <1>2
<1>4. HasHandle(t) /\ target[t] < next_tid /\ target[t] > 0 /\ target[t] \in Tids
  BY <1>0, <1>1 DEF ThreadInv, Unborn, HasHandle
<1>5. threads' \subseteq 1 .. MaxTid
  <2>1. target[t] \in 1 .. MaxTid
    BY <1>0, <1>4 DEF Tids
  <2>2. QED
    BY <1>0, <1>1, <2>1
<1>6. ThreadTypeOK'
  BY <1>1, <1>2, <1>5 DEF ThreadInv, ThreadTypeOK, Places
<1>7. \A u \in Tids : HasHandle(u)' => u # t /\ HasHandle(u) /\ target'[u] = target[u]
  BY <1>2, <1>3 DEF HasHandle
<1>8. OneHandle'
  BY <1>1, <1>4, <1>7 DEF ThreadInv, OneHandle
<1>9. Unborn'
  BY <1>1, <1>2, <1>3, <1>4, <1>7 DEF ThreadInv, Unborn
<1>10. WaitTellsTruth'
  BY <1>1, <1>3, TruthKept
<1>11. CodeStored' /\ StatusReported'
  <2>1. \A u \in Tids : pc'[u] \in {"exiting", "faulted"} => pc[u] \in {"exiting", "faulted"}
    BY <1>3
  <2>2. QED
    BY <1>1, <2>1, CodeKept
<1>12. QED
  BY <1>6, <1>8, <1>9, <1>10, <1>11 DEF ThreadInv

\* The JoinHandle goes from the table to the thread that joins.
LEMMA TakeStep ==
  ASSUME ThreadInv, NEW t \in Tids, status = Running, PollTakes(t)
  PROVE  ThreadInv'
<1>0. /\ pc \in [Tids -> Places] /\ target \in [Tids -> Tids] /\ threads \subseteq 1 .. MaxTid
  BY ThreadFacts
<1>1. /\ pc[t] = "poll" /\ target[t] \in threads /\ threads' = threads \ {target[t]}
      /\ pc' = [pc EXCEPT ![t] = "join"] /\ target' = target /\ polls' = polls
      /\ windowed' = windowed /\ next_tid' = next_tid /\ exit_requested' = exit_requested
      /\ exit_code' = exit_code /\ raiser' = raiser /\ status' = status /\ joined' = joined
  BY DEF PollTakes, Goto, flagVars
<1>2. pc'[t] = "join" /\ (\A u \in Tids \ {t} : pc'[u] = pc[u]) /\ pc' \in [Tids -> Places]
  BY <1>0, <1>1 DEF Places
<1>3. threads' \subseteq 1 .. MaxTid
  BY <1>0, <1>1
<1>4. ThreadTypeOK'
  BY <1>1, <1>2, <1>3 DEF ThreadInv, ThreadTypeOK, Places
<1>5. \A u \in Tids : HasHandle(u)' => u = t \/ (u # t /\ HasHandle(u))
  BY <1>2 DEF HasHandle
<1>6. \A u \in Tids : HasHandle(u) => target[u] # target[t]
  BY <1>1 DEF ThreadInv, OneHandle
<1>7. OneHandle'
  BY <1>1, <1>5, <1>6 DEF ThreadInv, OneHandle
<1>8. Unborn'
  BY <1>1, <1>2, <1>5 DEF ThreadInv, Unborn
<1>9. WaitTellsTruth'
  <2>1. \A x \in Tids : pc[x] = "stopped" => pc'[x] = "stopped"
    BY <1>1, <1>2
  <2>2. QED
    BY <1>1, <2>1, TruthKept
<1>10. CodeStored' /\ StatusReported'
  <2>1. \A u \in Tids : pc'[u] \in {"exiting", "faulted"} => pc[u] \in {"exiting", "faulted"}
    BY <1>2
  <2>2. QED
    BY <1>1, <2>1, CodeKept
<1>11. QED
  BY <1>4, <1>7, <1>8, <1>9, <1>10 DEF ThreadInv

\* The other handlers for threads.
LEMMA HandlerSteps ==
  ASSUME ThreadInv, NEW t \in Tids, status = Running,
         \/ PollMisses(t) \/ \E x \in Tids : DosKillThread(t, x) \/ DosWaitThread(t, x)
  PROVE  ThreadInv'
<1>0. /\ pc \in [Tids -> Places] /\ target \in [Tids -> Tids] /\ polls \in [Tids -> 0 .. MaxPolls]
      /\ threads \subseteq 1 .. MaxTid /\ MaxPolls \in Nat
  BY ThreadFacts
<1>1. /\ windowed' = windowed /\ next_tid' = next_tid /\ exit_requested' = exit_requested
      /\ exit_code' = exit_code /\ raiser' = raiser /\ status' = status /\ joined' = joined
      /\ pc[t] \in {"guest", "poll"} /\ threads' \subseteq threads
  BY DEF PollMisses, DosKillThread, DosWaitThread, flagVars
<1>2. target' \in [Tids -> Tids] /\ \A u \in Tids \ {t} : target'[u] = target[u]
  BY <1>0 DEF PollMisses, DosKillThread, DosWaitThread
<1>3. PICK to \in {"loop", "poll"} : pc' = [pc EXCEPT ![t] = to]
  <2>1. CASE PollMisses(t)
    <3>1. pc' = pc /\ pc[t] = "poll"
      BY <2>1 DEF PollMisses
    <3>2. pc' = [pc EXCEPT ![t] = "poll"]
      BY <1>0, <3>1
    <3>3. QED
      BY <3>2
  <2>2. QED
    BY <2>1 DEF DosKillThread, DosWaitThread, Goto
<1>4. to \in Places \ {"none", "insert", "join"} /\ pc' \in [Tids -> Places]
  BY <1>0, <1>3 DEF Places
<1>5. polls' \in [Tids -> 0 .. MaxPolls]
  <2>1. CASE PollMisses(t)
    <3>1. polls[t] + 1 \in 0 .. MaxPolls /\ polls' = [polls EXCEPT ![t] = polls[t] + 1]
      BY <1>0, <2>1 DEF PollMisses
    <3>2. QED
      BY <1>0, <3>1
  <2>2. QED
    BY <1>0, <2>1 DEF DosKillThread, DosWaitThread
<1>6. ThreadTypeOK'
  BY <1>0, <1>1, <1>2, <1>4, <1>5 DEF ThreadInv, ThreadTypeOK, Places
<1>7. OneHandle' /\ Unborn' /\ WaitTellsTruth'
  BY <1>1, <1>2, <1>3, <1>4, MoveKeeps
<1>8. CodeStored' /\ StatusReported'
  <2>1. \A u \in Tids : pc'[u] \in {"exiting", "faulted"} => pc[u] \in {"exiting", "faulted"}
    BY <1>0, <1>3
  <2>2. QED
    BY <1>1, <2>1, CodeKept
<1>9. QED
  BY <1>6, <1>7, <1>8 DEF ThreadInv

\* The steps that change no thread: the end of the process and a closed window.
LEMMA OuterSteps ==
  ASSUME ThreadInv, ProcessEnds \/ (status = Running /\ WindowCloses)
  PROVE  ThreadInv'
<1>1. /\ windowed' = windowed /\ next_tid' = next_tid /\ threads' = threads /\ exit_code' = exit_code
      /\ pc' = pc /\ target' = target /\ polls' = polls /\ joined' = joined
  BY DEF ProcessEnds, CliEnds, RendererEnds, WindowCloses, Ends, flagVars
<1>2. OneHandle' /\ Unborn' /\ WaitTellsTruth'
  BY <1>1 DEF ThreadInv, OneHandle, Unborn, WaitTellsTruth, HasHandle
<1>3. CASE ProcessEnds
  <2>1. /\ exit_requested' = exit_requested /\ raiser' = raiser
        /\ status' = exit_code \/ status' = PanicStatus
    BY <1>3 DEF ProcessEnds, CliEnds, RendererEnds, Ends, flagVars
  <2>2. ThreadTypeOK'
    BY <1>1, <2>1 DEF ThreadInv, ThreadTypeOK
  <2>3. CodeStored' /\ StatusReported'
    BY <1>1, <2>1 DEF ThreadInv, CodeStored, StatusReported, PanicStatus
  <2>4. QED
    BY <1>2, <2>2, <2>3 DEF ThreadInv
<1>4. CASE status = Running /\ WindowCloses
  <2>1. /\ exit_requested' = TRUE /\ raiser' \in {raiser, "window"} /\ status' = status
    BY <1>4 DEF WindowCloses, Raise
  <2>2. ThreadTypeOK'
    BY <1>1, <2>1 DEF ThreadInv, ThreadTypeOK
  <2>3. CodeStored' /\ StatusReported'
    BY <1>1, <1>4, <2>1, CodeKept
  <2>4. QED
    BY <1>2, <2>2, <2>3 DEF ThreadInv
<1>5. QED
  BY <1>3, <1>4

\* Every step keeps the invariant.
LEMMA ThreadStep == ThreadInv /\ [ThreadNext]_threadVars => ThreadInv'
<1> SUFFICES ASSUME ThreadInv, [ThreadNext]_threadVars PROVE ThreadInv'
  OBVIOUS
<1>1. CASE UNCHANGED threadVars
  BY <1>1 DEF ThreadInv, threadVars, flagVars, ThreadTypeOK, OneHandle, HasHandle,
              WaitTellsTruth, Unborn, CodeStored, StatusReported
<1>2. ASSUME NEW t \in Tids, status = Running, HostStep(t) \/ GuestStep(t) \/ JoinRefused(t)
      PROVE  ThreadInv'
  <2>0. /\ {"guest", "stopped", "loop", "sleep", "panicked"} \subseteq
             Places \ {"none", "insert", "join", "exiting", "faulted"}
        /\ joined \subseteq Tids /\ target \in [Tids -> Tids]
    BY ThreadFacts DEF Places
  <2>1. CASE EntersGuest(t) \/ LoopStops(t) \/ DosSleep(t) \/ SleepEnds(t)
             \/ CreatePanics(t) \/ JoinPanics(t) \/ JoinRefused(t)
    BY <1>2, <2>0, <2>1, OnlyPcStep
       DEF EntersGuest, LoopStops, DosSleep, SleepEnds, CreatePanics, JoinPanics, JoinRefused
  <2>2. CASE PollGivesUp(t)
    BY <1>2, <2>0, <2>2, ReturnStep DEF PollGivesUp
  <2>3. CASE JoinReturns(t)
    <3>1. /\ pc[t] = "join" /\ Return(t) /\ UNCHANGED <<windowed, next_tid, threads, flagVars, status>>
          /\ joined' = joined \cup {target[t]} /\ pc[target[t]] = "stopped"
      BY <2>3 DEF JoinReturns
    <3>2. joined' \subseteq Tids /\ \A x \in joined' : x \in joined \/ (x \in Tids /\ pc[x] = "stopped")
      BY <2>0, <3>1
    <3>3. QED
      BY <1>2, <3>1, <3>2, ReturnStep
  <2>4. CASE \/ ExitTrap(t) \/ Fault(t) \/ FaultStops(t) \/ DosExitRaises(t)
             \/ \E c \in Codes : DosExit(t, c)
    BY <1>2, <2>4, EndSteps
  <2>5. CASE \/ PollMisses(t) \/ \E x \in Tids : DosKillThread(t, x) \/ DosWaitThread(t, x)
    BY <1>2, <2>5, HandlerSteps
  <2>6. QED
    BY <1>2, <2>1, <2>2, <2>3, <2>4, <2>5, CreateStep, InsertStep, TakeStep DEF HostStep, GuestStep
<1>3. QED
  BY <1>1, <1>2, OuterSteps DEF ThreadNext

\* The invariant holds always.
LEMMA ThreadAlways == ThreadSpec => []ThreadInv
BY ThreadInitInv, ThreadStep, PTL DEF ThreadSpec

\* Waiting for a thread joins it once, and reports only threads that have ended.
THEOREM WaitsTruthful == ThreadSpec => []JoinsTellTruth
<1>1. ThreadInv => JoinsTellTruth
  BY DEF ThreadInv, JoinsTellTruth
<1>2. QED
  BY <1>1, ThreadAlways, PTL

\* The process does not end with status 0 when an exit code or a fault was the
\* first to ask for its end.
THEOREM StatusTruthful == ThreadSpec => []StatusReported
<1>1. ThreadInv => StatusReported
  BY DEF ThreadInv
<1>2. QED
  BY <1>1, ThreadAlways, PTL
=============================================================================
