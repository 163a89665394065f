----------------------------- MODULE Processes -----------------------------
(***************************************************************************)
(* Child processes: ProcessManager of loader/managers.rs and DosExecPgm,   *)
(* DosWaitChild and DosKillProcess of loader/process.rs, called by vCPU    *)
(* threads, with the host children and the relay threads that copy their   *)
(* output from a pipe to the console.                                      *)
(*                                                                         *)
(* Calls that fail (program not found, unknown pid, nothing finished and   *)
(* NOWAIT) change nothing and are left out.                                *)
(***************************************************************************)
EXTENDS Integers

CONSTANTS Threads,
          Free,       \* nobody holds process_mgr
          Calls,      \* what the guest does: "sync", "async", "one", "any", "kill"
          MaxProcs,   \* bound on the processes started
          MaxOutput   \* bound on the chunks a child writes

ASSUME ProcAssumption ==
  /\ Free \notin Threads
  /\ MaxProcs \in Nat /\ MaxOutput \in Nat

VARIABLES process_mgr,   \* the holder of the lock, between steps
          children,      \* keys of ProcessManager.children
          relay_threads, \* keys of ProcessManager.relay_threads
          spawned,       \* processes started so far
          child,         \* the host's view of a process
          pipe,          \* chunks written and not yet relayed
          relay,         \* the relay thread of a process
          exit_requested,
          pc, cur,       \* a thread's place in its call and its process
          reports,       \* history: how often a child was reported finished
          via            \* history: how a child was started and disposed of

mapVars  == <<children, relay_threads>>
hostVars == <<spawned, child, pipe, relay>>
callVars == <<pc, cur>>
histVars == <<reports, via>>
procVars == <<process_mgr, mapVars, hostVars, exit_requested, callVars, histVars>>

Procs == 1..MaxProcs

Finished == {p \in children : child[p] = "exited"}

ProcInit ==
  /\ process_mgr = Free
  /\ children = {} /\ relay_threads = {}
  /\ spawned = 0
  /\ child = [p \in Procs |-> "none"]
  /\ pipe = [p \in Procs |-> 0]
  /\ relay = [p \in Procs |-> "none"]
  /\ exit_requested = FALSE
  /\ pc = [t \in Threads |-> "run"]
  /\ cur = [t \in Threads |-> 0]
  /\ reports = [p \in Procs |-> 0]
  /\ via = [p \in Procs |-> "none"]

Goto(t, to, p) ==
  /\ pc' = [pc EXCEPT ![t] = to]
  /\ cur' = [cur EXCEPT ![t] = p]

Return(t) == Goto(t, "run", 0)

\* the guest learns that p has finished
Report(p) == reports' = [reports EXCEPT ![p] = @ + 1]

-----------------------------------------------------------------------------
(* The host: children run, write and exit; relay_pipe_to_vio reads until   *)
(* the pipe is empty and its writer gone.                                  *)

ChildWrites(p) ==
  /\ child[p] = "running"
  /\ pipe[p] < MaxOutput
  /\ pipe' = [pipe EXCEPT ![p] = @ + 1]
  /\ UNCHANGED <<process_mgr, mapVars, spawned, child, relay, exit_requested, callVars, histVars>>

ChildExits(p) ==
  /\ child[p] = "running"
  /\ child' = [child EXCEPT ![p] = "exited"]
  /\ UNCHANGED <<process_mgr, mapVars, spawned, pipe, relay, exit_requested, callVars, histVars>>

RelayCopies(p) ==
  /\ relay[p] = "reading"
  /\ pipe[p] > 0
  /\ pipe' = [pipe EXCEPT ![p] = @ - 1]
  /\ UNCHANGED <<process_mgr, mapVars, spawned, child, relay, exit_requested, callVars, histVars>>

\* mutant of RelayEnds: a relay thread ends only while its handle is kept
RelayNeedsHandle(p) ==
  /\ relay[p] = "reading"
  /\ pipe[p] = 0 /\ child[p] = "exited" /\ p \in relay_threads
  /\ relay' = [relay EXCEPT ![p] = "done"]
  /\ UNCHANGED <<process_mgr, mapVars, spawned, child, pipe, exit_requested, callVars, histVars>>

RelayEnds(p) ==
  /\ relay[p] = "reading"
  /\ pipe[p] = 0 /\ child[p] = "exited"
  /\ relay' = [relay EXCEPT ![p] = "done"]
  /\ UNCHANGED <<process_mgr, mapVars, spawned, child, pipe, exit_requested, callVars, histVars>>

-----------------------------------------------------------------------------
(* DosExecPgm                                                              *)

Spawn(t, how, to) ==
  /\ pc[t] = "run"
  /\ how \in Calls
  /\ spawned < MaxProcs
  /\ spawned' = spawned + 1
  /\ child' = [child EXCEPT ![spawned + 1] = "running"]
  /\ via' = [via EXCEPT ![spawned + 1] = how]
  /\ Goto(t, to, spawned + 1)
  /\ UNCHANGED <<process_mgr, mapVars, pipe, exit_requested, reports>>

\* EXEC_SYNC: relay thread, child.wait(), then join the relay thread
ExecSync(t) ==
  /\ Spawn(t, "sync", "sync_wait")
  /\ relay' = [relay EXCEPT ![spawned + 1] = "reading"]

SyncWaits(t) ==
  /\ pc[t] = "sync_wait"
  /\ child[cur[t]] = "exited"
  /\ Goto(t, "sync_join", cur[t])
  /\ UNCHANGED <<process_mgr, mapVars, hostVars, exit_requested, histVars>>

\* mutant of SyncJoins: the relay thread is not joined
SyncDetaches(t) ==
  /\ pc[t] = "sync_join"
  /\ Report(cur[t])
  /\ Return(t)
  /\ UNCHANGED <<process_mgr, mapVars, hostVars, exit_requested, via>>

SyncJoins(t) ==
  /\ pc[t] = "sync_join"
  /\ relay[cur[t]] = "done"
  /\ Report(cur[t])
  /\ Return(t)
  /\ UNCHANGED <<process_mgr, mapVars, hostVars, exit_requested, via>>

\* EXEC_ASYNC, EXEC_ASYNCRESULT, EXEC_BACKGROUND
ExecAsync(t) == Spawn(t, "async", "register") /\ UNCHANGED relay

Registers(t) ==
  /\ pc[t] = "register"
  /\ process_mgr = Free
  /\ children' = children \cup {cur[t]}
  /\ relay_threads' = relay_threads \cup {cur[t]}
  /\ relay' = [relay EXCEPT ![cur[t]] = "reading"]
  /\ Return(t)
  /\ UNCHANGED <<process_mgr, spawned, child, pipe, exit_requested, histVars>>

-----------------------------------------------------------------------------
(* DosWaitChild(DCWA_PROCESS): the child is taken out of the map first.    *)

TakeChild(t, p, to) ==
  /\ pc[t] = "run"
  /\ process_mgr = Free
  /\ p \in children
  /\ children' = children \ {p}
  /\ Goto(t, to, p)
  /\ UNCHANGED <<process_mgr, relay_threads, hostVars, exit_requested, histVars>>

WaitOneNowait(t, p) == "one" \in Calls /\ TakeChild(t, p, "try")
WaitOne(t, p)       == "one" \in Calls /\ TakeChild(t, p, "wait")

\* NOWAIT: the relay thread's handle stays in relay_threads
TryFinds(t) ==
  /\ pc[t] = "try"
  /\ child[cur[t]] = "exited"
  /\ Report(cur[t])
  /\ Return(t)
  /\ UNCHANGED <<process_mgr, mapVars, hostVars, exit_requested, via>>

\* mutant of TryMisses: a child that still runs is not put back
TryLoses(t) ==
  /\ pc[t] = "try"
  /\ child[cur[t]] = "running"
  /\ Return(t)
  /\ UNCHANGED <<process_mgr, mapVars, hostVars, exit_requested, histVars>>

TryMisses(t) ==
  /\ pc[t] = "try"
  /\ child[cur[t]] = "running"
  /\ Goto(t, "put_back", cur[t])
  /\ UNCHANGED <<process_mgr, mapVars, hostVars, exit_requested, histVars>>

PutsBack(t) ==
  /\ pc[t] = "put_back"
  /\ process_mgr = Free
  /\ children' = children \cup {cur[t]}
  /\ Return(t)
  /\ UNCHANGED <<process_mgr, relay_threads, hostVars, exit_requested, histVars>>

\* WAIT: child.wait() does not look at exit_requested
WaitEnds(t) ==
  /\ pc[t] = "wait"
  /\ child[cur[t]] = "exited"
  /\ Goto(t, "detach", cur[t])
  /\ UNCHANGED <<process_mgr, mapVars, hostVars, exit_requested, histVars>>

\* the relay thread is detached, not joined
Detaches(t) ==
  /\ pc[t] = "detach"
  /\ process_mgr = Free
  /\ relay_threads' = relay_threads \ {cur[t]}
  /\ Report(cur[t])
  /\ Return(t)
  /\ UNCHANGED <<process_mgr, children, hostVars, exit_requested, via>>

-----------------------------------------------------------------------------
(* DosWaitChild(DCWA_PROCESSTREE).  `if let Some(..) = process_mgr.lock()  *)
(* .wait_any() { process_mgr.lock()...' keeps the first guard until the    *)
(* end of the block: the thread locks what it holds.  No step leaves       *)
(* "relock".                                                               *)

AnyFound(t) ==
  /\ process_mgr = Free
  /\ \E p \in Finished :
       /\ children' = children \ {p}
       /\ Goto(t, "relock", p)
  /\ process_mgr' = t
  /\ UNCHANGED <<relay_threads, hostVars, exit_requested, histVars>>

WaitAnyNowait(t) == "any" \in Calls /\ pc[t] = "run" /\ AnyFound(t)

WaitAny(t) ==
  /\ "any" \in Calls
  /\ pc[t] = "run"
  /\ Goto(t, "any_top", 0)
  /\ UNCHANGED <<process_mgr, mapVars, hostVars, exit_requested, histVars>>

AnyShutDown(t) ==
  /\ pc[t] = "any_top"
  /\ exit_requested
  /\ Return(t)
  /\ UNCHANGED <<process_mgr, mapVars, hostVars, exit_requested, histVars>>

AnyFindsOne(t) == pc[t] = "any_top" /\ ~exit_requested /\ AnyFound(t)

AnyFindsNone(t) ==
  /\ pc[t] = "any_top"
  /\ ~exit_requested
  /\ process_mgr = Free
  /\ Finished = {}
  /\ Goto(t, "any_check", 0)
  /\ UNCHANGED <<process_mgr, mapVars, hostVars, exit_requested, histVars>>

\* no children at all: ERROR_INVALID_HANDLE, otherwise sleep 50 ms
AnyChecks(t) ==
  /\ pc[t] = "any_check"
  /\ process_mgr = Free
  /\ IF children = {} THEN Return(t) ELSE Goto(t, "any_top", 0)
  /\ UNCHANGED <<process_mgr, mapVars, hostVars, exit_requested, histVars>>

-----------------------------------------------------------------------------
(* DosKillProcess: the relay thread's handle stays in relay_threads        *)

KillProcess(t, p) == "kill" \in Calls /\ TakeChild(t, p, "kill")

Kills(t) ==
  /\ pc[t] = "kill"
  /\ child' = [child EXCEPT ![cur[t]] = "exited"]
  /\ via' = [via EXCEPT ![cur[t]] = "killed"]
  /\ Return(t)
  /\ UNCHANGED <<process_mgr, mapVars, spawned, pipe, relay, exit_requested, reports>>

RequestExit ==
  /\ ~exit_requested
  /\ exit_requested' = TRUE
  /\ UNCHANGED <<process_mgr, mapVars, hostVars, callVars, histVars>>

-----------------------------------------------------------------------------
ProcStep(t) ==
  \/ SyncWaits(t) \/ SyncJoins(t) \/ Registers(t)
  \/ TryFinds(t) \/ TryMisses(t) \/ PutsBack(t) \/ WaitEnds(t) \/ Detaches(t)
  \/ AnyShutDown(t) \/ AnyFindsOne(t) \/ AnyFindsNone(t) \/ AnyChecks(t) \/ Kills(t)

ProcCall(t) ==
  \/ ExecSync(t) \/ ExecAsync(t) \/ WaitAnyNowait(t) \/ WaitAny(t)
  \/ \E p \in Procs : WaitOneNowait(t, p) \/ WaitOne(t, p) \/ KillProcess(t, p)

RelayStep(p) == RelayCopies(p) \/ RelayEnds(p)

ProcNext ==
  \/ RequestExit
  \/ \E t \in Threads : ProcStep(t) \/ ProcCall(t)
  \/ \E p \in Procs : ChildWrites(p) \/ ChildExits(p) \/ RelayStep(p)

\* The host schedules its threads, and a thread that asks for process_mgr gets
\* it while nobody sits on it; a child's program need not ever end.
ProcFairness ==
  /\ \A t \in Threads : WF_procVars(ProcStep(t))
  /\ \A p \in Procs : WF_procVars(RelayStep(p))

ProcSpec == ProcInit /\ [][ProcNext]_procVars /\ ProcFairness

-----------------------------------------------------------------------------
(* Properties.                                                             *)

ProcTypeOK ==
  /\ process_mgr \in Threads \cup {Free}
  /\ children \subseteq Procs /\ relay_threads \subseteq Procs
  /\ spawned \in 0..MaxProcs
  /\ child \in [Procs -> {"none", "running", "exited"}]
  /\ pipe \in [Procs -> 0..MaxOutput]
  /\ relay \in [Procs -> {"none", "reading", "done"}]
  /\ exit_requested \in BOOLEAN
  /\ pc \in [Threads -> {"run", "sync_wait", "sync_join", "register", "try", "put_back",
                         "wait", "detach", "relock", "any_top", "any_check", "kill"}]
  /\ cur \in [Threads -> 0..MaxProcs]
  /\ reports \in [Procs -> Nat]
  /\ via \in [Procs -> {"none", "sync", "async", "killed"}]

\* Whatever threads wait for it, poll it or kill it at once, a child is
\* reported finished to one caller at most, and never before it has exited.
ReportedOnce ==
  \A p \in Procs : reports[p] <= 1 /\ (reports[p] = 1 => child[p] = "exited")

\* a call has p, p is in the table, or p was reported or killed
Held(p)    == \E t \in Threads : cur[t] = p
Settled(p) == via[p] = "killed" \/ reports[p] > 0

\* A child is never lost: it is in the table, or in the hands of exactly one
\* call, until it was reported or killed; no two calls have it.
ChildAccounted ==
  /\ \A t, u \in Threads : t # u /\ cur[t] \in Procs => cur[u] # cur[t]
  /\ \A p \in Procs : via[p] # "none" =>
       \/ Held(p) /\ p \notin children /\ ~Settled(p)
       \/ p \in children /\ ~Held(p) /\ ~Settled(p)
       \/ Settled(p) /\ ~Held(p) /\ p \notin children

\* DosExecPgm(EXEC_SYNC) returns after the last chunk of the child's output
\* has reached the console: it joins the relay thread.
SyncOutputComplete ==
  \A p \in Procs : via[p] = "sync" /\ reports[p] = 1 => pipe[p] = 0 /\ relay[p] = "done"

\* Detached or not, the relay thread of a finished child copies the rest of
\* the output and ends.
RelayTerminates ==
  \A p \in Procs : (child[p] = "exited" /\ relay[p] = "reading") ~> relay[p] = "done"

\* A guest that waits for one child or runs one synchronously gets its answer
\* once that child has exited, unless a wait for any child has locked up
\* process_mgr for good.
WaitOneAnswered ==
  \A t \in Threads, p \in Procs :
    (pc[t] \in {"wait", "detach", "sync_wait", "sync_join"} /\ cur[t] = p
       /\ child[p] = "exited") ~> (reports[p] = 1 \/ process_mgr # Free)

\* wait_any's comment: DosWaitChild(DCWA_PROCESSTREE) gets the pid and exit code
\* of a finished child; so the call that found one returns to the guest.
AnyWaitReturns ==
  \A t \in Threads : pc[t] = "relock" ~> pc[t] = "run"

\* Every child that was started has one owner and one report (TakeChild and
\* putting it back in dos_wait_child).
ChildrenAccounted == ReportedOnce /\ ChildAccounted

\* A child that has exited keeps neither its relay thread nor the call that waits
\* for it (the relay threads of dos_exec_pgm, DosWaitChild).
ChildrenEnd == RelayTerminates /\ WaitOneAnswered
=============================================================================
