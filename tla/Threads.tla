------------------------------ MODULE Threads ------------------------------
(***************************************************************************)
(* The life of guest threads: run_vcpu's loop (loader/vcpu.rs),            *)
(* DosCreateThread, DosWaitThread and DosSleep (loader/doscalls.rs),       *)
(* DosKillThread (loader/stubs.rs), DosExit (loader/api_registry.rs) and   *)
(* the ways main.rs ends the process.                                      *)
(*                                                                         *)
(* A guest thread is a host thread with a vCPU.  Headless, tid 0 runs on   *)
(* the program's main thread and the process ends when it leaves the loop; *)
(* with a window a renderer has the main thread and ends the process when  *)
(* it sees exit_requested.  A Rust panic ends its thread.                  *)
(***************************************************************************)
EXTENDS Integers

CONSTANTS MaxTid,    \* bound on next_tid
          MaxPolls,  \* looks DosWaitThread takes at the table (100 in the code)
          Codes      \* exit codes guests use, none of them 0

ASSUME ThreadAssumption ==
  /\ MaxTid \in Nat
  /\ MaxPolls \in Nat \ {0}
  /\ Codes \subseteq Nat \ {0}

VARIABLES windowed,        \* a renderer has the main thread
          next_tid,
          threads,         \* keys of SharedState.threads: JoinHandles by tid
          exit_requested, exit_code,
          pc,              \* a thread's place in the loop or in a handler
          target,          \* the tid DosCreateThread or DosWaitThread works on
          polls,           \* looks at the table so far
          status,          \* the exit status of the process once it ended
          raiser,          \* history: what set exit_requested first
          joined           \* history: tids a DosWaitThread reported ended

flagVars   == <<exit_requested, exit_code, raiser>>
threadVars == <<windowed, next_tid, threads, flagVars, pc, target, polls, status, joined>>

Tids == 0..MaxTid

Running == -1   \* status of a process that has not ended

PanicStatus == 101

ThreadInit ==
  /\ windowed \in BOOLEAN
  /\ next_tid = 1
  /\ threads = {}
  /\ exit_requested = FALSE
  /\ exit_code = 0
  /\ pc = [t \in Tids |-> IF t = 0 THEN "loop" ELSE "none"]
  /\ target = [t \in Tids |-> 0]
  /\ polls = [t \in Tids |-> 0]
  /\ status = Running
  /\ raiser = "none"
  /\ joined = {}

Goto(t, to) == pc' = [pc EXCEPT ![t] = to]

\* back from a handler to the loop
Return(t) ==
  /\ Goto(t, "loop")
  /\ target' = [target EXCEPT ![t] = 0]
  /\ polls' = [polls EXCEPT ![t] = 0]

Raise(who) ==
  /\ exit_requested' = TRUE
  /\ raiser' = IF exit_requested THEN raiser ELSE who

OnlyPc == UNCHANGED <<windowed, next_tid, threads, flagVars, target, polls, status, joined>>

-----------------------------------------------------------------------------
(* run_vcpu                                                                *)

EntersGuest(t) == pc[t] = "loop" /\ ~exit_requested /\ Goto(t, "guest") /\ OnlyPc

LoopStops(t) == pc[t] = "loop" /\ exit_requested /\ Goto(t, "stopped") /\ OnlyPc

\* The guest function returns to EXIT_TRAP_ADDR, the guest halts or hits a
\* breakpoint nobody set: the flag alone, exit_code stays what it was.
ExitTrap(t) ==
  /\ pc[t] = "guest"
  /\ Raise(IF t = 0 THEN "main" ELSE "return")
  /\ Goto(t, "stopped")
  /\ UNCHANGED <<windowed, next_tid, threads, exit_code, target, polls, status, joined>>

\* triple fault, unhandled VM exit, KVM error: exit_code, then the flag
Fault(t) ==
  /\ pc[t] = "guest"
  /\ exit_code' = 1
  /\ Goto(t, "faulted")
  /\ UNCHANGED <<windowed, next_tid, threads, exit_requested, raiser, target, polls,
                 status, joined>>

FaultStops(t) ==
  /\ pc[t] = "faulted"
  /\ Raise("fault")
  /\ Goto(t, "stopped")
  /\ UNCHANGED <<windowed, next_tid, threads, exit_code, target, polls, status, joined>>

\* mutant of DosExit: the flag is set before the code is stored
DosExitFlagFirst(t, code) ==
  /\ pc[t] = "guest"
  /\ Raise("exit")
  /\ Goto(t, "exiting")
  /\ UNCHANGED <<windowed, next_tid, threads, exit_code, target, polls, status, joined>>

DosExit(t, code) ==
  /\ pc[t] = "guest"
  /\ exit_code' = code
  /\ Goto(t, "exiting")
  /\ UNCHANGED <<windowed, next_tid, threads, exit_requested, raiser, target, polls,
                 status, joined>>

DosExitRaises(t) ==
  /\ pc[t] = "exiting"
  /\ Raise("exit")
  /\ Return(t)
  /\ UNCHANGED <<windowed, next_tid, threads, exit_code, status, joined>>

-----------------------------------------------------------------------------
(* Thread handlers                                                         *)

\* sleeps in slices of 100 ms and leaves early at shutdown
DosSleep(t) == pc[t] = "guest" /\ Goto(t, "sleep") /\ OnlyPc

SleepEnds(t) == pc[t] = "sleep" /\ Goto(t, "loop") /\ OnlyPc

\* dos_create_thread holds mem_mgr from the allocations to its end
MemMgrFree == \A u \in Tids : pc[u] # "insert"

\* the new thread runs before its JoinHandle is in the table
DosCreateThread(t) ==
  /\ pc[t] = "guest"
  /\ MemMgrFree
  /\ next_tid \in Tids
  /\ next_tid' = next_tid + 1
  /\ pc' = [pc EXCEPT ![t] = "insert", ![next_tid] = "loop"]
  /\ target' = [target EXCEPT ![t] = next_tid]
  /\ UNCHANGED <<windowed, threads, flagVars, polls, status, joined>>

CreateInserts(t) ==
  /\ pc[t] = "insert"
  /\ threads' = threads \cup {target[t]}
  /\ Return(t)
  /\ UNCHANGED <<windowed, next_tid, flagVars, status, joined>>

\* room for the stack but not for the TIB: alloc(4096).unwrap() panics
CreatePanics(t) ==
  /\ pc[t] = "guest"
  /\ MemMgrFree
  /\ Goto(t, "panicked")
  /\ OnlyPc

DosKillThread(t, x) ==
  /\ pc[t] = "guest"
  /\ x \in threads
  /\ threads' = threads \ {x}
  /\ Goto(t, "loop")
  /\ UNCHANGED <<windowed, next_tid, flagVars, target, polls, status, joined>>

DosWaitThread(t, x) ==
  /\ pc[t] = "guest"
  /\ Goto(t, "poll")
  /\ target' = [target EXCEPT ![t] = x]
  /\ UNCHANGED <<windowed, next_tid, threads, flagVars, polls, status, joined>>

\* shutdown, or no handle after the last look: 309
PollGivesUp(t) ==
  /\ pc[t] = "poll"
  /\ exit_requested \/ polls[t] = MaxPolls
  /\ Return(t)
  /\ UNCHANGED <<windowed, next_tid, threads, flagVars, status, joined>>

\* mutant of PollTakes: the handle stays in the table
PollShares(t) ==
  /\ pc[t] = "poll"
  /\ ~exit_requested /\ polls[t] < MaxPolls
  /\ target[t] \in threads
  /\ Goto(t, "join")
  /\ UNCHANGED <<windowed, next_tid, threads, flagVars, target, polls, status, joined>>

PollTakes(t) ==
  /\ pc[t] = "poll"
  /\ ~exit_requested /\ polls[t] < MaxPolls
  /\ target[t] \in threads
  /\ threads' = threads \ {target[t]}
  /\ Goto(t, "join")
  /\ UNCHANGED <<windowed, next_tid, flagVars, target, polls, status, joined>>

PollMisses(t) ==
  /\ pc[t] = "poll"
  /\ ~exit_requested /\ polls[t] < MaxPolls
  /\ target[t] \notin threads
  /\ polls' = [polls EXCEPT ![t] = @ + 1]
  /\ UNCHANGED <<windowed, next_tid, threads, flagVars, pc, target, status, joined>>

\* mutant of JoinReturns: does not wait for the end of the thread
JoinsAtOnce(t) ==
  /\ pc[t] = "join"
  /\ joined' = joined \cup {target[t]}
  /\ Return(t)
  /\ UNCHANGED <<windowed, next_tid, threads, flagVars, status>>

\* join() itself does not look at exit_requested
JoinReturns(t) ==
  /\ pc[t] = "join"
  /\ pc[target[t]] = "stopped"
  /\ joined' = joined \cup {target[t]}
  /\ Return(t)
  /\ UNCHANGED <<windowed, next_tid, threads, flagVars, status>>

\* join().unwrap() of a thread that panicked
JoinPanics(t) ==
  /\ pc[t] = "join"
  /\ pc[target[t]] = "panicked"
  /\ Goto(t, "panicked")
  /\ OnlyPc

\* pthread_join may refuse a thread that joins itself or the thread that is
\* joining it (join() panics); it need not, and then they wait for ever
JoinRefused(t) ==
  LET x == target[t] IN
  /\ pc[t] = "join"
  /\ x = t \/ (pc[x] = "join" /\ target[x] = t)
  /\ Goto(t, "panicked")
  /\ OnlyPc

-----------------------------------------------------------------------------
(* The end of the process                                                  *)

Ends(code) ==
  /\ status = Running
  /\ status' = code
  /\ UNCHANGED <<windowed, next_tid, threads, flagVars, pc, target, polls, joined>>

\* setup_and_run_cli after run_vcpu, or a panic of the main thread
CliEnds ==
  /\ ~windowed
  /\ \/ pc[0] = "stopped" /\ Ends(exit_code)
     \/ pc[0] = "panicked" /\ Ends(PanicStatus)

\* the renderer's loop ends; main.rs exits
RendererEnds == windowed /\ exit_requested /\ Ends(exit_code)

\* the user closes the window
WindowCloses ==
  /\ windowed
  /\ Raise("window")
  /\ UNCHANGED <<windowed, next_tid, threads, exit_code, pc, target, polls, status, joined>>

-----------------------------------------------------------------------------
HostStep(t) ==
  \/ EntersGuest(t) \/ LoopStops(t) \/ FaultStops(t) \/ DosExitRaises(t) \/ SleepEnds(t)
  \/ CreateInserts(t) \/ PollGivesUp(t) \/ PollTakes(t) \/ PollMisses(t)
  \/ JoinReturns(t) \/ JoinPanics(t)

\* what the guest does next; each leaves guest code
GuestStep(t) ==
  \/ ExitTrap(t) \/ Fault(t) \/ DosSleep(t) \/ DosCreateThread(t) \/ CreatePanics(t)
  \/ \E c \in Codes : DosExit(t, c)
  \/ \E x \in Tids : DosKillThread(t, x) \/ DosWaitThread(t, x)

ProcessEnds == CliEnds \/ RendererEnds

ThreadNext ==
  \/ status = Running /\ \E t \in Tids : HostStep(t) \/ GuestStep(t) \/ JoinRefused(t)
  \/ status = Running /\ WindowCloses
  \/ ProcessEnds

\* Host threads are scheduled, and the renderer keeps drawing frames.
HostFairness ==
  /\ \A t \in Tids : WF_threadVars(status = Running /\ HostStep(t))
  /\ WF_threadVars(ProcessEnds)

\* Guest code calls the system again some time: vcpu.run() has no other end.
GuestFairness == \A t \in Tids : WF_threadVars(status = Running /\ GuestStep(t))

ThreadSpec ==
  ThreadInit /\ [][ThreadNext]_threadVars /\ HostFairness /\ GuestFairness

-----------------------------------------------------------------------------
(* Properties.                                                             *)

ThreadTypeOK ==
  /\ windowed \in BOOLEAN
  /\ next_tid \in 1..(MaxTid + 1)
  /\ threads \subseteq 1..MaxTid
  /\ exit_requested \in BOOLEAN
  /\ exit_code \in Codes \cup {0, 1}
  /\ pc \in [Tids -> {"none", "loop", "guest", "faulted", "exiting", "sleep", "insert",
                      "poll", "join", "stopped", "panicked"}]
  /\ target \in [Tids -> Tids]
  /\ polls \in [Tids -> 0..MaxPolls]
  /\ status \in Codes \cup {Running, 0, 1, PanicStatus}
  /\ raiser \in {"none", "exit", "fault", "main", "return", "window"}
  /\ joined \subseteq Tids

\* t has a JoinHandle in its hands, that of target[t]
HasHandle(t) == pc[t] \in {"insert", "join"}

\* A thread's JoinHandle is in one place: with its creator, in the table, or
\* with the one thread that joins it.
OneHandle ==
  \A t \in Tids : HasHandle(t) =>
    /\ target[t] \notin threads
    /\ \A u \in Tids \ {t} : HasHandle(u) => target[u] # target[t]

\* DosWaitThread reports the end of a thread that has left run_vcpu, also one
\* that was created, killed and waited for by different threads.
WaitTellsTruth == \A x \in joined : pc[x] = "stopped"

\* Waiting for a thread joins it once and tells the truth (dos_wait_thread takes
\* the JoinHandle out of the table and joins without the lock).
JoinsTellTruth == OneHandle /\ WaitTellsTruth

\* The process does not end with status 0 when a DosExit(code) or a fault was
\* the first to ask for the end, whoever else asks before main.rs reads
\* exit_code: the code is stored before the flag.
StatusReported == status = 0 => raiser \notin {"exit", "fault"}

\* Once the end of the process is asked for it comes, although DosWaitThread
\* joins without looking at exit_requested: a handle can be taken once, so
\* a chain of joins that starts at tid 0 ends at a thread that is not joining.
ShutdownEnds == exit_requested ~> status # Running

\* thread_test.c goes on after DosWaitThread and says that the child finished
\* (EXIT_TRAP_ADDR is the thread exit trap): when a thread returns, its waiter
\* runs guest code again.
WaiterGoesOn ==
  \A t, x \in Tids :
    (pc[t] = "join" /\ target[t] = x /\ pc[x] = "stopped" /\ raiser = "return")
      ~> pc[t] = "guest"
=============================================================================
