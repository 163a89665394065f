----------------------------- MODULE Semaphores -----------------------------
(***************************************************************************)
(* OS/2 semaphores: SemaphoreManager of loader/ipc.rs and the DosXxxSem    *)
(* handlers of loader/doscalls.rs, called by vCPU threads.                 *)
(*                                                                         *)
(* A call that blocks looks its handle up under sem_mgr, clones the Arc of *)
(* the object and lets go of sem_mgr, so the object outlives its handle:   *)
(* closing removes h from `open' and leaves the object to its waiters.     *)
(* Handles come from one counter and are never reused, so an object is     *)
(* named by its handle.  A blocked caller sleeps on the condvar for at     *)
(* most 100 ms (mux: 10 ms) and checks again; a finite timeout may run out *)
(* at any check.                                                           *)
(***************************************************************************)
EXTENDS Integers, Sequences

CONSTANTS Threads,     \* thread ids
          MainTid,     \* tid 0, the thread the program starts on
          NoOwner,     \* owner_tid = None
          Kinds,       \* the semaphore kinds the guest creates
          MaxHandles,  \* bound on next_handle
          MaxCount,    \* bound on request_count
          Records      \* the record lists guests build a mux from

ASSUME SemAssumption ==
  /\ MainTid \in Threads
  /\ NoOwner \notin Threads
  /\ MaxHandles \in Nat \ {0} /\ MaxCount \in Nat
  /\ Records \subseteq Seq(1..MaxHandles) \ {<<>>}

VARIABLES next_handle, \* SemaphoreManager: handles made so far are below it
          open,        \* keys of event_sems, mutex_sems and mux_sems
          kind,        \* which of the three maps a handle was put in
          posted,      \* EventSemaphore.posted
          owner,       \* MutexSemaphore.owner_tid
          count,       \* MutexSemaphore.request_count
          mux,         \* MuxWaitSemaphore records and wait_all
          exit_requested,
          pc,          \* where a thread is in its call
          arg,         \* the handle the call looked up
          forever,     \* msec = u32::MAX
          scan,        \* a mux call's loop variables
          held         \* history: requests granted minus releases, per thread

mgrVars  == <<next_handle, open, kind, mux>>
callVars == <<pc, arg, forever, scan>>
semVars  == <<mgrVars, posted, owner, count, exit_requested, callVars, held>>

Handles == 1..MaxHandles

NoScan == [i |-> 1, ready |-> 0, all |-> TRUE]

InCall(t) == pc[t] \notin {"run", "stopped"}

SemInit ==
  /\ next_handle = 1
  /\ open = {}
  /\ kind = [h \in Handles |-> "none"]
  /\ posted = [h \in Handles |-> FALSE]
  /\ owner = [h \in Handles |-> NoOwner]
  /\ count = [h \in Handles |-> 0]
  /\ mux = [h \in Handles |-> [records |-> <<>>, wait_all |-> FALSE]]
  /\ exit_requested = FALSE
  /\ pc = [t \in Threads |-> "run"]
  /\ arg = [t \in Threads |-> 1]
  /\ forever = [t \in Threads |-> FALSE]
  /\ scan = [t \in Threads |-> NoScan]
  /\ held = [t \in Threads |-> [h \in Handles |-> 0]]

IsOpen(h, k) == h \in open /\ kind[h] = k

Goto(t, to) ==
  /\ pc' = [pc EXCEPT ![t] = to]
  /\ UNCHANGED <<arg, forever, scan>>

\* back to the guest: the call's locals are gone
Return(t) ==
  /\ pc' = [pc EXCEPT ![t] = "run"]
  /\ arg' = [arg EXCEPT ![t] = 1]
  /\ forever' = [forever EXCEPT ![t] = FALSE]
  /\ scan' = [scan EXCEPT ![t] = NoScan]

-----------------------------------------------------------------------------
(* Handlers that finish under sem_mgr.                                     *)

NewHandle(k) ==
  /\ k \in Kinds
  /\ next_handle \in Handles
  /\ open' = open \cup {next_handle}
  /\ kind' = [kind EXCEPT ![next_handle] = k]
  /\ next_handle' = next_handle + 1

DosCreateEventSem(t, f_state) ==
  /\ pc[t] = "run"
  /\ NewHandle("event")
  /\ posted' = [posted EXCEPT ![next_handle] = f_state]
  /\ UNCHANGED <<owner, count, mux, exit_requested, callVars, held>>

\* An initially owned mutex belongs to tid 0 whoever creates it.
DosCreateMutexSem(t, f_state) ==
  /\ pc[t] = "run"
  /\ NewHandle("mutex")
  /\ owner' = [owner EXCEPT ![next_handle] = IF f_state THEN MainTid ELSE NoOwner]
  /\ count' = [count EXCEPT ![next_handle] = IF f_state THEN 1 ELSE 0]
  /\ held' = IF f_state THEN [held EXCEPT ![MainTid][next_handle] = 1] ELSE held
  /\ UNCHANGED <<posted, mux, exit_requested, callVars>>

DosCreateMuxWaitSem(t, records, wait_all) ==
  /\ pc[t] = "run"
  /\ NewHandle("mux")
  /\ mux' = [mux EXCEPT ![next_handle] = [records |-> records, wait_all |-> wait_all]]
  /\ UNCHANGED <<posted, owner, count, exit_requested, callVars, held>>

\* DosCloseEventSem, DosCloseMutexSem, DosCloseMuxWaitSem; a handle of another
\* kind is not in the map (ERROR_INVALID_HANDLE).
DosCloseSem(t, h, k) ==
  /\ pc[t] = "run"
  /\ IsOpen(h, k)
  /\ open' = open \ {h}
  /\ UNCHANGED <<next_handle, kind, posted, owner, count, mux, exit_requested,
                 callVars, held>>

\* notify_all on the condvar of h
Notify(h, asleep, awake) ==
  pc' = [u \in Threads |-> IF pc[u] = asleep /\ arg[u] = h THEN awake ELSE pc[u]]

DosPostEventSem(t, h) ==
  /\ pc[t] = "run"
  /\ IsOpen(h, "event")
  /\ ~posted[h]
  /\ posted' = [posted EXCEPT ![h] = TRUE]
  /\ Notify(h, "event_sleep", "event")
  /\ UNCHANGED <<mgrVars, owner, count, exit_requested, arg, forever, scan, held>>

-----------------------------------------------------------------------------
(* Blocking handlers: look the handle up, then work on the object.         *)

Lookup(t, h, k, infinite, to) ==
  /\ pc[t] = "run"
  /\ IsOpen(h, k)
  /\ pc' = [pc EXCEPT ![t] = to]
  /\ arg' = [arg EXCEPT ![t] = h]
  /\ forever' = [forever EXCEPT ![t] = infinite]
  /\ UNCHANGED <<mgrVars, posted, owner, count, exit_requested, scan, held>>

DosWaitEventSem(t, h, infinite)   == Lookup(t, h, "event", infinite, "event")
DosRequestMutexSem(t, h, infinite) ==
  held[t][h] < MaxCount /\ Lookup(t, h, "mutex", infinite, "request")
DosReleaseMutexSem(t, h)          == Lookup(t, h, "mutex", FALSE, "release")
DosWaitMuxWaitSem(t, h, infinite) == Lookup(t, h, "mux", infinite, "mux")

OnlyPc == UNCHANGED <<mgrVars, posted, owner, count, exit_requested, held>>

\* mutant of WaitEventReturns: the handle is looked up again
WaitNeedsHandle(t) ==
  /\ pc[t] = "event"
  /\ (posted[arg[t]] /\ arg[t] \in open) \/ exit_requested \/ ~forever[t]
  /\ Return(t)
  /\ OnlyPc

\* while !posted: return 0, 640 at shutdown, 640 at the deadline, or sleep
WaitEventReturns(t) ==
  /\ pc[t] = "event"
  /\ posted[arg[t]] \/ exit_requested \/ ~forever[t]
  /\ Return(t)
  /\ OnlyPc

WaitEventSleeps(t) ==
  /\ pc[t] = "event"
  /\ ~posted[arg[t]] /\ ~exit_requested
  /\ Goto(t, "event_sleep")
  /\ OnlyPc

\* mutant of RequestGranted: the owner is not looked at
GrantAnyway(t) ==
  /\ pc[t] = "request"
  /\ ~exit_requested
  /\ owner' = [owner EXCEPT ![arg[t]] = t]
  /\ count' = [count EXCEPT ![arg[t]] = IF owner[arg[t]] = t THEN @ + 1 ELSE 1]
  /\ held' = [held EXCEPT ![t][arg[t]] = @ + 1]
  /\ Return(t)
  /\ UNCHANGED <<mgrVars, posted, exit_requested>>

\* the shutdown check comes before the owner is looked at
RequestGranted(t) ==
  /\ pc[t] = "request"
  /\ ~exit_requested
  /\ owner[arg[t]] \in {NoOwner, t}
  /\ owner' = [owner EXCEPT ![arg[t]] = t]
  /\ count' = [count EXCEPT ![arg[t]] = IF owner[arg[t]] = t THEN @ + 1 ELSE 1]
  /\ held' = [held EXCEPT ![t][arg[t]] = @ + 1]
  /\ Return(t)
  /\ UNCHANGED <<mgrVars, posted, exit_requested>>

\* mutant of RequestGivesUp: shutdown is not checked
RequestIgnoresExit(t) ==
  /\ pc[t] = "request"
  /\ owner[arg[t]] \notin {NoOwner, t} /\ ~forever[t]
  /\ Return(t)
  /\ OnlyPc

RequestGivesUp(t) ==
  /\ pc[t] = "request"
  /\ \/ exit_requested
     \/ owner[arg[t]] \notin {NoOwner, t} /\ ~forever[t]
  /\ Return(t)
  /\ OnlyPc

RequestSleeps(t) ==
  /\ pc[t] = "request"
  /\ ~exit_requested
  /\ owner[arg[t]] \notin {NoOwner, t}
  /\ Goto(t, "request_sleep")
  /\ OnlyPc

\* wait_timeout returns after a slice even if nobody notified
SliceEnds(t) ==
  \/ pc[t] = "event_sleep" /\ Goto(t, "event") /\ OnlyPc
  \/ pc[t] = "request_sleep" /\ Goto(t, "request") /\ OnlyPc
  \/ pc[t] = "mux_sleep" /\ Goto(t, "mux") /\ OnlyPc

\* mutant of ReleaseDone: anybody releases
ReleaseUnchecked(t) ==
  /\ pc[t] = "release"
  /\ count' = [count EXCEPT ![arg[t]] = @ - 1]
  /\ owner' = [owner EXCEPT ![arg[t]] = IF count[arg[t]] = 1 THEN NoOwner ELSE @]
  /\ held' = [held EXCEPT ![t][arg[t]] = @ - 1]
  /\ Return(t)
  /\ UNCHANGED <<mgrVars, posted, exit_requested>>

\* only the owner releases (288 otherwise); the last release wakes everybody
ReleaseDone(t) ==
  LET h == arg[t]
      mine == owner[h] = t
      last == mine /\ count[h] = 1 IN
  /\ pc[t] = "release"
  /\ count' = [count EXCEPT ![h] = IF mine THEN @ - 1 ELSE @]
  /\ owner' = [owner EXCEPT ![h] = IF last THEN NoOwner ELSE @]
  /\ held' = [held EXCEPT ![t][h] = IF mine THEN @ - 1 ELSE @]
  /\ pc' = [u \in Threads |->
              CASE u = t -> "run"
                [] u # t /\ last /\ pc[u] = "request_sleep" /\ arg[u] = h -> "request"
                [] OTHER -> pc[u]]
  /\ arg' = [arg EXCEPT ![t] = 1]
  /\ UNCHANGED <<mgrVars, posted, exit_requested, forever, scan>>

-----------------------------------------------------------------------------
(* DosWaitMuxWaitSem takes sem_mgr anew for every record it looks at.      *)

MuxStarts(t) ==
  /\ pc[t] = "mux"
  /\ ~exit_requested
  /\ pc' = [pc EXCEPT ![t] = "mux_scan"]
  /\ scan' = [scan EXCEPT ![t] = NoScan]
  /\ UNCHANGED <<arg, forever>>
  /\ OnlyPc

MuxShutDown(t) == pc[t] = "mux" /\ exit_requested /\ Return(t) /\ OnlyPc

IsReady(t, h) ==
  \/ IsOpen(h, "event") /\ posted[h]
  \/ IsOpen(h, "mutex") /\ owner[h] \in {NoOwner, t}

\* mutant of MuxScans: a record that is not ready does not clear all_ready
MuxForgets(t) ==
  LET i == scan[t].i
      records == mux[arg[t]].records IN
  /\ pc[t] = "mux_scan"
  /\ i <= Len(records)
  /\ scan' = [scan EXCEPT ![t].i = i + 1,
                          ![t].ready = IF IsReady(t, records[i]) THEN i ELSE @]
  /\ UNCHANGED <<pc, arg, forever>>
  /\ OnlyPc

MuxScans(t) ==
  LET i == scan[t].i
      records == mux[arg[t]].records IN
  /\ pc[t] = "mux_scan"
  /\ i <= Len(records)
  /\ scan' = [scan EXCEPT ![t] =
                IF IsReady(t, records[i])
                  THEN [i |-> i + 1, ready |-> i, all |-> @.all]
                  ELSE [i |-> i + 1, ready |-> @.ready, all |-> FALSE]]
  /\ UNCHANGED <<pc, arg, forever>>
  /\ OnlyPc

MuxSatisfied(t) ==
  IF mux[arg[t]].wait_all THEN scan[t].all ELSE scan[t].ready # 0

MuxScanned(t) == pc[t] = "mux_scan" /\ scan[t].i > Len(mux[arg[t]].records)

\* about to write the user value of the ready record and return 0
MuxSucceeds(t) ==
  /\ MuxScanned(t)
  /\ MuxSatisfied(t)
  /\ Goto(t, "mux_ok")
  /\ OnlyPc

MuxSleeps(t) ==
  /\ MuxScanned(t)
  /\ ~MuxSatisfied(t)
  /\ \/ Goto(t, "mux_sleep")
     \/ ~forever[t] /\ Return(t)
  /\ OnlyPc

MuxReturns(t) == pc[t] = "mux_ok" /\ Return(t) /\ OnlyPc

-----------------------------------------------------------------------------
\* DosExit, a closed window or a fault: exit_requested is never cleared.
RequestExit ==
  /\ ~exit_requested
  /\ exit_requested' = TRUE
  /\ UNCHANGED <<mgrVars, posted, owner, count, callVars, held>>

\* the top of run_vcpu's loop
ThreadStops(t) ==
  /\ pc[t] = "run"
  /\ exit_requested
  /\ Goto(t, "stopped")
  /\ OnlyPc

\* what a thread does inside a call, with no choice of the guest's
SemStep(t) ==
  \/ WaitEventReturns(t) \/ WaitEventSleeps(t)
  \/ RequestGranted(t) \/ RequestGivesUp(t) \/ RequestSleeps(t)
  \/ SliceEnds(t)
  \/ ReleaseDone(t)
  \/ MuxStarts(t) \/ MuxShutDown(t) \/ MuxScans(t)
  \/ MuxSucceeds(t) \/ MuxSleeps(t) \/ MuxReturns(t)

\* what the guest asks for
SemCall(t) ==
  \/ \E s \in BOOLEAN : DosCreateEventSem(t, s) \/ DosCreateMutexSem(t, s)
  \/ \E r \in Records, all \in BOOLEAN : DosCreateMuxWaitSem(t, r, all)
  \/ \E h \in Handles :
       \/ \E k \in Kinds : DosCloseSem(t, h, k)
       \/ DosPostEventSem(t, h)
       \/ \E f \in BOOLEAN : \/ DosWaitEventSem(t, h, f)
                             \/ DosRequestMutexSem(t, h, f)
                             \/ DosWaitMuxWaitSem(t, h, f)
       \/ DosReleaseMutexSem(t, h)

SemNext == RequestExit \/ \E t \in Threads : SemStep(t) \/ SemCall(t) \/ ThreadStops(t)

\* A host thread inside a handler is always scheduled again: its sleeps are
\* bounded and nobody holds sem_mgr or a semaphore's lock while sleeping.
SemFairness == \A t \in Threads : WF_semVars(SemStep(t))

SemSpec == SemInit /\ [][SemNext]_semVars /\ SemFairness

-----------------------------------------------------------------------------
(* Properties.                                                             *)

SemPcs == {"run", "stopped", "event", "event_sleep", "request", "request_sleep",
           "release", "mux", "mux_scan", "mux_sleep", "mux_ok"}

MgrTypeOK ==
  /\ next_handle \in 1..(MaxHandles + 1)
  /\ open \subseteq Handles
  /\ kind \in [Handles -> {"none", "event", "mutex", "mux"}]
  /\ mux \in [Handles -> [records : Seq(Handles), wait_all : BOOLEAN]]

ObjTypeOK ==
  /\ posted \in [Handles -> BOOLEAN]
  /\ owner \in [Handles -> Threads \cup {NoOwner}]
  /\ count \in [Handles -> Nat]
  /\ held \in [Threads -> [Handles -> Nat]]

CallTypeOK ==
  /\ exit_requested \in BOOLEAN
  /\ pc \in [Threads -> SemPcs]
  /\ arg \in [Threads -> Handles]
  /\ forever \in [Threads -> BOOLEAN]
  /\ scan \in [Threads -> [i : Nat, ready : Nat, all : BOOLEAN]]

SemTypeOK == MgrTypeOK /\ ObjTypeOK /\ CallTypeOK

\* owner_tid and request_count agree with what the guest was told: the owner
\* is the one thread with grants it has not given back, and request_count is
\* their number.  In particular no two threads hold a mutex, through closes of
\* the handle, recursive requests, releases by others and shutdown.
MutexAgreement ==
  \A h \in Handles, t \in Threads :
    held[t][h] = IF owner[h] = t THEN count[h] ELSE 0

\* When DosWaitMuxWaitSem is about to return 0, the event its user value names
\* was posted, and with wait_all every event of the mux was, although the scan
\* lets go of sem_mgr between records and other threads post and close.
MuxTellsTruth ==
  \A t \in Threads : pc[t] = "mux_ok" =>
    LET m == mux[arg[t]]
        EventPosted(i) == kind[m.records[i]] = "event" => posted[m.records[i]] IN
    /\ scan[t].ready \in 1..Len(m.records)
    /\ EventPosted(scan[t].ready)
    /\ m.wait_all => \A i \in 1..Len(m.records) : EventPosted(i)

\* Shutdown reaches every blocked semaphore call, infinite waits on closed or
\* orphaned semaphores included (developer_guide.md: all blocking operations
\* check exit_requested).
ShutdownDrains ==
  \A t \in Threads : (exit_requested /\ InCall(t)) ~> ~InCall(t)

\* A wait on an event that has been posted ends, also when the post came
\* between the check and the sleep or the handle was closed meanwhile.
PostEndsWait ==
  \A t \in Threads, h \in Handles :
    (pc[t] \in {"event", "event_sleep"} /\ arg[t] = h /\ posted[h])
      ~> pc[t] \notin {"event", "event_sleep"}

Lock == INSTANCE RecursiveLock WITH Threads <- Threads, Handles <- Handles, held <- held

\* Seen by what requests and releases return, the mutex semaphores implement
\* the recursive lock: a request is granted only when no other thread has an
\* unreleased grant, a release is accepted only from a thread that has one.
ImplementsRecursiveLock == Lock!LockSpec
=============================================================================
