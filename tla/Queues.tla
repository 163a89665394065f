------------------------------- MODULE Queues -------------------------------
(***************************************************************************)
(* OS/2 queues: QueueManager of loader/ipc.rs and the DosXxxQueue handlers *)
(* of loader/doscalls.rs.                                                  *)
(*                                                                         *)
(* DosWriteQueue pushes and notifies while it holds queue_mgr and the      *)
(* queue's lock.  DosReadQueue keeps an Arc to the queue, lets go of every *)
(* lock, and sleeps on a condvar paired with ANOTHER mutex (cond_lock): a  *)
(* write between its look at the queue and its wait notifies nobody.  The  *)
(* wait is cut into 100 ms slices.                                         *)
(***************************************************************************)
EXTENDS Integers, Sequences, SequencesExt

CONSTANTS Threads,
          MaxHandles,  \* bound on next_handle
          MaxWrites    \* bound on the elements written

ASSUME QueueAssumption == MaxHandles \in Nat \ {0} /\ MaxWrites \in Nat

VARIABLES next_handle,
          open,        \* keys of QueueManager.queues
          items,       \* OS2Queue.items
          exit_requested,
          pc, arg,     \* a reader's place in dos_read_queue and its queue
          waits,       \* the reader's wait argument is not 0
          entry,       \* the element it has taken
          written,     \* elements written so far; an element is its number
          wrote,       \* history: the elements written to a queue, in order
          left,        \* history: the elements that left a queue, in order
          delivered,   \* history: elements handed to a guest
          dropped      \* history: elements taken but not handed over (rc 8)

mgrVars   == <<next_handle, open>>
callVars  == <<pc, arg, waits, entry>>
histVars  == <<written, wrote, left, delivered, dropped>>
queueVars == <<mgrVars, items, exit_requested, callVars, histVars>>

Handles == 1..MaxHandles

Blocked(t) == pc[t] \in {"top", "pop", "gap", "sleep"}

QueueInit ==
  /\ next_handle = 1
  /\ open = {}
  /\ items = [h \in Handles |-> <<>>]
  /\ exit_requested = FALSE
  /\ pc = [t \in Threads |-> "run"]
  /\ arg = [t \in Threads |-> 1]
  /\ waits = [t \in Threads |-> FALSE]
  /\ entry = [t \in Threads |-> 0]
  /\ written = 0
  /\ wrote = [h \in Handles |-> <<>>]
  /\ left = [h \in Handles |-> <<>>]
  /\ delivered = <<>>
  /\ dropped = {}

-----------------------------------------------------------------------------
(* Handlers that finish under queue_mgr.  DosOpenQueue and DosQueryQueue   *)
(* change nothing; a closed handle makes the others return an error.       *)

DosCreateQueue(t) ==
  /\ pc[t] = "run"
  /\ next_handle \in Handles
  /\ open' = open \cup {next_handle}
  /\ next_handle' = next_handle + 1
  /\ UNCHANGED <<items, exit_requested, callVars, histVars>>

\* notify_one wakes one reader that is already waiting on the condvar, if any
NotifyOne(h) ==
  LET sleepers == {u \in Threads : pc[u] = "sleep" /\ arg[u] = h} IN
  IF sleepers = {} THEN UNCHANGED pc
  ELSE \E u \in sleepers : pc' = [pc EXCEPT ![u] = "top"]

DosWriteQueue(t, h) ==
  /\ pc[t] = "run"
  /\ h \in open
  /\ written < MaxWrites
  /\ items' = [items EXCEPT ![h] = Append(@, written + 1)]
  /\ written' = written + 1
  /\ wrote' = [wrote EXCEPT ![h] = Append(@, written + 1)]
  /\ NotifyOne(h)
  /\ UNCHANGED <<mgrVars, exit_requested, arg, waits, entry, left, delivered, dropped>>

DosPurgeQueue(t, h) ==
  /\ pc[t] = "run"
  /\ h \in open
  /\ items[h] # <<>>
  /\ items' = [items EXCEPT ![h] = <<>>]
  /\ left' = [left EXCEPT ![h] = @ \o items[h]]
  /\ UNCHANGED <<mgrVars, exit_requested, callVars, written, wrote, delivered, dropped>>

\* readers that hold the Arc keep the queue and what is in it
DosCloseQueue(t, h) ==
  /\ pc[t] = "run"
  /\ h \in open
  /\ open' = open \ {h}
  /\ UNCHANGED <<next_handle, items, exit_requested, callVars, histVars>>

-----------------------------------------------------------------------------
(* dos_read_queue                                                          *)

DosReadQueue(t, h, wait) ==
  /\ pc[t] = "run"
  /\ h \in open
  /\ pc' = [pc EXCEPT ![t] = "top"]
  /\ arg' = [arg EXCEPT ![t] = h]
  /\ waits' = [waits EXCEPT ![t] = wait]
  /\ UNCHANGED <<mgrVars, items, exit_requested, entry, histVars>>

Goto(t, to) ==
  /\ pc' = [pc EXCEPT ![t] = to]
  /\ UNCHANGED <<mgrVars, items, exit_requested, arg, waits, entry, histVars>>

Return(t) ==
  /\ pc' = [pc EXCEPT ![t] = "run"]
  /\ arg' = [arg EXCEPT ![t] = 1]
  /\ waits' = [waits EXCEPT ![t] = FALSE]
  /\ entry' = [entry EXCEPT ![t] = 0]
  /\ UNCHANGED <<mgrVars, items, exit_requested, written, wrote, left>>

ReadChecksExit(t) ==
  /\ pc[t] = "top"
  /\ \/ exit_requested /\ Return(t) /\ UNCHANGED <<delivered, dropped>>
     \/ ~exit_requested /\ Goto(t, "pop")

\* mutant of ReadPops: the element is looked at and stays
PopsNothing(t) ==
  LET h == arg[t] IN
  /\ pc[t] = "pop"
  /\ items[h] # <<>>
  /\ entry' = [entry EXCEPT ![t] = Head(items[h])]
  /\ pc' = [pc EXCEPT ![t] = "taken"]
  /\ UNCHANGED <<mgrVars, items, exit_requested, arg, waits, written, wrote, left,
                 delivered, dropped>>

\* pop_front, whatever the attributes of the queue (FIFO, LIFO, by priority)
ReadPops(t) ==
  LET h == arg[t] IN
  /\ pc[t] = "pop"
  /\ items[h] # <<>>
  /\ entry' = [entry EXCEPT ![t] = Head(items[h])]
  /\ items' = [items EXCEPT ![h] = Tail(@)]
  /\ left' = [left EXCEPT ![h] = Append(@, Head(items[h]))]
  /\ pc' = [pc EXCEPT ![t] = "taken"]
  /\ UNCHANGED <<mgrVars, exit_requested, arg, waits, written, wrote, delivered, dropped>>

ReadFindsNothing(t) ==
  /\ pc[t] = "pop"
  /\ items[arg[t]] = <<>>
  /\ \/ waits[t] /\ Goto(t, "gap")
     \/ ~waits[t] /\ Return(t) /\ UNCHANGED <<delivered, dropped>>

\* between the look at the queue and the wait no lock is held
ReadSleeps(t) == pc[t] = "gap" /\ Goto(t, "sleep")

\* mutant of ReadSliceEnds: the wait has no timeout
SleepsForGood(t) == FALSE

ReadSliceEnds(t) == pc[t] = "sleep" /\ Goto(t, "top")

\* mem_mgr.alloc(len): on failure the element is gone
ReadDelivers(t) ==
  /\ pc[t] = "taken"
  /\ delivered' = Append(delivered, entry[t])
  /\ UNCHANGED dropped
  /\ Return(t)

ReadOutOfMemory(t) ==
  /\ pc[t] = "taken"
  /\ dropped' = dropped \cup {entry[t]}
  /\ UNCHANGED delivered
  /\ Return(t)

-----------------------------------------------------------------------------
RequestExit ==
  /\ ~exit_requested
  /\ exit_requested' = TRUE
  /\ UNCHANGED <<mgrVars, items, callVars, histVars>>

ThreadStops(t) == pc[t] = "run" /\ exit_requested /\ Goto(t, "stopped")

ReadStep(t) ==
  \/ ReadChecksExit(t) \/ ReadPops(t) \/ ReadFindsNothing(t) \/ ReadSleeps(t)
  \/ ReadSliceEnds(t) \/ ReadDelivers(t) \/ ReadOutOfMemory(t)

QueueCall(t) ==
  \/ DosCreateQueue(t)
  \/ \E h \in Handles :
       \/ DosWriteQueue(t, h) \/ DosPurgeQueue(t, h) \/ DosCloseQueue(t, h)
       \/ \E wait \in BOOLEAN : DosReadQueue(t, h, wait)

QueueNext == RequestExit \/ \E t \in Threads : ReadStep(t) \/ QueueCall(t) \/ ThreadStops(t)

\* A host thread inside DosReadQueue is scheduled again after each slice.
QueueFairness == \A t \in Threads : WF_queueVars(ReadStep(t))

QueueSpec == QueueInit /\ [][QueueNext]_queueVars /\ QueueFairness

-----------------------------------------------------------------------------
(* Properties.                                                             *)

QueueTypeOK ==
  /\ next_handle \in 1..(MaxHandles + 1)
  /\ open \subseteq Handles
  /\ items \in [Handles -> Seq(1..MaxWrites)]
  /\ exit_requested \in BOOLEAN
  /\ pc \in [Threads -> {"run", "stopped", "top", "pop", "gap", "sleep", "taken"}]
  /\ arg \in [Threads -> Handles]
  /\ waits \in [Threads -> BOOLEAN]
  /\ entry \in [Threads -> 0..MaxWrites]
  /\ written \in 0..MaxWrites
  /\ wrote \in [Handles -> Seq(1..MaxWrites)]
  /\ left \in [Handles -> Seq(1..MaxWrites)]
  /\ delivered \in Seq(1..MaxWrites)
  /\ dropped \subseteq 1..MaxWrites

\* Elements leave a queue, through any number of readers and purges, in the
\* order they were written to it, and none leaves twice or vanishes.
LeavesInOrder == \A h \in Handles : wrote[h] = left[h] \o items[h]

\* An element reaches at most one reader, once: not while another reader
\* holds it, and never after it was delivered or dropped.
DeliveredOnce ==
  /\ IsInjective(delivered)
  /\ \A t \in Threads : pc[t] = "taken" =>
       /\ entry[t] \notin ToSet(delivered) \cup dropped
       /\ \A u \in Threads \ {t} : pc[u] = "taken" => entry[u] # entry[t]
       /\ \A h \in Handles : entry[t] \notin ToSet(items[h])

\* A reader blocked on a queue that has elements does not stay blocked while
\* they stay: the notification it may miss is made up for by the next slice.
BlockedReaderServed ==
  \A t \in Threads, h \in Handles :
    (Blocked(t) /\ arg[t] = h /\ items[h] # <<>>)
      ~> (~Blocked(t) \/ items[h] = <<>>)

\* Shutdown ends every DosReadQueue, also one on a queue closed under it that
\* nobody can write to any more.
ReadShutdownDrains ==
  \A t \in Threads : (exit_requested /\ Blocked(t)) ~> ~Blocked(t)

\* What is written to a queue leaves it in order and reaches one reader once
\* (dos_read_queue takes the element in one critical section and hands it over
\* in another).
EachOnceInOrder == LeavesInOrder /\ DeliveredOnce

\* No DosReadQueue stays blocked on a queue that has elements, or after shutdown
\* was asked for (the wait of dos_read_queue in slices).
ReadersGoOn == BlockedReaderServed /\ ReadShutdownDrains
=============================================================================
