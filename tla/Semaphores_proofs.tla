------------------------- MODULE Semaphores_proofs -------------------------
(***************************************************************************)
(* Proofs about Semaphores for every set of threads and every bound: type  *)
(* correctness, agreement of owner_tid and request_count with what guests  *)
(* were told, the implementation of the recursive lock, and that a mux     *)
(* reports only what was posted.                                           *)
(***************************************************************************)
EXTENDS Semaphores, TLAPS

\* An owned mutex has a positive count and a free one a zero count.
OwnedMeansCounted == \A h \in Handles : owner[h] = NoOwner <=> count[h] = 0

\* Open handles were made by the counter.
OpenMade == \A h \in open : h < next_handle

\* A call works on a handle that was made.
CallsMade == \A t \in Threads : InCall(t) => arg[t] < next_handle

\* A handle not made yet has a free object: creating a mutex overwrites
\* nobody's grant.
UnmadeFree == \A h \in Handles : h >= next_handle => owner[h] = NoOwner

\* The inductive invariant.
SemInv ==
  /\ MgrTypeOK /\ ObjTypeOK /\ CallTypeOK
  /\ MutexAgreement /\ OwnedMeansCounted
  /\ OpenMade /\ CallsMade /\ UnmadeFree

-----------------------------------------------------------------------------
\* The initial state satisfies the inductive invariant.
LEMMA InitSemInv == SemInit => SemInv
<1> SUFFICES ASSUME SemInit PROVE SemInv
  OBVIOUS
<1> USE SemAssumption DEF SemInit, Handles
<1>1. MgrTypeOK
  BY DEF MgrTypeOK
<1>2. ObjTypeOK
  BY DEF ObjTypeOK
<1>3. CallTypeOK
  <2>1. pc \in [Threads -> SemPcs]
    BY DEF SemPcs
  <2>2. scan \in [Threads -> [i : Nat, ready : Nat, all : BOOLEAN]]
    BY DEF NoScan
  <2>3. exit_requested \in BOOLEAN /\ forever \in [Threads -> BOOLEAN]
    OBVIOUS
  <2>4. arg \in [Threads -> Handles]
    OBVIOUS
  <2>5. QED
    BY <2>1, <2>2, <2>3, <2>4 DEF CallTypeOK
<1>4. MutexAgreement /\ OwnedMeansCounted
  BY DEF MutexAgreement, OwnedMeansCounted
<1>5. OpenMade /\ CallsMade /\ UnmadeFree
  BY DEF OpenMade, CallsMade, UnmadeFree, InCall
<1>6. QED
  BY <1>1, <1>2, <1>3, <1>4, <1>5 DEF SemInv

\* A step that leaves the mutexes and the handle counter alone keeps the
\* invariant if it is well typed and works on a handle that was made.
LEMMA QuietStep ==
  ASSUME SemInv, MgrTypeOK', ObjTypeOK', CallTypeOK', CallsMade',
         UNCHANGED <<next_handle, owner, count, held>>,
         open' \subseteq open
  PROVE  SemInv'
<1>1. MutexAgreement' /\ OwnedMeansCounted'
  BY DEF SemInv, MutexAgreement, OwnedMeansCounted
<1>2. OpenMade' /\ UnmadeFree'
  BY DEF SemInv, OpenMade, UnmadeFree
<1>3. QED
  BY <1>1, <1>2 DEF SemInv

-----------------------------------------------------------------------------
\* What the handle counter does, whatever kind of semaphore is created.
LEMMA NewHandleFacts ==
  ASSUME SemInv, NEW k \in {"event", "mutex", "mux"}, NewHandle(k)
  PROVE  /\ next_handle \in Handles
         /\ next_handle' = next_handle + 1
         /\ next_handle' \in 1..(MaxHandles + 1)
         /\ open' \subseteq Handles
         /\ kind' \in [Handles -> {"none", "event", "mutex", "mux"}]
         /\ OpenMade'
<1> USE SemAssumption DEF SemInv, MgrTypeOK, NewHandle, Handles
<1>1. next_handle \in Handles /\ next_handle' = next_handle + 1
  OBVIOUS
<1>2. next_handle' \in 1..(MaxHandles + 1) /\ open' \subseteq Handles
  OBVIOUS
<1>3. kind' \in [Handles -> {"none", "event", "mutex", "mux"}]
  OBVIOUS
<1>4. OpenMade'
  BY DEF OpenMade
<1>5. QED
  BY <1>1, <1>2, <1>3, <1>4

\* A thread in a call stays on a handle that was made when the counter grows.
LEMMA CallsStayMade ==
  ASSUME SemInv, next_handle \in Handles, next_handle' = next_handle + 1, UNCHANGED callVars
  PROVE  CallsMade'
<1>1. \A u \in Threads : arg[u] \in Int
  BY SemAssumption DEF SemInv, CallTypeOK, Handles
<1>2. next_handle \in Int
  BY SemAssumption DEF Handles
<1>3. QED
  BY <1>1, <1>2 DEF SemInv, CallsMade, InCall, callVars

\* Creating an event semaphore keeps the invariant.
LEMMA CreateEventInv ==
  ASSUME SemInv, NEW t \in Threads, NEW s \in BOOLEAN, DosCreateEventSem(t, s)
  PROVE  SemInv'
<1>0. NewHandle("event") /\ UNCHANGED <<owner, count, mux, exit_requested, callVars, held>>
  BY DEF DosCreateEventSem
<1>1. /\ next_handle \in Handles
      /\ next_handle' = next_handle + 1
      /\ next_handle' \in 1..(MaxHandles + 1)
      /\ open' \subseteq Handles
      /\ kind' \in [Handles -> {"none", "event", "mutex", "mux"}]
      /\ OpenMade'
  BY <1>0, NewHandleFacts
<1>2. MgrTypeOK'
  BY <1>0, <1>1 DEF SemInv, MgrTypeOK
<1>3. ObjTypeOK'
  BY <1>0 DEF SemInv, ObjTypeOK, DosCreateEventSem
<1>4. CallTypeOK'
  BY <1>0 DEF SemInv, CallTypeOK, callVars
<1>5. MutexAgreement' /\ OwnedMeansCounted'
  BY <1>0 DEF SemInv, MutexAgreement, OwnedMeansCounted
<1>6. CallsMade'
  BY <1>0, <1>1, CallsStayMade
<1>7. UnmadeFree'
  BY SemAssumption, <1>0, <1>1 DEF SemInv, UnmadeFree, Handles
<1>8. QED
  BY <1>1, <1>2, <1>3, <1>4, <1>5, <1>6, <1>7 DEF SemInv

\* Creating a mux semaphore keeps the invariant.
LEMMA CreateMuxInv ==
  ASSUME SemInv, NEW t \in Threads, NEW s \in BOOLEAN, NEW r \in Records,
         DosCreateMuxWaitSem(t, r, s)
  PROVE  SemInv'
<1>0. NewHandle("mux") /\ UNCHANGED <<posted, owner, count, exit_requested, callVars, held>>
  BY DEF DosCreateMuxWaitSem
<1>1. /\ next_handle \in Handles
      /\ next_handle' = next_handle + 1
      /\ next_handle' \in 1..(MaxHandles + 1)
      /\ open' \subseteq Handles
      /\ kind' \in [Handles -> {"none", "event", "mutex", "mux"}]
      /\ OpenMade'
  BY <1>0, NewHandleFacts
<1>2. mux' \in [Handles -> [records : Seq(Handles), wait_all : BOOLEAN]]
  <2>1. r \in Seq(Handles)
    BY SemAssumption DEF Handles
  <2>2. QED
    BY <2>1 DEF SemInv, MgrTypeOK, DosCreateMuxWaitSem
<1>3. MgrTypeOK'
  BY <1>1, <1>2 DEF MgrTypeOK
<1>4. ObjTypeOK' /\ CallTypeOK'
  BY <1>0 DEF SemInv, ObjTypeOK, CallTypeOK, callVars
<1>5. MutexAgreement' /\ OwnedMeansCounted'
  BY <1>0 DEF SemInv, MutexAgreement, OwnedMeansCounted
<1>6. CallsMade'
  BY <1>0, <1>1, CallsStayMade
<1>7. UnmadeFree'
  BY SemAssumption, <1>0, <1>1 DEF SemInv, UnmadeFree, Handles
<1>8. QED
  BY <1>1, <1>3, <1>4, <1>5, <1>6, <1>7 DEF SemInv

\* Creating a mutex, owned by tid 0 or free, keeps the invariant: the handle is
\* new, so no thread holds what it names.
LEMMA CreateMutexInv ==
  ASSUME SemInv, NEW t \in Threads, NEW s \in BOOLEAN, DosCreateMutexSem(t, s)
  PROVE  SemInv'
<1>0. NewHandle("mutex") /\ UNCHANGED <<posted, mux, exit_requested, callVars>>
  BY DEF DosCreateMutexSem
<1>1. /\ next_handle \in Handles
      /\ next_handle' = next_handle + 1
      /\ next_handle' \in 1..(MaxHandles + 1)
      /\ open' \subseteq Handles
      /\ kind' \in [Handles -> {"none", "event", "mutex", "mux"}]
      /\ OpenMade'
  BY <1>0, NewHandleFacts
<1>2. MgrTypeOK'
  BY <1>0, <1>1 DEF SemInv, MgrTypeOK
<1>3. ObjTypeOK'
  BY <1>0, <1>1, SemAssumption DEF SemInv, ObjTypeOK, DosCreateMutexSem
<1>4. CallTypeOK'
  BY <1>0 DEF SemInv, CallTypeOK, callVars
<1>5. OwnedMeansCounted'
  BY <1>1, SemAssumption DEF SemInv, ObjTypeOK, OwnedMeansCounted, DosCreateMutexSem
<1>6. MutexAgreement'
  <2>1. owner[next_handle] = NoOwner
    BY <1>1, SemAssumption DEF SemInv, UnmadeFree, Handles
  <2>2. \A u \in Threads : held[u][next_handle] = 0
    BY <1>1, <2>1, SemAssumption DEF SemInv, MutexAgreement
  <2>3. QED
    BY <1>1, <2>2, SemAssumption DEF SemInv, ObjTypeOK, MutexAgreement, DosCreateMutexSem
<1>7. CallsMade'
  BY <1>0, <1>1, CallsStayMade
<1>8. UnmadeFree'
  BY SemAssumption, <1>1 DEF SemInv, UnmadeFree, ObjTypeOK, Handles, DosCreateMutexSem
<1>9. QED
  BY <1>1, <1>2, <1>3, <1>4, <1>5, <1>6, <1>7, <1>8 DEF SemInv

-----------------------------------------------------------------------------
\* A thread that moves inside its call, or back to the guest's loop and out of
\* it, keeps the call variables typed and stays on a handle that was made.
LEMMA GotoFacts ==
  ASSUME SemInv, NEW t \in Threads, NEW to \in SemPcs, Goto(t, to),
         InCall(t) \/ to \in {"run", "stopped"},
         UNCHANGED <<next_handle, exit_requested>>
  PROVE  CallTypeOK' /\ CallsMade'
<1>1. CallTypeOK'
  BY DEF SemInv, CallTypeOK, Goto
<1>2. CallsMade'
  BY DEF SemInv, CallTypeOK, CallsMade, InCall, Goto
<1>3. QED
  BY <1>1, <1>2

\* The same for a thread whose call returns.
LEMMA ReturnFacts ==
  ASSUME SemInv, NEW t \in Threads, Return(t), UNCHANGED <<next_handle, exit_requested>>
  PROVE  CallTypeOK' /\ CallsMade'
<1>1. CallTypeOK'
  <2>1. NoScan \in [i : Nat, ready : Nat, all : BOOLEAN]
    BY DEF NoScan
  <2>2. pc' \in [Threads -> SemPcs]
    BY DEF SemInv, CallTypeOK, Return, SemPcs
  <2>3. arg' \in [Threads -> Handles]
    BY SemAssumption DEF SemInv, CallTypeOK, Return, Handles
  <2>4. forever' \in [Threads -> BOOLEAN]
    BY DEF SemInv, CallTypeOK, Return
  <2>5. scan' \in [Threads -> [i : Nat, ready : Nat, all : BOOLEAN]]
    BY <2>1 DEF SemInv, CallTypeOK, Return
  <2>6. exit_requested' \in BOOLEAN
    BY DEF SemInv, CallTypeOK
  <2>7. QED
    BY <2>2, <2>3, <2>4, <2>5, <2>6 DEF CallTypeOK
<1>2. CallsMade'
  BY DEF SemInv, CallTypeOK, CallsMade, InCall, Return
<1>3. QED
  BY <1>1, <1>2

\* Steps that touch only the call variables keep the invariant when those stay
\* well typed and on handles that were made.
LEMMA OnlyPcInv ==
  ASSUME SemInv, OnlyPc, CallTypeOK', CallsMade'
  PROVE  SemInv'
<1>1. UNCHANGED <<next_handle, open, kind, mux, posted, owner, count, held>>
  BY DEF OnlyPc, mgrVars
<1>2. MgrTypeOK' /\ ObjTypeOK'
  BY <1>1 DEF SemInv, MgrTypeOK, ObjTypeOK
<1>3. QED
  BY <1>1, <1>2, QuietStep

\* Looking a handle up keeps the invariant: it is open, so it was made.
LEMMA LookupInv ==
  ASSUME SemInv, NEW t \in Threads, NEW h \in Handles, NEW k, NEW f \in BOOLEAN,
         NEW to \in SemPcs, Lookup(t, h, k, f, to)
  PROVE  SemInv'
<1>1. OnlyPc /\ UNCHANGED scan /\ UNCHANGED <<next_handle, exit_requested>>
  BY DEF Lookup, OnlyPc, mgrVars
<1>2. CallTypeOK'
  BY <1>1 DEF SemInv, CallTypeOK, Lookup
<1>3. CallsMade'
  BY <1>1 DEF SemInv, CallTypeOK, CallsMade, OpenMade, IsOpen, InCall, Lookup
<1>4. QED
  BY <1>1, <1>2, <1>3, OnlyPcInv

\* Waking the threads asleep on a condvar leaves each of them in its call.
LEMMA PostInv ==
  ASSUME SemInv, NEW t \in Threads, NEW h \in Handles, DosPostEventSem(t, h)
  PROVE  SemInv'
<1>1. UNCHANGED <<next_handle, open, kind, mux, owner, count, held, exit_requested, arg,
                  forever, scan>>
  BY DEF DosPostEventSem, mgrVars
<1>2. MgrTypeOK' /\ ObjTypeOK'
  BY <1>1 DEF SemInv, MgrTypeOK, ObjTypeOK, DosPostEventSem
<1>3. CallTypeOK'
  <2>1. pc' \in [Threads -> SemPcs]
    BY DEF SemInv, CallTypeOK, DosPostEventSem, Notify, SemPcs
  <2>2. QED
    BY <1>1, <2>1 DEF SemInv, CallTypeOK
<1>4. CallsMade'
  BY <1>1 DEF SemInv, CallsMade, InCall, DosPostEventSem, Notify
<1>5. QED
  BY <1>1, <1>2, <1>3, <1>4, QuietStep

-----------------------------------------------------------------------------
\* Granting a request keeps the invariant: the mutex was free or the thread's
\* own, so nobody else has a grant.
LEMMA GrantInv ==
  ASSUME SemInv, NEW t \in Threads, RequestGranted(t)
  PROVE  SemInv'
<1> DEFINE h == arg[t]
<1>0. UNCHANGED <<next_handle, open, kind, mux, posted, exit_requested>> /\ Return(t)
  BY DEF RequestGranted, mgrVars
<1>1. /\ h \in Handles /\ h < next_handle /\ next_handle \in Nat
      /\ owner[h] \in {NoOwner, t}
      /\ owner' = [owner EXCEPT ![h] = t]
      /\ count' = [count EXCEPT ![h] = IF owner[h] = t THEN @ + 1 ELSE 1]
      /\ held' = [held EXCEPT ![t][h] = @ + 1]
  <2>1. h \in Handles /\ next_handle \in Nat
    BY DEF SemInv, MgrTypeOK, CallTypeOK
  <2>2. h < next_handle
    BY DEF SemInv, CallsMade, InCall, RequestGranted
  <2>3. QED
    BY <2>1, <2>2 DEF RequestGranted
<1> HIDE DEF h
<1>2. MgrTypeOK'
  BY <1>0 DEF SemInv, MgrTypeOK
<1>3. ObjTypeOK'
  BY <1>0, <1>1 DEF SemInv, ObjTypeOK
<1>4. CallTypeOK' /\ CallsMade'
  BY <1>0, ReturnFacts
<1>5. MutexAgreement'
  BY <1>1, SemAssumption DEF SemInv, ObjTypeOK, MutexAgreement, OwnedMeansCounted
<1>6. OwnedMeansCounted'
  BY <1>1, SemAssumption DEF SemInv, ObjTypeOK, OwnedMeansCounted
<1>7. OpenMade'
  BY <1>0 DEF SemInv, OpenMade
<1>8. UnmadeFree'
  BY <1>0, <1>1 DEF SemInv, UnmadeFree, ObjTypeOK, Handles
<1>9. QED
  BY <1>2, <1>3, <1>4, <1>5, <1>6, <1>7, <1>8 DEF SemInv

\* Releasing keeps the invariant: only the owner's release counts, and the one
\* that takes the count to zero frees the mutex.
LEMMA ReleaseInv ==
  ASSUME SemInv, NEW t \in Threads, ReleaseDone(t)
  PROVE  SemInv'
<1> DEFINE h == arg[t]
           mine == owner[h] = t
           last == mine /\ count[h] = 1
<1>0. UNCHANGED <<next_handle, open, kind, mux, posted, exit_requested, forever, scan>>
  BY DEF ReleaseDone, mgrVars
<1>1. /\ h \in Handles /\ h < next_handle /\ next_handle \in Nat
      /\ owner' = [owner EXCEPT ![h] = IF last THEN NoOwner ELSE @]
      /\ count' = [count EXCEPT ![h] = IF mine THEN @ - 1 ELSE @]
      /\ held' = [held EXCEPT ![t][h] = IF mine THEN @ - 1 ELSE @]
  <2>1. h \in Handles /\ next_handle \in Nat
    BY DEF SemInv, MgrTypeOK, CallTypeOK
  <2>2. h < next_handle
    BY DEF SemInv, CallsMade, InCall, ReleaseDone
  <2>3. QED
    BY <2>1, <2>2 DEF ReleaseDone
<1>2. mine => count[h] > 0 /\ held[t][h] = count[h]
  BY <1>1, SemAssumption DEF SemInv, ObjTypeOK, MutexAgreement, OwnedMeansCounted
<1>3. MgrTypeOK'
  BY <1>0 DEF SemInv, MgrTypeOK
<1>4. CallTypeOK' /\ CallsMade'
  <2>1. pc' \in [Threads -> SemPcs]
    BY DEF SemInv, CallTypeOK, ReleaseDone, SemPcs
  <2>2. arg' \in [Threads -> Handles]
    BY SemAssumption DEF SemInv, CallTypeOK, ReleaseDone, Handles
  <2>3. CallTypeOK'
    BY <1>0, <2>1, <2>2 DEF SemInv, CallTypeOK
  <2>4. CallsMade'
    BY <1>0 DEF SemInv, CallTypeOK, CallsMade, InCall, ReleaseDone
  <2>5. QED
    BY <2>3, <2>4
<1> HIDE DEF h
<1>5. ObjTypeOK'
  BY <1>0, <1>1, <1>2 DEF SemInv, ObjTypeOK
<1>6. MutexAgreement'
  BY <1>1, <1>2, SemAssumption DEF SemInv, ObjTypeOK, MutexAgreement
<1>7. OwnedMeansCounted'
  BY <1>1, <1>2, SemAssumption DEF SemInv, ObjTypeOK, OwnedMeansCounted
<1>8. OpenMade'
  BY <1>0 DEF SemInv, OpenMade
<1>9. UnmadeFree'
  BY <1>0, <1>1 DEF SemInv, UnmadeFree, ObjTypeOK, Handles
<1>10. QED
  BY <1>3, <1>4, <1>5, <1>6, <1>7, <1>8, <1>9 DEF SemInv

-----------------------------------------------------------------------------
\* Every step a thread takes inside a call keeps the invariant.
LEMMA SemStepInv ==
  ASSUME SemInv, NEW t \in Threads, SemStep(t)
  PROVE  SemInv'
<1> USE DEF SemPcs, InCall
<1>0. OnlyPc => UNCHANGED <<next_handle, exit_requested>>
  BY DEF OnlyPc, mgrVars
<1>1. ASSUME Return(t), OnlyPc PROVE SemInv'
  BY <1>0, <1>1, ReturnFacts, OnlyPcInv
<1>2. ASSUME NEW to \in SemPcs, Goto(t, to), InCall(t), OnlyPc PROVE SemInv'
  BY <1>0, <1>2, GotoFacts, OnlyPcInv
<1>3. CASE WaitEventReturns(t)
  BY <1>1, <1>3 DEF WaitEventReturns
<1>4. CASE WaitEventSleeps(t)
  BY <1>2, <1>4 DEF WaitEventSleeps
<1>5. CASE RequestGranted(t)
  BY <1>5, GrantInv
<1>6. CASE RequestGivesUp(t)
  BY <1>1, <1>6 DEF RequestGivesUp
<1>7. CASE RequestSleeps(t)
  BY <1>2, <1>7 DEF RequestSleeps
<1>8. CASE SliceEnds(t)
  BY <1>2, <1>8 DEF SliceEnds
<1>9. CASE ReleaseDone(t)
  BY <1>9, ReleaseInv
<1>10. CASE MuxStarts(t)
  <2>1. NoScan \in [i : Nat, ready : Nat, all : BOOLEAN]
    BY DEF NoScan
  <2>2. CallTypeOK'
    BY <1>0, <1>10, <2>1 DEF SemInv, CallTypeOK, MuxStarts
  <2>3. CallsMade'
    BY <1>0, <1>10 DEF SemInv, CallTypeOK, CallsMade, MuxStarts
  <2>4. QED
    BY <1>10, <2>2, <2>3, OnlyPcInv DEF MuxStarts
<1>11. CASE MuxShutDown(t)
  BY <1>1, <1>11 DEF MuxShutDown
<1>12. CASE MuxScans(t)
  <2>1. scan[t] \in [i : Nat, ready : Nat, all : BOOLEAN]
    BY DEF SemInv, CallTypeOK
  <2>2. scan' \in [Threads -> [i : Nat, ready : Nat, all : BOOLEAN]]
    BY <1>12, <2>1 DEF SemInv, CallTypeOK, MuxScans
  <2>3. CallTypeOK'
    BY <1>0, <1>12, <2>2 DEF SemInv, CallTypeOK, MuxScans
  <2>4. CallsMade'
    BY <1>0, <1>12 DEF SemInv, CallsMade, MuxScans
  <2>5. QED
    BY <1>12, <2>3, <2>4, OnlyPcInv DEF MuxScans
<1>13. CASE MuxSucceeds(t)
  BY <1>2, <1>13 DEF MuxSucceeds, MuxScanned
<1>14. CASE MuxSleeps(t)
  BY <1>1, <1>2, <1>14 DEF MuxSleeps, MuxScanned
<1>15. CASE MuxReturns(t)
  BY <1>1, <1>15 DEF MuxReturns
<1>16. QED
  BY <1>3, <1>4, <1>5, <1>6, <1>7, <1>8, <1>9, <1>10, <1>11, <1>12, <1>13, <1>14, <1>15
     DEF SemStep

\* Every call a guest makes keeps the invariant.
LEMMA SemCallInv ==
  ASSUME SemInv, NEW t \in Threads, SemCall(t)
  PROVE  SemInv'
<1>1. ASSUME NEW s \in BOOLEAN, DosCreateEventSem(t, s) PROVE SemInv'
  BY <1>1, CreateEventInv
<1>2. ASSUME NEW s \in BOOLEAN, DosCreateMutexSem(t, s) PROVE SemInv'
  BY <1>2, CreateMutexInv
<1>3. ASSUME NEW r \in Records, NEW a \in BOOLEAN, DosCreateMuxWaitSem(t, r, a) PROVE SemInv'
  BY <1>3, CreateMuxInv
<1>4. ASSUME NEW h \in Handles, NEW k \in Kinds, DosCloseSem(t, h, k) PROVE SemInv'
  <2>1. UNCHANGED <<next_handle, kind, posted, owner, count, mux, exit_requested, held>>
    BY <1>4 DEF DosCloseSem
  <2>2. open' \subseteq open /\ UNCHANGED <<pc, arg, forever, scan>>
    BY <1>4 DEF DosCloseSem, callVars
  <2>3. MgrTypeOK' /\ ObjTypeOK'
    BY <2>1, <2>2 DEF SemInv, MgrTypeOK, ObjTypeOK
  <2>4. CallTypeOK' /\ CallsMade'
    BY <2>1, <2>2 DEF SemInv, CallTypeOK, CallsMade, InCall
  <2>5. QED
    BY <2>1, <2>2, <2>3, <2>4, QuietStep
<1>5. ASSUME NEW h \in Handles, DosPostEventSem(t, h) PROVE SemInv'
  BY <1>5, PostInv
<1>6. ASSUME NEW h \in Handles, NEW f \in BOOLEAN,
             \/ DosWaitEventSem(t, h, f) \/ DosRequestMutexSem(t, h, f)
             \/ DosWaitMuxWaitSem(t, h, f)
      PROVE  SemInv'
  <2>1. {"event", "request", "mux"} \subseteq SemPcs
    BY DEF SemPcs
  <2>2. QED
    BY <1>6, <2>1, LookupInv DEF DosWaitEventSem, DosRequestMutexSem, DosWaitMuxWaitSem
<1>7. ASSUME NEW h \in Handles, DosReleaseMutexSem(t, h) PROVE SemInv'
  BY <1>7, LookupInv DEF DosReleaseMutexSem, SemPcs
<1>8. QED
  BY <1>1, <1>2, <1>3, <1>4, <1>5, <1>6, <1>7 DEF SemCall

\* The invariant is inductive.
LEMMA NextSemInv == SemInv /\ [SemNext]_semVars => SemInv'
<1> SUFFICES ASSUME SemInv, [SemNext]_semVars PROVE SemInv'
  OBVIOUS
<1>1. CASE RequestExit
  <2>1. UNCHANGED <<next_handle, open, kind, mux, posted, owner, count, pc, arg, forever,
                    scan, held>> /\ exit_requested' \in BOOLEAN
    BY <1>1 DEF RequestExit, mgrVars, callVars
  <2>2. MgrTypeOK' /\ ObjTypeOK'
    BY <2>1 DEF SemInv, MgrTypeOK, ObjTypeOK
  <2>3. CallTypeOK' /\ CallsMade'
    BY <2>1 DEF SemInv, CallTypeOK, CallsMade, InCall
  <2>4. QED
    BY <2>1, <2>2, <2>3, QuietStep
<1>2. ASSUME NEW t \in Threads, ThreadStops(t) PROVE SemInv'
  <2>1. Goto(t, "stopped") /\ OnlyPc /\ UNCHANGED <<next_handle, exit_requested>>
    BY <1>2 DEF ThreadStops, OnlyPc, mgrVars
  <2>2. CallTypeOK' /\ CallsMade'
    BY <2>1, GotoFacts DEF SemPcs
  <2>3. QED
    BY <2>1, <2>2, OnlyPcInv
<1>3. CASE UNCHANGED semVars
  <2>1. UNCHANGED <<next_handle, open, kind, mux, posted, owner, count, exit_requested, pc,
                    arg, forever, scan, held>>
    BY <1>3 DEF semVars, mgrVars, callVars
  <2>2. MgrTypeOK' /\ ObjTypeOK'
    BY <2>1 DEF SemInv, MgrTypeOK, ObjTypeOK
  <2>3. CallTypeOK' /\ CallsMade'
    BY <2>1 DEF SemInv, CallTypeOK, CallsMade, InCall
  <2>4. QED
    BY <2>1, <2>2, <2>3, QuietStep
<1>4. QED
  BY <1>1, <1>2, <1>3, SemStepInv, SemCallInv DEF SemNext

\* The inductive invariant holds in every reachable state.
THEOREM SemInvariant == SemSpec => []SemInv
<1>1. QED
  BY InitSemInv, NextSemInv, PTL DEF SemSpec

\* Every variable of the semaphore model keeps its type, for every set of
\* threads, number of handles and family of mux records.
THEOREM SemTypeCorrect == SemSpec => []SemTypeOK
<1>1. SemInv => SemTypeOK
  BY DEF SemInv, SemTypeOK
<1>2. QED
  BY <1>1, SemInvariant, PTL

\* At every moment owner_tid and request_count of a mutex semaphore agree with
\* the grants and releases the guest's threads were told of, so no two threads
\* hold one mutex.
THEOREM MutexSafe == SemSpec => [](MutexAgreement /\ OwnedMeansCounted)
<1>1. SemInv => MutexAgreement /\ OwnedMeansCounted
  BY DEF SemInv
<1>2. QED
  BY <1>1, SemInvariant, PTL

-----------------------------------------------------------------------------
\* Grants, accepted releases and the creation of an owned mutex are steps of
\* the recursive lock; everything else leaves the grants alone.
LEMMA LockStep ==
  ASSUME SemInv, [SemNext]_semVars
  PROVE  [Lock!LockNext]_held
<1> USE DEF Lock!LockNext, Lock!Acquire, Lock!Release
<1>1. ASSUME NEW t \in Threads, RequestGranted(t) PROVE Lock!LockNext
  <2>1. arg[t] \in Handles
    BY DEF SemInv, CallTypeOK
  <2>2. \A u \in Threads \ {t} : held[u][arg[t]] = 0
    BY <1>1, <2>1, SemAssumption DEF SemInv, MutexAgreement, RequestGranted
  <2>3. Lock!Acquire(t, arg[t])
    BY <1>1, <2>2 DEF RequestGranted
  <2>4. QED
    BY <2>1, <2>3
<1>2. ASSUME NEW t \in Threads, ReleaseDone(t) PROVE Lock!LockNext \/ UNCHANGED held
  <2>1. arg[t] \in Handles
    BY DEF SemInv, CallTypeOK
  <2>2. CASE owner[arg[t]] = t
    <3>1. held[t][arg[t]] > 0
      BY <2>1, <2>2, SemAssumption DEF SemInv, ObjTypeOK, MutexAgreement, OwnedMeansCounted
    <3>2. held' = [held EXCEPT ![t][arg[t]] = @ - 1]
      BY <1>2, <2>2 DEF ReleaseDone
    <3>3. QED
      BY <2>1, <3>1, <3>2
  <2>3. CASE owner[arg[t]] # t
    BY <1>2, <2>1, <2>3 DEF ReleaseDone, SemInv, ObjTypeOK
  <2>4. QED
    BY <2>2, <2>3
<1>3. ASSUME NEW t \in Threads, NEW s \in BOOLEAN, DosCreateMutexSem(t, s)
      PROVE  Lock!LockNext \/ UNCHANGED held
  <2>1. next_handle \in Handles
    BY <1>3 DEF DosCreateMutexSem, NewHandle
  <2>2. \A u \in Threads : held[u][next_handle] = 0
    BY <2>1, SemAssumption DEF SemInv, UnmadeFree, MutexAgreement, Handles
  <2>3. CASE s
    <3>1. held' = [held EXCEPT ![MainTid][next_handle] = @ + 1]
      <4>1. held' = [held EXCEPT ![MainTid][next_handle] = 1]
        BY <1>3, <2>3 DEF DosCreateMutexSem
      <4>2. held[MainTid][next_handle] + 1 = 1
        BY <2>2, SemAssumption
      <4>3. QED
        BY <4>1, <4>2
    <3>2. Lock!Acquire(MainTid, next_handle)
      BY <2>2, <3>1
    <3>3. QED
      BY <2>1, <3>2, SemAssumption
  <2>4. CASE ~s
    BY <1>3, <2>4 DEF DosCreateMutexSem
  <2>5. QED
    BY <2>3, <2>4
<1>4. ASSUME NEW t \in Threads, SemStep(t), ~RequestGranted(t), ~ReleaseDone(t)
      PROVE  UNCHANGED held
  BY <1>4 DEF SemStep, WaitEventReturns, WaitEventSleeps, RequestGivesUp, RequestSleeps,
     SliceEnds, MuxStarts, MuxShutDown, MuxScans, MuxSucceeds, MuxSleeps, MuxReturns, OnlyPc
<1>5. ASSUME NEW t \in Threads, SemCall(t)
      PROVE  UNCHANGED held \/ \E s \in BOOLEAN : DosCreateMutexSem(t, s)
  BY <1>5 DEF SemCall, DosCreateEventSem, DosCreateMuxWaitSem, DosCloseSem, DosPostEventSem,
     DosWaitEventSem, DosRequestMutexSem, DosWaitMuxWaitSem, DosReleaseMutexSem, Lookup
<1>6. (RequestExit \/ (\E t \in Threads : ThreadStops(t)) \/ UNCHANGED semVars) => UNCHANGED held
  BY DEF RequestExit, ThreadStops, OnlyPc, semVars
<1>7. QED
  BY <1>1, <1>2, <1>3, <1>4, <1>5, <1>6 DEF SemNext

\* For every set of threads and every number of handles, the mutex semaphores
\* implement the recursive lock.
THEOREM RefinesRecursiveLock == SemSpec => ImplementsRecursiveLock
<1>1. SemInit => Lock!LockInit
  BY DEF SemInit, Lock!LockInit
<1>2. SemInv /\ [SemNext]_semVars => [Lock!LockNext]_held
  BY LockStep
<1>3. QED
  BY <1>1, <1>2, SemInvariant, PTL DEF SemSpec, ImplementsRecursiveLock, Lock!LockSpec

-----------------------------------------------------------------------------
(* The mux calls.                                                          *)

\* A semaphore that was made and, if it is an event, posted.  Nothing a thread
\* does later makes it false again: handles are not reused, and no handler of
\* the model takes a post back.
Seen(h) == h < next_handle /\ (kind[h] = "event" => posted[h])

\* What a scan has found out of the records before record i.
ScanTrue(t) ==
  LET r == mux[arg[t]].records
      s == scan[t] IN
  /\ s.i \in 1..(Len(r) + 1)
  /\ s.ready \in 0..(s.i - 1)
  /\ s.ready # 0 => Seen(r[s.ready])
  /\ s.all => \A j \in 1..(s.i - 1) : Seen(r[j])
  /\ s.all /\ s.i > 1 => s.ready # 0

\* A call about to return 0 has been through all records and was satisfied.
ScanDone(t) == scan[t].i = Len(mux[arg[t]].records) + 1 /\ MuxSatisfied(t)

MuxPcs == {"mux", "mux_scan", "mux_sleep", "mux_ok"}

MuxCall(t) ==
  /\ pc[t] \in MuxPcs => mux[arg[t]].records # <<>>
  /\ pc[t] \in {"mux_scan", "mux_ok"} => ScanTrue(t)
  /\ pc[t] = "mux_ok" => ScanDone(t)

\* A mux that was made has records.
MuxFilled ==
  \A h \in Handles : h < next_handle /\ kind[h] = "mux" => mux[h].records # <<>>

\* The inductive invariant of the mux calls, on top of SemInv.
MuxInv == MuxFilled /\ \A t \in Threads : MuxCall(t)

\* What every step leaves alone: objects that were made keep their kind and
\* their records, and their posts.
ObjectsKept ==
  /\ next_handle <= next_handle'
  /\ \A h \in Handles : h < next_handle =>
       kind'[h] = kind[h] /\ mux'[h] = mux[h] /\ (posted[h] => posted'[h])

\* A thread that is not moved, is not in a mux call, or moves between the
\* sleep and the next round.
CallKept(t) ==
  \/ pc'[t] \notin MuxPcs
  \/ /\ arg'[t] = arg[t] /\ scan'[t] = scan[t]
     /\ pc'[t] = pc[t] \/ (pc[t] \in MuxPcs /\ pc'[t] \in {"mux", "mux_sleep"})

-----------------------------------------------------------------------------
\* What a scan has seen stays true.
LEMMA SeenStays ==
  ASSUME SemInv, ObjectsKept, next_handle' \in Nat, NEW h \in Handles, Seen(h)
  PROVE  Seen(h)'
<1>1. next_handle \in Nat /\ h \in Nat
  BY SemAssumption DEF SemInv, MgrTypeOK, Handles
<1>2. QED
  BY <1>1 DEF Seen, ObjectsKept

\* A call that is left where it is keeps what it knows.
LEMMA KeptCall ==
  ASSUME SemInv, NEW t \in Threads, MuxCall(t), ObjectsKept, next_handle' \in Nat, CallKept(t)
  PROVE  MuxCall(t)'
<1>1. CASE pc'[t] \notin MuxPcs
  BY <1>1 DEF MuxCall, MuxPcs
<1>2. CASE /\ arg'[t] = arg[t] /\ scan'[t] = scan[t]
           /\ pc'[t] = pc[t] \/ (pc[t] \in MuxPcs /\ pc'[t] \in {"mux", "mux_sleep"})
           /\ pc'[t] \in MuxPcs
  <2>1. pc[t] \in MuxPcs /\ arg[t] \in Handles /\ arg[t] < next_handle
    BY <1>2 DEF SemInv, CallTypeOK, CallsMade, InCall, MuxPcs
  <2>2. mux'[arg'[t]] = mux[arg[t]]
    BY <1>2, <2>1 DEF ObjectsKept
  <2>3. mux[arg[t]].records # <<>>
    BY <2>1 DEF MuxCall
  <2>4. ASSUME pc'[t] \in {"mux_scan", "mux_ok"} PROVE ScanTrue(t)'
    <3>1. ScanTrue(t)
      BY <1>2, <2>4 DEF MuxCall
    <3>2. PICK r \in Seq(Handles) : r = mux[arg[t]].records /\ r = mux'[arg'[t]].records
      BY <2>1, <2>2 DEF SemInv, MgrTypeOK
    <3>3. PICK s \in [i : Nat, ready : Nat, all : BOOLEAN] : s = scan[t] /\ s = scan'[t]
      BY <1>2 DEF SemInv, CallTypeOK
    <3>4. /\ s.i \in 1..(Len(r) + 1)
          /\ s.ready \in 0..(s.i - 1)
          /\ s.ready # 0 => Seen(r[s.ready])
          /\ s.all => \A j \in 1..(s.i - 1) : Seen(r[j])
          /\ s.all /\ s.i > 1 => s.ready # 0
      BY <3>1, <3>2, <3>3 DEF ScanTrue
    <3>5. \A j \in 1..(s.i - 1) : r[j] \in Handles
      BY <3>4
    <3>6. \A j \in 1..(s.i - 1) : Seen(r[j]) => Seen(r[j])'
      BY <3>5, SeenStays
    <3>7. s.ready # 0 => Seen(r[s.ready])'
      BY <3>4, <3>6
    <3>8. s.all => \A j \in 1..(s.i - 1) : Seen(r[j])'
      BY <3>4, <3>6
    <3>9. QED
      BY <3>2, <3>3, <3>4, <3>7, <3>8 DEF ScanTrue
  <2>5. pc'[t] = "mux_ok" => ScanDone(t)'
    BY <1>2, <2>2 DEF MuxCall, ScanDone, MuxSatisfied
  <2>6. QED
    BY <2>2, <2>3, <2>4, <2>5 DEF MuxCall
<1>3. QED
  BY <1>1, <1>2 DEF CallKept

\* A step that only moves threads keeps the invariant if it keeps every call
\* but that of t, and what t knows is true.
LEMMA MuxMove ==
  ASSUME SemInv, MuxInv, NEW t \in Threads, UNCHANGED mgrVars,
         \A h \in Handles : posted[h] => posted'[h],
         \A u \in Threads : u # t => CallKept(u),
         CallKept(t) \/ MuxCall(t)'
  PROVE  MuxInv'
<1>1. UNCHANGED <<next_handle, kind, mux>>
  BY DEF mgrVars
<1>2. ObjectsKept /\ next_handle' \in Nat
  BY <1>1 DEF ObjectsKept, SemInv, MgrTypeOK
<1>3. MuxFilled'
  BY <1>1 DEF MuxInv, MuxFilled
<1>4. \A u \in Threads : MuxCall(u)'
  BY <1>2, KeptCall DEF MuxInv
<1>5. QED
  BY <1>3, <1>4 DEF MuxInv

\* Creating a semaphore touches no object that was made, and a new mux is
\* given records.
LEMMA CreateKeepsMux ==
  ASSUME SemInv, MuxInv, NEW k \in {"event", "mutex", "mux"}, NewHandle(k), UNCHANGED callVars,
         \A h \in Handles : h # next_handle => mux'[h] = mux[h] /\ posted'[h] = posted[h],
         k = "mux" => mux'[next_handle].records # <<>>
  PROVE  MuxInv'
<1>1. next_handle \in Handles /\ next_handle' = next_handle + 1 /\ next_handle \in Nat
  BY NewHandleFacts, SemAssumption DEF Handles
<1>2. \A h \in Handles : kind'[h] = IF h = next_handle THEN k ELSE kind[h]
  BY DEF SemInv, MgrTypeOK, NewHandle
<1>3. \A h \in Handles : h \in Nat
  BY SemAssumption DEF Handles
<1>4. ObjectsKept /\ next_handle' \in Nat
  BY <1>1, <1>2, <1>3 DEF ObjectsKept
<1>5. MuxFilled'
  BY <1>1, <1>2, <1>3 DEF MuxInv, MuxFilled
<1>6. \A u \in Threads : CallKept(u)
  BY DEF CallKept, callVars
<1>7. \A u \in Threads : MuxCall(u)'
  BY <1>4, <1>6, KeptCall DEF MuxInv
<1>8. QED
  BY <1>5, <1>7 DEF MuxInv

\* One look at a record: what the scan knows grows by the record it looked at.
LEMMA ScanGrows ==
  ASSUME SemInv, MuxInv, NEW t \in Threads, MuxScans(t)
  PROVE  MuxCall(t)'
<1>0. PICK r \in Seq(Handles) : r = mux[arg[t]].records
  BY DEF SemInv, MgrTypeOK, CallTypeOK
<1>1. PICK s \in [i : Nat, ready : Nat, all : BOOLEAN] : s = scan[t]
  BY DEF SemInv, CallTypeOK
<1>2. /\ pc[t] = "mux_scan" /\ s.i <= Len(r)
      /\ scan'[t] = IF IsReady(t, r[s.i]) THEN [i |-> s.i + 1, ready |-> s.i, all |-> s.all]
                    ELSE [i |-> s.i + 1, ready |-> s.ready, all |-> FALSE]
      /\ UNCHANGED <<pc, arg>>
  BY <1>0, <1>1 DEF MuxScans, SemInv, CallTypeOK
<1>3. UNCHANGED <<next_handle, kind, mux, posted>>
  BY DEF MuxScans, OnlyPc, mgrVars
<1>4. /\ s.i \in 1..(Len(r) + 1)
      /\ s.ready \in 0..(s.i - 1)
      /\ s.ready # 0 => Seen(r[s.ready])
      /\ s.all => \A j \in 1..(s.i - 1) : Seen(r[j])
      /\ r # <<>>
  BY <1>0, <1>1, <1>2 DEF MuxInv, MuxCall, ScanTrue, MuxPcs
<1>5. IsReady(t, r[s.i]) => Seen(r[s.i])
  BY DEF IsReady, IsOpen, Seen, SemInv, OpenMade
<1>6. \A h : Seen(h)' <=> Seen(h)
  BY <1>3 DEF Seen
<1>7. mux'[arg'[t]].records = r
  BY <1>0, <1>2, <1>3
<1>8. PICK n \in Nat : n = Len(r)
  OBVIOUS
<1>9. ScanTrue(t)'
  <2>1. CASE IsReady(t, r[s.i])
    <3>1. PICK z \in [i : Nat, ready : Nat, all : BOOLEAN] :
            z = scan'[t] /\ z.i = s.i + 1 /\ z.ready = s.i /\ z.all = s.all
      BY <1>2, <2>1
    <3>2. z.i \in 1..(Len(r) + 1) /\ z.ready \in 0..(z.i - 1) /\ z.ready # 0
      BY <1>2, <1>4, <1>8, <3>1
    <3>3. Seen(r[z.ready])'
      BY <1>5, <1>6, <2>1, <3>1
    <3>4. ASSUME z.all, NEW j \in 1..(z.i - 1) PROVE Seen(r[j])'
      <4>1. CASE j = s.i
        BY <4>1, <1>5, <1>6, <2>1
      <4>2. CASE j # s.i
        <5>1. j \in 1..(s.i - 1)
          BY <4>2, <3>1
        <5>2. QED
          BY <5>1, <1>4, <1>6, <3>1, <3>4
      <4>3. QED
        BY <4>1, <4>2
    <3>5. QED
      BY <1>7, <3>1, <3>2, <3>3, <3>4 DEF ScanTrue
  <2>2. CASE ~IsReady(t, r[s.i])
    <3>1. PICK z \in [i : Nat, ready : Nat, all : BOOLEAN] :
            z = scan'[t] /\ z.i = s.i + 1 /\ z.ready = s.ready /\ ~z.all
      <4> DEFINE y == [i |-> s.i + 1, ready |-> s.ready, all |-> FALSE]
      <4>1. scan'[t] = y
        BY <1>2, <2>2
      <4>2. y \in [i : Nat, ready : Nat, all : BOOLEAN]
        OBVIOUS
      <4>3. y.i = s.i + 1 /\ y.ready = s.ready /\ ~y.all
        OBVIOUS
      <4>4. QED
        BY <4>1, <4>2, <4>3
    <3>2. z.i \in 1..(Len(r) + 1) /\ z.ready \in 0..(z.i - 1)
      BY <1>2, <1>4, <1>8, <3>1
    <3>3. z.ready # 0 => Seen(r[z.ready])'
      BY <1>4, <1>6, <3>1
    <3>4. QED
      BY <1>7, <3>1, <3>2, <3>3 DEF ScanTrue
  <2>3. QED
    BY <2>1, <2>2
<1>10. QED
  BY <1>2, <1>4, <1>7, <1>9 DEF MuxCall, MuxPcs

\* A new round starts with nothing seen.
LEMMA ScanStarts ==
  ASSUME SemInv, MuxInv, NEW t \in Threads, MuxStarts(t)
  PROVE  MuxCall(t)'
<1>1. /\ pc[t] = "mux" /\ pc'[t] = "mux_scan"
      /\ scan'[t] = NoScan /\ UNCHANGED <<arg, mux>>
  BY DEF MuxStarts, SemInv, CallTypeOK, OnlyPc, mgrVars
<1>2. PICK r \in Seq(Handles) : r = mux[arg[t]].records /\ r = mux'[arg'[t]].records
  BY <1>1 DEF SemInv, MgrTypeOK, CallTypeOK
<1>3. r # <<>>
  BY <1>1, <1>2 DEF MuxInv, MuxCall, MuxPcs
<1>4. NoScan.i = 1 /\ NoScan.ready = 0
  BY DEF NoScan
<1>5. PICK n \in Nat : n = Len(r)
  OBVIOUS
<1>6. ScanTrue(t)'
  BY <1>1, <1>2, <1>4, <1>5 DEF ScanTrue
<1>7. QED
  BY <1>1, <1>2, <1>3, <1>6 DEF MuxCall, MuxPcs

\* A scan that ends satisfied knows what the call is about to tell the guest.
LEMMA ScanSucceeds ==
  ASSUME SemInv, MuxInv, NEW t \in Threads, MuxSucceeds(t)
  PROVE  MuxCall(t)'
<1>1. /\ pc[t] = "mux_scan" /\ pc'[t] = "mux_ok" /\ UNCHANGED <<arg, scan>>
      /\ scan[t].i > Len(mux[arg[t]].records) /\ MuxSatisfied(t)
  BY DEF MuxSucceeds, MuxScanned, Goto, SemInv, CallTypeOK
<1>2. UNCHANGED <<next_handle, kind, mux, posted>>
  BY DEF MuxSucceeds, OnlyPc, mgrVars
<1>3. mux[arg[t]].records # <<>> /\ ScanTrue(t)
  BY <1>1 DEF MuxInv, MuxCall, MuxPcs
<1>4. ScanTrue(t)'
  BY <1>1, <1>2, <1>3 DEF ScanTrue, Seen
<1>5. PICK n \in Nat : n = Len(mux[arg[t]].records)
  BY DEF SemInv, MgrTypeOK, CallTypeOK
<1>6. scan[t].i = n + 1
  BY <1>1, <1>3, <1>5 DEF ScanTrue
<1>7. ScanDone(t)'
  BY <1>1, <1>2, <1>5, <1>6 DEF ScanDone, MuxSatisfied
<1>8. QED
  BY <1>1, <1>2, <1>3, <1>4, <1>7 DEF MuxCall

-----------------------------------------------------------------------------
\* Every step a thread takes inside a call keeps the invariant of the mux calls.
LEMMA SemStepMux ==
  ASSUME SemInv, MuxInv, NEW t \in Threads, SemStep(t)
  PROVE  MuxInv'
<1>0. OnlyPc => UNCHANGED mgrVars /\ UNCHANGED posted
  BY DEF OnlyPc
<1>1. ASSUME Return(t), UNCHANGED mgrVars, UNCHANGED posted PROVE MuxInv'
  <2>1. CallKept(t) /\ \A u \in Threads : u # t => CallKept(u)
    BY <1>1 DEF Return, CallKept, MuxPcs, SemInv, CallTypeOK
  <2>2. QED
    BY <1>1, <2>1, MuxMove
<1>2. ASSUME NEW to, Goto(t, to), OnlyPc,
             to \notin MuxPcs \/ (pc[t] \in MuxPcs /\ to \in {"mux", "mux_sleep"})
      PROVE  MuxInv'
  <2>1. CallKept(t) /\ \A u \in Threads : u # t => CallKept(u)
    BY <1>2 DEF Goto, CallKept, SemInv, CallTypeOK
  <2>2. QED
    BY <1>0, <1>2, <2>1, MuxMove
<1>3. CASE WaitEventReturns(t) \/ RequestGivesUp(t) \/ MuxShutDown(t) \/ MuxReturns(t)
  BY <1>0, <1>1, <1>3 DEF WaitEventReturns, RequestGivesUp, MuxShutDown, MuxReturns
<1>4. CASE WaitEventSleeps(t) \/ RequestSleeps(t)
  <2>1. "event_sleep" \notin MuxPcs /\ "request_sleep" \notin MuxPcs
    BY DEF MuxPcs
  <2>2. QED
    BY <1>2, <1>4, <2>1 DEF WaitEventSleeps, RequestSleeps
<1>5. CASE RequestGranted(t)
  BY <1>1, <1>5 DEF RequestGranted
<1>6. CASE SliceEnds(t)
  <2>1. "event" \notin MuxPcs /\ "request" \notin MuxPcs /\ "mux_sleep" \in MuxPcs
    BY DEF MuxPcs
  <2>2. QED
    BY <1>2, <1>6, <2>1 DEF SliceEnds
<1>7. CASE ReleaseDone(t)
  <2>1. UNCHANGED mgrVars /\ UNCHANGED posted /\ UNCHANGED scan
    BY <1>7 DEF ReleaseDone
  <2>2. CallKept(t)
    BY <1>7 DEF ReleaseDone, CallKept, MuxPcs
  <2>3. \A u \in Threads : u # t => CallKept(u)
    BY <1>7, <2>1 DEF ReleaseDone, CallKept, MuxPcs, SemInv, CallTypeOK
  <2>4. QED
    BY <2>1, <2>2, <2>3, MuxMove
<1>8. ASSUME OnlyPc, MuxCall(t)', UNCHANGED arg,
             \A u \in Threads : u # t => pc'[u] = pc[u] /\ scan'[u] = scan[u]
      PROVE  MuxInv'
  <2>1. \A u \in Threads : u # t => CallKept(u)
    BY <1>8 DEF CallKept
  <2>2. QED
    BY <1>0, <1>8, <2>1, MuxMove
<1>9. CASE MuxStarts(t)
  BY <1>8, <1>9, ScanStarts DEF MuxStarts, SemInv, CallTypeOK
<1>10. CASE MuxScans(t)
  BY <1>8, <1>10, ScanGrows DEF MuxScans, SemInv, CallTypeOK
<1>11. CASE MuxSucceeds(t)
  BY <1>8, <1>11, ScanSucceeds DEF MuxSucceeds, Goto, SemInv, CallTypeOK
<1>12. CASE MuxSleeps(t)
  <2>1. pc[t] \in MuxPcs
    BY <1>12 DEF MuxSleeps, MuxScanned, MuxPcs
  <2>2. QED
    BY <1>0, <1>1, <1>2, <1>12, <2>1 DEF MuxSleeps
<1>13. QED
  BY <1>3, <1>4, <1>5, <1>6, <1>7, <1>9, <1>10, <1>11, <1>12 DEF SemStep

\* Every call a guest makes keeps the invariant of the mux calls.
LEMMA SemCallMux ==
  ASSUME SemInv, MuxInv, NEW t \in Threads, SemCall(t)
  PROVE  MuxInv'
<1>1. ASSUME NEW s \in BOOLEAN, DosCreateEventSem(t, s) PROVE MuxInv'
  <2>1. NewHandle("event") /\ UNCHANGED callVars
    BY <1>1 DEF DosCreateEventSem
  <2>2. \A h \in Handles : h # next_handle => mux'[h] = mux[h] /\ posted'[h] = posted[h]
    BY <1>1 DEF DosCreateEventSem, SemInv, ObjTypeOK
  <2>3. QED
    BY <2>1, <2>2, CreateKeepsMux
<1>2. ASSUME NEW s \in BOOLEAN, DosCreateMutexSem(t, s) PROVE MuxInv'
  BY <1>2, CreateKeepsMux DEF DosCreateMutexSem
<1>3. ASSUME NEW r \in Records, NEW a \in BOOLEAN, DosCreateMuxWaitSem(t, r, a) PROVE MuxInv'
  <2>1. NewHandle("mux") /\ UNCHANGED callVars /\ r # <<>>
    BY <1>3, SemAssumption DEF DosCreateMuxWaitSem
  <2>2. next_handle \in Handles
    BY <2>1, NewHandleFacts
  <2>3. /\ \A h \in Handles : h # next_handle => mux'[h] = mux[h] /\ posted'[h] = posted[h]
        /\ mux'[next_handle].records = r
    BY <1>3, <2>2 DEF DosCreateMuxWaitSem, SemInv, MgrTypeOK
  <2>4. QED
    BY <2>1, <2>3, CreateKeepsMux
<1>4. ASSUME NEW h \in Handles, NEW k \in Kinds, DosCloseSem(t, h, k) PROVE MuxInv'
  <2>1. UNCHANGED <<next_handle, kind, posted, mux, pc, arg, scan>>
    BY <1>4 DEF DosCloseSem, callVars
  <2>2. ObjectsKept /\ next_handle' \in Nat
    BY <2>1 DEF ObjectsKept, SemInv, MgrTypeOK
  <2>3. \A u \in Threads : CallKept(u)
    BY <2>1 DEF CallKept
  <2>4. \A u \in Threads : MuxCall(u)'
    BY <2>2, <2>3, KeptCall DEF MuxInv
  <2>5. MuxFilled'
    BY <2>1 DEF MuxInv, MuxFilled
  <2>6. QED
    BY <2>4, <2>5 DEF MuxInv
<1>5. ASSUME NEW h \in Handles, DosPostEventSem(t, h) PROVE MuxInv'
  <2>1. UNCHANGED mgrVars /\ UNCHANGED <<arg, scan>>
    BY <1>5 DEF DosPostEventSem
  <2>2. \A g \in Handles : posted[g] => posted'[g]
    BY <1>5 DEF DosPostEventSem, SemInv, ObjTypeOK
  <2>3. \A u \in Threads : CallKept(u)
    BY <1>5, <2>1 DEF DosPostEventSem, Notify, CallKept, MuxPcs
  <2>4. QED
    BY <2>1, <2>2, <2>3, MuxMove
<1>6. ASSUME NEW h \in Handles, NEW k, NEW f \in BOOLEAN, NEW to, Lookup(t, h, k, f, to),
             to \notin MuxPcs \/ (to = "mux" /\ k = "mux")
      PROVE  MuxInv'
  <2>1. UNCHANGED mgrVars /\ UNCHANGED <<posted, scan>>
    BY <1>6 DEF Lookup
  <2>2. \A u \in Threads : u # t => CallKept(u)
    BY <1>6, <2>1 DEF Lookup, CallKept, SemInv, CallTypeOK
  <2>3. pc'[t] = to /\ arg'[t] = h /\ h \in open /\ kind[h] = k /\ mux' = mux
    BY <1>6, <2>1 DEF Lookup, IsOpen, SemInv, CallTypeOK, mgrVars
  <2>4. to = "mux" /\ k = "mux" => mux'[arg'[t]].records # <<>>
    BY <2>3 DEF MuxInv, MuxFilled, SemInv, OpenMade
  <2>5. CallKept(t) \/ MuxCall(t)'
    BY <1>6, <2>3, <2>4 DEF CallKept, MuxCall
  <2>6. QED
    BY <2>1, <2>2, <2>5, MuxMove
<1>7. "event" \notin MuxPcs /\ "request" \notin MuxPcs /\ "release" \notin MuxPcs
  BY DEF MuxPcs
<1>8. ASSUME NEW h \in Handles, NEW f \in BOOLEAN,
             \/ DosWaitEventSem(t, h, f) \/ DosRequestMutexSem(t, h, f)
             \/ DosWaitMuxWaitSem(t, h, f)
      PROVE  MuxInv'
  BY <1>6, <1>7, <1>8 DEF DosWaitEventSem, DosRequestMutexSem, DosWaitMuxWaitSem
<1>9. ASSUME NEW h \in Handles, DosReleaseMutexSem(t, h) PROVE MuxInv'
  BY <1>6, <1>7, <1>9 DEF DosReleaseMutexSem
<1>10. QED
  BY <1>1, <1>2, <1>3, <1>4, <1>5, <1>8, <1>9 DEF SemCall

\* The invariant of the mux calls is inductive.
LEMMA NextMuxInv == SemInv /\ MuxInv /\ [SemNext]_semVars => MuxInv'
<1> SUFFICES ASSUME SemInv, MuxInv, [SemNext]_semVars PROVE MuxInv'
  OBVIOUS
<1>1. ASSUME UNCHANGED <<mgrVars, posted, callVars>> PROVE MuxInv'
  <2>1. \A u \in Threads : CallKept(u)
    BY <1>1 DEF CallKept, callVars
  <2>2. QED
    BY <1>1, <2>1, MuxMove, SemAssumption
<1>2. CASE RequestExit \/ UNCHANGED semVars
  BY <1>1, <1>2 DEF RequestExit, semVars
<1>3. ASSUME NEW t \in Threads, ThreadStops(t) PROVE MuxInv'
  <2>1. UNCHANGED mgrVars /\ UNCHANGED posted
    BY <1>3 DEF ThreadStops, OnlyPc
  <2>2. \A u \in Threads : CallKept(u)
    BY <1>3 DEF ThreadStops, Goto, CallKept, MuxPcs, SemInv, CallTypeOK
  <2>3. QED
    BY <2>1, <2>2, MuxMove
<1>4. QED
  BY <1>2, <1>3, SemStepMux, SemCallMux DEF SemNext

\* DosWaitMuxWaitSem tells the truth: when it is about to return 0 the event
\* its user value names was posted, and with wait_all every event of the mux,
\* for any number of threads and any record lists, although the scan lets go of
\* sem_mgr between records.
THEOREM MuxSafe == SemSpec => []MuxTellsTruth
<1>1. SemInit => MuxInv
  <2> SUFFICES ASSUME SemInit PROVE MuxInv
    OBVIOUS
  <2>1. MuxFilled
    BY SemAssumption DEF SemInit, MuxFilled, Handles
  <2>2. \A t \in Threads : MuxCall(t)
    BY DEF SemInit, MuxCall, MuxPcs
  <2>3. QED
    BY <2>1, <2>2 DEF MuxInv
<1>2. SemInv /\ MuxInv => MuxTellsTruth
  <2> SUFFICES ASSUME SemInv, MuxInv, NEW t \in Threads, pc[t] = "mux_ok"
               PROVE  LET m == mux[arg[t]]
                          EventPosted(i) == kind[m.records[i]] = "event" => posted[m.records[i]] IN
                      /\ scan[t].ready \in 1..Len(m.records)
                      /\ EventPosted(scan[t].ready)
                      /\ m.wait_all => \A i \in 1..Len(m.records) : EventPosted(i)
    BY DEF MuxTellsTruth
  <2>1. PICK r \in Seq(Handles) : r = mux[arg[t]].records
    BY DEF SemInv, MgrTypeOK, CallTypeOK
  <2>2. PICK s \in [i : Nat, ready : Nat, all : BOOLEAN] : s = scan[t]
    BY DEF SemInv, CallTypeOK
  <2>3. r # <<>> /\ ScanTrue(t) /\ ScanDone(t)
    BY <2>1 DEF MuxInv, MuxCall, MuxPcs
  <2>4. /\ s.i = Len(r) + 1 /\ s.ready \in 0..(s.i - 1)
        /\ s.ready # 0 => Seen(r[s.ready])
        /\ s.all => \A j \in 1..(s.i - 1) : Seen(r[j])
        /\ s.all /\ s.i > 1 => s.ready # 0
        /\ IF mux[arg[t]].wait_all THEN s.all ELSE s.ready # 0
    BY <2>1, <2>2, <2>3 DEF ScanTrue, ScanDone, MuxSatisfied
  <2>5. PICK n \in Nat \ {0} : n = Len(r)
    BY <2>3
  <2>6. s.ready # 0 /\ s.ready \in 1..n
    BY <2>4, <2>5
  <2>7. mux[arg[t]].wait_all => \A j \in 1..n : Seen(r[j])
    BY <2>4, <2>5
  <2>8. QED
    BY <2>1, <2>2, <2>4, <2>5, <2>6, <2>7 DEF Seen
<1>3. QED
  BY <1>1, <1>2, NextMuxInv, SemInvariant, PTL DEF SemSpec
=============================================================================
