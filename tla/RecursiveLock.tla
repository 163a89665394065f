--------------------------- MODULE RecursiveLock ---------------------------
(***************************************************************************)
(* What OS/2 mutex semaphores promise a guest: a mutex may be requested    *)
(* again by the thread that holds it, and by nobody else until every       *)
(* request has been released.  held[t][h] counts t's unreleased requests.  *)
(***************************************************************************)
EXTENDS Naturals

CONSTANTS Threads, Handles

VARIABLE held

LockInit == held = [t \in Threads |-> [h \in Handles |-> 0]]

Acquire(t, h) ==
  /\ \A u \in Threads \ {t} : held[u][h] = 0
  /\ held' = [held EXCEPT ![t][h] = @ + 1]

Release(t, h) ==
  /\ held[t][h] > 0
  /\ held' = [held EXCEPT ![t][h] = @ - 1]

LockNext == \E t \in Threads, h \in Handles : Acquire(t, h) \/ Release(t, h)

LockSpec == LockInit /\ [][LockNext]_held
=============================================================================
