-------------------------- MODULE Processes_proofs --------------------------
(***************************************************************************)
(* Proofs, for any number of threads and children, that every child has    *)
(* one owner and is reported once, and that a synchronous DosExecPgm       *)
(* returns after the child's output.                                       *)
(***************************************************************************)
EXTENDS Processes, TLAPS

Places == {"run", "sync_wait", "sync_join", "register", "try", "put_back",
           "wait", "detach", "relock", "any_top", "any_check", "kill"}

Idle == {"run", "any_top", "any_check"}
Sync == {"sync_wait", "sync_join"}

\* A call has a child exactly while it works on one, of the kind it works on.
CallsHave ==
  \A t \in Threads :
    /\ pc[t] \in Idle => cur[t] = 0
    /\ pc[t] \notin Idle => cur[t] \in Procs
    /\ pc[t] \in Sync => via[cur[t]] = "sync"
    /\ pc[t] \notin Idle \cup Sync => via[cur[t]] = "async"
    /\ pc[t] \in {"sync_join", "detach"} => child[cur[t]] = "exited"

\* Only asynchronous children that were started are in the table, and nothing is
\* known of one that was not started.
Started ==
  /\ \A p \in children : via[p] = "async"
  /\ \A p \in Procs :
       p > spawned => via[p] = "none" /\ reports[p] = 0 /\ relay[p] = "none" /\ ~Held(p)

\* A relay thread that has ended left nothing in the pipe.
RelayDone == \A p \in Procs : relay[p] = "done" => pipe[p] = 0 /\ child[p] = "exited"

\* The inductive invariant.
ProcInv ==
  /\ ProcTypeOK /\ ReportedOnce /\ ChildAccounted /\ CallsHave /\ Started /\ RelayDone
  /\ SyncOutputComplete

\* Initially there are no children.
LEMMA ProcInitInv == ProcInit => ProcInv
<1> SUFFICES ASSUME ProcInit PROVE ProcInv
  OBVIOUS
<1>1. MaxProcs \in Nat /\ MaxOutput \in Nat /\ 0 \in 0 .. MaxProcs /\ 0 \in 0 .. MaxOutput /\ 0 \notin Procs
  BY ProcAssumption DEF Procs
<1>2. ProcTypeOK
  BY <1>1 DEF ProcInit, ProcTypeOK
<1>3. ReportedOnce /\ RelayDone /\ SyncOutputComplete
  BY DEF ProcInit, ReportedOnce, RelayDone, SyncOutputComplete
<1>4. ChildAccounted /\ CallsHave /\ Started
  BY <1>1 DEF ProcInit, ChildAccounted, CallsHave, Started, Held, Idle, Sync
<1>5. QED
  BY <1>2, <1>3, <1>4 DEF ProcInv

\* Types of what the calls work on.
LEMMA ProcFacts ==
  ASSUME ProcInv
  PROVE  /\ pc \in [Threads -> Places] /\ cur \in [Threads -> 0 .. MaxProcs]
         /\ child \in [Procs -> {"none", "running", "exited"}] /\ pipe \in [Procs -> 0 .. MaxOutput]
         /\ relay \in [Procs -> {"none", "reading", "done"}] /\ reports \in [Procs -> Nat]
         /\ via \in [Procs -> {"none", "sync", "async", "killed"}] /\ children \subseteq Procs
         /\ 0 \notin Procs /\ Procs \subseteq 0 .. MaxProcs /\ Procs \subseteq Nat /\ 0 \in 0 .. MaxProcs
         /\ spawned \in 0 .. MaxProcs /\ MaxProcs \in Nat /\ MaxOutput \in Nat
<1>1. /\ MaxProcs \in Nat /\ MaxOutput \in Nat /\ 0 \in 0 .. MaxProcs
      /\ 0 \notin Procs /\ Procs \subseteq 0 .. MaxProcs /\ Procs \subseteq Nat
  BY ProcAssumption DEF Procs
<1>2. QED
  BY <1>1 DEF ProcInv, ProcTypeOK, Places

-----------------------------------------------------------------------------
(* The host.                                                               *)

\* Children write and exit, relay threads copy and end.
LEMMA HostSteps ==
  ASSUME ProcInv, NEW p \in Procs, ChildWrites(p) \/ ChildExits(p) \/ RelayStep(p)
  PROVE  ProcInv'
<1>0. /\ child \in [Procs -> {"none", "running", "exited"}] /\ pipe \in [Procs -> 0 .. MaxOutput]
      /\ relay \in [Procs -> {"none", "reading", "done"}] /\ MaxOutput \in Nat
  BY ProcFacts
<1>1. /\ process_mgr' = process_mgr /\ children' = children /\ relay_threads' = relay_threads
      /\ spawned' = spawned /\ exit_requested' = exit_requested /\ pc' = pc /\ cur' = cur
      /\ reports' = reports /\ via' = via
  BY DEF ChildWrites, ChildExits, RelayStep, RelayCopies, RelayEnds, mapVars, callVars, histVars
<1>2. \A q \in Procs : child[q] = "exited" => child'[q] = "exited"
  BY <1>0 DEF ChildWrites, ChildExits, RelayStep, RelayCopies, RelayEnds
<1>3. \A q \in Procs : relay[q] = "done" => relay'[q] = "done" /\ pipe'[q] = pipe[q]
  BY <1>0 DEF ChildWrites, ChildExits, RelayStep, RelayCopies, RelayEnds, ProcInv, RelayDone
<1>4. \A q \in Procs : relay'[q] = "done" => relay[q] = "done" \/ (pipe'[q] = 0 /\ child'[q] = "exited")
  BY <1>0 DEF ChildWrites, ChildExits, RelayStep, RelayCopies, RelayEnds
<1>5. ProcTypeOK'
  <2>1. child' \in [Procs -> {"none", "running", "exited"}]
    BY <1>0 DEF ChildWrites, ChildExits, RelayStep, RelayCopies, RelayEnds
  <2>2. relay' \in [Procs -> {"none", "reading", "done"}]
    BY <1>0 DEF ChildWrites, ChildExits, RelayStep, RelayCopies, RelayEnds
  <2>3. pipe' \in [Procs -> 0 .. MaxOutput]
    <3>1. pipe[p] < MaxOutput => pipe[p] + 1 \in 0 .. MaxOutput
      BY <1>0
    <3>2. pipe[p] > 0 => pipe[p] - 1 \in 0 .. MaxOutput
      BY <1>0
    <3>3. QED
      BY <1>0, <3>1, <3>2 DEF ChildWrites, ChildExits, RelayStep, RelayCopies, RelayEnds
  <2>4. QED
    BY <1>1, <2>1, <2>2, <2>3 DEF ProcInv, ProcTypeOK
<1>6. ReportedOnce'
  BY <1>1, <1>2 DEF ProcInv, ReportedOnce
<1>7. ChildAccounted'
  BY <1>1 DEF ProcInv, ChildAccounted, Held, Settled
<1>8. CallsHave'
  BY <1>1, <1>2, ProcFacts DEF ProcInv, CallsHave, Idle
<1>9. Started'
  <2>1. \A q \in Procs : relay[q] = "none" => relay'[q] = "none"
    BY <1>0 DEF ChildWrites, ChildExits, RelayStep, RelayCopies, RelayEnds
  <2>2. QED
    BY <1>1, <2>1 DEF ProcInv, Started, Held
<1>10. RelayDone'
  BY <1>2, <1>3, <1>4 DEF ProcInv, RelayDone
<1>11. SyncOutputComplete'
  BY <1>1, <1>3 DEF ProcInv, SyncOutputComplete
<1>12. QED
  BY <1>5, <1>6, <1>7, <1>8, <1>9, <1>10, <1>11 DEF ProcInv

-----------------------------------------------------------------------------
(* Calls.  A child changes hands in one of five ways.                      *)

\* Where the thread goes and what it has then.
LEMMA GotoFacts ==
  ASSUME ProcInv, NEW t \in Threads, NEW to \in Places, NEW p \in 0 .. MaxProcs, Goto(t, to, p)
  PROVE  /\ pc' \in [Threads -> Places] /\ cur' \in [Threads -> 0 .. MaxProcs]
         /\ pc'[t] = to /\ cur'[t] = p
         /\ \A u \in Threads \ {t} : pc'[u] = pc[u] /\ cur'[u] = cur[u]
BY ProcFacts DEF Goto

\* The thread keeps the child it has, and the children are as they were.
LEMMA KeepStep ==
  ASSUME ProcInv, NEW t \in Threads, NEW to \in Places, Goto(t, to, cur[t]),
         \/ pc[t] \in Idle /\ to \in Idle
         \/ pc[t] \in Sync /\ to \in Sync
         \/ pc[t] \notin Idle \cup Sync /\ to \notin Idle \cup Sync,
         to \in {"sync_join", "detach"} => child[cur[t]] = "exited",
         UNCHANGED <<process_mgr, mapVars, hostVars, exit_requested, histVars>>
  PROVE  ProcInv'
<1>0. cur \in [Threads -> 0 .. MaxProcs]
  BY ProcFacts
<1>1. /\ process_mgr' = process_mgr /\ children' = children /\ relay_threads' = relay_threads
      /\ spawned' = spawned /\ child' = child /\ pipe' = pipe /\ relay' = relay
      /\ exit_requested' = exit_requested /\ reports' = reports /\ via' = via
  BY DEF mapVars, hostVars, histVars
<1>2. /\ pc' \in [Threads -> Places] /\ cur' \in [Threads -> 0 .. MaxProcs] /\ pc'[t] = to
      /\ \A u \in Threads \ {t} : pc'[u] = pc[u]
      /\ \A u \in Threads : cur'[u] = cur[u]
  BY <1>0, GotoFacts
<1>3. ProcTypeOK'
  BY <1>1, <1>2 DEF ProcInv, ProcTypeOK, Places
<1>4. ReportedOnce' /\ RelayDone' /\ SyncOutputComplete'
  BY <1>1 DEF ProcInv, ReportedOnce, RelayDone, SyncOutputComplete
<1>5. ChildAccounted' /\ Started'
  BY <1>1, <1>2 DEF ProcInv, ChildAccounted, Started, Held, Settled
<1>6. CallsHave'
  <2> SUFFICES ASSUME NEW u \in Threads
               PROVE  /\ pc'[u] \in Idle => cur'[u] = 0
                      /\ pc'[u] \notin Idle => cur'[u] \in Procs
                      /\ pc'[u] \in Sync => via'[cur'[u]] = "sync"
                      /\ pc'[u] \notin Idle \cup Sync => via'[cur'[u]] = "async"
                      /\ pc'[u] \in {"sync_join", "detach"} => child'[cur'[u]] = "exited"
    BY DEF CallsHave
  <2>1. CASE u = t
    BY <1>1, <1>2, <2>1 DEF ProcInv, CallsHave, Idle, Sync
  <2>2. CASE u # t
    BY <1>1, <1>2, <2>2 DEF ProcInv, CallsHave
  <2>3. QED
    BY <2>1, <2>2
<1>7. QED
  BY <1>3, <1>4, <1>5, <1>6 DEF ProcInv

\* The thread that has a child lets it go.
LEMMA LetGo ==
  ASSUME ProcInv, NEW t \in Threads, pc[t] \notin Idle, Return(t)
  PROVE  /\ cur[t] \in Procs /\ pc' \in [Threads -> Places] /\ cur' \in [Threads -> 0 .. MaxProcs]
         /\ pc'[t] = "run" /\ cur'[t] = 0
         /\ \A u \in Threads \ {t} : pc'[u] = pc[u] /\ cur'[u] = cur[u] /\ cur[u] # cur[t]
         /\ \A p \in Procs : ~Held(p)' <=> ~Held(p) \/ p = cur[t]
         /\ Held(cur[t]) /\ cur[t] \notin children /\ ~Settled(cur[t])
<1>1. "run" \in Places /\ 0 \in 0 .. MaxProcs /\ 0 \notin Procs
  BY ProcFacts DEF Places
<1>2. /\ pc' \in [Threads -> Places] /\ cur' \in [Threads -> 0 .. MaxProcs]
      /\ pc'[t] = "run" /\ cur'[t] = 0
      /\ \A u \in Threads \ {t} : pc'[u] = pc[u] /\ cur'[u] = cur[u]
  BY <1>1, GotoFacts DEF Return
<1>3. cur[t] \in Procs
  BY DEF ProcInv, CallsHave
<1>4. \A u \in Threads \ {t} : cur[u] # cur[t]
  BY <1>3 DEF ProcInv, ChildAccounted
<1>5. \A p \in Procs : ~Held(p)' <=> ~Held(p) \/ p = cur[t]
  BY <1>1, <1>2, <1>4 DEF Held
<1>6. via[cur[t]] # "none"
  BY DEF ProcInv, CallsHave, Sync
<1>7. Held(cur[t])
  BY DEF Held
<1>8. cur[t] \notin children /\ ~Settled(cur[t])
  BY <1>3, <1>6, <1>7 DEF ProcInv, ChildAccounted
<1>9. QED
  BY <1>2, <1>3, <1>4, <1>5, <1>7, <1>8

\* The child is reported: it has exited, and nobody reported it before.
LEMMA ReportStep ==
  ASSUME ProcInv, NEW t \in Threads, pc[t] \notin Idle, Return(t), Report(cur[t]),
         child[cur[t]] = "exited", via[cur[t]] = "sync" => relay[cur[t]] = "done",
         UNCHANGED <<process_mgr, children, hostVars, exit_requested, via>>,
         relay_threads' \subseteq relay_threads
  PROVE  ProcInv'
<1> PICK p \in Procs : p = cur[t]
  BY LetGo
<1>0. reports \in [Procs -> Nat] /\ 0 \notin Procs /\ Procs \subseteq Nat /\ spawned \in Nat
  BY ProcFacts
<1>1. /\ process_mgr' = process_mgr /\ children' = children /\ spawned' = spawned /\ child' = child
      /\ pipe' = pipe /\ relay' = relay /\ exit_requested' = exit_requested /\ via' = via
  BY DEF hostVars
<1>2. /\ p \in Procs /\ pc' \in [Threads -> Places] /\ cur' \in [Threads -> 0 .. MaxProcs]
      /\ pc'[t] = "run" /\ cur'[t] = 0
      /\ \A u \in Threads \ {t} : pc'[u] = pc[u] /\ cur'[u] = cur[u] /\ cur[u] # p
      /\ \A q \in Procs : ~Held(q)' <=> ~Held(q) \/ q = p
      /\ Held(p) /\ p \notin children /\ ~Settled(p)
  BY LetGo
<1>3. reports[p] = 0 /\ reports' \in [Procs -> Nat] /\ reports'[p] = 1
      /\ \A q \in Procs \ {p} : reports'[q] = reports[q]
  <2>1. reports[p] \in Nat /\ ~(reports[p] > 0)
    BY <1>0, <1>2 DEF Settled
  <2>2. reports[p] = 0 /\ reports[p] + 1 = 1
    BY <2>1
  <2>3. reports' = [reports EXCEPT ![p] = reports[p] + 1]
    BY DEF Report
  <2>4. QED
    BY <1>0, <2>2, <2>3
<1>4. ProcTypeOK'
  BY <1>1, <1>2, <1>3 DEF ProcInv, ProcTypeOK, Places
<1>5. ReportedOnce'
  BY <1>1, <1>3 DEF ProcInv, ReportedOnce
<1>6. RelayDone'
  BY <1>1 DEF ProcInv, RelayDone
<1>7. SyncOutputComplete'
  BY <1>1, <1>2, <1>3 DEF ProcInv, SyncOutputComplete, RelayDone
<1>8. ChildAccounted'
  <2>1. \A u, v \in Threads : u # v /\ cur'[u] \in Procs => cur'[v] # cur'[u]
    BY <1>0, <1>2 DEF ProcInv, ChildAccounted
  <2>2. Settled(p)' /\ \A q \in Procs \ {p} : Settled(q)' <=> Settled(q)
    BY <1>1, <1>2, <1>3 DEF Settled
  <2>3. \A q \in Procs : via'[q] # "none" =>
          \/ Held(q)' /\ q \notin children' /\ ~Settled(q)'
          \/ q \in children' /\ ~Held(q)' /\ ~Settled(q)'
          \/ Settled(q)' /\ ~Held(q)' /\ q \notin children'
    BY <1>1, <1>2, <2>2 DEF ProcInv, ChildAccounted
  <2>4. QED
    BY <2>1, <2>3 DEF ChildAccounted
<1>9. CallsHave'
  BY <1>1, <1>2 DEF ProcInv, CallsHave, Idle, Sync
<1>10. Started'
  <2>1. ~(p > spawned)
    BY <1>2 DEF ProcInv, Started
  <2>2. \A q \in Procs : q > spawned => q # p
    BY <2>1
  <2>3. QED
    BY <1>1, <1>2, <1>3, <2>2 DEF ProcInv, Started
<1>11. QED
  BY <1>4, <1>5, <1>6, <1>7, <1>8, <1>9, <1>10 DEF ProcInv

\* The child is killed.
LEMMA KillStep ==
  ASSUME ProcInv, NEW t \in Threads, Kills(t)
  PROVE  ProcInv'
<1> PICK p \in Procs : p = cur[t]
  BY LetGo DEF Kills, Idle
<1>0. /\ child \in [Procs -> {"none", "running", "exited"}] /\ 0 \notin Procs /\ Procs \subseteq Nat
      /\ via \in [Procs -> {"none", "sync", "async", "killed"}] /\ spawned \in Nat
  BY ProcFacts
<1>1. /\ process_mgr' = process_mgr /\ children' = children /\ relay_threads' = relay_threads
      /\ spawned' = spawned /\ pipe' = pipe /\ relay' = relay /\ exit_requested' = exit_requested
      /\ reports' = reports /\ child' = [child EXCEPT ![p] = "exited"]
      /\ via' = [via EXCEPT ![p] = "killed"] /\ Return(t) /\ pc[t] = "kill" /\ pc[t] \notin Idle
  BY DEF Kills, mapVars, Idle
<1>2. /\ p \in Procs /\ pc' \in [Threads -> Places] /\ cur' \in [Threads -> 0 .. MaxProcs]
      /\ pc'[t] = "run" /\ cur'[t] = 0
      /\ \A u \in Threads \ {t} : pc'[u] = pc[u] /\ cur'[u] = cur[u] /\ cur[u] # p
      /\ \A q \in Procs : ~Held(q)' <=> ~Held(q) \/ q = p
      /\ Held(p) /\ p \notin children /\ ~Settled(p)
  BY <1>1, LetGo
<1>3. /\ via'[p] = "killed" /\ child'[p] = "exited"
      /\ \A q \in Procs \ {p} : via'[q] = via[q] /\ child'[q] = child[q]
      /\ child' \in [Procs -> {"none", "running", "exited"}]
      /\ via' \in [Procs -> {"none", "sync", "async", "killed"}]
  BY <1>0, <1>1, <1>2
<1>4. ProcTypeOK'
  BY <1>1, <1>2, <1>3 DEF ProcInv, ProcTypeOK, Places
<1>5. ReportedOnce'
  BY <1>1, <1>3 DEF ProcInv, ReportedOnce
<1>6. RelayDone'
  BY <1>1, <1>3 DEF ProcInv, RelayDone
<1>7. SyncOutputComplete'
  BY <1>1, <1>2, <1>3 DEF ProcInv, SyncOutputComplete
<1>8. ChildAccounted'
  <2>1. \A u, v \in Threads : u # v /\ cur'[u] \in Procs => cur'[v] # cur'[u]
    BY <1>0, <1>2 DEF ProcInv, ChildAccounted
  <2>2. Settled(p)' /\ \A q \in Procs \ {p} : Settled(q)' <=> Settled(q)
    BY <1>1, <1>2, <1>3 DEF Settled
  <2>3. \A q \in Procs : via'[q] # "none" =>
          \/ Held(q)' /\ q \notin children' /\ ~Settled(q)'
          \/ q \in children' /\ ~Held(q)' /\ ~Settled(q)'
          \/ Settled(q)' /\ ~Held(q)' /\ q \notin children'
    BY <1>1, <1>2, <1>3, <2>2 DEF ProcInv, ChildAccounted
  <2>4. QED
    BY <2>1, <2>3 DEF ChildAccounted
<1>9. CallsHave'
  <2>1. \A u \in Threads \ {t} : pc[u] \notin Idle => cur[u] \in Procs \ {p}
    BY <1>2 DEF ProcInv, CallsHave
  <2>2. QED
    BY <1>1, <1>2, <1>3, <2>1 DEF ProcInv, CallsHave, Idle, Sync
<1>10. Started'
  <2>1. ~(p > spawned)
    BY <1>2 DEF ProcInv, Started
  <2>2. \A q \in Procs : q > spawned => q # p
    BY <2>1
  <2>3. \A q \in children : q \in Procs \ {p}
    BY <1>2, ProcFacts
  <2>4. QED
    BY <1>1, <1>2, <1>3, <2>2, <2>3 DEF ProcInv, Started
<1>11. QED
  BY <1>4, <1>5, <1>6, <1>7, <1>8, <1>9, <1>10 DEF ProcInv

\* The child goes to the table.
LEMMA TableStep ==
  ASSUME ProcInv, NEW t \in Threads, pc[t] \notin Idle \cup Sync, Return(t),
         children' = children \cup {cur[t]}, relay_threads' \subseteq relay_threads \cup {cur[t]},
         relay' = relay \/ relay' = [relay EXCEPT ![cur[t]] = "reading"],
         UNCHANGED <<process_mgr, spawned, child, pipe, exit_requested, histVars>>
  PROVE  ProcInv'
<1> PICK p \in Procs : p = cur[t]
  BY LetGo
<1>0. /\ relay \in [Procs -> {"none", "reading", "done"}] /\ 0 \notin Procs
      /\ children \subseteq Procs /\ via[p] = "async"
  BY ProcFacts DEF ProcInv, CallsHave
<1>1. /\ process_mgr' = process_mgr /\ spawned' = spawned /\ child' = child /\ pipe' = pipe
      /\ exit_requested' = exit_requested /\ reports' = reports /\ via' = via
  BY DEF histVars
<1>2. /\ pc' \in [Threads -> Places] /\ cur' \in [Threads -> 0 .. MaxProcs]
      /\ pc'[t] = "run" /\ cur'[t] = 0
      /\ \A u \in Threads \ {t} : pc'[u] = pc[u] /\ cur'[u] = cur[u] /\ cur[u] # p
      /\ \A q \in Procs : ~Held(q)' <=> ~Held(q) \/ q = p
      /\ Held(p) /\ p \notin children /\ ~Settled(p)
  BY LetGo
<1>3. /\ relay' \in [Procs -> {"none", "reading", "done"}]
      /\ \A q \in Procs \ {p} : relay'[q] = relay[q]
      /\ relay'[p] = "reading" \/ relay'[p] = relay[p]
  BY <1>0
<1>4. ProcTypeOK'
  <2>1. children' \subseteq Procs /\ relay_threads' \subseteq Procs
    BY <1>0 DEF ProcInv, ProcTypeOK
  <2>2. QED
    BY <1>1, <1>2, <1>3, <2>1 DEF ProcInv, ProcTypeOK, Places
<1>5. ReportedOnce'
  BY <1>1 DEF ProcInv, ReportedOnce
<1>6. RelayDone'
  BY <1>1, <1>3 DEF ProcInv, RelayDone
<1>7. SyncOutputComplete'
  BY <1>0, <1>1, <1>3 DEF ProcInv, SyncOutputComplete
<1>8. ChildAccounted'
  <2>1. \A u, v \in Threads : u # v /\ cur'[u] \in Procs => cur'[v] # cur'[u]
    BY <1>0, <1>2 DEF ProcInv, ChildAccounted
  <2>2. \A q \in Procs : Settled(q)' <=> Settled(q)
    BY <1>1 DEF Settled
  <2>3. \A q \in Procs : via'[q] # "none" =>
          \/ Held(q)' /\ q \notin children' /\ ~Settled(q)'
          \/ q \in children' /\ ~Held(q)' /\ ~Settled(q)'
          \/ Settled(q)' /\ ~Held(q)' /\ q \notin children'
    BY <1>1, <1>2, <2>2 DEF ProcInv, ChildAccounted
  <2>4. QED
    BY <2>1, <2>3 DEF ChildAccounted
<1>9. CallsHave'
  BY <1>1, <1>2 DEF ProcInv, CallsHave, Idle, Sync
<1>10. Started'
  <2>1. ~(p > spawned)
    BY <1>2 DEF ProcInv, Started
  <2>2. \A q \in Procs : q > spawned => q # p
    BY <2>1
  <2>3. QED
    BY <1>0, <1>1, <1>2, <1>3, <2>2 DEF ProcInv, Started
<1>11. QED
  BY <1>4, <1>5, <1>6, <1>7, <1>8, <1>9, <1>10 DEF ProcInv

\* A child is taken out of the table.
LEMMA TakeStep ==
  ASSUME ProcInv, NEW t \in Threads, pc[t] \in Idle, NEW p \in children,
         NEW to \in {"try", "wait", "kill", "relock"}, Goto(t, to, p),
         children' = children \ {p}, process_mgr' \in Threads \cup {Free},
         UNCHANGED <<relay_threads, hostVars, exit_requested, histVars>>
  PROVE  ProcInv'
<1>0. /\ 0 \notin Procs /\ children \subseteq Procs /\ p \in Procs /\ p \in 0 .. MaxProcs
      /\ to \in Places \ (Idle \cup Sync) /\ to \notin {"sync_join", "detach"}
  BY ProcFacts DEF Places, Idle, Sync
<1>1. /\ relay_threads' = relay_threads /\ spawned' = spawned /\ child' = child /\ pipe' = pipe
      /\ relay' = relay /\ exit_requested' = exit_requested /\ reports' = reports /\ via' = via
  BY DEF hostVars, histVars
<1>2. /\ pc' \in [Threads -> Places] /\ cur' \in [Threads -> 0 .. MaxProcs]
      /\ pc'[t] = to /\ cur'[t] = p
      /\ \A u \in Threads \ {t} : pc'[u] = pc[u] /\ cur'[u] = cur[u]
  BY <1>0, GotoFacts
<1>3. /\ cur[t] = 0 /\ via[p] = "async" /\ ~Held(p) /\ ~Settled(p)
  BY <1>0 DEF ProcInv, CallsHave, Started, ChildAccounted
<1>4. \A u \in Threads : cur[u] # p
  BY <1>3 DEF Held
<1>5. \A q \in Procs : Held(q)' <=> Held(q) \/ q = p
  BY <1>0, <1>2, <1>3 DEF Held
<1>6. ProcTypeOK'
  BY <1>0, <1>1, <1>2 DEF ProcInv, ProcTypeOK, Places
<1>7. ReportedOnce' /\ RelayDone' /\ SyncOutputComplete'
  BY <1>1 DEF ProcInv, ReportedOnce, RelayDone, SyncOutputComplete
<1>8. ChildAccounted'
  <2>1. \A u, v \in Threads : u # v /\ cur'[u] \in Procs => cur'[v] # cur'[u]
    BY <1>0, <1>2, <1>4 DEF ProcInv, ChildAccounted
  <2>2. \A q \in Procs : Settled(q)' <=> Settled(q)
    BY <1>1 DEF Settled
  <2>3. \A q \in Procs : via'[q] # "none" =>
          \/ Held(q)' /\ q \notin children' /\ ~Settled(q)'
          \/ q \in children' /\ ~Held(q)' /\ ~Settled(q)'
          \/ Settled(q)' /\ ~Held(q)' /\ q \notin children'
    BY <1>1, <1>3, <1>5, <2>2 DEF ProcInv, ChildAccounted
  <2>4. QED
    BY <2>1, <2>3 DEF ChildAccounted
<1>9. CallsHave'
  BY <1>0, <1>1, <1>2, <1>3 DEF ProcInv, CallsHave
<1>10. Started'
  <2>1. \A q \in Procs : q > spawned => q # p
    BY <1>3 DEF ProcInv, Started
  <2>2. QED
    BY <1>0, <1>1, <1>5, <2>1 DEF ProcInv, Started
<1>11. QED
  BY <1>6, <1>7, <1>8, <1>9, <1>10 DEF ProcInv

\* A child is started.
LEMMA SpawnStep ==
  ASSUME ProcInv, NEW t \in Threads, NEW how \in {"sync", "async"}, NEW to \in Places,
         Spawn(t, how, to), how = "sync" => to = "sync_wait", how = "async" => to = "register",
         relay' = relay \/ relay' = [relay EXCEPT ![spawned + 1] = "reading"]
  PROVE  ProcInv'
<1>0. /\ 0 \notin Procs /\ spawned \in 0 .. MaxProcs /\ MaxProcs \in Nat /\ Procs \subseteq Nat
      /\ child \in [Procs -> {"none", "running", "exited"}] /\ reports \in [Procs -> Nat]
      /\ relay \in [Procs -> {"none", "reading", "done"}] /\ children \subseteq Procs
      /\ via \in [Procs -> {"none", "sync", "async", "killed"}]
  BY ProcFacts
<1>1. /\ process_mgr' = process_mgr /\ children' = children /\ relay_threads' = relay_threads
      /\ pipe' = pipe /\ exit_requested' = exit_requested /\ reports' = reports
      /\ spawned < MaxProcs /\ spawned' = spawned + 1 /\ pc[t] = "run"
      /\ child' = [child EXCEPT ![spawned + 1] = "running"]
      /\ via' = [via EXCEPT ![spawned + 1] = how] /\ Goto(t, to, spawned + 1)
  BY DEF Spawn, mapVars
<1>2. PICK p \in Procs : p = spawned + 1
  BY <1>0, <1>1 DEF Procs
<1>3. p > spawned /\ p \in 0 .. MaxProcs /\ spawned' \in 0 .. MaxProcs /\ \A q \in Procs : q > p => q > spawned /\ q # p
  BY <1>0, <1>1, <1>2 DEF Procs
<1>4. via[p] = "none" /\ reports[p] = 0 /\ relay[p] = "none" /\ ~Held(p) /\ p \notin children
  BY <1>3 DEF ProcInv, Started
<1>5. /\ pc' \in [Threads -> Places] /\ cur' \in [Threads -> 0 .. MaxProcs]
      /\ pc'[t] = to /\ cur'[t] = p
      /\ \A u \in Threads \ {t} : pc'[u] = pc[u] /\ cur'[u] = cur[u]
  BY <1>1, <1>2, <1>3, GotoFacts
<1>6. /\ via'[p] = how /\ child'[p] = "running" /\ relay'[p] \in {"none", "reading"}
      /\ \A q \in Procs \ {p} : via'[q] = via[q] /\ child'[q] = child[q] /\ relay'[q] = relay[q]
      /\ child' \in [Procs -> {"none", "running", "exited"}]
      /\ relay' \in [Procs -> {"none", "reading", "done"}]
      /\ via' \in [Procs -> {"none", "sync", "async", "killed"}]
  BY <1>0, <1>1, <1>2, <1>4
<1>7. cur[t] = 0 /\ \A u \in Threads : cur[u] # p
  BY <1>1, <1>4 DEF ProcInv, CallsHave, Idle, Held
<1>8. \A q \in Procs : Held(q)' <=> Held(q) \/ q = p
  BY <1>0, <1>5, <1>7 DEF Held
<1>9. ProcTypeOK'
  BY <1>1, <1>3, <1>5, <1>6 DEF ProcInv, ProcTypeOK, Places
<1>10. ReportedOnce' /\ RelayDone' /\ SyncOutputComplete'
  BY <1>1, <1>4, <1>6 DEF ProcInv, ReportedOnce, RelayDone, SyncOutputComplete
<1>11. ChildAccounted'
  <2>1. \A u, v \in Threads : u # v /\ cur'[u] \in Procs => cur'[v] # cur'[u]
    BY <1>0, <1>5, <1>7 DEF ProcInv, ChildAccounted
  <2>2. ~Settled(p)' /\ \A q \in Procs \ {p} : Settled(q)' <=> Settled(q)
    BY <1>1, <1>4, <1>6 DEF Settled
  <2>3. \A q \in Procs : via'[q] # "none" =>
          \/ Held(q)' /\ q \notin children' /\ ~Settled(q)'
          \/ q \in children' /\ ~Held(q)' /\ ~Settled(q)'
          \/ Settled(q)' /\ ~Held(q)' /\ q \notin children'
    BY <1>1, <1>4, <1>6, <1>8, <2>2 DEF ProcInv, ChildAccounted
  <2>4. QED
    BY <2>1, <2>3 DEF ChildAccounted
<1>12. CallsHave'
  <2>1. \A u \in Threads \ {t} : pc[u] \notin Idle => cur[u] \in Procs \ {p}
    BY <1>7 DEF ProcInv, CallsHave
  <2>2. \A u \in Threads \ {t} : pc[u] \notin Idle => via'[cur[u]] = via[cur[u]] /\ child'[cur[u]] = child[cur[u]]
    BY <1>6, <2>1
  <2>3. QED
    BY <1>5, <1>6, <2>2 DEF ProcInv, CallsHave, Idle, Sync
<1>13. Started'
  <2>1. \A q \in children' : via'[q] = "async"
    BY <1>0, <1>1, <1>4, <1>6 DEF ProcInv, Started
  <2>2. \A q \in Procs : q > spawned' => q > spawned /\ q # p
    BY <1>1, <1>2, <1>3
  <2>3. QED
    BY <1>1, <1>6, <1>8, <2>1, <2>2 DEF ProcInv, Started
<1>14. QED
  BY <1>9, <1>10, <1>11, <1>12, <1>13 DEF ProcInv

-----------------------------------------------------------------------------
(* The specification.                                                      *)

\* A step of a thread.
LEMMA ThreadSteps ==
  ASSUME ProcInv, NEW t \in Threads, ProcStep(t) \/ ProcCall(t)
  PROVE  ProcInv'
<1>0. /\ pc[t] \in Places /\ (pc[t] \in Idle => cur[t] = 0) /\ (pc[t] \in Sync => via[cur[t]] = "sync")
      /\ (pc[t] \notin Idle \cup Sync => via[cur[t]] = "async")
      /\ (pc[t] \in {"sync_join", "detach"} => child[cur[t]] = "exited")
      /\ process_mgr \in Threads \cup {Free}
  BY ProcFacts DEF ProcInv, CallsHave, ProcTypeOK
<1>1. CASE SyncWaits(t)
  BY <1>1, KeepStep DEF SyncWaits, Sync, Places
<1>2. CASE TryMisses(t)
  BY <1>2, KeepStep DEF TryMisses, Idle, Sync, Places
<1>3. CASE WaitEnds(t)
  BY <1>3, KeepStep DEF WaitEnds, Idle, Sync, Places
<1>4. CASE WaitAny(t) \/ AnyShutDown(t) \/ AnyFindsNone(t) \/ AnyChecks(t)
  <2>1. /\ pc[t] \in Idle /\ UNCHANGED <<process_mgr, mapVars, hostVars, exit_requested, histVars>>
        /\ \E to \in Idle : Goto(t, to, 0)
    BY <1>4 DEF WaitAny, AnyShutDown, AnyFindsNone, AnyChecks, Return, Idle
  <2>2. PICK to \in Idle : Goto(t, to, 0)
    BY <2>1
  <2>3. Goto(t, to, cur[t]) /\ to \in Places /\ to \notin {"sync_join", "detach"}
    BY <1>0, <2>1, <2>2 DEF Idle, Places
  <2>4. QED
    BY <2>1, <2>3, KeepStep
<1>5. CASE SyncJoins(t)
  <2>1. /\ pc[t] = "sync_join" /\ pc[t] \notin Idle /\ relay[cur[t]] = "done" /\ Report(cur[t]) /\ Return(t)
        /\ UNCHANGED <<process_mgr, children, hostVars, exit_requested, via>> /\ relay_threads' = relay_threads
    BY <1>5 DEF SyncJoins, Idle, mapVars
  <2>2. QED
    BY <1>0, <2>1, ReportStep
<1>6. CASE TryFinds(t)
  <2>1. /\ pc[t] \notin Idle \cup Sync /\ child[cur[t]] = "exited" /\ Report(cur[t]) /\ Return(t)
        /\ UNCHANGED <<process_mgr, children, hostVars, exit_requested, via>> /\ relay_threads' = relay_threads
    BY <1>6 DEF TryFinds, Idle, Sync, mapVars
  <2>2. QED
    BY <1>0, <2>1, ReportStep
<1>7. CASE Detaches(t)
  <2>1. /\ pc[t] \notin Idle \cup Sync /\ pc[t] = "detach" /\ Report(cur[t]) /\ Return(t)
        /\ UNCHANGED <<process_mgr, children, hostVars, exit_requested, via>>
        /\ relay_threads' \subseteq relay_threads
    BY <1>7 DEF Detaches, Idle, Sync
  <2>2. QED
    BY <1>0, <2>1, ReportStep
<1>8. CASE Registers(t)
  <2>1. pc[t] \notin Idle \cup Sync
    BY <1>8 DEF Registers, Idle, Sync
  <2>2. QED
    BY <1>8, <2>1, TableStep DEF Registers
<1>9. CASE PutsBack(t)
  <2>1. /\ pc[t] \notin Idle \cup Sync /\ relay' = relay /\ relay_threads' = relay_threads
        /\ UNCHANGED <<process_mgr, spawned, child, pipe, exit_requested, histVars>>
    BY <1>9 DEF PutsBack, Idle, Sync, hostVars
  <2>2. QED
    BY <1>9, <2>1, TableStep DEF PutsBack
<1>10. ASSUME NEW p \in Procs, NEW to \in {"try", "wait", "kill"}, TakeChild(t, p, to) PROVE ProcInv'
  <2>1. pc[t] \in Idle
    BY <1>10 DEF TakeChild, Idle
  <2>2. QED
    BY <1>0, <1>10, <2>1, TakeStep DEF TakeChild
<1>11. ASSUME pc[t] \in Idle, AnyFound(t) PROVE ProcInv'
  <2>1. PICK p \in Finished : children' = children \ {p} /\ Goto(t, "relock", p)
    BY <1>11 DEF AnyFound
  <2>2. p \in children
    BY DEF Finished
  <2>3. QED
    BY <1>11, <2>1, <2>2, TakeStep DEF AnyFound
<1>12. CASE AnyFindsOne(t) \/ WaitAnyNowait(t)
  BY <1>11, <1>12 DEF AnyFindsOne, WaitAnyNowait, Idle
<1>13. CASE ExecSync(t)
  BY <1>13, SpawnStep DEF ExecSync, Places
<1>14. CASE ExecAsync(t)
  BY <1>14, SpawnStep DEF ExecAsync, Places
<1>15. ASSUME NEW p \in Procs, WaitOneNowait(t, p) \/ WaitOne(t, p) \/ KillProcess(t, p) PROVE ProcInv'
  BY <1>10, <1>15 DEF WaitOneNowait, WaitOne, KillProcess
<1>16. QED
  BY <1>1, <1>2, <1>3, <1>4, <1>5, <1>6, <1>7, <1>8, <1>9, <1>12, <1>13, <1>14, <1>15, KillStep
     DEF ProcStep, ProcCall

\* Every step keeps the invariant.
LEMMA ProcNextInv == ProcInv /\ [ProcNext]_procVars => ProcInv'
<1> SUFFICES ASSUME ProcInv, [ProcNext]_procVars PROVE ProcInv'
  OBVIOUS
<1>1. ASSUME UNCHANGED <<process_mgr, mapVars, hostVars, callVars, histVars>>, exit_requested' \in BOOLEAN
      PROVE  ProcInv'
  <2>1. /\ process_mgr' = process_mgr /\ children' = children /\ relay_threads' = relay_threads
        /\ spawned' = spawned /\ child' = child /\ pipe' = pipe /\ relay' = relay
        /\ pc' = pc /\ cur' = cur /\ reports' = reports /\ via' = via
    BY <1>1 DEF mapVars, hostVars, callVars, histVars
  <2>2. ProcTypeOK'
    BY <1>1, <2>1 DEF ProcInv, ProcTypeOK
  <2>3. ReportedOnce' /\ RelayDone' /\ SyncOutputComplete' /\ CallsHave'
    BY <2>1 DEF ProcInv, ReportedOnce, RelayDone, SyncOutputComplete, CallsHave
  <2>4. ChildAccounted' /\ Started'
    BY <2>1 DEF ProcInv, ChildAccounted, Started, Held, Settled
  <2>5. QED
    BY <2>2, <2>3, <2>4 DEF ProcInv
<1>2. CASE UNCHANGED procVars
  BY <1>1, <1>2 DEF procVars, ProcInv, ProcTypeOK
<1>3. CASE RequestExit
  BY <1>1, <1>3 DEF RequestExit
<1>4. QED
  BY <1>2, <1>3, ThreadSteps, HostSteps DEF ProcNext

\* The invariant holds always.
LEMMA ProcAlways == ProcSpec => []ProcInv
BY ProcInitInv, ProcNextInv, PTL DEF ProcSpec

\* Whatever threads start, wait for, poll and kill it, a child has one owner and
\* is reported finished at most once, after it has exited.
THEOREM ChildrenSafe == ProcSpec => []ChildrenAccounted
<1>1. ProcInv => ChildrenAccounted
  BY DEF ProcInv, ChildrenAccounted
<1>2. QED
  BY <1>1, ProcAlways, PTL

\* A synchronous DosExecPgm returns after the last of the child's output.
THEOREM OutputComplete == ProcSpec => []SyncOutputComplete
<1>1. ProcInv => SyncOutputComplete
  BY DEF ProcInv
<1>2. QED
  BY <1>1, ProcAlways, PTL
=============================================================================
