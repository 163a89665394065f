--------------------------- MODULE Services_proofs --------------------------
(***************************************************************************)
(* Proofs about what the host does for the guest on threads and through    *)
(* descriptors of its own, for every set of threads and every bound: no    *)
(* descriptor of the host and no audio device has two owners, a socket     *)
(* call acts on the socket it was given (module Services), and no timer    *)
(* thread outlives the call that stopped its timer (module Pm).            *)
(***************************************************************************)
EXTENDS Services, Pm, WellFoundedInduction, FiniteSetTheorems, TLAPS

-----------------------------------------------------------------------------
(* Sockets.                                                                *)

Places == {"idle", "failed", "done", "made", "closing", "acting", "scratch", "allocated", "answer"}
Hows   == {"plain", "guarded", "accept", "SOCE_BADF", "SOCE_other"}

CallRecord == [at : Places, h : Nat, fd : Nat, how : Hows]

\* Handles were made by the counter, and descriptors are numbers the host gives.
SocketsTypeOK ==
  /\ next_handle \in Nat /\ next_handle >= FirstHandle
  /\ DOMAIN sockets \subseteq FirstHandle .. next_handle - 1
  /\ sockets \in [DOMAIN sockets -> Nat \ {0}]
  /\ last_sock_errno \in Hows \cup {"none"} /\ scratch_addr \in Nat /\ buffers \in Nat
  /\ fds \subseteq Nat \ {0} /\ IsFiniteSet(fds)
  /\ call \in [SocketThread -> CallRecord]

\* A call works on a handle that was made: a new socket never gets its handle.
ActsOnMade == \A t \in SocketThread : call[t].at = "acting" => call[t].h < next_handle

\* The inductive invariant.
SocketsInv == SocketsTypeOK /\ ActsOnMade /\ DescriptorsOwned /\ ActsOnNamed

\* A set of natural numbers has a least element.
LEMMA LeastNat ==
  ASSUME NEW S, S \subseteq Nat, S # {}
  PROVE  \E m \in S : \A n \in S : m <= n
<1>1. PICK m \in S : \A n \in S : ~(<<n, m>> \in OpToRel(<, Nat))
  BY WFMin, NatLessThanWellFounded, Zenon
<1>2. \A n \in S : ~(n < m)
  <2> SUFFICES ASSUME NEW n \in S, n < m PROVE FALSE
    OBVIOUS
  <2>1. n \in Nat /\ m \in Nat
    OBVIOUS
  <2>2. <<n, m>> \in OpToRel(<, Nat)
    BY <2>1 DEF OpToRel
  <2>3. QED
    BY <1>1, <2>2
<1>3. QED
  BY <1>2

\* The number the host gives a new descriptor is not in use.
LEMMA NewFdFresh ==
  ASSUME fds \subseteq Nat, IsFiniteSet(fds)
  PROVE  NewFd \in Nat \ {0} /\ NewFd \notin fds
<1> DEFINE n == Cardinality(fds)
           S == 1 .. n + 1 \ fds
<1>1. n \in Nat
  BY FS_CardinalityType
<1> HIDE DEF n
<1>2. S # {}
  <2> SUFFICES ASSUME S = {} PROVE FALSE
    OBVIOUS
  <2>1. 1 .. n + 1 \in SUBSET fds
    OBVIOUS
  <2>2. Cardinality(1 .. n + 1) <= n
    BY <2>1, FS_Subset DEF n
  <2>3. Cardinality(1 .. n + 1) = n + 1
    BY <1>1, FS_Interval
  <2>4. QED
    BY <1>1, <2>2, <2>3
<1>3. S \subseteq Nat
  BY <1>1
<1>4. PICK m \in S : \A x \in S : m <= x
  BY <1>2, <1>3, LeastNat
<1>5. NewFd \in S
  BY <1>4 DEF NewFd, Min, n
<1>6. QED
  BY <1>1, <1>5

\* The records of a call that is over.
LEMMA EndsOfCalls ==
  /\ NoCall \in CallRecord /\ NoCall.at = "idle"
  /\ Done \in CallRecord /\ Done.at = "done"
  /\ \A e \in Hows : Failed(e) \in CallRecord /\ Failed(e).at = "failed"
  /\ \A e : errno_to_soce(e) \in Hows
<1>1. NoCall \in CallRecord /\ NoCall.at = "idle"
  BY DEF NoCall, CallRecord, Places, Hows
<1>2. Done \in CallRecord /\ Done.at = "done"
  BY DEF Done, NoCall, CallRecord, Places, Hows
<1>3. ASSUME NEW e \in Hows PROVE Failed(e) \in CallRecord /\ Failed(e).at = "failed"
  BY DEF Failed, NoCall, CallRecord, Places, Hows
<1>4. \A e : errno_to_soce(e) \in Hows
  BY DEF errno_to_soce, Hows
<1>5. QED
  BY <1>1, <1>2, <1>3, <1>4

\* The record of a thread that holds a descriptor.
LEMMA HeldRecord ==
  ASSUME NEW place \in {"made", "closing"}, NEW fd \in Nat
  PROVE  LET c == [NoCall EXCEPT !.at = place, !.fd = fd]
         IN  c \in CallRecord /\ c.at = place /\ c.fd = fd
BY DEF NoCall, CallRecord, Places, Hows

\* Initially there are no sockets.
LEMMA SocketsInitInv == SocketsInit => SocketsInv
<1> SUFFICES ASSUME SocketsInit PROVE SocketsInv
  OBVIOUS
<1>1. DOMAIN sockets = {}
  BY DEF SocketsInit
<1>2. \A t \in SocketThread : call[t] = [at |-> "idle", h |-> 0, fd |-> 0, how |-> "plain"]
  BY DEF SocketsInit, NoCall
<1>3. SocketsTypeOK
  <2>1. call \in [SocketThread -> CallRecord]
    BY EndsOfCalls DEF SocketsInit
  <2>2. sockets \in [DOMAIN sockets -> Nat \ {0}]
    BY <1>1 DEF SocketsInit
  <2>3. fds \subseteq Nat \ {0} /\ IsFiniteSet(fds)
    BY FS_EmptySet DEF SocketsInit
  <2>4. QED
    BY <1>1, <2>1, <2>2, <2>3, SocketsAssumption DEF SocketsInit, SocketsTypeOK
<1>4. ActsOnMade /\ DescriptorsOwned /\ ActsOnNamed
  BY <1>1, <1>2 DEF ActsOnMade, DescriptorsOwned, ActsOnNamed, Holds, SocketsInit
<1>5. QED
  BY <1>3, <1>4 DEF SocketsInv

\* A step that moves one thread, neither before nor after the step the owner of
\* a descriptor, and leaves sockets and descriptors alone.
LEMMA QuietCall ==
  ASSUME SocketsInv, NEW t \in SocketThread, NEW c, Becomes(t, c),
         c \in CallRecord,
         c.at \notin {"made", "closing"}, ~Holds(t),
         c.at = "acting" => c.h \in DOMAIN sockets /\ c.fd = sockets[c.h],
         UNCHANGED <<sockets, next_handle, fds>>,
         last_sock_errno' \in Hows \cup {"none"}, scratch_addr' \in Nat, buffers' \in Nat
  PROVE  SocketsInv'
<1>1. \A u \in SocketThread : call'[u] = IF u = t THEN c ELSE call[u]
  BY DEF Becomes, SocketsInv, SocketsTypeOK
<1>2. SocketsTypeOK'
  <2>1. call' \in [SocketThread -> CallRecord]
    BY DEF Becomes, SocketsInv, SocketsTypeOK
  <2>2. QED
    BY <2>1 DEF SocketsInv, SocketsTypeOK
<1>3. ActsOnMade'
  BY <1>1, SocketsAssumption DEF SocketsInv, SocketsTypeOK, ActsOnMade
<1>4. ActsOnNamed'
  BY <1>1 DEF SocketsInv, ActsOnNamed
<1>5. \A u \in SocketThread : Holds(u)' = Holds(u) /\ (Holds(u) => call'[u] = call[u])
  BY <1>1 DEF Holds
<1>6. DescriptorsOwned'
  BY <1>5 DEF SocketsInv, DescriptorsOwned
<1>7. QED
  BY <1>2, <1>3, <1>4, <1>6 DEF SocketsInv

\* The host gives a call a new descriptor (socket() and accept()).
LEMMA MakesFd ==
  ASSUME SocketsInv, NEW t \in SocketThread, ~Holds(t),
         fds' = fds \cup {NewFd}, Becomes(t, [NoCall EXCEPT !.at = "made", !.fd = NewFd]),
         UNCHANGED <<sockets, next_handle, last_sock_errno, scratch_addr, buffers>>
  PROVE  SocketsInv'
<1> DEFINE c == [NoCall EXCEPT !.at = "made", !.fd = NewFd]
<1>1. NewFd \in Nat \ {0} /\ NewFd \notin fds
  BY NewFdFresh DEF SocketsInv, SocketsTypeOK
<1>2. call' = [call EXCEPT ![t] = c] /\ c \in CallRecord /\ c.at = "made" /\ c.fd = NewFd
  BY <1>1, HeldRecord DEF Becomes
<1> HIDE DEF c
<1>3. \A u \in SocketThread : call'[u] = IF u = t THEN c ELSE call[u]
  BY <1>2 DEF SocketsInv, SocketsTypeOK
<1>4. SocketsTypeOK'
  <2>1. call' \in [SocketThread -> CallRecord]
    BY <1>2 DEF SocketsInv, SocketsTypeOK
  <2>2. fds' \subseteq Nat \ {0} /\ IsFiniteSet(fds')
    BY <1>1, FS_AddElement DEF SocketsInv, SocketsTypeOK
  <2>3. QED
    BY <2>1, <2>2 DEF SocketsInv, SocketsTypeOK
<1>5. ActsOnMade' /\ ActsOnNamed'
  BY <1>2, <1>3 DEF SocketsInv, ActsOnMade, ActsOnNamed
<1>6. DescriptorsOwned'
  <2>1. \A u \in SocketThread \ {t} : Holds(u)' = Holds(u) /\ call'[u] = call[u]
    BY <1>3 DEF Holds
  <2>2. Holds(t)' /\ call'[t].fd = NewFd
    BY <1>2, <1>3 DEF Holds
  <2>3. \A h \in DOMAIN sockets : sockets[h] \in fds
    BY DEF SocketsInv, DescriptorsOwned
  <2>4. \A u \in SocketThread : Holds(u) => call[u].fd \in fds
    BY DEF SocketsInv, DescriptorsOwned
  <2>5. fds' = {sockets'[h] : h \in DOMAIN sockets'} \cup {call'[u].fd : u \in {v \in SocketThread : Holds(v)'}}
    BY <2>1, <2>2 DEF SocketsInv, DescriptorsOwned
  <2>6. QED
    BY <1>1, <2>1, <2>2, <2>3, <2>4, <2>5 DEF SocketsInv, DescriptorsOwned
<1>7. QED
  BY <1>4, <1>5, <1>6 DEF SocketsInv

\* The descriptor a thread holds gets the next handle.
LEMMA AllocatesInv ==
  ASSUME SocketsInv, NEW t \in SocketThread, Allocates(t)
  PROVE  SocketsInv'
<1> DEFINE fd == call[t].fd
<1>1. Holds(t) /\ call' = [call EXCEPT ![t] = NoCall]
  BY DEF Allocates, At, Becomes, Holds
<1>2. \A u \in SocketThread : call'[u] = IF u = t THEN NoCall ELSE call[u]
  <2>1. call \in [SocketThread -> CallRecord] /\ call' = [call EXCEPT ![t] = NoCall]
    BY <1>1 DEF SocketsInv, SocketsTypeOK
  <2>2. QED
    BY <2>1
<1>3. /\ DOMAIN sockets' = DOMAIN sockets \cup {next_handle}
      /\ next_handle \notin DOMAIN sockets
      /\ sockets'[next_handle] = fd
      /\ \A h \in DOMAIN sockets : sockets'[h] = sockets[h]
      /\ next_handle' = next_handle + 1
  BY DEF Allocates, alloc, SocketsInv, SocketsTypeOK
<1>4. fd \in fds
  BY <1>1 DEF SocketsInv, DescriptorsOwned
<1>5. SocketsTypeOK'
  <2>1. call' \in [SocketThread -> CallRecord]
    BY <1>1, EndsOfCalls DEF SocketsInv, SocketsTypeOK
  <2>2. sockets' \in [DOMAIN sockets' -> Nat \ {0}]
    BY <1>3, <1>4 DEF Allocates, alloc, SocketsInv, SocketsTypeOK
  <2>3. DOMAIN sockets' \subseteq FirstHandle .. next_handle' - 1
    BY <1>3, SocketsAssumption DEF SocketsInv, SocketsTypeOK
  <2>4. QED
    BY <1>3, <2>1, <2>2, <2>3, SocketsAssumption DEF Allocates, SocketsInv, SocketsTypeOK
<1>6. ActsOnMade' /\ ActsOnNamed'
  <2>1. \A u \in SocketThread : call'[u].at = "acting" => call'[u] = call[u] /\ call[u].h < next_handle
                                                          /\ call[u].h \in Nat
    BY <1>2, EndsOfCalls DEF SocketsInv, SocketsTypeOK, ActsOnMade, CallRecord
  <2>2. ActsOnMade'
    BY <1>3, <2>1 DEF ActsOnMade, SocketsInv, SocketsTypeOK
  <2>3. ActsOnNamed'
    BY <1>2, <1>3, <2>1 DEF ActsOnNamed, SocketsInv, SocketsTypeOK, NoCall
  <2>4. QED
    BY <2>2, <2>3
<1>7. DescriptorsOwned'
  <2>1. ~Holds(t)' /\ \A u \in SocketThread \ {t} : Holds(u)' = Holds(u) /\ call'[u] = call[u]
    BY <1>2 DEF Holds, NoCall
  <2>2. fds' = fds
    BY DEF Allocates
  <2>3. fds' = {sockets'[h] : h \in DOMAIN sockets'} \cup {call'[u].fd : u \in {v \in SocketThread : Holds(v)'}}
    BY <1>1, <1>3, <2>1, <2>2 DEF SocketsInv, DescriptorsOwned
  <2>4. \A h, i \in DOMAIN sockets' : h # i => sockets'[h] # sockets'[i]
    BY <1>1, <1>3 DEF SocketsInv, DescriptorsOwned
  <2>5. QED
    BY <1>1, <1>3, <2>1, <2>3, <2>4 DEF SocketsInv, DescriptorsOwned
<1>8. QED
  BY <1>5, <1>6, <1>7 DEF SocketsInv

\* A handle is forgotten and its descriptor is with the thread that closes it.
LEMMA ForgetsInv ==
  ASSUME SocketsInv, NEW t \in SocketThread, ~Holds(t), NEW h \in DOMAIN sockets, Forgets(t, h),
         UNCHANGED <<next_handle, last_sock_errno, scratch_addr, buffers>>
  PROVE  SocketsInv'
<1> DEFINE c == [NoCall EXCEPT !.at = "closing", !.fd = sockets[h]]
<1>1. call' = [call EXCEPT ![t] = c] /\ c \in CallRecord /\ c.at = "closing" /\ c.fd = sockets[h]
  BY HeldRecord DEF Forgets, Becomes, SocketsInv, SocketsTypeOK
<1> HIDE DEF c
<1>2. \A u \in SocketThread : call'[u] = IF u = t THEN c ELSE call[u]
  BY <1>1 DEF SocketsInv, SocketsTypeOK
<1>3. /\ DOMAIN sockets' = DOMAIN sockets \ {h}
      /\ \A i \in DOMAIN sockets' : sockets'[i] = sockets[i]
      /\ fds' = fds
  BY DEF Forgets, remove
<1>4. SocketsTypeOK'
  <2>1. call' \in [SocketThread -> CallRecord]
    BY <1>1 DEF SocketsInv, SocketsTypeOK
  <2>2. sockets' \in [DOMAIN sockets' -> Nat \ {0}]
    BY <1>3 DEF Forgets, remove, SocketsInv, SocketsTypeOK
  <2>3. QED
    BY <1>3, <2>1, <2>2 DEF SocketsInv, SocketsTypeOK
<1>5. ActsOnMade' /\ ActsOnNamed'
  BY <1>1, <1>2, <1>3 DEF SocketsInv, ActsOnMade, ActsOnNamed
<1>6. DescriptorsOwned'
  <2>1. /\ Holds(t)' /\ call'[t].fd = sockets[h]
        /\ \A u \in SocketThread \ {t} : Holds(u)' = Holds(u) /\ call'[u] = call[u]
    BY <1>1, <1>2 DEF Holds
  <2>2. fds' = {sockets'[i] : i \in DOMAIN sockets'} \cup {call'[u].fd : u \in {v \in SocketThread : Holds(v)'}}
    BY <1>3, <2>1 DEF SocketsInv, DescriptorsOwned
  <2>3. QED
    BY <1>3, <2>1, <2>2 DEF SocketsInv, DescriptorsOwned
<1>7. QED
  BY <1>4, <1>5, <1>6 DEF SocketsInv

\* The host closes the descriptor of a forgotten handle.
LEMMA HostClosesInv ==
  ASSUME SocketsInv, NEW t \in SocketThread, HostCloses(t)
  PROVE  SocketsInv'
<1>1. PICK c \in {Done, Failed(errno_to_soce("host"))} : call' = [call EXCEPT ![t] = c]
  BY DEF HostCloses, Becomes
<1>2. \A u \in SocketThread : call'[u] = IF u = t THEN c ELSE call[u]
  BY <1>1 DEF SocketsInv, SocketsTypeOK
<1>3. c \in CallRecord /\ c.at \in {"done", "failed"}
  BY <1>1, EndsOfCalls
<1>4. Holds(t) /\ fds' = fds \ {call[t].fd} /\ UNCHANGED <<sockets, next_handle>>
  BY DEF HostCloses, At, Holds
<1>5. SocketsTypeOK'
  <2>1. call' \in [SocketThread -> CallRecord]
    BY <1>1, <1>3 DEF SocketsInv, SocketsTypeOK
  <2>2. fds' \subseteq Nat \ {0} /\ IsFiniteSet(fds')
    BY <1>4, FS_RemoveElement DEF SocketsInv, SocketsTypeOK
  <2>3. QED
    BY <1>4, <2>1, <2>2 DEF HostCloses, SocketsInv, SocketsTypeOK
<1>6. ActsOnMade' /\ ActsOnNamed'
  BY <1>2, <1>3, <1>4 DEF SocketsInv, ActsOnMade, ActsOnNamed
<1>7. DescriptorsOwned'
  <2>1. ~Holds(t)' /\ \A u \in SocketThread \ {t} : Holds(u)' = Holds(u) /\ call'[u] = call[u]
    BY <1>2, <1>3 DEF Holds
  <2>2. \A i \in DOMAIN sockets : sockets[i] # call[t].fd
    BY <1>4 DEF SocketsInv, DescriptorsOwned
  <2>3. \A u \in SocketThread \ {t} : Holds(u) => call[u].fd # call[t].fd
    BY <1>4 DEF SocketsInv, DescriptorsOwned
  <2>4. fds' = {sockets'[i] : i \in DOMAIN sockets'} \cup {call'[u].fd : u \in {v \in SocketThread : Holds(v)'}}
    BY <1>4, <2>1, <2>2, <2>3 DEF SocketsInv, DescriptorsOwned
  <2>5. QED
    BY <1>4, <2>1, <2>4 DEF SocketsInv, DescriptorsOwned
<1>8. QED
  BY <1>5, <1>6, <1>7 DEF SocketsInv

\* The calls that look a handle up and let go of the lock.
LEMMA SoFdInv ==
  ASSUME SocketsInv, NEW t \in SocketThread, NEW how \in {"plain", "guarded", "accept"}, so_fd(t, how)
  PROVE  SocketsInv'
<1>1. PICK h \in Handles :
        Becomes(t, IF lookup(h) = 0 THEN Failed("SOCE_BADF")
                   ELSE [at |-> "acting", h |-> h, fd |-> lookup(h), how |-> how])
  BY DEF so_fd
<1>2. ~Holds(t) /\ UNCHANGED <<sockets, next_handle, last_sock_errno, scratch_addr, buffers, fds>>
  BY DEF so_fd, At, Holds
<1>3. CASE lookup(h) = 0
  <2>1. Failed("SOCE_BADF") \in CallRecord /\ Failed("SOCE_BADF").at = "failed"
    BY EndsOfCalls DEF Hows
  <2>2. QED
    BY <1>1, <1>2, <1>3, <2>1, QuietCall DEF SocketsInv, SocketsTypeOK
<1>4. CASE lookup(h) # 0
  <2> DEFINE c == [at |-> "acting", h |-> h, fd |-> lookup(h), how |-> how]
  <2>1. h \in DOMAIN sockets /\ lookup(h) = sockets[h] /\ lookup(h) \in Nat /\ h \in Nat
    BY <1>4, SocketsAssumption DEF lookup, SocketsInv, SocketsTypeOK
  <2>2. c \in CallRecord /\ c.at = "acting" /\ c.h = h /\ c.fd = sockets[h]
    BY <2>1 DEF CallRecord, Places, Hows
  <2>3. Becomes(t, c)
    BY <1>1, <1>4
  <2> HIDE DEF c
  <2>4. QED
    BY <1>2, <2>1, <2>2, <2>3, QuietCall DEF SocketsInv, SocketsTypeOK
<1>5. QED
  BY <1>3, <1>4

\* The host call of a thread that looked a handle up.
LEMMA TranslateRcInv ==
  ASSUME SocketsInv, NEW t \in SocketThread, translate_rc(t)
  PROVE  SocketsInv'
<1>1. ~Holds(t) /\ UNCHANGED <<sockets, next_handle, last_sock_errno, scratch_addr, buffers>>
  BY DEF translate_rc, At, Holds
<1>2. CASE fds' = fds /\ \E c \in {Done} \cup {Failed(e) : e \in Hows} : Becomes(t, c)
  <2>1. PICK c \in {Done} \cup {Failed(e) : e \in Hows} : Becomes(t, c)
    BY <1>2
  <2>2. c \in CallRecord /\ c.at \in {"done", "failed"}
    BY EndsOfCalls
  <2>3. QED
    BY <1>1, <1>2, <2>1, <2>2, QuietCall DEF SocketsInv, SocketsTypeOK
<1>3. CASE fds' = fds \cup {NewFd} /\ Becomes(t, [NoCall EXCEPT !.at = "made", !.fd = NewFd])
  BY <1>1, <1>3, MakesFd
<1>4. QED
  <2>1. errno_to_soce("EBADF") \in Hows /\ errno_to_soce("host") \in Hows /\ "SOCE_other" \in Hows
    BY EndsOfCalls DEF Hows
  <2>2. QED
    BY <1>2, <1>3, <2>1 DEF translate_rc

\* A step of one thread from a place where it holds no descriptor to another.
LEMMA EndsQuietly ==
  ASSUME SocketsInv, NEW t \in SocketThread, ~Holds(t),
         NEW c \in CallRecord, c.at \notin {"made", "closing", "acting"}, Becomes(t, c),
         UNCHANGED <<sockets, next_handle, fds>>,
         last_sock_errno' \in Hows \cup {"none"}, scratch_addr' \in Nat, buffers' \in Nat
  PROVE  SocketsInv'
BY QuietCall

\* Looking up names, and the scratch buffer for the answer.
LEMMA NameCallsInv ==
  ASSUME SocketsInv, NEW t \in SocketThread, NameCalls(t)
  PROVE  SocketsInv'
<1>1. last_sock_errno \in Hows \cup {"none"} /\ scratch_addr \in Nat /\ buffers \in Nat
      /\ call[t] \in CallRecord
  BY DEF SocketsInv, SocketsTypeOK
<1>2. Failed("SOCE_other") \in CallRecord /\ Failed("SOCE_other").at = "failed"
      /\ Done \in CallRecord /\ Done.at = "done"
  BY EndsOfCalls DEF Hows
<1>3. ASSUME NEW found \in BOOLEAN, Resolves(t, found) PROVE SocketsInv'
  <2>1. [NoCall EXCEPT !.at = "scratch"] \in CallRecord /\ [NoCall EXCEPT !.at = "scratch"].at = "scratch"
    BY DEF NoCall, CallRecord, Places, Hows
  <2>2. \E c \in CallRecord : c.at \in {"scratch", "failed"} /\ Becomes(t, c)
    BY <1>2, <1>3, <2>1 DEF Resolves
  <2>3. ~Holds(t)
    BY <1>3 DEF Resolves, At, Holds
  <2>4. QED
    BY <1>1, <1>3, <2>2, <2>3, EndsQuietly DEF Resolves
<1>4. ASSUME ensure_hostent_scratch(t) PROVE SocketsInv'
  <2> DEFINE a == [call[t] EXCEPT !.at = "answer"]
             b == [call[t] EXCEPT !.at = "allocated", !.h = buffers + 1]
  <2>1. a \in CallRecord /\ a.at = "answer"
    BY <1>1 DEF CallRecord, Places
  <2>2. b \in CallRecord /\ b.at = "allocated"
    <3>1. /\ call[t] = [at |-> call[t].at, h |-> call[t].h, fd |-> call[t].fd, how |-> call[t].how]
          /\ call[t].fd \in Nat /\ call[t].how \in Hows /\ buffers + 1 \in Nat
      BY <1>1 DEF CallRecord
    <3>2. QED
      BY <3>1 DEF CallRecord, Places
  <2>3. \E c \in CallRecord : c.at \in {"answer", "allocated", "failed"} /\ Becomes(t, c)
    BY <1>2, <1>4, <2>1, <2>2 DEF ensure_hostent_scratch
  <2>4. ~Holds(t) /\ buffers' \in Nat
    BY <1>1, <1>4 DEF ensure_hostent_scratch, At, Holds
  <2>5. QED
    BY <1>1, <1>4, <2>3, <2>4, EndsQuietly DEF ensure_hostent_scratch
<1>5. ASSUME StoreScratch(t) PROVE SocketsInv'
  <2>1. [NoCall EXCEPT !.at = "answer"] \in CallRecord /\ [NoCall EXCEPT !.at = "answer"].at = "answer"
    BY DEF NoCall, CallRecord, Places, Hows
  <2>2. ~Holds(t) /\ scratch_addr' \in Nat
    BY <1>1, <1>5 DEF StoreScratch, At, Holds, CallRecord
  <2>3. QED
    BY <1>1, <1>5, <2>1, <2>2, EndsQuietly DEF StoreScratch
<1>6. ASSUME write_hostent_to_scratch(t) PROVE SocketsInv'
  <2>1. ~Holds(t)
    BY <1>6 DEF write_hostent_to_scratch, At, Holds
  <2>2. QED
    BY <1>1, <1>2, <1>6, <2>1, EndsQuietly DEF write_hostent_to_scratch
<1>7. QED
  BY <1>3, <1>4, <1>5, <1>6 DEF NameCalls, so_gethostbyname, so_gethostbyaddr, so_getservbyname,
     so_getservbyport

\* Every step of the sockets keeps their invariant.
LEMMA SocketsNextInv ==
  ASSUME SocketsInv, SocketsNext
  PROVE  SocketsInv'
<1>1. PICK t \in SocketThread :
        \/ so_socket(t) \/ Allocates(t) \/ so_close(t) \/ HostCloses(t)
        \/ HandleCalls(t) \/ translate_rc(t) \/ so_select(t) \/ NameCalls(t)
        \/ set_errno(t) \/ clear_errno(t)
  BY DEF SocketsNext
<1>2. /\ last_sock_errno \in Hows \cup {"none"} /\ scratch_addr \in Nat /\ buffers \in Nat
      /\ call[t] \in CallRecord
  BY DEF SocketsInv, SocketsTypeOK
<1>3. /\ \A e \in Hows : Failed(e) \in CallRecord /\ Failed(e).at = "failed"
      /\ Done \in CallRecord /\ Done.at = "done" /\ NoCall \in CallRecord /\ NoCall.at = "idle"
      /\ errno_to_soce("host") \in Hows /\ "SOCE_BADF" \in Hows
  BY EndsOfCalls DEF Hows
<1>4. CASE so_socket(t)
  <2>1. ~Holds(t)
    BY <1>4 DEF so_socket, At, Holds
  <2>2. CASE fds' = fds \cup {NewFd} /\ Becomes(t, [NoCall EXCEPT !.at = "made", !.fd = NewFd])
    BY <1>4, <2>1, <2>2, MakesFd DEF so_socket
  <2>3. CASE Becomes(t, Failed(errno_to_soce("host"))) /\ UNCHANGED fds
    BY <1>2, <1>3, <1>4, <2>1, <2>3, EndsQuietly DEF so_socket
  <2>4. QED
    BY <1>4, <2>2, <2>3 DEF so_socket
<1>5. CASE Allocates(t)
  BY <1>5, AllocatesInv
<1>6. CASE so_close(t)
  <2>1. ~Holds(t)
    BY <1>6 DEF so_close, At, Holds
  <2>2. CASE \E h \in DOMAIN sockets : Forgets(t, h)
    BY <1>6, <2>1, <2>2, ForgetsInv DEF so_close
  <2>3. CASE Becomes(t, Failed("SOCE_BADF")) /\ UNCHANGED <<sockets, fds>>
    BY <1>2, <1>3, <1>6, <2>1, <2>3, EndsQuietly DEF so_close
  <2>4. QED
    BY <1>6, <2>2, <2>3 DEF so_close
<1>7. CASE HostCloses(t)
  BY <1>7, HostClosesInv
<1>8. CASE HandleCalls(t)
  BY <1>8, SoFdInv DEF HandleCalls, so_bind, so_connect, so_recv, so_recvfrom, so_getsockopt,
     so_listen, so_send, so_sendto, so_shutdown, so_getsockname, so_getpeername, so_setsockopt,
     so_accept
<1>9. CASE translate_rc(t)
  BY <1>9, TranslateRcInv
<1>10. CASE so_select(t)
  <2>1. ~Holds(t) /\ \E c \in {Done, Failed(errno_to_soce("host"))} : Becomes(t, c)
    BY <1>10 DEF so_select, At, Holds
  <2>2. QED
    BY <1>2, <1>3, <1>10, <2>1, EndsQuietly DEF so_select
<1>11. CASE NameCalls(t)
  BY <1>11, NameCallsInv
<1>12. CASE set_errno(t)
  <2>1. ~Holds(t) /\ last_sock_errno' \in Hows \cup {"none"}
    BY <1>2, <1>12 DEF set_errno, At, Holds, CallRecord
  <2>2. QED
    BY <1>2, <1>3, <1>12, <2>1, EndsQuietly DEF set_errno
<1>13. CASE clear_errno(t)
  <2>1. ~Holds(t)
    BY <1>13 DEF clear_errno, At, Holds
  <2>2. QED
    BY <1>2, <1>3, <1>13, <2>1, EndsQuietly DEF clear_errno
<1>14. QED
  BY <1>1, <1>4, <1>5, <1>6, <1>7, <1>8, <1>9, <1>10, <1>11, <1>12, <1>13

-----------------------------------------------------------------------------
(* Sound.                                                                  *)

DeviceRecord == [mode : {"Stopped", "Playing"}, audio_dev : Nat, notify_cancel : Nat,
                 left : {"sound", "end"}]
PlayRecord   == [at : {"idle", "close", "stop", "seek", "play", "from", "beep", "empty", "copied",
                       "cleared", "opened", "wait", "notify"}, dev : Nat, audio : Nat]

WatcherRecord == [dev : Nat, cancel : BOOLEAN, at : {"polling", "left", "cleaning", "ended"},
                  posted : {"nothing", "SUPERSEDED", "SUCCESSFUL"}]

\* MCI devices have the numbers the counter gives, and SDL's numbers are not 0.
MediaTypeOK ==
  /\ next_device_id \in 1 .. LastDevice
  /\ DOMAIN devices \subseteq 1 .. LastDevice
  /\ devices \in [DOMAIN devices -> DeviceRecord]
  /\ open_audio \subseteq Nat \ {0}
  /\ watchers \in Seq(WatcherRecord)
  /\ playing \in [MciThread -> PlayRecord]

\* The thread has an audio device of its own: a tone, or a sound that no MCI
\* device has yet.
OwnsAudio(t) == playing[t].at \in {"beep", "opened"}

\* What a thread has is open, is no MCI device's, and no other thread has it.
ThreadsOwn ==
  /\ \A t \in MciThread : OwnsAudio(t) =>
       /\ playing[t].audio \in open_audio
       /\ \A d \in DOMAIN devices : devices[d].audio_dev # playing[t].audio
  /\ \A t, u \in MciThread :
       OwnsAudio(t) /\ OwnsAudio(u) /\ t # u => playing[t].audio # playing[u].audio

\* The inductive invariant.
MediaInv == MediaTypeOK /\ SoundOwned /\ ThreadsOwn

\* Initially nothing sounds.
LEMMA MediaInitInv == MediaInit => MediaInv
<1> SUFFICES ASSUME MediaInit PROVE MediaInv
  OBVIOUS
<1>1. DOMAIN devices = {} /\ devices \in [DOMAIN devices -> DeviceRecord]
  BY DEF MediaInit
<1>2. Idle \in PlayRecord /\ Idle.at = "idle"
  BY DEF Idle, PlayRecord
<1>3. MediaTypeOK
  BY <1>1, <1>2, MediaAssumption DEF MediaInit, MediaTypeOK
<1>4. SoundOwned /\ ThreadsOwn
  BY <1>1, <1>2 DEF MediaInit, SoundOwned, ThreadsOwn, OwnsAudio
<1>5. QED
  BY <1>3, <1>4 DEF MediaInv

\* A step in which nobody gets an audio device: MCI devices and threads keep
\* what they have and what stays open, or let it go.
LEMMA LetGo ==
  ASSUME MediaInv, MediaTypeOK', open_audio' \subseteq open_audio,
         \A d \in DOMAIN devices' :
            \/ devices'[d].audio_dev = 0 /\ devices'[d].mode = "Stopped"
            \/ /\ d \in DOMAIN devices
               /\ devices'[d].audio_dev = devices[d].audio_dev /\ devices'[d].mode = devices[d].mode
               /\ devices[d].audio_dev \in open_audio' \cup {0},
         \A t \in MciThread : OwnsAudio(t)' =>
            /\ OwnsAudio(t) /\ playing'[t].at = playing[t].at
            /\ playing'[t].audio = playing[t].audio
            /\ playing[t].audio \in open_audio'
  PROVE  MediaInv'
<1>1. 0 \notin open_audio
  BY DEF MediaInv, MediaTypeOK
<1>2. \A d \in DOMAIN devices' : devices'[d].audio_dev # 0 =>
         /\ d \in DOMAIN devices /\ devices'[d].audio_dev = devices[d].audio_dev
         /\ devices'[d].mode = devices[d].mode
  OBVIOUS
<1>3. ThreadsOwn'
  <2>1. \A t \in MciThread : OwnsAudio(t)' => playing'[t].audio # 0
    BY <1>1
  <2>2. ASSUME NEW t \in MciThread, OwnsAudio(t)', NEW d \in DOMAIN devices'
        PROVE  devices'[d].audio_dev # playing'[t].audio
    BY <1>2, <2>1, <2>2 DEF MediaInv, ThreadsOwn
  <2>3. QED
    BY <2>2 DEF MediaInv, ThreadsOwn
<1>4. SoundOwned'
  <2>1. \A d \in DOMAIN devices' :
          /\ (devices'[d].mode = "Playing") = (devices'[d].audio_dev # 0)
          /\ devices'[d].audio_dev \in open_audio' \cup {0}
    BY DEF MediaInv, SoundOwned
  <2>2. \A d, e \in DOMAIN devices' :
          d # e /\ devices'[d].audio_dev # 0 => devices'[d].audio_dev # devices'[e].audio_dev
    BY <1>2 DEF MediaInv, SoundOwned
  <2>3. \A t \in MciThread : playing'[t].at = "beep" => OwnsAudio(t)'
    BY DEF OwnsAudio
  <2>4. QED
    BY <1>3, <2>1, <2>2, <2>3 DEF SoundOwned, ThreadsOwn
<1>5. QED
  BY <1>3, <1>4 DEF MediaInv

\* A thread gets an audio device that SDL had not given out.
LEMMA TakesAudio ==
  ASSUME MediaInv, NEW t \in MciThread, NEW a \in FreeAudio, NEW c \in PlayRecord,
         c.at \in {"beep", "opened"}, c.audio = a, Does(t, c),
         open_audio' = open_audio \cup {a}, UNCHANGED <<devices, next_device_id, watchers>>
  PROVE  MediaInv'
<1>1. a \in Nat \ {0} /\ a \notin open_audio
  BY MediaAssumption DEF FreeAudio
<1>2. \A u \in MciThread : playing'[u] = IF u = t THEN c ELSE playing[u]
  BY DEF Does, MediaInv, MediaTypeOK
<1>3. MediaTypeOK'
  BY <1>1 DEF Does, MediaInv, MediaTypeOK
<1>4. \A d \in DOMAIN devices : devices[d].audio_dev # a
  BY <1>1 DEF MediaInv, SoundOwned
<1>5. \A u \in MciThread : OwnsAudio(u) => playing[u].audio # a
  BY <1>1 DEF MediaInv, ThreadsOwn
<1>6. ThreadsOwn'
  BY <1>2, <1>4, <1>5 DEF MediaInv, ThreadsOwn, OwnsAudio
<1>7. SoundOwned'
  BY <1>6 DEF MediaInv, SoundOwned, ThreadsOwn, OwnsAudio
<1>8. QED
  BY <1>3, <1>6, <1>7 DEF MediaInv

\* A thread goes on without an audio device of its own.
LEMMA MovesOn ==
  ASSUME MediaInv, NEW t \in MciThread, NEW c \in PlayRecord, c.at \notin {"beep", "opened"}, Does(t, c)
  PROVE  /\ playing' \in [MciThread -> PlayRecord]
         /\ \A u \in MciThread : OwnsAudio(u)' => u # t /\ OwnsAudio(u) /\ playing'[u] = playing[u]
<1>1. playing \in [MciThread -> PlayRecord] /\ playing' = [playing EXCEPT ![t] = c]
  BY DEF Does, MediaInv, MediaTypeOK
<1>2. \A u \in MciThread : playing'[u] = IF u = t THEN c ELSE playing[u]
  BY <1>1
<1>3. QED
  BY <1>1, <1>2 DEF OwnsAudio

\* The record of an idle thread.
LEMMA IdleRecord == Idle \in PlayRecord /\ Idle.at = "idle"
BY DEF Idle, PlayRecord

\* The record of a thread that goes on to a place.
LEMMA GoesTo ==
  ASSUME NEW p \in PlayRecord, NEW place \in {"empty", "copied", "cleared", "play"}
  PROVE  [p EXCEPT !.at = place] \in PlayRecord /\ [p EXCEPT !.at = place].at = place
BY DEF PlayRecord

\* The record of a thread that goes on to a place with an audio device or without.
LEMMA GoesWith ==
  ASSUME NEW p \in PlayRecord, NEW place \in {"wait", "notify", "opened"}, NEW a \in Nat
  PROVE  LET c == [p EXCEPT !.at = place, !.audio = a]
         IN  c \in PlayRecord /\ c.at = place /\ c.audio = a
<1>1. p = [at |-> p.at, dev |-> p.dev, audio |-> p.audio] /\ p.dev \in Nat
  BY DEF PlayRecord
<1>2. QED
  BY <1>1 DEF PlayRecord

\* The record of a watcher whose flag is set, or that goes on.
LEMMA WatcherRecords ==
  ASSUME NEW w \in WatcherRecord
  PROVE  /\ [w EXCEPT !.cancel = TRUE] \in WatcherRecord
         /\ [w EXCEPT !.at = "left"] \in WatcherRecord
         /\ [w EXCEPT !.at = "cleaning"] \in WatcherRecord
BY DEF WatcherRecord

\* The record of a watcher that is over.
LEMMA EndedRecord ==
  ASSUME NEW p \in {"nothing", "SUPERSEDED", "SUCCESSFUL"}
  PROVE  Ended(p) \in WatcherRecord
BY DEF Ended, WatcherRecord

\* Setting the flag of a watcher leaves a list of watchers.
LEMMA CancelledType ==
  ASSUME MediaInv, NEW d \in DOMAIN devices
  PROVE  Cancelled(d) \in Seq(WatcherRecord)
<1> DEFINE n == devices[d].notify_cancel
<1>1. watchers \in Seq(WatcherRecord) /\ n \in Nat
  BY DEF MediaInv, MediaTypeOK, DeviceRecord
<1>2. CASE n \in 1 .. Len(watchers)
  <2>1. [watchers[n] EXCEPT !.cancel = TRUE] \in WatcherRecord
    <3>1. watchers[n] \in WatcherRecord
      BY <1>1, <1>2
    <3>2. QED
      BY <3>1, WatcherRecords
  <2>2. QED
    BY <1>1, <1>2, <2>1 DEF Cancelled
<1>3. CASE n \notin 1 .. Len(watchers)
  <2>1. [watchers EXCEPT ![n].cancel = TRUE] = watchers
    BY <1>1, <1>3
  <2>2. QED
    BY <1>1, <2>1 DEF Cancelled
<1>4. QED
  BY <1>2, <1>3

\* A step that moves one thread on and leaves every MCI device the audio device
\* it has.
LEMMA KeepsAudio ==
  ASSUME MediaInv, NEW t \in MciThread, NEW c \in PlayRecord, c.at \notin {"beep", "opened"}, Does(t, c),
         UNCHANGED <<open_audio, next_device_id>>, watchers' \in Seq(WatcherRecord),
         DOMAIN devices' = DOMAIN devices,
         devices' \in [DOMAIN devices -> DeviceRecord],
         \A d \in DOMAIN devices : devices'[d].audio_dev = devices[d].audio_dev
                                   /\ devices'[d].mode = devices[d].mode
  PROVE  MediaInv'
<1>1. /\ playing' \in [MciThread -> PlayRecord]
      /\ \A u \in MciThread : OwnsAudio(u)' => OwnsAudio(u) /\ playing'[u] = playing[u]
  BY MovesOn
<1>2. MediaTypeOK'
  BY <1>1 DEF MediaInv, MediaTypeOK
<1>3. \A d \in DOMAIN devices : devices[d].audio_dev \in open_audio \cup {0}
  BY DEF MediaInv, SoundOwned
<1>4. \A u \in MciThread : OwnsAudio(u) => playing[u].audio \in open_audio
  BY DEF MediaInv, ThreadsOwn
<1>5. QED
  BY <1>1, <1>2, <1>3, <1>4, LetGo

\* One MCI device lets its audio device go, is there no longer or is stopped, and
\* SDL closes the audio device.
LEMMA DropsAudio ==
  ASSUME MediaInv, NEW d \in DOMAIN devices, open_audio' = Closed(d),
         next_device_id' \in 1 .. LastDevice, watchers' \in Seq(WatcherRecord),
         DOMAIN devices' \subseteq 1 .. LastDevice, devices' \in [DOMAIN devices' -> DeviceRecord],
         \A e \in DOMAIN devices' \ {d} : e \in DOMAIN devices /\ devices'[e] = devices[e],
         d \in DOMAIN devices' => devices'[d].audio_dev = 0 /\ devices'[d].mode = "Stopped",
         playing' \in [MciThread -> PlayRecord],
         \A u \in MciThread : OwnsAudio(u)' => OwnsAudio(u) /\ playing'[u] = playing[u]
  PROVE  MediaInv'
<1>1. MediaTypeOK' /\ open_audio' \subseteq open_audio
  BY DEF MediaInv, MediaTypeOK, Closed
<1>2. \A e \in DOMAIN devices' \ {d} : devices[e].audio_dev \in open_audio' \cup {0}
  BY DEF MediaInv, SoundOwned, Closed
<1>3. \A u \in MciThread : OwnsAudio(u) => playing[u].audio \in open_audio'
  BY DEF MediaInv, ThreadsOwn, Closed
<1>4. QED
  BY <1>1, <1>2, <1>3, LetGo

\* MCI_STOP, and the end of MCI_PLAY with MCI_WAIT.
LEMMA StopsInv ==
  ASSUME MediaInv, NEW t \in MciThread, NEW d, Stops(d), Does(t, Idle), UNCHANGED next_device_id
  PROVE  MediaInv'
<1>1. CASE d \notin DOMAIN devices
  <2>1. UNCHANGED <<devices, open_audio, watchers>>
    BY <1>1 DEF Stops
  <2>2. devices \in [DOMAIN devices -> DeviceRecord] /\ watchers \in Seq(WatcherRecord)
    BY DEF MediaInv, MediaTypeOK
  <2>3. QED
    BY <2>1, <2>2, KeepsAudio, IdleRecord
<1>2. CASE d \in DOMAIN devices
  <2>1. /\ open_audio' = Closed(d) /\ watchers' \in Seq(WatcherRecord)
        /\ devices' = [devices EXCEPT ![d].mode = "Stopped", ![d].notify_cancel = 0, ![d].audio_dev = 0]
    BY <1>2, CancelledType DEF Stops, Drop
  <2>2. devices \in [DOMAIN devices -> DeviceRecord] /\ DOMAIN devices \subseteq 1 .. LastDevice
        /\ next_device_id \in 1 .. LastDevice
    BY DEF MediaInv, MediaTypeOK
  <2>3. /\ DOMAIN devices' = DOMAIN devices
        /\ \A e \in DOMAIN devices \ {d} : devices'[e] = devices[e]
        /\ devices'[d].audio_dev = 0 /\ devices'[d].mode = "Stopped"
        /\ devices' \in [DOMAIN devices -> DeviceRecord]
    BY <1>2, <2>1, <2>2 DEF DeviceRecord
  <2>4. /\ playing' \in [MciThread -> PlayRecord]
        /\ \A u \in MciThread : OwnsAudio(u)' => OwnsAudio(u) /\ playing'[u] = playing[u]
    <3>1. Idle \in PlayRecord /\ Idle.at \notin {"beep", "opened"}
      BY IdleRecord
    <3>2. QED
      BY <3>1, MovesOn
  <2>5. QED
    BY <1>2, <2>1, <2>2, <2>3, <2>4, DropsAudio
<1>3. QED
  BY <1>1, <1>2

\* MCI_OPEN, also when the number it takes still is a device's.
LEMMA OpenInv ==
  ASSUME MediaInv, NEW t \in MciThread, mci_open(t)
  PROVE  MediaInv'
<1> DEFINE n == next_device_id
           r == [mode |-> "Stopped", audio_dev |-> 0, notify_cancel |-> 0, left |-> "sound"]
<1>1. r \in DeviceRecord /\ r.audio_dev = 0 /\ r.mode = "Stopped"
  BY DEF DeviceRecord
<1>2. devices' = [x \in DOMAIN devices \cup {n} |-> IF x = n THEN r ELSE devices[x]]
  BY DEF mci_open, mci_open_internal, Put
<1>3. devices \in [DOMAIN devices -> DeviceRecord] /\ DOMAIN devices \subseteq 1 .. LastDevice
      /\ n \in 1 .. LastDevice /\ playing \in [MciThread -> PlayRecord]
  BY DEF MediaInv, MediaTypeOK
<1>4. next_device_id' \in 1 .. LastDevice /\ UNCHANGED playing
  BY <1>3, MediaAssumption DEF mci_open, mci_open_internal
<1> HIDE DEF n, r
<1>5. /\ DOMAIN devices' = DOMAIN devices \cup {n} /\ DOMAIN devices' \subseteq 1 .. LastDevice
      /\ devices' \in [DOMAIN devices' -> DeviceRecord] /\ devices'[n] = r
      /\ \A e \in DOMAIN devices' \ {n} : e \in DOMAIN devices /\ devices'[e] = devices[e]
  BY <1>1, <1>2, <1>3
<1>6. \A u \in MciThread : OwnsAudio(u)' => OwnsAudio(u) /\ playing'[u] = playing[u]
  BY <1>4 DEF OwnsAudio
<1>7. CASE n \in DOMAIN devices
  <2>1. open_audio' = Closed(n) /\ watchers' \in Seq(WatcherRecord)
    BY <1>7, CancelledType DEF mci_open, mci_open_internal, Drop, n
  <2>2. QED
    BY <1>1, <1>3, <1>4, <1>5, <1>6, <1>7, <2>1, DropsAudio
<1>8. CASE n \notin DOMAIN devices
  <2>1. open_audio' = open_audio /\ watchers' = watchers
    BY <1>8 DEF mci_open, mci_open_internal, n
  <2>2. MediaTypeOK'
    BY <1>3, <1>4, <1>5, <2>1 DEF MediaInv, MediaTypeOK
  <2>3. \A d \in DOMAIN devices : devices[d].audio_dev \in open_audio \cup {0}
    BY DEF MediaInv, SoundOwned
  <2>4. \A u \in MciThread : OwnsAudio(u) => playing[u].audio \in open_audio
    BY DEF MediaInv, ThreadsOwn
  <2>5. QED
    BY <1>1, <1>4, <1>5, <1>6, <2>1, <2>2, <2>3, <2>4, LetGo
<1>9. QED
  BY <1>7, <1>8

\* MCI_CLOSE.
LEMMA CloseInv ==
  ASSUME MediaInv, NEW t \in MciThread, mci_close(t)
  PROVE  MediaInv'
<1> DEFINE d == playing[t].dev
<1>1. devices \in [DOMAIN devices -> DeviceRecord] /\ DOMAIN devices \subseteq 1 .. LastDevice
      /\ next_device_id \in 1 .. LastDevice /\ watchers \in Seq(WatcherRecord)
  BY DEF MediaInv, MediaTypeOK
<1>2. Does(t, Idle) /\ UNCHANGED next_device_id
  BY DEF mci_close
<1>3. CASE d \in DOMAIN devices
  <2>1. /\ open_audio' = Closed(d) /\ watchers' \in Seq(WatcherRecord)
        /\ devices' = [x \in DOMAIN devices \ {d} |-> devices[x]]
    BY <1>3, CancelledType DEF mci_close, Drop, Less
  <2>2. /\ DOMAIN devices' = DOMAIN devices \ {d} /\ devices' \in [DOMAIN devices' -> DeviceRecord]
        /\ \A e \in DOMAIN devices' : devices'[e] = devices[e]
    BY <1>1, <2>1
  <2>3. /\ playing' \in [MciThread -> PlayRecord]
        /\ \A u \in MciThread : OwnsAudio(u)' => OwnsAudio(u) /\ playing'[u] = playing[u]
    <3>1. Idle \in PlayRecord /\ Idle.at \notin {"beep", "opened"}
      BY IdleRecord
    <3>2. QED
      BY <1>2, <3>1, MovesOn
  <2> HIDE DEF d
  <2>4. QED
    BY <1>1, <1>2, <1>3, <2>1, <2>2, <2>3, DropsAudio
<1>4. CASE d \notin DOMAIN devices
  <2>1. UNCHANGED <<devices, open_audio, watchers>>
    BY <1>4 DEF mci_close
  <2>2. QED
    BY <1>1, <1>2, <2>1, KeepsAudio, IdleRecord
<1>5. QED
  BY <1>3, <1>4

\* MCI_SEEK, and the seek of MCI_PLAY with MCI_FROM.
LEMMA SeekInv ==
  ASSUME MediaInv, NEW t \in MciThread, mci_seek_to(t)
  PROVE  MediaInv'
<1> DEFINE d == playing[t].dev
<1>1. devices \in [DOMAIN devices -> DeviceRecord] /\ playing[t] \in PlayRecord
  BY DEF MediaInv, MediaTypeOK
<1>2. \E c \in PlayRecord : c.at \notin {"beep", "opened"} /\ Does(t, c)
  <2>1. /\ Idle \in PlayRecord /\ Idle.at = "idle"
        /\ [playing[t] EXCEPT !.at = "play"] \in PlayRecord /\ [playing[t] EXCEPT !.at = "play"].at = "play"
    BY <1>1, IdleRecord, GoesTo
  <2>2. QED
    BY <2>1 DEF mci_seek_to
<1>3. /\ DOMAIN devices' = DOMAIN devices /\ devices' \in [DOMAIN devices -> DeviceRecord]
      /\ \A e \in DOMAIN devices : devices'[e].audio_dev = devices[e].audio_dev
                                   /\ devices'[e].mode = devices[e].mode
  <2>1. CASE d \in DOMAIN devices
    <3>1. PICK left \in {"sound", "end"} : devices' = [devices EXCEPT ![d].left = left]
      BY <2>1 DEF mci_seek_to
    <3>2. QED
      BY <1>1, <2>1, <3>1 DEF DeviceRecord
  <2>2. CASE d \notin DOMAIN devices
    BY <1>1, <2>2 DEF mci_seek_to
  <2>3. QED
    BY <2>1, <2>2
<1>4. UNCHANGED <<open_audio, next_device_id, watchers>> /\ watchers \in Seq(WatcherRecord)
  BY DEF mci_seek_to, MediaInv, MediaTypeOK
<1>5. QED
  BY <1>2, <1>3, <1>4, KeepsAudio

\* DosBeep.
LEMMA BeepInv ==
  ASSUME MediaInv, NEW t \in MciThread, beep_tone(t)
  PROVE  MediaInv'
<1>1. CASE \E a \in FreeAudio : /\ open_audio' = open_audio \cup {a}
                                /\ Does(t, [Idle EXCEPT !.at = "beep", !.audio = a])
  <2>1. PICK a \in FreeAudio : /\ open_audio' = open_audio \cup {a}
                               /\ Does(t, [Idle EXCEPT !.at = "beep", !.audio = a])
    BY <1>1
  <2> DEFINE c == [Idle EXCEPT !.at = "beep", !.audio = a]
  <2>2. a \in Nat
    BY MediaAssumption DEF FreeAudio
  <2>3. c \in PlayRecord /\ c.at = "beep" /\ c.audio = a
    BY <2>2 DEF Idle, PlayRecord
  <2> HIDE DEF c
  <2>4. Does(t, c) /\ UNCHANGED <<devices, next_device_id, watchers>>
    BY <2>1 DEF c, beep_tone
  <2>5. QED
    BY <2>1, <2>3, <2>4, TakesAudio
<1>2. CASE /\ playing[t].at = "beep"
           /\ open_audio' = open_audio \ {playing[t].audio} /\ Does(t, Idle)
  <2>1. Idle \in PlayRecord /\ Idle.at \notin {"beep", "opened"}
    BY IdleRecord
  <2>2. /\ playing' \in [MciThread -> PlayRecord]
        /\ \A u \in MciThread : OwnsAudio(u)' => u # t /\ OwnsAudio(u) /\ playing'[u] = playing[u]
    BY <1>2, <2>1, MovesOn
  <2>3. OwnsAudio(t) /\ UNCHANGED <<devices, next_device_id, watchers>>
    BY <1>2 DEF OwnsAudio, beep_tone
  <2>4. \A u \in MciThread \ {t} : OwnsAudio(u) => playing[u].audio \in open_audio'
    BY <1>2, <2>3 DEF MediaInv, ThreadsOwn
  <2>5. \A d \in DOMAIN devices : devices[d].audio_dev \in open_audio' \cup {0}
    BY <1>2, <2>3 DEF MediaInv, ThreadsOwn, SoundOwned
  <2>6. MediaTypeOK'
    BY <1>2, <2>2, <2>3 DEF MediaInv, MediaTypeOK
  <2>7. QED
    BY <1>2, <2>2, <2>3, <2>4, <2>5, <2>6, LetGo
<1>3. QED
  BY <1>1, <1>2 DEF beep_tone

\* The sections of MCI_PLAY up to the audio device.
LEMMA PlayStartsInv ==
  ASSUME MediaInv, NEW t \in MciThread, mci_play(t) \/ PlaySupersedes(t) \/ PlayOpensAudio(t)
  PROVE  MediaInv'
<1> DEFINE d == playing[t].dev
<1>1. /\ devices \in [DOMAIN devices -> DeviceRecord] /\ playing[t] \in PlayRecord
      /\ watchers \in Seq(WatcherRecord)
  BY DEF MediaInv, MediaTypeOK
<1>2. /\ Idle \in PlayRecord /\ Idle.at = "idle"
      /\ \A place \in {"empty", "copied", "cleared"} :
           [playing[t] EXCEPT !.at = place] \in PlayRecord /\ [playing[t] EXCEPT !.at = place].at = place
  BY <1>1, IdleRecord, GoesTo
<1>3. CASE mci_play(t)
  <2>1. \E c \in PlayRecord : c.at \notin {"beep", "opened"} /\ Does(t, c)
    BY <1>2, <1>3 DEF mci_play
  <2>2. QED
    BY <1>1, <1>3, <2>1, KeepsAudio DEF mci_play
<1>4. CASE PlaySupersedes(t)
  <2>1. \E c \in PlayRecord : c.at \notin {"beep", "opened"} /\ Does(t, c)
    BY <1>2, <1>4 DEF PlaySupersedes
  <2>2. /\ DOMAIN devices' = DOMAIN devices /\ devices' \in [DOMAIN devices -> DeviceRecord]
        /\ \A e \in DOMAIN devices : devices'[e].audio_dev = devices[e].audio_dev
                                     /\ devices'[e].mode = devices[e].mode
    <3>1. CASE d \in DOMAIN devices
      <4>1. devices' = [devices EXCEPT ![d].notify_cancel = 0]
        BY <1>4, <3>1 DEF PlaySupersedes
      <4>2. QED
        BY <1>1, <3>1, <4>1 DEF DeviceRecord
    <3>2. CASE d \notin DOMAIN devices
      BY <1>1, <1>4, <3>2 DEF PlaySupersedes
    <3>3. QED
      BY <3>1, <3>2
  <2>3. watchers' \in Seq(WatcherRecord)
    BY <1>1, <1>4, CancelledType DEF PlaySupersedes
  <2>4. QED
    BY <1>4, <2>1, <2>2, <2>3, KeepsAudio DEF PlaySupersedes
<1>5. CASE PlayOpensAudio(t)
  <2>1. CASE Does(t, Idle) /\ UNCHANGED open_audio
    BY <1>1, <1>2, <1>5, <2>1, KeepsAudio DEF PlayOpensAudio
  <2>2. ASSUME NEW a \in FreeAudio, open_audio' = open_audio \cup {a},
               Does(t, [playing[t] EXCEPT !.at = "opened", !.audio = a])
        PROVE  MediaInv'
    <3> DEFINE c == [playing[t] EXCEPT !.at = "opened", !.audio = a]
    <3>1. a \in Nat
      BY MediaAssumption DEF FreeAudio
    <3>2. c \in PlayRecord /\ c.at = "opened" /\ c.audio = a
      BY <1>1, <3>1, GoesWith
    <3> HIDE DEF c
    <3>3. Does(t, c) /\ UNCHANGED <<devices, next_device_id, watchers>>
      BY <1>5, <2>2 DEF c, PlayOpensAudio
    <3>4. QED
      BY <2>2, <3>2, <3>3, TakesAudio
  <2>3. QED
    BY <1>5, <2>1, <2>2 DEF PlayOpensAudio
<1>6. QED
  BY <1>3, <1>4, <1>5

\* The third section of MCI_PLAY: the thread's audio device becomes the MCI
\* device's, whose earlier one is closed.
LEMMA PlayUpdatesInv ==
  ASSUME MediaInv, NEW t \in MciThread, PlayUpdates(t)
  PROVE  MediaInv'
<1> DEFINE d == playing[t].dev
           a == playing[t].audio
<1>1. /\ devices \in [DOMAIN devices -> DeviceRecord] /\ playing[t] \in PlayRecord /\ a \in Nat \ {0}
      /\ UNCHANGED watchers /\ watchers \in Seq(WatcherRecord)
      /\ a \in open_audio /\ \A e \in DOMAIN devices : devices[e].audio_dev # a
  BY DEF MediaInv, MediaTypeOK, ThreadsOwn, OwnsAudio, PlayUpdates
<1>2. PICK c \in PlayRecord : c.at \notin {"beep", "opened"} /\ Does(t, c)
  <2>1. /\ Idle \in PlayRecord /\ Idle.at = "idle"
        /\ \A place \in {"wait", "notify"} :
             /\ [playing[t] EXCEPT !.at = place, !.audio = 0] \in PlayRecord
             /\ [playing[t] EXCEPT !.at = place, !.audio = 0].at = place
    <3>1. ASSUME NEW place \in {"wait", "notify"}
          PROVE  /\ [playing[t] EXCEPT !.at = place, !.audio = 0] \in PlayRecord
                 /\ [playing[t] EXCEPT !.at = place, !.audio = 0].at = place
      <4>1. /\ playing[t] = [at |-> playing[t].at, dev |-> d, audio |-> a] /\ d \in Nat
            /\ playing[t] \in PlayRecord
        BY <1>1 DEF PlayRecord
      <4> HIDE DEF d, a
      <4>2. QED
        BY <3>1, <4>1 DEF PlayRecord
    <3>2. QED
      BY <3>1, IdleRecord
  <2>2. PICK flag \in {"none", "wait", "notify"} :
          Does(t, IF flag = "none" THEN Idle ELSE [playing[t] EXCEPT !.at = flag, !.audio = 0])
    BY DEF PlayUpdates
  <2>3. QED
    BY <2>1, <2>2
<1>3. /\ playing' \in [MciThread -> PlayRecord]
      /\ \A u \in MciThread : OwnsAudio(u)' => u # t /\ OwnsAudio(u) /\ playing'[u] = playing[u]
  BY <1>2, MovesOn
<1>4. CASE d \notin DOMAIN devices
  BY <1>1, <1>2, <1>4, KeepsAudio DEF PlayUpdates
<1>5. CASE d \in DOMAIN devices
  <2>1. /\ open_audio' = open_audio \ {devices[d].audio_dev}
        /\ devices' = [devices EXCEPT ![d].audio_dev = a, ![d].mode = "Playing"]
        /\ UNCHANGED next_device_id
    BY <1>5 DEF PlayUpdates, Closed
  <2> HIDE DEF a, d
  <2>2. /\ DOMAIN devices' = DOMAIN devices /\ devices' \in [DOMAIN devices -> DeviceRecord]
        /\ devices'[d].audio_dev = a /\ devices'[d].mode = "Playing"
        /\ \A e \in DOMAIN devices \ {d} : devices'[e] = devices[e]
    BY <1>1, <1>5, <2>1 DEF DeviceRecord
  <2>3. a \in open_audio'
    BY <1>1, <1>5, <2>1
  <2>4. MediaTypeOK'
    BY <1>1, <1>3, <2>1, <2>2 DEF MediaInv, MediaTypeOK
  <2>5. ThreadsOwn'
    <3>1. \A u \in MciThread \ {t} : OwnsAudio(u) => playing[u].audio # a
      BY DEF MediaInv, ThreadsOwn, OwnsAudio, PlayUpdates, a
    <3>2. \A u \in MciThread : OwnsAudio(u) => playing[u].audio # devices[d].audio_dev
      BY <1>5 DEF MediaInv, ThreadsOwn
    <3>3. QED
      BY <1>3, <2>1, <2>2, <3>1, <3>2 DEF MediaInv, ThreadsOwn
  <2>6. \A e \in DOMAIN devices' : /\ (devices'[e].mode = "Playing") = (devices'[e].audio_dev # 0)
                                   /\ devices'[e].audio_dev \in open_audio' \cup {0}
    BY <1>1, <1>5, <2>1, <2>2, <2>3 DEF MediaInv, SoundOwned
  <2>7. \A e, f \in DOMAIN devices' :
          e # f /\ devices'[e].audio_dev # 0 => devices'[e].audio_dev # devices'[f].audio_dev
    BY <1>1, <1>5, <2>2 DEF MediaInv, SoundOwned
  <2>8. SoundOwned'
    BY <2>5, <2>6, <2>7 DEF SoundOwned, ThreadsOwn, OwnsAudio
  <2>9. QED
    BY <2>4, <2>5, <2>8 DEF MediaInv
<1>6. QED
  BY <1>4, <1>5

\* The fourth section of MCI_PLAY.
LEMMA PlayWatchedInv ==
  ASSUME MediaInv, NEW t \in MciThread, PlayWatched(t)
  PROVE  MediaInv'
<1> DEFINE d == playing[t].dev
<1>1. devices \in [DOMAIN devices -> DeviceRecord] /\ Idle \in PlayRecord /\ Idle.at \notin {"beep", "opened"}
  BY IdleRecord DEF MediaInv, MediaTypeOK
<1>2. Does(t, Idle) /\ UNCHANGED <<next_device_id, open_audio>>
  BY DEF PlayWatched
<1>3. /\ DOMAIN devices' = DOMAIN devices /\ devices' \in [DOMAIN devices -> DeviceRecord]
      /\ \A e \in DOMAIN devices : devices'[e].audio_dev = devices[e].audio_dev
                                   /\ devices'[e].mode = devices[e].mode
  <2>1. Len(watchers) + 1 \in Nat
    BY DEF MediaInv, MediaTypeOK
  <2>2. CASE d \in DOMAIN devices
    <3>1. devices' = [devices EXCEPT ![d].notify_cancel = Len(watchers) + 1]
      BY <2>2 DEF PlayWatched
    <3>2. QED
      BY <1>1, <2>1, <2>2, <3>1 DEF DeviceRecord
  <2>3. CASE d \notin DOMAIN devices
    BY <1>1, <2>3 DEF PlayWatched
  <2>4. QED
    BY <2>2, <2>3
<1>4. watchers' \in Seq(WatcherRecord)
  <2>1. [dev |-> d, cancel |-> FALSE, at |-> "polling", posted |-> "nothing"] \in WatcherRecord
    BY DEF MediaInv, MediaTypeOK, PlayRecord, WatcherRecord
  <2>2. QED
    BY <2>1 DEF MediaInv, MediaTypeOK, PlayWatched
<1>5. QED
  BY <1>1, <1>2, <1>3, <1>4, KeepsAudio

\* A watcher whose sound is over stops the MCI device.
LEMMA CleansInv ==
  ASSUME MediaInv, NEW w \in DOMAIN watchers, WatcherCleans(w)
  PROVE  MediaInv'
<1> DEFINE d == watchers[w].dev
<1>1. /\ devices \in [DOMAIN devices -> DeviceRecord] /\ DOMAIN devices \subseteq 1 .. LastDevice
      /\ next_device_id \in 1 .. LastDevice /\ watchers \in Seq(WatcherRecord)
      /\ playing \in [MciThread -> PlayRecord]
  BY DEF MediaInv, MediaTypeOK
<1>2. watchers' \in Seq(WatcherRecord) /\ UNCHANGED <<next_device_id, playing>>
  <2>1. Ended("SUCCESSFUL") \in WatcherRecord
    BY EndedRecord
  <2>2. QED
    BY <1>1, <2>1 DEF WatcherCleans, Cleans
<1>3. \A u \in MciThread : OwnsAudio(u)' => OwnsAudio(u) /\ playing'[u] = playing[u]
  BY <1>2 DEF OwnsAudio
<1>4. CASE d \in DOMAIN devices
  <2>1. /\ open_audio' = Closed(d)
        /\ devices' = [devices EXCEPT ![d].audio_dev = 0, ![d].mode = "Stopped", ![d].notify_cancel = 0]
    BY <1>4 DEF WatcherCleans, Cleans
  <2> HIDE DEF d
  <2>2. /\ DOMAIN devices' = DOMAIN devices
        /\ \A e \in DOMAIN devices \ {d} : devices'[e] = devices[e]
        /\ devices'[d].audio_dev = 0 /\ devices'[d].mode = "Stopped"
        /\ devices' \in [DOMAIN devices -> DeviceRecord]
    <3>1. PICK r : r = [devices[d] EXCEPT !.audio_dev = 0, !.mode = "Stopped", !.notify_cancel = 0]
      OBVIOUS
    <3>2. r \in DeviceRecord /\ r.audio_dev = 0 /\ r.mode = "Stopped"
      <4>1. devices[d] \in DeviceRecord
        BY <1>1, <1>4
      <4>2. QED
        BY <3>1, <4>1 DEF DeviceRecord
    <3>3. devices' = [devices EXCEPT ![d] = r]
      BY <2>1, <3>1
    <3>4. QED
      BY <1>1, <1>4, <3>2, <3>3
  <2>3. QED
    BY <1>1, <1>2, <1>3, <1>4, <2>1, <2>2, DropsAudio
<1>5. CASE d \notin DOMAIN devices
  <2>1. UNCHANGED <<devices, open_audio>>
    BY <1>5 DEF WatcherCleans, Cleans
  <2>2. MediaTypeOK'
    BY <1>2, <2>1 DEF MediaInv, MediaTypeOK
  <2>3. \A e \in DOMAIN devices : devices[e].audio_dev \in open_audio \cup {0}
    BY DEF MediaInv, SoundOwned
  <2>4. \A u \in MciThread : OwnsAudio(u) => playing[u].audio \in open_audio
    BY DEF MediaInv, ThreadsOwn
  <2>5. QED
    BY <1>3, <2>1, <2>2, <2>3, <2>4, LetGo
<1>6. QED
  BY <1>4, <1>5

\* The other steps of a watcher.
LEMMA WatchesInv ==
  ASSUME MediaInv, NEW w \in DOMAIN watchers,
         WatcherSuperseded(w) \/ WatcherLeaves(w) \/ WatcherChecks(w)
  PROVE  MediaInv'
<1>1. watchers \in Seq(WatcherRecord) /\ watchers[w] \in WatcherRecord
  BY DEF MediaInv, MediaTypeOK
<1>2. PICK r \in WatcherRecord : watchers' = [watchers EXCEPT ![w] = r]
  <2>1. /\ Ended("SUPERSEDED") \in WatcherRecord /\ Ended("nothing") \in WatcherRecord
        /\ [watchers[w] EXCEPT !.at = "left"] \in WatcherRecord
        /\ [watchers[w] EXCEPT !.at = "cleaning"] \in WatcherRecord
    BY <1>1, EndedRecord, WatcherRecords
  <2>2. QED
    BY <2>1 DEF WatcherSuperseded, WatcherLeaves, WatcherChecks
<1>3. watchers' \in Seq(WatcherRecord)
  BY <1>1, <1>2
<1>4. UNCHANGED <<devices, next_device_id, open_audio, playing>>
  BY DEF WatcherSuperseded, WatcherLeaves, WatcherChecks
<1>5. QED
  BY <1>3, <1>4 DEF MediaInv, MediaTypeOK, SoundOwned, ThreadsOwn, OwnsAudio

\* A command that starts.
LEMMA CallsInv ==
  ASSUME MediaInv, NEW t \in MciThread, mci_send_command(t) \/ mci_send_string(t)
  PROVE  MediaInv'
<1>1. PICK c \in {"close", "stop", "seek", "play", "from"}, d \in 1 .. LastDevice :
        Does(t, [at |-> c, dev |-> d, audio |-> 0])
  BY DEF mci_send_command, mci_send_string, Calls, mci_resolve_alias, MediaInv, MediaTypeOK
<1>2. UNCHANGED <<devices, next_device_id, open_audio, watchers>>
  BY DEF mci_send_command, mci_send_string, Calls
<1>3. [at |-> c, dev |-> d, audio |-> 0] \in PlayRecord
  BY MediaAssumption DEF PlayRecord
<1>4. devices \in [DOMAIN devices -> DeviceRecord] /\ watchers \in Seq(WatcherRecord)
  BY DEF MediaInv, MediaTypeOK
<1>5. QED
  BY <1>1, <1>2, <1>3, <1>4, KeepsAudio

\* Every step of the multimedia calls keeps their invariant.
LEMMA MediaNextInv ==
  ASSUME MediaInv, MediaNext
  PROVE  MediaInv'
<1>1. ASSUME NEW t \in MciThread, mci_stop(t) \/ PlayWaited(t) PROVE MediaInv'
  BY <1>1, StopsInv DEF mci_stop, PlayWaited
<1>2. ASSUME NEW w \in DOMAIN watchers, Watching(w) PROVE MediaInv'
  BY <1>2, CleansInv, WatchesInv DEF Watching
<1>3. QED
  BY <1>1, <1>2, CallsInv, OpenInv, CloseInv, SeekInv, BeepInv, PlayStartsInv, PlayUpdatesInv,
     PlayWatchedInv DEF MediaNext

-----------------------------------------------------------------------------
(* The theorems.                                                           *)

\* A step of either service keeps both invariants.
LEMMA ServicesStep == SocketsInv /\ MediaInv /\ [ServicesNext]_servicesVars => (SocketsInv /\ MediaInv)'
<1> SUFFICES ASSUME SocketsInv, MediaInv, [ServicesNext]_servicesVars PROVE (SocketsInv /\ MediaInv)'
  OBVIOUS
<1>1. UNCHANGED socketVars => SocketsInv'
  BY DEF socketVars, SocketsInv, SocketsTypeOK, ActsOnMade, DescriptorsOwned, ActsOnNamed, Holds
<1>2. UNCHANGED mediaVars => MediaInv'
  BY DEF mediaVars, MediaInv, MediaTypeOK, SoundOwned, ThreadsOwn, OwnsAudio
<1>3. CASE UNCHANGED servicesVars
  BY <1>1, <1>2, <1>3 DEF servicesVars
<1>4. CASE ServicesNext
  BY <1>1, <1>2, <1>4, SocketsNextInv, MediaNextInv DEF ServicesNext
<1>5. QED
  BY <1>3, <1>4

\* Both invariants hold in every reachable state.
LEMMA ServicesInvariant == ServicesSpec => [](SocketsInv /\ MediaInv)
<1>1. ServicesInit => SocketsInv /\ MediaInv
  BY SocketsInitInv, MediaInitInv DEF ServicesInit
<1>2. QED
  BY <1>1, ServicesStep, PTL DEF ServicesSpec

\* Whatever threads make, use and close sockets at the same time, the host's
\* descriptors and the program's handles match one to one, apart from the
\* descriptors that a call in progress is about to give a handle or to close
\* (SocketManager).
THEOREM SocketsOwned == ServicesSpec => []DescriptorsOwned
<1>1. SocketsInv => DescriptorsOwned
  BY DEF SocketsInv
<1>2. QED
  BY <1>1, ServicesInvariant, PTL

\* A call that looked its descriptor up under the lock and uses it after the
\* lock is gone acts on the socket it was given, unless that socket was closed.
THEOREM SocketsNamed == ServicesSpec => []ActsOnNamed
<1>1. SocketsInv => ActsOnNamed
  BY DEF SocketsInv
<1>2. QED
  BY <1>1, ServicesInvariant, PTL

\* However plays, stops, closes and watchers interleave, an MCI device that says
\* it is playing has an open audio device that is no one else's.
THEOREM SoundSafe == ServicesSpec => []SoundOwned
<1>1. MediaInv => SoundOwned
  BY DEF MediaInv
<1>2. QED
  BY <1>1, ServicesInvariant, PTL

----------------------------------------------------------------------------
(* The timers of Presentation Manager.                                     *)

TimerRecord == [listed : BOOLEAN, running : BOOLEAN, thread : {"over", "sleeping", "awake"}]

\* The places where a call waits for the thread of a timer, or has still to
\* list it.
TimerCalls == {<<"restart">>, <<"join">>, <<"list">>}

\* While the program runs, a timer thread that is not over is listed, or a call
\* of its owner is about to list or to join it.
TimerInv ==
  /\ timers \in [Timers -> TimerRecord]
  /\ DOMAIN at = Threads
  /\ main = "loop" =>
       \A t \in Timers : timers[t].listed \/ TimerOver(t) \/ at[t] \in TimerCalls

\* Initially no timer was started.
LEMMA TimerInitInv == PmInit => TimerInv
<1> SUFFICES ASSUME PmInit PROVE TimerInv
  OBVIOUS
<1>1. timers \in [Timers -> TimerRecord]
  BY DEF PmInit, TimerRecord
<1>2. DOMAIN at = Threads /\ \A t \in Timers : TimerOver(t)
  BY DEF PmInit, TimerOver
<1>3. QED
  BY <1>1, <1>2 DEF TimerInv

\* A thread that may make a call, or that waits for a message, is in no timer call.
LEMMA ElsewhereFacts ==
  ASSUME NEW t,
         at[t] = Guest \/ at[t][1] \in {"getmsg", "dispatch", "WinDlgBox", "WinLoadDlg", "dialog"}
  PROVE  at[t] \notin TimerCalls
<1>1. /\ <<"guest">> # <<"restart">> /\ <<"guest">> # <<"join">> /\ <<"guest">> # <<"list">>
  OBVIOUS
<1>2. /\ <<"restart">>[1] = "restart" /\ <<"join">>[1] = "join" /\ <<"list">>[1] = "list"
  OBVIOUS
<1>3. CASE at[t] = Guest
  BY <1>1, <1>3 DEF Guest, TimerCalls
<1>4. CASE at[t][1] \in {"getmsg", "dispatch", "WinDlgBox", "WinLoadDlg", "dialog"}
  BY <1>2, <1>4 DEF TimerCalls
<1>5. QED
  BY <1>3, <1>4

\* A step of one thread that leaves the timers alone.
LEMMA TimersKept ==
  ASSUME TimerInv, UNCHANGED <<timers, main>>, NEW t, at[t] \notin TimerCalls,
         at' = at \/ \E v : at' = [at EXCEPT ![t] = v]
  PROVE  TimerInv'
<1>1. DOMAIN at' = Threads /\ \A u \in Threads \ {t} : at'[u] = at[u]
  BY DEF TimerInv
<1>2. ASSUME main' = "loop", NEW u \in Timers
      PROVE  timers'[u].listed \/ TimerOver(u)' \/ at'[u] \in TimerCalls
  <2>1. timers[u].listed \/ TimerOver(u) \/ at[u] \in TimerCalls
    BY <1>2 DEF TimerInv
  <2>2. u \in Threads
    BY PmAssumption
  <2>3. at[u] \in TimerCalls => at'[u] \in TimerCalls
    BY <1>1, <2>2
  <2>4. QED
    BY <2>1, <2>3 DEF TimerOver
<1>3. QED
  BY <1>1, <1>2 DEF TimerInv

\* The steps that do.
LEMMA PumpStep ==
  ASSUME TimerInv, NEW t \in Threads,
         \/ create_mq(t) \/ WinGetMsg(t) \/ GetMsgReturns(t) \/ WinDispatchMsg(t)
         \/ WinDefWindowProc(t) \/ WinDefDlgProc(t) \/ CallbackReturns(t)
         \/ \E c \in Classes : WinCreateWindow(t, c)
         \/ \E h \in Hwnds : WinProcessDlg(t, h)
         \/ \E h \in Hwnds : WinSendMsg(t, h, "WM_BUTTON1UP")
         \/ \E c \in {"WinDlgBox", "WinLoadDlg"} : WinLoadDlg(t, c)
         \/ DlgStarted(t) \/ setup_dlg_dispatch(t)
         \/ \E h \in Hwnds : WinDismissDlg(t, h) \/ WinPostMsg(t, h, "WM_QUIT")
         \/ DosExit(t)
  PROVE  TimerInv'
<1>1. at[t] = Guest \/ at[t][1] \in {"getmsg", "dispatch", "WinDlgBox", "WinLoadDlg", "dialog"}
  BY DEF create_mq, WinGetMsg, GetMsgReturns, WinDispatchMsg, WinDefWindowProc, WinDefDlgProc,
     CallbackReturns, WinCreateWindow, WinProcessDlg, WinSendMsg, WinLoadDlg, DlgStarted,
     setup_dlg_dispatch, WinDismissDlg, WinPostMsg, DosExit, Running
<1>2. UNCHANGED <<timers, main>>
  BY DEF create_mq, WinGetMsg, GetMsgReturns, WinDispatchMsg, WinDefWindowProc, WinDefDlgProc,
     CallbackReturns, WinCreateWindow, WinProcessDlg, WinSendMsg, WinLoadDlg, DlgStarted,
     setup_dlg_dispatch, WinDismissDlg, WinPostMsg, DosExit
<1>3. at' = at \/ \E v : at' = [at EXCEPT ![t] = v]
  <2>1. CASE WinGetMsg(t) \/ GetMsgReturns(t) \/ WinDispatchMsg(t)
    BY <2>1 DEF WinGetMsg, GetMsgReturns, WinDispatchMsg
  <2>2. CASE DlgStarted(t) \/ setup_dlg_dispatch(t) \/ CallbackReturns(t)
    BY <2>2 DEF DlgStarted, setup_dlg_dispatch, CallbackReturns
  <2>3. CASE (\E h \in Hwnds : WinProcessDlg(t, h)) \/ \E c \in {"WinDlgBox", "WinLoadDlg"} : WinLoadDlg(t, c)
    BY <2>3 DEF WinProcessDlg, WinLoadDlg
  <2>4. CASE \/ create_mq(t) \/ WinDefWindowProc(t) \/ WinDefDlgProc(t) \/ DosExit(t)
             \/ \E c \in Classes : WinCreateWindow(t, c)
             \/ \E h \in Hwnds : \/ WinSendMsg(t, h, "WM_BUTTON1UP") \/ WinDismissDlg(t, h)
                                 \/ WinPostMsg(t, h, "WM_QUIT")
    BY <2>4 DEF create_mq, WinDefWindowProc, WinDefDlgProc, DosExit, WinCreateWindow,
       WinSendMsg, WinDismissDlg, WinPostMsg, runState
  <2>5. QED
    BY <2>1, <2>2, <2>3, <2>4
<1>4. QED
  BY <1>1, <1>2, <1>3, ElsewhereFacts, TimersKept

\* A step on the timer t: its record, and where its owner is.
LEMMA TimerMoves ==
  ASSUME TimerInv, NEW t \in Timers, NEW r \in TimerRecord, timers' = [timers EXCEPT ![t] = r],
         main' = main, at' = at \/ \E v : at' = [at EXCEPT ![t] = v],
         main = "loop" => r.listed \/ r.thread = "over" \/ at'[t] \in TimerCalls
  PROVE  TimerInv'
<1>1. /\ DOMAIN at' = Threads /\ \A u \in Threads \ {t} : at'[u] = at[u]
      /\ timers' \in [Timers -> TimerRecord] /\ timers'[t] = r
      /\ \A u \in Timers \ {t} : timers'[u] = timers[u]
  BY DEF TimerInv
<1>2. ASSUME main' = "loop", NEW u \in Timers
      PROVE  timers'[u].listed \/ timers'[u].thread = "over" \/ at'[u] \in TimerCalls
  <2>1. CASE u = t
    BY <2>1, <1>1, <1>2
  <2>2. CASE u # t
    <3>1. u \in Threads
      BY PmAssumption
    <3>2. QED
      BY <2>2, <3>1, <1>1, <1>2 DEF TimerInv, TimerOver
  <2>3. QED
    BY <2>1, <2>2
<1>3. QED
  BY <1>1, <1>2 DEF TimerInv, TimerOver

\* A call on a timer, and its thread.
LEMMA TimerStep ==
  ASSUME TimerInv, NEW t \in Timers,
         \/ WinStartTimer(t) \/ RestartJoined(t) \/ TimerListed(t)
         \/ WinStopTimer(t) \/ StopJoined(t) \/ TimerWakes(t) \/ TimerFires(t)
  PROVE  TimerInv'
<1>1. /\ timers \in [Timers -> TimerRecord] /\ timers[t] \in TimerRecord
      /\ t \in Threads /\ DOMAIN at = Threads
      /\ main = "loop" => timers[t].listed \/ timers[t].thread = "over" \/ at[t] \in TimerCalls
  BY PmAssumption DEF TimerInv, TimerOver
<1>2. PICK r \in TimerRecord : r = timers[t]
  BY <1>1
<1>3. /\ [r EXCEPT !.running = TRUE, !.thread = "sleeping"] \in TimerRecord
      /\ [r EXCEPT !.listed = FALSE, !.running = FALSE] \in TimerRecord
      /\ [r EXCEPT !.listed = TRUE] \in TimerRecord /\ [r EXCEPT !.listed = TRUE].listed
  BY DEF TimerRecord
<1>4. ASSUME NEW s \in {"over", "sleeping", "awake"}
      PROVE  /\ [r EXCEPT !.thread = s] \in TimerRecord
             /\ [r EXCEPT !.thread = s].listed = r.listed
  BY DEF TimerRecord
<1>5. CASE WinStartTimer(t) \/ RestartJoined(t) \/ WinStopTimer(t)
  <2>1. /\ main' = main
        /\ \E c \in TimerCalls : at' = [at EXCEPT ![t] = c]
        /\ timers' = Unlisted(t) \/ timers' = Spawned(t)
    BY <1>5 DEF WinStartTimer, RestartJoined, WinStopTimer, TimerCalls
  <2>2. at'[t] \in TimerCalls
    BY <2>1, <1>1
  <2>3. \E q \in TimerRecord : timers' = [timers EXCEPT ![t] = q]
    <3>1. CASE timers' = Unlisted(t)
      <4>1. timers' = [timers EXCEPT ![t] = [r EXCEPT !.listed = FALSE, !.running = FALSE]]
        BY <3>1, <1>1, <1>2 DEF Unlisted
      <4>2. QED
        BY <4>1, <1>3
    <3>2. CASE timers' = Spawned(t)
      <4>1. timers' = [timers EXCEPT ![t] = [r EXCEPT !.running = TRUE, !.thread = "sleeping"]]
        BY <3>2, <1>1, <1>2 DEF Spawned
      <4>2. QED
        BY <4>1, <1>3
    <3>3. QED
      BY <2>1, <3>1, <3>2
  <2>4. QED
    BY <2>1, <2>2, <2>3, TimerMoves
<1>6. CASE TimerListed(t)
  <2>1. /\ main' = main /\ timers' = [timers EXCEPT ![t] = [r EXCEPT !.listed = TRUE]]
        /\ at' = [at EXCEPT ![t] = Guest]
    BY <1>2, <1>6 DEF TimerListed
  <2>2. QED
    BY <2>1, <1>3, TimerMoves
<1>7. CASE StopJoined(t)
  <2>1. /\ UNCHANGED <<main, timers>> /\ at' = [at EXCEPT ![t] = Guest] /\ r.thread = "over"
    BY <1>2, <1>7 DEF StopJoined, TimerOver
  <2>2. timers' = [timers EXCEPT ![t] = r]
    BY <2>1, <1>1, <1>2
  <2>3. QED
    BY <2>1, <2>2, TimerMoves
<1>8. CASE TimerWakes(t) \/ TimerFires(t)
  <2>1. /\ main' = main /\ at' = at /\ r.thread # "over"
        /\ \E s \in {"over", "sleeping", "awake"} : timers' = [timers EXCEPT ![t] = [r EXCEPT !.thread = s]]
    BY <1>2, <1>8 DEF TimerWakes, TimerFires, runState
  <2>2. PICK s \in {"over", "sleeping", "awake"} : timers' = [timers EXCEPT ![t] = [r EXCEPT !.thread = s]]
    BY <2>1
  <2>3. main = "loop" => [r EXCEPT !.thread = s].listed \/ at'[t] \in TimerCalls
    BY <2>1, <1>1, <1>2, <1>4
  <2>4. QED
    BY <2>1, <2>2, <2>3, <1>4, TimerMoves
<1>9. QED
  BY <1>5, <1>6, <1>7, <1>8

\* Every step keeps the timers in order.
LEMMA TimerNext == TimerInv /\ [PmNext]_pmVars => TimerInv'
<1> SUFFICES ASSUME TimerInv, [PmNext]_pmVars PROVE TimerInv'
  OBVIOUS
<1>1. CASE \E t \in Pumps :
          \/ create_mq(t) \/ WinGetMsg(t) \/ GetMsgReturns(t) \/ WinDispatchMsg(t)
          \/ WinDefWindowProc(t) \/ WinDefDlgProc(t) \/ CallbackReturns(t)
          \/ \E c \in Classes : WinCreateWindow(t, c)
          \/ \E h \in Hwnds : WinProcessDlg(t, h)
          \/ \E h \in Hwnds : WinSendMsg(t, h, "WM_BUTTON1UP")
          \/ \E c \in {"WinDlgBox", "WinLoadDlg"} : WinLoadDlg(t, c)
          \/ DlgStarted(t) \/ setup_dlg_dispatch(t)
  <2>1. Pumps \subseteq Threads
    BY PmAssumption
  <2>2. QED
    BY <1>1, <2>1, PumpStep
<1>2. CASE \E t \in Threads :
          \/ \E h \in Hwnds : WinDismissDlg(t, h) \/ WinPostMsg(t, h, "WM_QUIT")
          \/ DosExit(t)
  BY <1>2, PumpStep
<1>3. CASE \E t \in Timers :
          \/ WinStartTimer(t) \/ RestartJoined(t) \/ TimerListed(t)
          \/ WinStopTimer(t) \/ StopJoined(t) \/ TimerWakes(t) \/ TimerFires(t)
  BY <1>3, TimerStep
<1>4. CASE (\E h \in Hwnds : \E k \in {"WM_CLOSE", "WM_BUTTON1DOWN"} : push_msg(h, k)) \/ UNCHANGED pmVars
  <2>1. UNCHANGED <<timers, main, at>>
    BY <1>4 DEF push_msg, pmVars, runState
  <2>2. QED
    BY <2>1 DEF TimerInv, TimerOver
<1>5. CASE stop_all_timers
  <2>1. /\ main' # "loop" /\ at' = at
        /\ timers' = [t \in Timers |-> [timers[t] EXCEPT !.listed = FALSE,
                                            !.running = @ /\ ~timers[t].listed]]
    BY <1>5 DEF stop_all_timers, runState
  <2>2. ASSUME NEW r \in TimerRecord
        PROVE  [r EXCEPT !.listed = FALSE, !.running = @ /\ ~r.listed] \in TimerRecord
    BY DEF TimerRecord
  <2>3. timers' \in [Timers -> TimerRecord]
    BY <2>1, <2>2 DEF TimerInv
  <2>4. QED
    BY <2>1, <2>3 DEF TimerInv
<1>6. CASE ProcessExits
  BY <1>6 DEF ProcessExits, TimerInv, runState
<1>7. QED
  BY <1>1, <1>2, <1>3, <1>4, <1>5, <1>6 DEF PmNext

\* When WinStopTimer or WinStartTimer returns, the host thread of the timer it
\* took out of the table is over: no WM_TIMER of a stopped timer comes after
\* (pm_win.rs).
THEOREM TimersSafe == PmSpec => []TimerQuiet
<1>1. TimerInv => TimerQuiet
  BY ElsewhereFacts DEF TimerInv, TimerQuiet
<1>2. QED
  BY <1>1, TimerInitInv, TimerNext, PTL DEF PmSpec

=============================================================================
