------------------------------ MODULE Sockets -------------------------------
(***************************************************************************)
(* The socket calls of loader/tcpip.rs.  socket_mgr maps the program's     *)
(* socket handles to descriptors of the host.  Its lock is let go before   *)
(* the host is called, so a descriptor looked up may be closed, and its    *)
(* number given to another socket, before it is used.  Addresses and data  *)
(* are left out.                                                           *)
(***************************************************************************)
EXTENDS Naturals, FiniteSetsExt

CONSTANTS SocketThread,   \* guest threads that use sockets
          FirstHandle,    \* 0xA000
          MaxHandles,     \* bound on the handles given out
          FdSetSize       \* the bits of an OS/2 fd_set

ASSUME SocketsAssumption == {FirstHandle, MaxHandles, FdSetSize} \subseteq Nat

VARIABLES sockets, next_handle, last_sock_errno, scratch_addr,
          buffers,        \* scratch buffers allocated from the guest heap
          fds,            \* descriptors the host has open
          call            \* what each thread is doing

socketVars == <<sockets, next_handle, last_sock_errno, scratch_addr, buffers, fds, call>>

NoCall == [at |-> "idle", h |-> 0, fd |-> 0, how |-> "plain"]

SocketsInit == /\ sockets = <<>> /\ next_handle = FirstHandle
               /\ last_sock_errno = "none" /\ scratch_addr = 0 /\ buffers = 0
               /\ fds = {} /\ call = [t \in SocketThread |-> NoCall]

Becomes(t, c) == call' = [call EXCEPT ![t] = c]
At(t, place)  == call[t].at = place

\* The host takes the lowest number that is free.
NewFd == Min(1 .. Cardinality(fds) + 1 \ fds)

\* The SOCE code of a host error.
errno_to_soce(e) == IF e = "EBADF" THEN "SOCE_BADF" ELSE "SOCE_other"

\* Mutant: a handle that is free is used again.
AllocReuses(fd) ==
  LET h == Min(FirstHandle .. next_handle \ DOMAIN sockets)
  IN  /\ sockets' = [x \in DOMAIN sockets \cup {h} |-> IF x = h THEN fd ELSE sockets[x]]
      /\ next_handle' = next_handle + 1

\* SocketManager::alloc.
alloc(fd) ==
  /\ sockets' = [x \in DOMAIN sockets \cup {next_handle} |->
                   IF x = next_handle THEN fd ELSE sockets[x]]
  /\ next_handle' = next_handle + 1

\* SocketManager::lookup; 0 when the handle is not known.
lookup(h) == IF h \in DOMAIN sockets THEN sockets[h] ELSE 0

remove(h) == sockets' = [x \in DOMAIN sockets \ {h} |-> sockets[x]]

Handles == FirstHandle .. next_handle

----------------------------------------------------------------------------
(* The last step of every call, under the lock again: the error is stored  *)
(* for sock_errno, or cleared.                                             *)

set_errno(t) ==
  /\ At(t, "failed") /\ last_sock_errno' = call[t].how /\ Becomes(t, NoCall)
  /\ UNCHANGED <<sockets, next_handle, scratch_addr, buffers, fds>>

clear_errno(t) ==
  /\ At(t, "done") /\ last_sock_errno' = "none" /\ Becomes(t, NoCall)
  /\ UNCHANGED <<sockets, next_handle, scratch_addr, buffers, fds>>

Failed(e) == [NoCall EXCEPT !.at = "failed", !.how = e]
Done      == [NoCall EXCEPT !.at = "done"]

----------------------------------------------------------------------------
(* Making and closing sockets.                                             *)

so_socket(t) ==
  /\ At(t, "idle") /\ next_handle < FirstHandle + MaxHandles
  /\ \/ /\ fds' = fds \cup {NewFd}
        /\ Becomes(t, [NoCall EXCEPT !.at = "made", !.fd = NewFd])
     \/ Becomes(t, Failed(errno_to_soce("host"))) /\ UNCHANGED fds
  /\ UNCHANGED <<sockets, next_handle, last_sock_errno, scratch_addr, buffers>>

\* The end of socket() and of accept().
Allocates(t) ==
  /\ At(t, "made") /\ next_handle < FirstHandle + MaxHandles
  /\ alloc(call[t].fd) /\ last_sock_errno' = "none" /\ Becomes(t, NoCall)
  /\ UNCHANGED <<scratch_addr, buffers, fds>>

\* Mutant: the descriptor is closed before the handle is forgotten.
ClosesFirst(t, h) ==
  /\ fds' = fds \ {sockets[h]} /\ UNCHANGED sockets
  /\ Becomes(t, [NoCall EXCEPT !.at = "forget", !.h = h])

Forgets(t, h) ==
  /\ remove(h) /\ UNCHANGED fds
  /\ Becomes(t, [NoCall EXCEPT !.at = "closing", !.fd = sockets[h]])

so_close(t) ==
  /\ At(t, "idle")
  /\ \E h \in Handles :
       IF h \in DOMAIN sockets THEN Forgets(t, h)
       ELSE Becomes(t, Failed("SOCE_BADF")) /\ UNCHANGED <<sockets, fds>>
  /\ UNCHANGED <<next_handle, last_sock_errno, scratch_addr, buffers>>

\* Also an error of close(2), which frees the descriptor all the same.
HostCloses(t) ==
  /\ At(t, "closing") /\ fds' = fds \ {call[t].fd}
  /\ Becomes(t, Done) \/ Becomes(t, Failed(errno_to_soce("host")))
  /\ UNCHANGED <<sockets, next_handle, last_sock_errno, scratch_addr, buffers>>

----------------------------------------------------------------------------
(* The calls on a handle.                                                  *)

\* so_fd: the lookup, and the lock is free again.
so_fd(t, how) ==
  /\ At(t, "idle")
  /\ \E h \in Handles :
       Becomes(t, IF lookup(h) = 0 THEN Failed("SOCE_BADF")
                  ELSE [at |-> "acting", h |-> h, fd |-> lookup(h), how |-> how])
  /\ UNCHANGED <<sockets, next_handle, last_sock_errno, scratch_addr, buffers, fds>>

\* A guest address that is not all in guest memory is refused.
so_bind(t)        == so_fd(t, "guarded")
so_connect(t)     == so_fd(t, "guarded")
so_recv(t)        == so_fd(t, "guarded")
so_recvfrom(t)    == so_fd(t, "guarded")
so_getsockopt(t)  == so_fd(t, "guarded")
so_listen(t)      == so_fd(t, "plain")
so_send(t)        == so_fd(t, "plain")
so_sendto(t)      == so_fd(t, "plain")
so_shutdown(t)    == so_fd(t, "plain")
so_getsockname(t) == so_fd(t, "plain")
so_getpeername(t) == so_fd(t, "plain")
so_setsockopt(t)  == so_fd(t, "plain")
so_accept(t)      == so_fd(t, "accept")

\* The host does it, on whatever the number stands for now.
translate_rc(t) ==
  /\ At(t, "acting")
  /\ \/ /\ call[t].fd \notin fds /\ Becomes(t, Failed(errno_to_soce("EBADF")))
        /\ UNCHANGED fds
     \/ /\ call[t].fd \in fds /\ Becomes(t, Failed(errno_to_soce("host")))
        /\ UNCHANGED fds
     \/ /\ call[t].how = "guarded" /\ Becomes(t, Failed("SOCE_other"))
        /\ UNCHANGED fds
     \/ /\ call[t].fd \in fds /\ call[t].how /= "accept" /\ Becomes(t, Done)
        /\ UNCHANGED fds
     \/ /\ call[t].fd \in fds /\ call[t].how = "accept"
        /\ next_handle < FirstHandle + MaxHandles
        /\ fds' = fds \cup {NewFd}
        /\ Becomes(t, [NoCall EXCEPT !.at = "made", !.fd = NewFd])
  /\ UNCHANGED <<sockets, next_handle, last_sock_errno, scratch_addr, buffers>>

\* The handles an fd_set can name: a handle is the number of its bit.
Selectable == {h \in DOMAIN sockets : h < FdSetSize}

\* With a timeout, or with a socket that is ready, select returns.
so_select(t) ==
  /\ At(t, "idle")
  /\ \E timeout \in BOOLEAN :
       \/ (timeout \/ Selectable /= {}) /\ Becomes(t, Done)
       \/ Becomes(t, Failed(errno_to_soce("host")))
  /\ UNCHANGED <<sockets, next_handle, last_sock_errno, scratch_addr, buffers, fds>>

----------------------------------------------------------------------------
(* Names of hosts and services: the answer goes into a scratch buffer.     *)

Resolves(t, found) ==
  /\ At(t, "idle")
  /\ Becomes(t, IF found THEN [NoCall EXCEPT !.at = "scratch"] ELSE Failed("SOCE_other"))
  /\ UNCHANGED <<sockets, next_handle, last_sock_errno, scratch_addr, buffers, fds>>

so_gethostbyname(t) == \E found \in BOOLEAN : Resolves(t, found)
so_gethostbyaddr(t) == \E inet \in BOOLEAN : Resolves(t, inet)
so_getservbyname(t) == \E found \in BOOLEAN : Resolves(t, found)
so_getservbyport(t) == \E found \in BOOLEAN : Resolves(t, found)

\* The buffer is looked up and, the first time, allocated: two threads that
\* find none allocate one each.
ensure_hostent_scratch(t) ==
  /\ At(t, "scratch")
  /\ \/ /\ scratch_addr /= 0 /\ Becomes(t, [call[t] EXCEPT !.at = "answer"])
        /\ UNCHANGED buffers
     \/ /\ scratch_addr = 0 /\ buffers' = buffers + 1
        /\ Becomes(t, [call[t] EXCEPT !.at = "allocated", !.h = buffers + 1])
     \/ /\ scratch_addr = 0 /\ Becomes(t, Failed("SOCE_other")) /\ UNCHANGED buffers
  /\ UNCHANGED <<sockets, next_handle, last_sock_errno, scratch_addr, fds>>

StoreScratch(t) ==
  /\ At(t, "allocated") /\ scratch_addr' = call[t].h
  /\ Becomes(t, [NoCall EXCEPT !.at = "answer"])
  /\ UNCHANGED <<sockets, next_handle, last_sock_errno, buffers, fds>>

write_hostent_to_scratch(t) ==
  /\ At(t, "answer") /\ Becomes(t, Done)
  /\ UNCHANGED <<sockets, next_handle, last_sock_errno, scratch_addr, buffers, fds>>

----------------------------------------------------------------------------

HandleCalls(t) ==
  \/ so_bind(t) \/ so_connect(t) \/ so_recv(t) \/ so_recvfrom(t) \/ so_getsockopt(t)
  \/ so_listen(t) \/ so_send(t) \/ so_sendto(t) \/ so_shutdown(t) \/ so_getsockname(t)
  \/ so_getpeername(t) \/ so_setsockopt(t) \/ so_accept(t)

NameCalls(t) ==
  \/ so_gethostbyname(t) \/ so_gethostbyaddr(t) \/ so_getservbyname(t) \/ so_getservbyport(t)
  \/ ensure_hostent_scratch(t) \/ StoreScratch(t) \/ write_hostent_to_scratch(t)

SocketsNext ==
  \E t \in SocketThread :
    \/ so_socket(t) \/ Allocates(t) \/ so_close(t) \/ HostCloses(t)
    \/ HandleCalls(t) \/ translate_rc(t) \/ so_select(t) \/ NameCalls(t)
    \/ set_errno(t) \/ clear_errno(t)

----------------------------------------------------------------------------
(* Properties.                                                             *)

\* A thread that got a descriptor and has not given it a handle yet, or that is
\* about to close one.
Holds(t) == call[t].at \in {"made", "closing"}

\* The descriptors of the host and the handles of the program match: a handle
\* has an open descriptor that no other handle and no call in progress owns,
\* and an open descriptor has a handle or a thread that is about to give it one
\* or to close it, whatever threads make and close sockets at the same time.
DescriptorsOwned ==
  /\ fds = {sockets[h] : h \in DOMAIN sockets} \cup {call[t].fd : t \in {u \in SocketThread : Holds(u)}}
  /\ \A h, i \in DOMAIN sockets : h /= i => sockets[h] /= sockets[i]
  /\ \A t, u \in SocketThread : Holds(t) /\ Holds(u) /\ t /= u => call[t].fd /= call[u].fd
  /\ \A h \in DOMAIN sockets, t \in SocketThread : Holds(t) => sockets[h] /= call[t].fd

\* A call that has its descriptor and has not yet called the host acts on the
\* socket the program named, as long as the program has not closed that socket:
\* handles are never given out twice, so the handle still means what it meant
\* when so_fd looked it up.
ActsOnNamed ==
  \A t \in SocketThread :
    call[t].at = "acting" /\ call[t].h \in DOMAIN sockets => sockets[call[t].h] = call[t].fd

=============================================================================
