----------------------------- MODULE SharedMem -----------------------------
(***************************************************************************)
(* Shared memory: SharedMemManager of loader/managers.rs over the guest    *)
(* heap, and DosAllocSharedMem and DosGetNamedSharedMem of                 *)
(* loader/stubs.rs.  The match on mem_mgr.lock().alloc(..) keeps mem_mgr   *)
(* locked while the name is registered, so a call is one step.             *)
(***************************************************************************)
EXTENDS MemoryManager, Functions

CONSTANTS Names    \* names of shared memory, "\SHAREMEM\..."

VARIABLES named_blocks,  \* SharedMemManager.named_blocks: names to addresses
          got,           \* what DosGetNamedSharedMem just returned, else 0
          stale          \* history: names whose block was freed

shmVars == <<memVars, named_blocks, got, stale>>

NoBlocks == [n \in {} |-> 0]

ShmInit ==
  /\ MemInit
  /\ named_blocks = NoBlocks
  /\ got = 0
  /\ stale = {}

\* mutant of Register: a name already there keeps its address
RegisterOnce(n, addr) ==
  /\ named_blocks' = [m \in DOMAIN named_blocks \cup {n} |->
                        IF m \in DOMAIN named_blocks THEN named_blocks[m] ELSE addr]
  /\ stale' = stale \ {n}

\* HashMap::insert: a name registered again moves to the new block
Register(n, addr) ==
  /\ named_blocks' = [m \in DOMAIN named_blocks \cup {n} |->
                        IF m = n THEN addr ELSE named_blocks[m]]
  /\ stale' = stale \ {n}

DosAllocSharedMem(n, cb) ==
  /\ Len(allocated) + Len(free_list) < MaxBlocks
  /\ \E addr \in Base..Limit : Alloc(cb, addr) /\ Register(n, addr)
  /\ got' = 0

\* without a name there is nothing to register: the same as DosAllocMem
ShmAllocMem(cb) ==
  /\ DosAllocMem(cb)
  /\ got' = 0
  /\ UNCHANGED <<named_blocks, stale>>

\* ERROR_NOT_ENOUGH_MEMORY
ShmAllocFails(cb) ==
  /\ AllocNone(cb)
  /\ got' = 0
  /\ UNCHANGED <<named_blocks, stale>>

DosGetNamedSharedMem(n) ==
  /\ n \in DOMAIN named_blocks
  /\ got' = named_blocks[n]
  /\ UNCHANGED <<memVars, named_blocks, stale>>

\* DosFreeMem knows nothing of names
ShmFreeMem(pb) ==
  /\ DosFreeMem(pb)
  /\ stale' = stale \cup {n \in DOMAIN named_blocks : named_blocks[n] = pb}
  /\ got' = 0
  /\ UNCHANGED named_blocks

ShmNext ==
  \/ \E n \in Names, cb \in Sizes : DosAllocSharedMem(n, cb)
  \/ \E cb \in Sizes : ShmAllocMem(cb) \/ ShmAllocFails(cb)
  \/ \E n \in Names : DosGetNamedSharedMem(n)
  \/ \E pb \in Base..Limit : ShmFreeMem(pb)

ShmSpec == ShmInit /\ [][ShmNext]_shmVars

-----------------------------------------------------------------------------
(* Properties.                                                             *)

Starts(addr) == \E k \in 1..Len(allocated) : allocated[k].addr = addr

ShmTypeOK ==
  /\ MemTypeOK
  /\ DOMAIN named_blocks \subseteq Names
  /\ Range(named_blocks) \subseteq Base..Limit
  /\ got \in Base..Limit \cup {0}
  /\ stale \subseteq DOMAIN named_blocks

Fresh == DOMAIN named_blocks \ stale

\* A name whose block nobody freed finds that block, whatever is allocated,
\* freed, split and reused around it and however often a name is registered
\* again; two such names find the same address only where an empty block is.
NamesApart ==
  /\ \A n \in Fresh : Starts(named_blocks[n])
  /\ \A m, n \in Fresh :
       m # n /\ named_blocks[m] = named_blocks[n] =>
         \E k \in 1..Len(allocated) : allocated[k] = [addr |-> named_blocks[n], size |-> 0]

\* dos_get_named_shared_mem's comment: get EXISTING shared memory by name; so
\* the address it returns is that of an allocated block.
GetsExisting == got # 0 => Starts(got)
=============================================================================
