-------------------------------- MODULE Dlls --------------------------------
(***************************************************************************)
(* DLL loading: DllManager of loader/managers.rs, load_dll_impl of         *)
(* loader/lx_loader.rs, DosLoadModule and DosFreeModule of                 *)
(* loader/stubs.rs, and the INITTERM frames of loader/vcpu.rs.             *)
(*                                                                         *)
(* load_dll_impl takes dll_mgr to look a name up and again to register the *)
(* image; parsing, allocation, the recursion into imports and the fixups   *)
(* in between hold no lock.  A module's HMODULE is represented by the      *)
(* number of the image that was mapped for it.  Guests free only what they *)
(* loaded.                                                                 *)
(***************************************************************************)
EXTENDS Integers, Sequences, SequencesExt, FiniteSetsExt

CONSTANTS Threads,
          Modules,     \* user DLLs
          Builtins,    \* DOSCALLS, PMWIN, ...: no file, no image
          Imports,     \* imported_modules of each user DLL
          HasInit,     \* user DLLs with a _DLL_InitTerm entry
          MaxLoads     \* bound on the DosLoadModule calls

ASSUME DllAssumption ==
  /\ Modules \cap Builtins = {}
  /\ Imports \in [Modules -> Seq(Modules \cup Builtins)]
  /\ HasInit \subseteq Modules
  /\ IsFiniteSet(Modules) /\ IsFiniteSet(Threads)
  /\ MaxLoads \in Nat

VARIABLES dlls,     \* DllManager.dlls
          made,     \* images mapped so far
          pages,    \* images whose guest memory is allocated
          bound,    \* the images an image's fixups point into
          pc,
          stack,    \* the load_dll_impl frames of a thread, innermost last
          loading,  \* names being loaded by the call; a failed one stays in it
          want,     \* the name load_dll_impl was called with
          hmod,     \* the module DosLoadModule or DosFreeModule works on
          loads,    \* DosLoadModule calls so far
          synthetic, \* history: the handles of builtins
          owned     \* history: loads the guest was granted minus its frees

dllVars == <<dlls, made, pages, bound, pc, stack, loading, want, hmod, loads, synthetic, owned>>

\* one call maps each module at most once, or registers one builtin
Images == 1..(MaxLoads * Cardinality(Modules))

Dll == [name : Modules \cup Builtins, hmod : Images, refs : Nat]

LoadFrame == [name : Modules, image : Images, todo : Seq(Modules \cup Builtins)]

DllInit ==
  /\ dlls = <<>>
  /\ made = 0
  /\ pages = {}
  /\ bound = [i \in Images |-> {}]
  /\ pc = [t \in Threads |-> "run"]
  /\ stack = [t \in Threads |-> <<>>]
  /\ loading = [t \in Threads |-> {}]
  /\ want = [t \in Threads |-> "none"]
  /\ hmod = [t \in Threads |-> 0]
  /\ loads = 0
  /\ synthetic = {}
  /\ owned = [i \in Images |-> 0]

\* find_by_name and find_by_handle take the first match
At(n) == {k \in DOMAIN dlls : dlls[k].name = n}
Loaded(n) == At(n) # {}
First(n) == Min(At(n))
Place(h) == {k \in DOMAIN dlls : dlls[k].hmod = h}

Return(t) ==
  /\ pc' = [pc EXCEPT ![t] = "run"]
  /\ hmod' = [hmod EXCEPT ![t] = 0]

Grant(h) == owned' = [owned EXCEPT ![h] = @ + 1]

-----------------------------------------------------------------------------
(* DosLoadModule of a builtin: a repeated load does not count              *)

Calls(t) ==
  /\ pc[t] = "run"
  /\ loads < MaxLoads
  /\ loads' = loads + 1

LoadBuiltin(t, b) ==
  /\ Calls(t)
  /\ \/ /\ Loaded(b)
        /\ Grant(dlls[First(b)].hmod)
        /\ UNCHANGED <<dlls, made, synthetic>>
     \/ /\ ~Loaded(b)
        /\ made' = made + 1
        /\ dlls' = Append(dlls, [name |-> b, hmod |-> made + 1, refs |-> 1])
        /\ Grant(made + 1)
        /\ synthetic' = synthetic \cup {made + 1}
  /\ UNCHANGED <<pages, bound, pc, stack, loading, want, hmod>>

-----------------------------------------------------------------------------
(* load_dll_impl                                                           *)

LoadUser(t, m) ==
  /\ Calls(t)
  /\ pc' = [pc EXCEPT ![t] = "enter"]
  /\ want' = [want EXCEPT ![t] = m]
  /\ loading' = [loading EXCEPT ![t] = {}]
  /\ UNCHANGED <<dlls, made, pages, bound, stack, hmod, owned, synthetic>>

\* an inner call goes back to the importer's loop, the outermost to the handler
Leaves(t, rest, h) ==
  /\ pc' = [pc EXCEPT ![t] = IF rest = <<>> THEN "loaded" ELSE "deps"]
  /\ hmod' = [hmod EXCEPT ![t] = IF rest = <<>> THEN h ELSE 0]

\* mutant of FastPath: the count is not incremented
FastPathUncounted(t) ==
  /\ pc[t] = "enter"
  /\ Loaded(want[t])
  /\ Leaves(t, stack[t], dlls[First(want[t])].hmod)
  /\ want' = [want EXCEPT ![t] = "none"]
  /\ UNCHANGED <<dlls, made, pages, bound, stack, loading, owned, loads, synthetic>>

FastPath(t) ==
  /\ pc[t] = "enter"
  /\ Loaded(want[t])
  /\ dlls' = [dlls EXCEPT ![First(want[t])].refs = @ + 1]
  /\ Leaves(t, stack[t], dlls[First(want[t])].hmod)
  /\ want' = [want EXCEPT ![t] = "none"]
  /\ UNCHANGED <<made, pages, bound, stack, loading, owned, loads, synthetic>>

\* the bound Images is never met: the cycle guard ends the recursion first
MapImage(t, image) ==
  /\ made + 1 \in Images
  /\ made' = made + 1
  /\ pages' = pages \cup {made + 1}
  /\ stack' = [stack EXCEPT ![t] =
                 Append(@, [name |-> want[t], image |-> image, todo |-> Imports[want[t]]])]
  /\ pc' = [pc EXCEPT ![t] = "mapped"]
  /\ want' = [want EXCEPT ![t] = "none"]
  /\ UNCHANGED <<dlls, bound, loading, hmod, owned, loads, synthetic>>

Maps(t) == pc[t] = "enter" /\ ~Loaded(want[t]) /\ MapImage(t, made + 1)

Innermost(t) == Last(stack[t])

\* the pages are read in; from here on the name is in `loading'
PagesRead(t) ==
  /\ pc[t] = "mapped"
  /\ loading' = [loading EXCEPT ![t] = @ \cup {Innermost(t).name}]
  /\ pc' = [pc EXCEPT ![t] = "deps"]
  /\ UNCHANGED <<dlls, made, pages, bound, stack, want, hmod, owned, loads, synthetic>>

\* mutant of Skipped: no cycle guard
SkipsLoaded(t, d) == d \in Builtins \/ Loaded(d)

Skipped(t, d) == d \in Builtins \/ Loaded(d) \/ d \in loading[t]

NextImport(t) ==
  LET d == Head(Innermost(t).todo) IN
  /\ pc[t] = "deps"
  /\ Innermost(t).todo # <<>>
  /\ stack' = [stack EXCEPT ![t][Len(stack[t])].todo = Tail(@)]
  /\ IF Skipped(t, d)
       THEN UNCHANGED <<pc, want>>
       ELSE /\ pc' = [pc EXCEPT ![t] = "enter"]
            /\ want' = [want EXCEPT ![t] = d]
  /\ UNCHANGED <<dlls, made, pages, bound, loading, hmod, owned, loads, synthetic>>

\* apply_fixups resolves each import to the first DLL of that name, if any
Fixups(t) ==
  /\ pc[t] = "deps"
  /\ Innermost(t).todo = <<>>
  /\ bound' = [bound EXCEPT ![Innermost(t).image] =
                 {dlls[First(n)].hmod : n \in {m \in Modules :
                    Loaded(m) /\ Contains(Imports[Innermost(t).name], m)}}]
  /\ pc' = [pc EXCEPT ![t] = "register"]
  /\ UNCHANGED <<dlls, made, pages, stack, loading, want, hmod, owned, loads, synthetic>>

Registers(t) ==
  /\ pc[t] = "register"
  /\ dlls' = Append(dlls, [name |-> Innermost(t).name, hmod |-> Innermost(t).image, refs |-> 1])
  /\ stack' = [stack EXCEPT ![t] = Front(@)]
  /\ loading' = [loading EXCEPT ![t] = @ \ {Innermost(t).name}]
  /\ Leaves(t, Front(stack[t]), Innermost(t).image)
  /\ UNCHANGED <<made, pages, bound, want, owned, loads, synthetic>>

\* an importer goes on without the dependency
Fails(t, rest) ==
  /\ stack' = [stack EXCEPT ![t] = rest]
  /\ want' = [want EXCEPT ![t] = "none"]
  /\ pc' = [pc EXCEPT ![t] = IF rest = <<>> THEN "run" ELSE "deps"]
  /\ UNCHANGED <<dlls, made, pages, bound, loading, hmod, owned, loads, synthetic>>

\* no such file, not an LX file
OpenFails(t) == pc[t] = "enter" /\ ~Loaded(want[t]) /\ Fails(t, stack[t])

\* out of memory, a bad page or a bad fixup: what was allocated stays
\* allocated, and after a bad fixup the name stays in `loading'
LoadFails(t) ==
  /\ pc[t] = "mapped" \/ (pc[t] = "deps" /\ Innermost(t).todo = <<>>)
  /\ Fails(t, Front(stack[t]))

-----------------------------------------------------------------------------
(* The rest of DosLoadModule: INITTERM runs in the guest before *phmod.    *)

LoadReturns(t) ==
  LET k == CHOOSE k \in Place(hmod[t]) : TRUE
      init == Place(hmod[t]) # {} /\ dlls[k].name \in HasInit IN
  /\ pc[t] = "loaded"
  /\ \/ init /\ pc' = [pc EXCEPT ![t] = "init"] /\ UNCHANGED <<hmod, owned>>
     \/ ~init /\ Grant(hmod[t]) /\ Return(t)
  /\ UNCHANGED <<dlls, made, pages, bound, stack, loading, want, loads, synthetic>>

InitSucceeds(t) ==
  /\ pc[t] = "init"
  /\ Grant(hmod[t])
  /\ Return(t)
  /\ UNCHANGED <<dlls, made, pages, bound, stack, loading, want, loads, synthetic>>

\* ERROR_INIT_ROUTINE_FAILED; the module stays registered and counted
InitFails(t) ==
  /\ pc[t] = "init"
  /\ Return(t)
  /\ UNCHANGED <<dlls, made, pages, bound, stack, loading, want, owned, loads, synthetic>>

-----------------------------------------------------------------------------
(* DosFreeModule: decrement_refcount, and at zero unload                   *)

LastRef(k) == dlls[k].refs = 1

FreeModule(t, h) ==
  /\ pc[t] = "run"
  /\ owned[h] > 0
  /\ owned' = [owned EXCEPT ![h] = @ - 1]
  /\ \/ /\ Place(h) = {}
        /\ UNCHANGED <<dlls, pages, pc, hmod>>
     \/ \E k \in Place(h) :
          \/ /\ ~LastRef(k)
             /\ dlls' = [dlls EXCEPT ![k].refs = @ - 1]
             /\ UNCHANGED <<pages, pc, hmod>>
          \/ /\ LastRef(k)
             /\ dlls' = RemoveAt(dlls, k)
             /\ IF dlls[k].name \in HasInit
                  THEN /\ pc' = [pc EXCEPT ![t] = "term"]
                       /\ hmod' = [hmod EXCEPT ![t] = h]
                       /\ UNCHANGED pages
                  ELSE pages' = pages \ {h} /\ UNCHANGED <<pc, hmod>>
  /\ UNCHANGED <<made, bound, stack, loading, want, loads, synthetic>>

\* INITTERM(hmod, 1) returned: free the pages
TermReturns(t) ==
  /\ pc[t] = "term"
  /\ pages' = pages \ {hmod[t]}
  /\ Return(t)
  /\ UNCHANGED <<dlls, made, bound, stack, loading, want, owned, loads, synthetic>>

-----------------------------------------------------------------------------
LoadStep(t) ==
  \/ FastPath(t) \/ Maps(t) \/ OpenFails(t) \/ PagesRead(t) \/ NextImport(t)
  \/ Fixups(t) \/ Registers(t) \/ LoadFails(t)
  \/ LoadReturns(t) \/ InitSucceeds(t) \/ InitFails(t) \/ TermReturns(t)

DllNext ==
  \E t \in Threads :
    \/ LoadStep(t)
    \/ \E b \in Builtins : LoadBuiltin(t, b)
    \/ \E m \in Modules : LoadUser(t, m)
    \/ \E h \in Images : FreeModule(t, h)

DllSpec == DllInit /\ [][DllNext]_dllVars

-----------------------------------------------------------------------------
(* Properties.                                                             *)

DllTypeOK ==
  /\ dlls \in Seq(Dll)
  /\ made \in Images \cup {0}
  /\ loads \in 0..MaxLoads
  /\ pages \subseteq Images
  /\ bound \in [Images -> SUBSET Images]
  /\ pc \in [Threads -> {"run", "enter", "mapped", "deps", "register", "loaded", "init", "term"}]
  /\ stack \in [Threads -> Seq(LoadFrame)]
  /\ loading \in [Threads -> SUBSET Modules]
  /\ want \in [Threads -> Modules \cup Builtins \cup {"none"}]
  /\ hmod \in [Threads -> Images \cup {0}]
  /\ synthetic \subseteq Images
  /\ owned \in [Images -> Nat]

Registered(h) == Place(h) # {}

\* the calls that are about to hand the module to the guest
Holders(h) == {t \in Threads : hmod[t] = h /\ pc[t] \in {"loaded", "init"}}

\* A user DLL the guest loaded and has not freed as often stays registered and
\* mapped: its count covers every granted load and every load that is still
\* running its INITTERM, on any thread.
HandleStaysValid ==
  \A k \in DOMAIN dlls : dlls[k].name \in Modules =>
    LET h == dlls[k].hmod IN
    /\ h \in pages
    /\ dlls[k].refs >= owned[h] + Cardinality(Holders(h))

\* A user DLL the guest owns, or a load is about to hand to it, is registered
\* and mapped, however other threads load and free it meanwhile.
OwnedIsRegistered ==
  \A h \in Images \ synthetic :
    (owned[h] > 0 \/ Holders(h) # {}) => Registered(h) /\ h \in pages

\* A handle the guest has been given names a DLL that is there, counted for as
\* many loads as were granted (load_dll_impl, DosFreeModule).
HandlesValid == HandleStaysValid /\ OwnedIsRegistered

\* load_dll_impl never enters a module it is already loading further up the
\* call stack, so the recursion over a cyclic import graph is at most as deep as
\* there are modules, also after a failed load left its name in `loading'.
NoReentry ==
  \A t \in Threads :
    /\ IsInjective([i \in DOMAIN stack[t] |-> stack[t][i].name])
    /\ pc[t] = "enter" => \A i \in DOMAIN stack[t] : stack[t][i].name # want[t]

\* load_dll's comment: an already loaded DLL is not loaded again, its existing
\* handle is returned; so a module has one image.
OneImagePerModule ==
  \A j, k \in DOMAIN dlls : dlls[j].name = dlls[k].name => j = k

\* load_dll_impl's comment on an import that is already loaded: no further
\* action needed; so what a registered DLL's fixups point into stays mapped.
ImportsStayMapped ==
  \A k \in DOMAIN dlls : bound[dlls[k].hmod] \subseteq pages
=============================================================================
