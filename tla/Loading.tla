------------------------------ MODULE Loading ------------------------------
(***************************************************************************)
(* What brings code into guest memory: an LX program that was linked, read *)
(* and loaded (module LxImages), an NE program (NeImages), and the DLLs    *)
(* that a running program loads and frees (Dlls).  A process has one       *)
(* program, and DLLs get addresses of their own from the guest heap, so    *)
(* the parts meet only in this order and each is looked at by itself.      *)
(***************************************************************************)
EXTENDS Dlls, LxImages, NeImages

VARIABLE part

loadingVars == <<dllVars, lxVars, neVars, part>>

AnyLx == CHOOSE p \in Programs : TRUE
AnyNe == CHOOSE p \in NePrograms : TRUE

LoadingInit ==
  /\ part \in {"DLL", "LX", "NE"}
  /\ DllInit
  /\ LxInit /\ (part # "LX" => program = AnyLx)
  /\ NeInit /\ (part # "NE" => neProgram = AnyNe)

LoadingNext ==
  \/ part = "DLL" /\ DllNext /\ UNCHANGED <<lxVars, neVars, part>>
  \/ part = "LX" /\ LxNext /\ UNCHANGED <<dllVars, neVars, part>>
  \/ part = "NE" /\ NeNext /\ UNCHANGED <<dllVars, lxVars, part>>

LoadingSpec == LoadingInit /\ [][LoadingNext]_loadingVars

=============================================================================
