------------------------------ MODULE Services ------------------------------
(***************************************************************************)
(* The two services a program reaches through DLLs of its own: sound       *)
(* (MDM.DLL, module Media) and sockets (SO32DLL.DLL, module Sockets).      *)
(* Their managers have no state in common, so a program that uses one of   *)
(* them shows all that they do.                                            *)
(***************************************************************************)
EXTENDS Media, Sockets

VARIABLE uses

servicesVars == <<mediaVars, socketVars, uses>>

ServicesInit == MediaInit /\ SocketsInit /\ uses \in {"MDM", "SO32DLL"}

ServicesNext ==
  \/ uses = "MDM" /\ MediaNext /\ UNCHANGED <<socketVars, uses>>
  \/ uses = "SO32DLL" /\ SocketsNext /\ UNCHANGED <<mediaVars, uses>>

ServicesSpec == ServicesInit /\ [][ServicesNext]_servicesVars /\ MediaFairness

=============================================================================
