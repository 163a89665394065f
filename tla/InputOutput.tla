---------------------------- MODULE InputOutput -----------------------------
(***************************************************************************)
(* Where a program's input comes from and its output goes: files,          *)
(* searches and pipes (module Files), the current directory (module        *)
(* Directories), and the screen, the keyboard and the command interpreter  *)
(* (module Console).  DosRead and DosWrite choose by the handle, and the   *)
(* managers have nothing in common, so each side is looked at by itself.   *)
(***************************************************************************)
EXTENDS Files, Directories, Console

VARIABLE side

ioVars == <<fileVars, dirVars, consoleVars, side>>

AnySize == CHOOSE z \in Sizes : TRUE

IoInit ==
  /\ side \in {"files", "directories", "console"}
  /\ FilesInit /\ (side # "files" => ~kernel_casefold)
  /\ DirectoriesInit /\ (side # "directories" => ~shell)
  /\ ConsoleInit
  /\ side # "console" => program = "guest" /\ ~sdl2_mode /\ screen = new(AnySize[1], AnySize[2])

IoNext ==
  \/ side = "files" /\ FilesNext /\ UNCHANGED <<dirVars, consoleVars, side>>
  \/ side = "directories" /\ DirectoriesNext /\ UNCHANGED <<fileVars, consoleVars, side>>
  \/ side = "console" /\ ConsoleNext /\ UNCHANGED <<fileVars, dirVars, side>>

\* A program that works on files is not at the keyboard: no step of
\* ConsoleFairness is enabled for it.
IoSpec == IoInit /\ [][IoNext]_ioVars /\ ConsoleFairness
=============================================================================
