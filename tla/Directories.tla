---------------------------- MODULE Directories -----------------------------
(***************************************************************************)
(* The current directory, which is kept twice: DriveManager.current_dirs   *)
(* (loader/vfs.rs) is what names of files are resolved against, and        *)
(* ProcessManager.current_dir (loader/managers.rs) is where child          *)
(* processes start.  DosSetCurrentDir and the shell's CD change both, each *)
(* in its own way, and neither takes out `..' nor looks whether the        *)
(* directory exists.  C: is the one drive that is mounted (loader/mod.rs). *)
(*                                                                         *)
(* A path is its components; a backslash counts only at its beginning.     *)
(***************************************************************************)
EXTENDS Naturals, Sequences, SequencesExt

CONSTANTS Components,  \* names of directories
          MaxDepth     \* bound on the length of the current directory

ASSUME DirectoriesAssumption == MaxDepth \in Nat /\ {".", ".."} \cap Components = {}

VARIABLES shell,        \* the program is the shell, not a guest program
          current_dirs, \* DriveManager.current_dirs of C:
          current_dir,  \* ProcessManager.current_dir
          where,        \* history: the directory the calls lead to
          split         \* history: DosSetCurrentDir named C: or just the root

dirVars == <<shell, current_dirs, current_dir, where, split>>

DirectoriesInit == /\ shell \in BOOLEAN
                   /\ current_dirs = <<>> /\ current_dir = <<>>
                   /\ where = <<>> /\ split = FALSE

\* What a path may be: with or without C:, with or without a backslash after it.
Paths == [drive : BOOLEAN, absolute : BOOLEAN,
          components : BoundedSeq(Components \cup {".", ".."}, 2)]

\* One component of a path, from a directory.
Descend(dir, c) == CASE c = "."  -> dir
                     [] c = ".." -> IF dir = <<>> THEN dir ELSE Front(dir)
                     [] OTHER    -> Append(dir, c)

\* resolve_path_case_insensitive_cached: where a stored path leads from the root,
\* above which nothing is.
Walk(path) ==
  LET after[n \in 0 .. Len(path)] ==
        IF n = 0 THEN <<>> ELSE Descend(after[n - 1], path[n])
  IN  after[Len(path)]

\* mutant of resolve_path: C: makes a path absolute
DriveIsAbsolute(p) ==
  IF p.components = <<>> THEN current_dirs
  ELSE IF p.absolute \/ p.drive THEN p.components
  ELSE current_dirs \o p.components

\* A path without components, the root's too, stands for the current directory.
resolve_path(p) ==
  IF p.components = <<>> THEN current_dirs
  ELSE IF p.absolute THEN p.components
  ELSE current_dirs \o p.components

set_current_dir(p) ==
  /\ Len(resolve_path(p)) <= MaxDepth
  /\ current_dirs' = resolve_path(p)
  /\ where' = IF p.components = <<>> THEN where
              ELSE Walk((IF p.absolute THEN <<>> ELSE where) \o p.components)

\* After C: ProcessManager takes the rest of a path as it stands.
dos_set_current_dir(p) ==
  /\ ~shell /\ set_current_dir(p)
  /\ current_dir' = IF p.drive \/ p.absolute THEN p.components
                    ELSE current_dir \o p.components
  /\ Len(current_dir') <= MaxDepth
  /\ split' = (split \/ (p.drive /\ ~p.absolute) \/ (p.absolute /\ p.components = <<>>))
  /\ UNCHANGED shell

\* CD copies what DriveManager has now.
cmd_cd(p) ==
  /\ shell /\ set_current_dir(p)
  /\ current_dir' = current_dirs'
  /\ UNCHANGED <<shell, split>>

DirectoriesNext == \E p \in Paths : dos_set_current_dir(p) \/ cmd_cd(p)

----------------------------------------------------------------------------
(* Properties.                                                             *)

\* Names are looked up in the directory that the calls lead to one after the
\* other (DriveManager::resolve_path).
NamesLead == Walk(current_dirs) = where

\* Child processes start where names are looked up, unless a path named C:
\* without a backslash or nothing but the root (dos_set_current_dir).
SameDirectory == ~split => current_dir = current_dirs

\* However many relative paths, `..' and `.' were strung together, there is one
\* current directory, and it is the one the calls lead to.
OneDirectory == NamesLead /\ SameDirectory

=============================================================================
