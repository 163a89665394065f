------------------------------ MODULE HostDir ------------------------------
(***************************************************************************)
(* HostDirBackend (loader/vfs_hostdir.rs): one OS/2 volume kept in a host  *)
(* directory, with case-insensitive lookup through a cache of directory    *)
(* listings, OS/2 sharing modes, searches over a snapshot and byte-range   *)
(* locks.  DriveManager calls it with drive_mgr locked, so every operation *)
(* is one step.                                                            *)
(*                                                                         *)
(* The volume is one directory; a deeper path repeats the same lookup for  *)
(* each of its components.  What files contain is left out, and with it    *)
(* read, write and seek.  Errors that change nothing leave the state alone.*)
(***************************************************************************)
EXTENDS Naturals, FiniteSets

CONSTANTS Names,    \* spellings of file names
          Fold,     \* the lower-case form of a spelling
          MaxInode  \* bound on the files that exist at once

ASSUME HostDirAssumption == Fold \in [Names -> Names] /\ MaxInode \in Nat \ {0}

VARIABLES disk,             \* the host directory: spelling to inode, 0 if absent
          kernel_casefold,  \* the host folds case itself
          cache,            \* dir_cache: is it fresh, and the listing it keeps
          files,            \* open files: handle to path, inode and modes
          sharing,          \* the SharingTable
          finds,            \* searches: handle to the entries still to come
          locks,            \* files with a byte-range lock of this process
          changed           \* history: somebody else changed the directory since
                            \* the listing was read

hostVars == <<disk, kernel_casefold, cache, files, sharing, finds, locks, changed>>

Modes      == {"ReadOnly", "WriteOnly", "ReadWrite"}
Shares     == {"DenyReadWrite", "DenyWrite", "DenyRead", "DenyNone"}
Dir        == MaxInode + 1   \* stands for every directory's inode
Present    == {n \in Names : disk[n] # 0}
Missing    == "missing"      \* a name that was not found
Dots       == {".", ".."}
NoListing  == [fresh |-> FALSE, names |-> <<>>]
Without(f, x) == [y \in DOMAIN f \ {x} |-> f[y]]
With(f, x, e) == [y \in DOMAIN f \cup {x} |-> IF y = x THEN e ELSE f[y]]

HostDirInit ==
  /\ disk = [n \in Names |-> 0]
  /\ kernel_casefold \in BOOLEAN
  /\ cache = NoListing
  /\ files = <<>> /\ finds = <<>>
  /\ sharing = {} /\ locks = {}
  /\ changed = FALSE

----------------------------------------------------------------------------
(* The host's file system (external).                                      *)

\* The entry the host finds when it is asked for n.
HostEntry(n) ==
  LET same == {m \in Present : IF kernel_casefold THEN Fold[m] = Fold[n] ELSE m = n}
  IN  IF same = {} THEN Missing ELSE CHOOSE m \in same : TRUE

Exists(n) == HostEntry(n) # Missing
Inode(n)  == disk[HostEntry(n)]
IsDir(n)  == Exists(n) /\ Inode(n) = Dir

\* An inode nobody uses: not in the directory and not open.
FreeInodes == 1..MaxInode \ ({disk[n] : n \in Names} \cup {files[h].ino : h \in DOMAIN files})
NewInode   == CHOOSE i \in FreeInodes : TRUE

\* What read_dir may list: for each folded name one of its spellings.
Listings ==
  LET folded == {Fold[n] : n \in Present}
  IN  {g \in [folded -> Present] : \A f \in folded : Fold[g[f]] = f}

----------------------------------------------------------------------------
(* Name resolution.                                                        *)

\* DirCache::lookup: the results from a listing younger than its time to live,
\* else from one read now.
lookup(n) ==
  LET found(g) == IF Fold[n] \in DOMAIN g THEN g[Fold[n]] ELSE Missing
  IN  IF cache.fresh THEN {[name |-> found(cache.names), cache |-> cache]}
      ELSE {[name |-> found(g), cache |-> [fresh |-> TRUE, names |-> g]] : g \in Listings}

\* An entry of just this spelling, then the listing.
resolve_component(n) == IF disk[n] # 0 THEN {[name |-> n, cache |-> cache]} ELSE lookup(n)

\* A host that folds case is asked with the spelling given.
resolve_ci(n) ==
  IF kernel_casefold THEN {[name |-> IF Exists(n) THEN n ELSE Missing, cache |-> cache]}
  ELSE resolve_component(n)

resolve_existing(n) == {r \in resolve_ci(n) : r.name # Missing}

\* A new name is taken as it is given, whatever spelling is there already.
resolve_for_create(n) == n

\* What a lookup leaves of the cache.
Looked(c) == cache' = c /\ changed' = (changed /\ c = cache)

Invalidated == cache' = NoListing /\ changed' = FALSE

----------------------------------------------------------------------------
(* Sharing modes.                                                          *)

Allows(share, mode) ==
  CASE share = "DenyReadWrite" -> FALSE
    [] share = "DenyWrite"     -> mode = "ReadOnly"
    [] share = "DenyRead"      -> mode = "WriteOnly"
    [] share = "DenyNone"      -> TRUE

is_sharing_compatible(a, b) == Allows(a.share, b.mode) /\ Allows(b.share, a.mode)

\* mutant of check_and_add: only the new open's wishes count.
CheckOneSide(p, r) == \A e \in sharing : e.path = p => Allows(r.share, e.mode)

check_and_add(p, r) == \A e \in sharing : e.path = p => is_sharing_compatible(e, r)

remove(p, h) == {e \in sharing : e.path # p \/ e.h # h}

----------------------------------------------------------------------------
(* open, close and locks.                                                  *)

\* What open does about the name: create it, or take, empty or refuse what is there.
OpenActions(r, exist, new) ==
  CASE r.name = Missing -> (IF new = "Create" THEN {"Created"} ELSE {})
    [] OTHER            -> (CASE exist = "Open" -> {"Existed"} [] exist = "Replace" -> {"Replaced"}
                              [] exist = "Fail" -> {})

Target(r, n) == IF r.name = Missing THEN resolve_for_create(n) ELSE r.name

\* The flags forbid what was found, or another open denies this one.
OpenRefused(r, n, req, exist, new) ==
  /\ OpenActions(r, exist, new) = {} \/ ~check_and_add(Target(r, n), req)
  /\ Looked(r.cache)
  /\ UNCHANGED <<disk, kernel_casefold, files, sharing, finds, locks>>

\* The host opens a file that is there or may be made, and a directory to read only.
HostOpens(p, req, act) ==
  IF Exists(p) THEN IsDir(p) => (act = "Existed" /\ req.mode = "ReadOnly")
  ELSE act # "Existed" /\ FreeInodes # {}

\* The entry of the sharing table is taken out again.
ErrorPath(e) == sharing' = (sharing \cup {e}) \ {e}

CacheAfterOpen(r, act) == IF act = "Existed" THEN Looked(r.cache) ELSE Invalidated

\* The host may refuse for reasons of its own (permissions) at any time.
open(r, n, req, exist, new, h, ok) ==
  \E act \in OpenActions(r, exist, new) :
    LET p     == Target(r, n)
        ino   == IF Exists(p) THEN Inode(p) ELSE NewInode
        entry == [path |-> p, h |-> h, mode |-> req.mode, share |-> req.share]
    IN
    /\ check_and_add(p, req)
    /\ \/ /\ ~ok
          /\ ErrorPath(entry) /\ Looked(r.cache)
          /\ UNCHANGED <<disk, files>>
       \/ /\ ok /\ HostOpens(p, req, act)
          /\ disk' = [disk EXCEPT ![IF Exists(p) THEN HostEntry(p) ELSE p] = ino]
          /\ CacheAfterOpen(r, act)
          /\ files' = With(files, h, [path |-> p, ino |-> ino, mode |-> req.mode, share |-> req.share])
          /\ sharing' = sharing \cup {entry}
    /\ UNCHANGED <<kernel_casefold, finds, locks>>

\* The host drops the process's locks on a file with any of its descriptors.
close(h) ==
  /\ h \in DOMAIN files
  /\ files' = Without(files, h)
  /\ sharing' = remove(files[h].path, h)
  /\ locks' = locks \ {files[h].ino}
  /\ UNCHANGED <<disk, kernel_casefold, cache, finds, changed>>

\* Unlocks come first and stay done when the lock that follows is refused; the
\* host wants a descriptor that may write.
set_file_locks(h, unlock, lock) ==
  /\ h \in DOMAIN files
  /\ LET freed == IF unlock THEN locks \ {files[h].ino} ELSE locks
     IN  \/ locks' = freed
         \/ lock /\ files[h].mode # "ReadOnly" /\ locks' = freed \cup {files[h].ino}
  /\ UNCHANGED <<disk, kernel_casefold, cache, files, sharing, finds, changed>>

----------------------------------------------------------------------------
(* Searches: the entries are collected by find_first.  read_dir's order is *)
(* not defined, so which of them comes next is left open until it is asked *)
(* for; "." and ".." come first.  An entry is its name here.               *)

\* A wildcard pattern is the set of folded names it matches.
wildcard_match(pattern, n) == Fold[n] \in pattern
attributes_match(ino, withDirs) == ino = Dir => withDirs

Matching(pattern, withDirs) ==
  {n \in Present : wildcard_match(pattern, n) /\ attributes_match(disk[n], withDirs)}
    \cup (IF withDirs /\ pattern = {Fold[n] : n \in Names} THEN Dots ELSE {})

\* The sets of the next k entries of what is left.
Taken(left, k) ==
  LET many == IF Cardinality(left) < k THEN Cardinality(left) ELSE k
  IN  {s \in SUBSET left : /\ Cardinality(s) = many
                           /\ s \subseteq Dots \/ (Dots \cap left) \subseteq s
                           /\ (".." \in s /\ "." \in left) => "." \in s}

find_first(h, pattern, withDirs, k) ==
  LET all == Matching(pattern, withDirs)
  IN
  /\ all # {}
  /\ \E s \in Taken(all, k) : finds' = With(finds, h, all \ s)
  /\ UNCHANGED <<disk, kernel_casefold, cache, files, sharing, locks, changed>>

find_next(h, k) ==
  /\ h \in DOMAIN finds /\ finds[h] # {}
  /\ \E s \in Taken(finds[h], k) : finds' = [finds EXCEPT ![h] = @ \ s]
  /\ UNCHANGED <<disk, kernel_casefold, cache, files, sharing, locks, changed>>

find_close(h) ==
  /\ h \in DOMAIN finds
  /\ finds' = Without(finds, h)
  /\ UNCHANGED <<disk, kernel_casefold, cache, files, sharing, locks, changed>>

----------------------------------------------------------------------------
(* Operations on names: the host does it and the cache is invalidated, or  *)
(* refuses and the lookup's listing stays.  Open files are not looked at.  *)

\* mutant of Named: the listing outlives the name it lacks.
NamedKeepsListing(ok, c, d) ==
  /\ IF ok THEN disk' = d ELSE disk' = disk
  /\ Looked(c)
  /\ UNCHANGED <<kernel_casefold, files, sharing, finds, locks>>

Named(ok, c, d) ==
  /\ IF ok THEN disk' = d /\ Invalidated ELSE disk' = disk /\ Looked(c)
  /\ UNCHANGED <<kernel_casefold, files, sharing, finds, locks>>

create_dir(n) == Named(~Exists(n), cache, [disk EXCEPT ![n] = Dir])

\* A name from a stale listing is found here and refused by the host.
delete(n) ==
  \E r \in resolve_existing(n) :
    Named(Exists(r.name) /\ ~IsDir(r.name), r.cache, [disk EXCEPT ![HostEntry(r.name)] = 0])

delete_dir(n) ==
  \E r \in resolve_existing(n) :
    Named(IsDir(r.name), r.cache, [disk EXCEPT ![HostEntry(r.name)] = 0])

\* The host replaces a file that has the new name; a directory moves only onto
\* an (empty) directory and a file only onto a file.
rename(old, new) ==
  \E r \in resolve_existing(old) :
    LET to    == resolve_for_create(new)
        moved == [[disk EXCEPT ![HostEntry(r.name)] = 0]
                    EXCEPT ![IF Exists(to) /\ ~kernel_casefold THEN HostEntry(to) ELSE to] = Inode(r.name)]
        clear == IF kernel_casefold /\ Exists(to) /\ HostEntry(to) # to
                 THEN [moved EXCEPT ![HostEntry(to)] = 0] ELSE moved
    IN  Named(Exists(r.name) /\ (Exists(to) => (IsDir(r.name) <=> IsDir(to))), r.cache, clear)

\* fs::copy writes over what has the new name.
copy(src, dst) ==
  \E r \in resolve_existing(src) :
    LET to == resolve_for_create(dst)
    IN  Named(/\ Exists(r.name) /\ ~IsDir(r.name) /\ ~IsDir(to)
              /\ Exists(to) \/ FreeInodes # {},
              r.cache, IF Exists(to) THEN disk ELSE [disk EXCEPT ![to] = NewInode])

\* The metadata calls only look the name up.
query_path_info(n) == \E r \in resolve_existing(n) : Named(FALSE, r.cache, disk)

----------------------------------------------------------------------------
(* The environment.                                                        *)

\* The listing is older than DIR_CACHE_TTL_MS.
Expire == cache.fresh /\ Invalidated
          /\ UNCHANGED <<disk, kernel_casefold, files, sharing, finds, locks>>

\* Another host process makes or removes a file.
HostChanges(n) ==
  /\ \/ ~Exists(n) /\ FreeInodes # {} /\ disk' = [disk EXCEPT ![n] = NewInode]
     \/ Exists(n) /\ disk' = [disk EXCEPT ![HostEntry(n)] = 0]
  /\ changed' = cache.fresh
  /\ UNCHANGED <<kernel_casefold, cache, files, sharing, finds, locks>>
=============================================================================
