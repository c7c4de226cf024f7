--------------------------- MODULE RegistryStore ---------------------------
(***************************************************************************)
(* What the fork registry promises its callers: a set of rows that changes *)
(* by one whole operation at a time, next to the directories on disk the   *)
(* rows describe.  RegistryFile is the lock-file protocol of registry.py   *)
(* and storage.py that implements it.                                      *)
(*                                                                         *)
(* A row names a directory by its path only.  inst is a ghost field: which *)
(* of the directories that have successively stood at that path the row    *)
(* was written for.  No operation of the program can read it.              *)
(***************************************************************************)
CONSTANTS
    Entry,      \* the rows the registry may hold
    Name, Repo, Path, Branch, Inst,
    NoRepo,     \* repository = None, a version-1 row
    Nothing     \* no directory stands at the path

ASSUME EntryAssumption ==
    /\ Entry \subseteq [name : Name, repo : Repo \cup {NoRepo}, path : Path,
                        branch : Branch, inst : Inst]
    /\ NoRepo \notin Repo
    /\ Nothing \notin Inst

VARIABLES
    file,   \* the rows of forks.json
    at,     \* the directory standing at each path, or Nothing
    used    \* the directories that have existed so far

Exists(path) == at[path] # Nothing

\* The directory the row was written for is still there.
Alive(r) == at[r.path] = r.inst

\* Same repository and same name, both rows naming a repository.
SameSlot(r, s) == r.name = s.name /\ r.repo = s.repo /\ r.repo # NoRepo

\* One worktree and branch, whoever created them.
SameWorktree(r, s) == r.path = s.path /\ r.branch = s.branch

-----------------------------------------------------------------------------
StoreInit ==
    /\ file \in SUBSET {e \in Entry : e.repo = NoRepo}
    /\ used = {e.inst : e \in file}
    /\ at \in [Path -> Inst \cup {Nothing}]
    /\ \A p \in Path : Exists(p) => \E e \in file : e.path = p /\ e.inst = at[p]

\* The new row replaces the row of its slot, which must describe a directory
\* that is gone, or the very worktree and branch the new row describes.
StoreAdd(e) ==
    /\ \A r \in file : SameSlot(r, e) => ~Alive(r) \/ SameWorktree(r, e)
    /\ file' = {r \in file : ~SameSlot(r, e)} \cup {e}
    /\ UNCHANGED <<at, used>>

StoreRemove(e) ==
    /\ e \in file
    /\ file' = file \ {e}
    /\ UNCHANGED <<at, used>>

\* Only rows of directories that are gone, or rows that name no repository.
StorePrune(gone) ==
    /\ gone # {}
    /\ gone \subseteq {r \in file : r.repo = NoRepo \/ ~Alive(r)}
    /\ file' = file \ gone
    /\ UNCHANGED <<at, used>>

\* A directory appears at a free path (git worktree add, or anything else).
MakeDirectory(p, i) ==
    /\ ~Exists(p) /\ i \notin used
    /\ at' = [at EXCEPT ![p] = i]
    /\ used' = used \cup {i}
    /\ UNCHANGED file

\* A directory goes (git worktree remove, or the user).
RemoveDirectory(p) ==
    /\ Exists(p)
    /\ at' = [at EXCEPT ![p] = Nothing]
    /\ UNCHANGED <<file, used>>

StoreNext ==
    \/ \E e \in Entry : StoreAdd(e) \/ StoreRemove(e)
    \/ \E gone \in SUBSET Entry : StorePrune(gone)
    \/ \E p \in Path : RemoveDirectory(p) \/ \E i \in Inst : MakeDirectory(p, i)

StoreVars == <<file, at, used>>

StoreSpec == StoreInit /\ [][StoreNext]_StoreVars
=============================================================================
