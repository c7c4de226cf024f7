---------------------------- MODULE GitWorktrees ----------------------------
(***************************************************************************)
(* Git as agent-fork uses it: the worktrees and branches of one repository,*)
(* changed only by the git commands the program runs and by the user.      *)
(*                                                                         *)
(* A worktree is a directory and an entry in .git/worktrees; either can    *)
(* outlive the other.  Directories, entries and branches carry who made    *)
(* them, which no command can read: git and agent-fork know a worktree by  *)
(* its path and a branch by its name, and what stands there may have been  *)
(* replaced.                                                               *)
(***************************************************************************)
CONSTANTS
    Path, Branch,
    Maker,      \* the fork commands, each the maker of at most one worktree
    Pair,       \* the path and branch each of them asks for
    Alien,      \* a directory that is no worktree of the repository
    Nothing

ASSUME GitAssumption ==
    /\ Pair \in [Maker -> [path : Path, branch : Branch]]
    /\ Alien \notin Maker /\ Nothing \notin Maker /\ Alien # Nothing

VARIABLES
    dir,        \* whose worktree directory stands at each path, Alien or Nothing
    listed,     \* whose entry .git/worktrees holds for each path, or Nothing
    ref         \* who created each branch, or Nothing

git == <<dir, listed, ref>>

GitInit ==
    /\ dir = [p \in Path |-> Nothing]
    /\ listed = [p \in Path |-> Nothing]
    /\ ref = [b \in Branch |-> Nothing]

Exists(p) == dir[p] # Nothing

\* The branches git refuses to delete: an entry counts even when its
\* directory is missing.
CheckedOut == {Pair[m].branch : m \in {listed[p] : p \in Path} \ {Nothing}}

\* A (path, branch) pair live_worktree_pairs reports: listed, and the
\* directory is there and is that worktree.
Live(p, b) == /\ listed[p] # Nothing /\ dir[p] = listed[p]
              /\ Pair[listed[p]].branch = b

-----------------------------------------------------------------------------
\* git worktree add -b, first half: create the branch.
CanAddBranch(b) == ref[b] = Nothing
AddBranch(m) ==
    /\ CanAddBranch(Pair[m].branch)
    /\ ref' = [ref EXCEPT ![Pair[m].branch] = m]
    /\ UNCHANGED <<dir, listed>>

\* Second half: check the path, write the entry and the directory.  A missing
\* but still listed worktree is refused like a directory.
CanAddTree(p) == ~Exists(p) /\ listed[p] = Nothing
AddTree(m) ==
    /\ CanAddTree(Pair[m].path)
    /\ dir' = [dir EXCEPT ![Pair[m].path] = m]
    /\ listed' = [listed EXCEPT ![Pair[m].path] = m]
    /\ UNCHANGED ref

\* git worktree remove --force: a directory that is not the listed worktree
\* is refused, a missing one is not.
CanRemoveTree(p) == listed[p] # Nothing /\ dir[p] # Alien
RemoveTree(p) ==
    /\ CanRemoveTree(p)
    /\ dir' = [dir EXCEPT ![p] = Nothing]
    /\ listed' = [listed EXCEPT ![p] = Nothing]
    /\ UNCHANGED ref

\* git worktree remove --force killed after the directory, before the entry.
RemoveTreePartly(p) ==
    /\ CanRemoveTree(p)
    /\ dir' = [dir EXCEPT ![p] = Nothing]
    /\ UNCHANGED <<listed, ref>>

\* git branch -D.
CanDeleteBranch(b) == ref[b] # Nothing /\ b \notin CheckedOut
DeleteBranch(b) ==
    /\ CanDeleteBranch(b)
    /\ ref' = [ref EXCEPT ![b] = Nothing]
    /\ UNCHANGED <<dir, listed>>

\* git worktree prune: entries whose directory is not their worktree any more.
PruneTrees ==
    /\ listed' = [p \in Path |-> IF dir[p] = listed[p] THEN listed[p] ELSE Nothing]
    /\ UNCHANGED <<dir, ref>>

-----------------------------------------------------------------------------
\* The user deletes a directory, or makes one that is no worktree.
UserDeletes(p) ==
    /\ Exists(p)
    /\ dir' = [dir EXCEPT ![p] = Nothing]
    /\ UNCHANGED <<listed, ref>>

UserMakes(p) ==
    /\ ~Exists(p)
    /\ dir' = [dir EXCEPT ![p] = Alien]
    /\ UNCHANGED <<listed, ref>>
=============================================================================
