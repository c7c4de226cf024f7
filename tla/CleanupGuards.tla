--------------------------- MODULE CleanupGuards ---------------------------
(***************************************************************************)
(* What `cleanup` looks at before it destroys a registered fork (cleanup.py*)
(* _validate, cleanup).  The plan is made while the worktree has the fork's*)
(* branch checked out; then the user is asked, which may take any time;    *)
(* then git is asked twice, for uncommitted changes and for commits of HEAD*)
(* that no remote has; then the command waits for the registry lock and    *)
(* checks under it that the worktree has the branch checked out, but does  *)
(* not look at the work again; then the worktree and the branch go.        *)
(*                                                                         *)
(* Meanwhile the fork is in use: its user edits, commits, resets, pushes   *)
(* and switches branches.  Pieces of work are followed to where they are;  *)
(* ignored files, which neither look sees, are not among them.             *)
(***************************************************************************)
EXTENDS Naturals, FiniteSets

CONSTANTS
    Piece,       \* pieces of work
    MaxMoves     \* how often the fork's user does something

VARIABLES
    head,        \* what the worktree has checked out: "fork", "other", "detached"
    place,       \* piece -> "unborn", "dirty", the ref it is on, or "lost"
    pushed,      \* the pieces a remote has
    moves,
    step,        \* where the command is
    asked,       \* its flags
    sawDirty,    \* the first look
    stood,       \* history: piece -> where it was at the first look
    astray       \* history: the worktree was in use between the looks, or was
                 \* off the fork's branch during them

work == <<head, place, pushed, moves>>
command == <<step, asked, sawDirty, stood, astray>>
guardVars == <<work, command>>

Head == {"fork", "other", "detached"}
Flag == {"force", "allow_dirty", "allow_unpushed", "keep_branch", "dry_run"}

Dirty == {p \in Piece : place[p] = "dirty"}

(* The commits of HEAD that are on no remote: HEAD --not --remotes. *)
Unpushed == {p \in Piece : place[p] = head} \ pushed

GuardsInit ==
    /\ head = "fork" /\ moves = 0 /\ pushed = {}
    /\ place = [p \in Piece |-> "unborn"]
    /\ step = "start" /\ asked \in SUBSET Flag
    /\ sawDirty = {} /\ stood = place /\ astray = FALSE
-----------------------------------------------------------------------------
(***************************************************************************)
(* The fork's user (external), while the worktree is there.                *)
(***************************************************************************)
Move ==
    /\ moves < MaxMoves /\ moves' = moves + 1
    /\ step \notin {"removed", "done"}
    /\ astray' = (astray \/ step = "looking")
    /\ UNCHANGED <<step, asked, sawDirty, stood>>

Puts(S, where) == place' = [p \in Piece |-> IF p \in S THEN where ELSE place[p]]

Work(p) == Move /\ place[p] = "unborn" /\ Puts({p}, "dirty") /\ UNCHANGED <<head, pushed>>

Commit == Move /\ Dirty # {} /\ Puts(Dirty, head) /\ UNCHANGED <<head, pushed>>

(* git reset --soft: the commit's work is uncommitted again. *)
Reset(p) == Move /\ place[p] = head /\ Puts({p}, "dirty") /\ UNCHANGED <<head, pushed>>

(* Uncommitted changes come along; a detached HEAD is given a branch first. *)
Switch(h) ==
    /\ Move /\ h # head /\ head' = h
    /\ Puts({p \in Piece : place[p] = "detached"}, "other")
    /\ UNCHANGED pushed

Push == Move /\ Unpushed # {} /\ pushed' = pushed \cup Unpushed /\ UNCHANGED <<head, place>>

Uses == (\E p \in Piece : Work(p) \/ Reset(p)) \/ Commit \/ (\E h \in Head : Switch(h)) \/ Push
-----------------------------------------------------------------------------
Goes(from, to) == step = from /\ step' = to

(* resolve_cleanup_target confirms the pair, then the user is asked. *)
Resolve ==
    /\ \/ head = "fork" /\ Goes("start", "asked")
       \/ head # "fork" /\ Goes("start", "refused")
    /\ UNCHANGED <<work, asked, sawDirty, stood, astray>>

Consent ==
    /\ \/ Goes("asked", "agreed")
       \/ "dry_run" \notin asked /\ Goes("asked", "cancelled")
    /\ UNCHANGED <<work, asked, sawDirty, stood, astray>>

(* Run from inside the worktree, it is refused before it looks. *)
RefuseInside ==
    /\ Goes("agreed", "refused")
    /\ UNCHANGED <<work, asked, sawDirty, stood, astray>>

LookForChanges ==
    /\ Goes("agreed", "looking")
    /\ sawDirty' = Dirty
    /\ stood' = place
    /\ astray' = (head # "fork")
    /\ UNCHANGED <<work, asked>>

(* Mutant of Waives: either allowance waives both guards. *)
WaivesBoth(guard) == asked \cap {"force", "allow_dirty", "allow_unpushed"} # {}

Waives(guard) == asked \cap {"force", guard} # {}

(* The second look, and what _validate makes of the two. *)
LookForCommits ==
    LET passes == /\ sawDirty = {} \/ Waives("allow_dirty")
                  /\ Unpushed = {} \/ Waives("allow_unpushed")
    IN  /\ \/ ~passes /\ Goes("looking", "refused")
           \/ passes /\ "dry_run" \in asked /\ Goes("looking", "shown")
           \/ passes /\ "dry_run" \notin asked /\ Goes("looking", "waiting")
        /\ UNCHANGED <<work, asked, sawDirty, stood, astray>>

(* Under the registry lock: the pair is looked for again, the work is not. *)
Reconfirm ==
    /\ \/ head = "fork" /\ Goes("waiting", "confirmed")
       \/ head # "fork" /\ Goes("waiting", "refused")
    /\ UNCHANGED <<work, asked, sawDirty, stood, astray>>

RemoveTree ==
    /\ Goes("confirmed", "removed")
    /\ Puts({p \in Piece : place[p] \in {"dirty", "detached"}}, "lost")
    /\ UNCHANGED <<head, pushed, moves, asked, sawDirty, stood, astray>>

DeleteBranch ==
    /\ Goes("removed", "done")
    /\ IF "keep_branch" \in asked THEN UNCHANGED place
       ELSE Puts({p \in Piece : place[p] = "fork"}, "lost")
    /\ UNCHANGED <<head, pushed, moves, asked, sawDirty, stood, astray>>

Cleans == Resolve \/ Consent \/ RefuseInside \/ LookForChanges \/ LookForCommits
            \/ Reconfirm \/ RemoveTree \/ DeleteBranch

GuardsNext == Uses \/ Cleans

GuardsSpec == GuardsInit /\ [][GuardsNext]_guardVars
-----------------------------------------------------------------------------
(* The guard a piece was behind when the command looked. *)
Guard(p) == IF stood[p] = "dirty" THEN "allow_dirty" ELSE "allow_unpushed"

(***************************************************************************)
(* Work that was in the fork when cleanup looked, that no remote has, and  *)
(* whose own guard no flag waives, is not destroyed -- provided the fork   *)
(* was on its branch and not in use while git was asked the two questions. *)
(* Both provisos are needed: work that a soft reset moves from a commit    *)
(* into the worktree between the questions is seen by neither, and commits *)
(* of the branch are not seen while another one is checked out, though the *)
(* branch may be back before the lock is taken.                            *)
(***************************************************************************)
StandingWorkIsNotLost ==
    \A p \in Piece :
        /\ stood[p] \in {"dirty", "fork"} /\ p \notin pushed
        /\ asked \cap {"force", Guard(p)} = {} /\ ~astray
        => place[p] # "lost"
=============================================================================
