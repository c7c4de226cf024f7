----------------------------- MODULE ForkSystem -----------------------------
(***************************************************************************)
(* agent-fork as a system: fork, cleanup and prune commands racing over    *)
(* one repository and one registry, with failures, signals, deaths and a   *)
(* user who works in the same directories.                                 *)
(*                                                                         *)
(* The registry appears as RegistryStore promises it (RegistryFile proves  *)
(* the promise): add and remove are single steps that need the lock free;  *)
(* an owned cleanup and a prune are seen to hold it, because they run git  *)
(* under it.                                                               *)
(***************************************************************************)
EXTENDS GitWorktrees, Naturals, FiniteSets

CONSTANTS
    Cleaner, Pruner,    \* the cleanup and prune commands
    Name,
    NameOf,             \* the fork name each fork command asks for
    Claude,             \* the fork commands that record a lineage claim
    Forcing,            \* the cleanup commands run with --force
    MaxSignals,         \* bound: signals delivered
    MaxMeddling         \* bound: actions of the user

ASSUME SystemAssumption ==
    /\ NameOf \in [Maker -> Name]
    /\ Claude \subseteq Maker /\ Forcing \subseteq Cleaner
    /\ MaxSignals \in Nat /\ MaxMeddling \in Nat
    /\ Nothing \notin Cleaner \cup Pruner /\ Cleaner \cap Pruner = {}

Row == [name : Name, path : Path, branch : Branch, by : Maker]

\* The row fork f writes.  by stands for the fields that make its token unique.
RowOf(f) == [name |-> NameOf[f], path |-> Pair[f].path, branch |-> Pair[f].branch,
             by |-> f]

(***************************************************************************)
(* start        nothing checked yet                                        *)
(* guarded      every preflight refusal passed                             *)
(* branched     git worktree add -b has created the branch                 *)
(* created      the worktree exists; the signal handlers are not yet in    *)
(* working      materialize, carry, verify, include, hook, recheck         *)
(* registering  about to call add_entry                                    *)
(* registered   row written, call not returned; lineage claim still to do  *)
(* compensating the lineage claim failed                                   *)
(* returning    operation returned, handlers not yet restored              *)
(* undo...      the three commands of rollback_worktree                    *)
(* done, refused, collided, failed, interrupted, dead: ended               *)
(***************************************************************************)
Undoing == {"undo_tree", "undo_branch", "undo_prune"}
Handled == {"working", "registering", "registered", "compensating"}
ForkEnded == {"done", "refused", "collided", "failed", "interrupted", "dead"}
ForkStage == {"start", "guarded", "branched", "created", "returning"}
             \cup Undoing \cup Handled \cup ForkEnded

(***************************************************************************)
(* held          the lock taken, nothing confirmed yet                     *)
(* destroy ...   the three git commands of destroy, then remove_locked     *)
(* orphan_...    killed: the lock is gone, the git command runs on         *)
(***************************************************************************)
Destroying == {"destroy", "prune", "branch", "row"}
Locked == {"held"} \cup Destroying
Orphan == [destroy |-> "orphan_tree", prune |-> "orphan_prune", branch |-> "orphan_branch"]
Orphaned == {"orphan_tree", "orphan_prune", "orphan_branch"}
CleanStage == {"start", "consent", "waiting", "cleaned", "ended"} \cup Locked \cup Orphaned

VARIABLES
    rows,       \* the registry
    lock,       \* the cleanup or prune that holds the registry lock, or Nothing
    fork,       \* where each fork command is
    signalled,  \* the fork commands a signal has reached
    cleaned,    \* the fork commands whose rollback succeeded
    clean,      \* where each cleanup command is
    plan,       \* what each cleanup has resolved: owned, path, branch, row
    agreed,     \* what each prune command is allowed to remove
    signals, meddling,  \* how much of the bounds is used
    hit,        \* ghost: forks that a cleanup, or the user, has laid hands on
    stranded    \* ghost: forks whose row the compensation could not take back,
                \* or a signal kept from it

ends == <<signalled, cleaned, stranded>>
forks == <<fork, ends>>
cleans == <<clean, plan>>
bounds == <<signals, meddling>>
vars == <<dir, listed, ref, rows, lock, fork, signalled, cleaned, clean, plan,
          agreed, signals, meddling, hit, stranded>>

NoPlan == [owned |-> FALSE, path |-> Nothing, branch |-> Nothing, row |-> Nothing]

Init ==
    /\ GitInit
    /\ rows = {}
    /\ lock = Nothing
    /\ fork = [f \in Maker |-> "start"]
    /\ signalled = {}
    /\ cleaned = {}
    /\ clean = [c \in Cleaner |-> "start"]
    /\ plan = [c \in Cleaner |-> NoPlan]
    /\ agreed = [q \in Pruner |-> {}]
    /\ signals = 0 /\ meddling = 0
    /\ hit = {} /\ stranded = {}

Goes(f, s) == fork' = [fork EXCEPT ![f] = s]

\* occupied_fork: a row of this name whose path exists.
Occupied(f) == {r \in rows : r.name = NameOf[f] /\ Exists(r.path)}

-----------------------------------------------------------------------------
(***************************************************************************)
(* fork                                                                    *)
(***************************************************************************)
Passes(f) ==
    /\ Pair[f].branch \notin CheckedOut
    /\ CanAddBranch(Pair[f].branch)
    /\ ~Exists(Pair[f].path)
    /\ Occupied(f) = {}

\* validate_fork_guards and the early occupied_fork: refuse, nothing created.
Guard(f) ==
    /\ fork[f] = "start"
    /\ IF Passes(f) THEN Goes(f, "guarded") ELSE Goes(f, "refused")
    /\ UNCHANGED <<git, rows, lock, ends, cleans, agreed, bounds, hit>>

CreateBranch(f) ==
    /\ fork[f] = "guarded"
    /\ AddBranch(f)
    /\ Goes(f, "branched")
    /\ UNCHANGED <<rows, lock, ends, cleans, agreed, bounds, hit>>

CreateTree(f) ==
    /\ fork[f] = "branched"
    /\ AddTree(f)
    /\ Goes(f, "created")
    /\ UNCHANGED <<rows, lock, ends, cleans, agreed, bounds, hit>>

\* Mutant of Collide: the loser of the race rolls back as well.
CollideRollingBack(f) ==
    /\ \/ fork[f] = "guarded" /\ ~CanAddBranch(Pair[f].branch)
       \/ fork[f] = "branched" /\ ~CanAddTree(Pair[f].path)
    /\ Goes(f, "undo_tree")
    /\ UNCHANGED <<git, rows, lock, ends, cleans, agreed, bounds, hit>>

\* Either half of git worktree add fails; the error is raised before
\* run_with_rollback is reached.
Collide(f) ==
    /\ \/ fork[f] = "guarded" /\ ~CanAddBranch(Pair[f].branch)
       \/ fork[f] = "branched" /\ ~CanAddTree(Pair[f].path)
    /\ Goes(f, "collided")
    /\ UNCHANGED <<git, rows, lock, ends, cleans, agreed, bounds, hit>>

\* run_with_interruption_handler installs the handlers.
EnterHandlers(f) ==
    /\ fork[f] = "created"
    /\ Goes(f, "working")
    /\ UNCHANGED <<git, rows, lock, ends, cleans, agreed, bounds, hit>>

\* finish up to add_entry; verify_fork asks git for the branch and the entry.
Work(f) ==
    /\ fork[f] = "working"
    /\ Live(Pair[f].path, Pair[f].branch)
    /\ Goes(f, "registering")
    /\ UNCHANGED <<git, rows, lock, ends, cleans, agreed, bounds, hit>>

\* Any of those steps fails, or add_entry does for a reason of its own (the
\* lock is busy past the deadline, the disk is full).
Fail(f) ==
    /\ fork[f] \in {"working", "registering"}
    /\ Goes(f, "undo_tree")
    /\ UNCHANGED <<git, rows, lock, ends, cleans, agreed, bounds, hit>>

\* Mutant of AddEntry: the lock is not taken.
AddEntryUnlocked(f) ==
    /\ fork[f] = "registering"
    /\ \A r \in Occupied(f) : r.path = Pair[f].path /\ r.branch = Pair[f].branch
    /\ rows' = {r \in rows : r.name # NameOf[f]} \cup {RowOf(f)}
    /\ Goes(f, "registered")
    /\ UNCHANGED <<git, lock, ends, cleans, agreed, bounds, hit>>

\* add_entry: the row of the name is replaced, unless it is still occupied by
\* another path or branch.
AddEntry(f) ==
    /\ fork[f] = "registering" /\ lock = Nothing
    /\ \A r \in Occupied(f) : r.path = Pair[f].path /\ r.branch = Pair[f].branch
    /\ rows' = {r \in rows : r.name # NameOf[f]} \cup {RowOf(f)}
    /\ Goes(f, "registered")
    /\ UNCHANGED <<git, lock, ends, cleans, agreed, bounds, hit>>

\* add_entry finds the name taken, or gives up on the lock.
RefuseEntry(f) ==
    /\ fork[f] = "registering"
    /\ \/ lock # Nothing
       \/ \E r \in Occupied(f) : r.path # Pair[f].path \/ r.branch # Pair[f].branch
    /\ Goes(f, "undo_tree")
    /\ UNCHANGED <<git, rows, lock, ends, cleans, agreed, bounds, hit>>

\* add_lineage succeeded, or this is no Claude fork: operation() returns.
Return(f) ==
    /\ fork[f] = "registered"
    /\ Goes(f, "returning")
    /\ UNCHANGED <<git, rows, lock, ends, cleans, agreed, bounds, hit>>

\* add_lineage raises.
FailLineage(f) ==
    /\ fork[f] = "registered" /\ f \in Claude
    /\ Goes(f, "compensating")
    /\ UNCHANGED <<git, rows, lock, ends, cleans, agreed, bounds, hit>>

\* Mutant of Compensate: the row is forgotten.
CompensateNothing(f) ==
    /\ fork[f] = "compensating"
    /\ Goes(f, "undo_tree")
    /\ UNCHANGED <<git, rows, lock, ends, cleans, agreed, bounds, hit>>

\* remove_entry takes the row back if it is still this call's own.  It may
\* fail, because the lock stays busy or for any other reason: suppressed.
Compensate(f) ==
    /\ fork[f] = "compensating"
    /\ \/ lock = Nothing /\ rows' = rows \ {RowOf(f)} /\ UNCHANGED stranded
       \/ rows' = rows /\ stranded' = stranded \cup {f}
    /\ Goes(f, "undo_tree")
    /\ UNCHANGED <<git, lock, signalled, cleaned, cleans, agreed, bounds, hit>>

\* The handlers are restored and the command reports its fork.
Succeed(f) ==
    /\ fork[f] = "returning"
    /\ Goes(f, "done")
    /\ UNCHANGED <<git, rows, lock, ends, cleans, agreed, bounds, hit>>

-----------------------------------------------------------------------------
(***************************************************************************)
(* rollback_worktree, one git command after another; the first that fails  *)
(* ends it, and run_with_rollback drops the result.                        *)
(***************************************************************************)
Raised(f) == IF f \in signalled THEN "interrupted" ELSE "failed"

UndoTree(f) ==
    /\ fork[f] = "undo_tree"
    /\ IF ~Exists(Pair[f].path)
       THEN UNCHANGED git /\ Goes(f, "undo_branch")
       ELSE RemoveTree(Pair[f].path) /\ Goes(f, "undo_branch")
    /\ UNCHANGED <<rows, lock, ends, cleans, agreed, bounds, hit>>

UndoBranch(f) ==
    /\ fork[f] = "undo_branch"
    /\ DeleteBranch(Pair[f].branch)
    /\ Goes(f, "undo_prune")
    /\ UNCHANGED <<rows, lock, ends, cleans, agreed, bounds, hit>>

UndoPrune(f) ==
    /\ fork[f] = "undo_prune"
    /\ PruneTrees
    /\ Goes(f, Raised(f))
    /\ cleaned' = cleaned \cup {f}
    /\ UNCHANGED <<rows, lock, signalled, stranded, cleans, agreed, bounds, hit>>

\* Mutant of UndoFails: a branch git will not delete is tried again.
UndoFailsOnTree(f) ==
    /\ fork[f] = "undo_tree" /\ Exists(Pair[f].path) /\ ~CanRemoveTree(Pair[f].path)
    /\ Goes(f, Raised(f))
    /\ UNCHANGED <<git, rows, lock, ends, cleans, agreed, bounds, hit>>

\* A git command of the rollback that fails or is stopped may have done its
\* work, a part of it, or nothing.
UndoesSome(f) ==
    \/ UNCHANGED git
    \/ /\ fork[f] = "undo_tree"
       /\ RemoveTree(Pair[f].path) \/ RemoveTreePartly(Pair[f].path)
    \/ fork[f] = "undo_branch" /\ DeleteBranch(Pair[f].branch)

\* Whatever makes a git command fail, or keeps it from running, ends the
\* rollback there.
UndoFails(f) ==
    /\ fork[f] \in Undoing
    /\ UndoesSome(f)
    /\ Goes(f, Raised(f))
    /\ UNCHANGED <<rows, lock, ends, cleans, agreed, bounds, hit>>

-----------------------------------------------------------------------------
(***************************************************************************)
(* Signals and deaths                                                      *)
(***************************************************************************)
Signal == signals < MaxSignals /\ signals' = signals + 1

\* The handler raises inside operation: rollback begins.  Compensation does
\* not run, because OperationInterrupted is no Exception.
Interrupt(f) ==
    /\ Signal /\ fork[f] \in Handled
    /\ Goes(f, "undo_tree")
    /\ signalled' = signalled \cup {f}
    /\ stranded' = IF fork[f] \in {"registered", "compensating"}
                   THEN stranded \cup {f} ELSE stranded
    /\ UNCHANGED <<git, rows, lock, cleaned, cleans, agreed, meddling, hit>>

\* A signal outside operation's try block is not rolled back: before the
\* handlers are in, after operation returned, or inside the rollback itself,
\* whose git command it kills.
InterruptOutside(f) ==
    /\ Signal /\ fork[f] \in {"branched", "created", "returning"} \cup Undoing
    /\ UndoesSome(f)
    /\ Goes(f, "interrupted")
    /\ signalled' = signalled \cup {f}
    /\ UNCHANGED <<rows, lock, cleaned, stranded, cleans, agreed, meddling, hit>>

\* The process is killed outright; a git command it had started, a session of
\* its own, runs on.  The command holds nothing others wait for, so that its
\* death is told from none until that git is done.
Die(f) ==
    /\ Signal /\ fork[f] \notin ForkEnded
    /\ UndoesSome(f) \/ (fork[f] = "branched" /\ AddTree(f))
    /\ Goes(f, "dead")
    /\ UNCHANGED <<rows, lock, ends, cleans, agreed, meddling, hit>>

-----------------------------------------------------------------------------
(***************************************************************************)
(* cleanup                                                                 *)
(***************************************************************************)
Does(c, s) == clean' = [clean EXCEPT ![c] = s]
Unlocks(c) == lock' = IF lock = c THEN Nothing ELSE lock

Resolves(c, owned, p, b, r) ==
    /\ clean[c] = "start"
    /\ Does(c, "consent")
    /\ plan' = [plan EXCEPT ![c] = [owned |-> owned, path |-> p, branch |-> b, row |-> r]]
    /\ UNCHANGED <<git, rows, lock, forks, agreed, bounds, hit>>

\* resolve_cleanup_target: a row whose pair is live ...
ResolveOwned(c) ==
    \E r \in rows : Live(r.path, r.branch) /\ Resolves(c, TRUE, r.path, r.branch, r)

\* ... or, with --force, a live worktree no row of the given path, or of the
\* given branch, identifies.
ResolveForced(c) ==
    /\ c \in Forcing
    /\ \E p \in Path, b \in Branch :
          /\ Live(p, b)
          /\ {r \in rows : r.path = p} = {} \/ {r \in rows : r.branch = b} = {}
          /\ Resolves(c, FALSE, p, b, Nothing)

\* The user agrees, however late, and _validate finds nothing to refuse.
Consent(c) ==
    /\ clean[c] = "consent"
    /\ Does(c, IF plan[c].owned THEN "waiting" ELSE "destroy")
    /\ UNCHANGED <<git, rows, lock, forks, plan, agreed, bounds, hit>>

\* The user declines, or _validate refuses, or the lock stays busy.
Decline(c) ==
    /\ clean[c] = "consent" \/ (clean[c] = "waiting" /\ lock # Nothing)
    /\ Does(c, "ended")
    /\ UNCHANGED <<git, rows, lock, forks, plan, agreed, bounds, hit>>

Lock(c) ==
    /\ clean[c] = "waiting" /\ lock = Nothing
    /\ lock' = c
    /\ Does(c, "held")
    /\ UNCHANGED <<git, rows, forks, plan, agreed, bounds, hit>>

\* Under the lock: the row is still there and its pair is still live, or the
\* command ends with nothing removed.
Confirm(c) ==
    /\ clean[c] = "held"
    /\ IF plan[c].row \in rows /\ Live(plan[c].path, plan[c].branch)
       THEN Does(c, "destroy") /\ UNCHANGED lock
       ELSE Does(c, "ended") /\ Unlocks(c)
    /\ UNCHANGED <<git, rows, forks, plan, agreed, bounds, hit>>

DestroyTree(c) ==
    /\ clean[c] = "destroy"
    /\ RemoveTree(plan[c].path)
    /\ hit' = hit \cup ({dir[plan[c].path]} \cap Maker)
    /\ Does(c, "prune")
    /\ UNCHANGED <<rows, lock, forks, plan, agreed, bounds>>

DestroyPrune(c) ==
    /\ clean[c] = "prune"
    /\ PruneTrees
    /\ Does(c, "branch")
    /\ UNCHANGED <<rows, lock, forks, plan, agreed, bounds, hit>>

Destroyed(c) == Does(c, IF plan[c].owned THEN "row" ELSE "cleaned")

DestroyBranch(c) ==
    /\ clean[c] = "branch"
    /\ DeleteBranch(plan[c].branch)
    /\ hit' = hit \cup ({ref[plan[c].branch]} \cap Maker)
    /\ Destroyed(c)
    /\ UNCHANGED <<rows, lock, forks, plan, agreed, bounds>>

\* --keep-branch
KeepBranch(c) ==
    /\ clean[c] = "branch"
    /\ Destroyed(c)
    /\ UNCHANGED <<git, rows, lock, forks, plan, agreed, bounds, hit>>

\* A git command of a cleanup does its work, or the first part of it.
CleanupGit(c, s) ==
    \/ /\ s = "destroy"
       /\ RemoveTree(plan[c].path) \/ RemoveTreePartly(plan[c].path)
       /\ hit' = hit \cup ({dir[plan[c].path]} \cap Maker)
    \/ s = "prune" /\ PruneTrees /\ UNCHANGED hit
    \/ /\ s = "branch"
       /\ DeleteBranch(plan[c].branch)
       /\ hit' = hit \cup ({ref[plan[c].branch]} \cap Maker)

CleanupGitStops(c, s) == UNCHANGED <<git, hit>> \/ CleanupGit(c, s)

\* Mutants of DestroyFails: a worktree git will not remove is tried again; the
\* row goes all the same.
DestroyFailsOnBranch(c) ==
    /\ clean[c] = "branch" /\ ~CanDeleteBranch(plan[c].branch)
    /\ Does(c, "ended")
    /\ Unlocks(c)
    /\ UNCHANGED <<git, rows, forks, plan, agreed, bounds, hit>>

DestroyFailsRemovingRow(c) ==
    /\ clean[c] \in Locked
    /\ CleanupGitStops(c, clean[c])
    /\ rows' = rows \ {plan[c].row}
    /\ Does(c, "ended")
    /\ Unlocks(c)
    /\ UNCHANGED <<forks, plan, agreed, bounds>>

\* git refuses or fails for any reason, the registry cannot be written, or a
\* signal ends the command, which kills its git before the lock goes: the row
\* stays.
DestroyFails(c) ==
    /\ clean[c] \in Locked
    /\ CleanupGitStops(c, clean[c])
    /\ Does(c, "ended")
    /\ Unlocks(c)
    /\ UNCHANGED <<rows, forks, plan, agreed, bounds>>

\* remove_locked
RemoveRow(c) ==
    /\ clean[c] = "row"
    /\ rows' = rows \ {plan[c].row}
    /\ Unlocks(c)
    /\ Does(c, "cleaned")
    /\ UNCHANGED <<git, forks, plan, agreed, bounds, hit>>

\* The process is killed outright.  The kernel drops the lock at once; a git
\* command it had started, a session of its own, runs on without it ...
KillCleanup(c) ==
    /\ Signal /\ clean[c] \in Locked
    /\ Does(c, IF clean[c] \in DOMAIN Orphan THEN Orphan[clean[c]] ELSE "ended")
    /\ Unlocks(c)
    /\ UNCHANGED <<git, rows, forks, plan, agreed, meddling, hit>>

\* ... and ends in its own time, on whatever it finds there by then.
OrphanEnds(c) ==
    /\ \E s \in DOMAIN Orphan : clean[c] = Orphan[s] /\ CleanupGitStops(c, s)
    /\ Does(c, "ended")
    /\ UNCHANGED <<rows, lock, forks, plan, agreed, bounds>>

-----------------------------------------------------------------------------
(***************************************************************************)
(* prune, and the user                                                     *)
(***************************************************************************)
Missing == {r \in rows : ~Exists(r.path)}

\* plan_prune, without the lock, and the user's agreement.
PlanPrune(q) ==
    /\ agreed[q] = {} /\ lock # q /\ Missing # {}
    /\ agreed' = [agreed EXCEPT ![q] = Missing]
    /\ UNCHANGED <<git, rows, lock, forks, cleans, bounds, hit>>

\* Mutant of LockPrune: a row is known again by its name.
LockPruneByName(q) ==
    /\ agreed[q] # {} /\ lock = Nothing
    /\ lock' = q
    /\ agreed' = [agreed EXCEPT ![q] = {r \in rows : \E s \in @ : s.name = r.name}]
    /\ UNCHANGED <<git, rows, forks, cleans, bounds, hit>>

\* apply_prune: under the lock the rows are classified again, with git for
\* each; what was agreed to and is still missing ...
LockPrune(q) ==
    /\ agreed[q] # {} /\ lock = Nothing
    /\ lock' = q
    /\ agreed' = [agreed EXCEPT ![q] = @ \cap Missing]
    /\ UNCHANGED <<git, rows, forks, cleans, bounds, hit>>

\* ... is removed, whatever has come back since.
ApplyPrune(q) ==
    /\ lock = q
    /\ rows' = rows \ agreed[q]
    /\ agreed' = [agreed EXCEPT ![q] = {}]
    /\ lock' = Nothing
    /\ UNCHANGED <<git, forks, cleans, bounds, hit>>

\* The lock stays busy, or the command fails, is stopped or dies before its one
\* rename.
EndPrune(q) ==
    /\ agreed[q] # {} \/ lock = q
    /\ agreed' = [agreed EXCEPT ![q] = {}]
    /\ Unlocks(q)
    /\ UNCHANGED <<git, rows, forks, cleans, bounds, hit>>

Meddle ==
    /\ meddling < MaxMeddling
    /\ meddling' = meddling + 1
    /\ \E p \in Path : (UserDeletes(p) \/ UserMakes(p)) /\ hit' = hit \cup ({dir[p]} \cap Maker)
    /\ UNCHANGED <<rows, lock, forks, cleans, agreed, signals>>

-----------------------------------------------------------------------------
\* What a fork command does of its own accord once it has passed its guards.
Forks(f) ==
    \/ CreateBranch(f) \/ CreateTree(f) \/ Collide(f) \/ EnterHandlers(f) \/ Work(f)
    \/ Fail(f) \/ AddEntry(f) \/ RefuseEntry(f) \/ Return(f) \/ FailLineage(f)
    \/ Compensate(f) \/ Succeed(f)
    \/ UndoTree(f) \/ UndoBranch(f) \/ UndoPrune(f) \/ UndoFails(f)

\* What a cleanup does once the user has agreed.
Cleans(c) ==
    \/ Lock(c) \/ Confirm(c) \/ DestroyTree(c) \/ DestroyPrune(c) \/ DestroyBranch(c)
    \/ KeepBranch(c) \/ DestroyFails(c) \/ RemoveRow(c) \/ OrphanEnds(c)
    \/ clean[c] = "waiting" /\ Decline(c)

Next ==
    \/ \E f \in Maker : Guard(f) \/ Forks(f) \/ Interrupt(f) \/ InterruptOutside(f) \/ Die(f)
    \/ \E c \in Cleaner : \/ ResolveOwned(c) \/ ResolveForced(c) \/ Consent(c)
                          \/ Decline(c) \/ Cleans(c) \/ KillCleanup(c)
    \/ \E q \in Pruner : PlanPrune(q) \/ LockPrune(q) \/ ApplyPrune(q) \/ EndPrune(q)
    \/ Meddle

Spec == Init /\ [][Next]_vars

\* Processes run, and so does the git of a dead one; users need not answer,
\* signals need not come.
FairSpec ==
    /\ Spec
    /\ \A f \in Maker : WF_vars(Forks(f))
    /\ \A c \in Cleaner : WF_vars(Cleans(c))

-----------------------------------------------------------------------------
\* The fork is whole: its directory, entry, branch and row are there, its own.
Intact(f) ==
    /\ dir[Pair[f].path] = f /\ listed[Pair[f].path] = f
    /\ ref[Pair[f].branch] = f
    /\ RowOf(f) \in rows

\* Nothing of git's is left of the fork.
Absent(f) ==
    /\ \A p \in Path : dir[p] # f /\ listed[p] # f
    /\ \A b \in Branch : ref[b] # f

\* A cleanup, or the user, laid hands on a fork of this path or branch.
Disturbed(f) ==
    \E g \in hit : Pair[g].path = Pair[f].path \/ Pair[g].branch = Pair[f].branch

\* With everybody at work, a fork that reported success is whole unless it, or
\* one of its path or branch, is disturbed: harm does not travel further than
\* that, and forks and prunes alone do none, whatever fails, is interrupted or
\* collides (REQ-41: two simultaneous forks of one repository must not corrupt
\* each other).
HarmIsConfined == \A f \in Maker : fork[f] = "done" => Intact(f) \/ Disturbed(f)

\* An undisturbed fork whose rollback came to its end, after a failure or a
\* signal, has left nothing: no directory, no entry, no branch (REQ-22).  Nor a
\* row, unless remove_entry itself failed, which is suppressed, or a signal came
\* when add_entry had written the row and the operation had not returned: the
\* code takes a row back after an exception, and a signal is none of those it
\* catches.
FailedForksLeaveNothing ==
    \A f \in cleaned : ~Disturbed(f) => Absent(f) /\ (RowOf(f) \in rows => f \in stranded)

\* rollback_worktree removes exactly this call's worktree and branch, unless it
\* is disturbed: it goes by path and branch, and would take what another fork
\* has made there since.
RollbackTakesOnlyItsOwn ==
    [][\A f \in Maker : fork[f] \in Undoing /\ fork'[f] # fork[f] /\ ~Disturbed(f) =>
          /\ \A p \in Path : dir'[p] # dir[p] => dir[p] = f
          /\ \A b \in Branch : ref'[b] # ref[b] => ref[b] = f]_vars

\* A cleanup of a registered fork goes by a row that is still there, and never
\* destroys a worktree that another row was written for, although it knows
\* worktrees only by path and branch and consent has no time bound.  The one
\* exception is a row of another name for that very path and branch: nothing
\* tells which of the two forks stands there.  It speaks of what the command
\* does while it lives, failing or stopped halfway included: one killed outright
\* loses the lock while its git runs on, and that git takes what it finds.
CleanupSparesOtherForks ==
    [][\A c \in Cleaner : clean[c] = "destroy" /\ plan[c].owned =>
          \A p \in Path : dir'[p] # dir[p] /\ clean'[c] # clean[c] =>
              /\ plan[c].row \in rows
              /\ \A r \in rows : r.by = dir[p] /\ r # plan[c].row =>
                    r.branch = plan[c].branch /\ r.name # plan[c].row.name]_vars

\* From its confirmation on a cleanup of a registered fork has its row, and a
\* cleanup that is refused, fails, is stopped or dies on the way leaves it: what
\* is half destroyed can still be found, and pruned.  One that reports success
\* has left no row of that name for that path, and of the fork that wrote the
\* row neither the directory nor git's entry; another fork may have come to the
\* path meanwhile, without a row, as the lock was held.
CleanupIsWhole ==
    [][\A c \in Cleaner : plan[c].owned /\ clean[c] \in Destroying /\ clean'[c] # clean[c] =>
          LET r == plan[c].row IN
          /\ r \in rows
          /\ clean'[c] # "cleaned" => r \in rows'
          /\ clean'[c] = "cleaned" =>
                /\ {s \in rows' : s.path = r.path /\ s.name = r.name} = {}
                /\ \A p \in Path : dir'[p] # r.by /\ listed'[p] # r.by]_vars

\* Every command ends: no order of steps leaves one waiting for another.
ForksEnd == \A f \in Maker : fork[f] = "guarded" ~> fork[f] \in ForkEnded
CleanupsEnd == \A c \in Cleaner : clean[c] = "waiting" ~> clean[c] \in {"cleaned", "ended"}
=============================================================================
