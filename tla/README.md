# A verification project for agent-fork

agent-fork forks a coding-agent session: it makes a git worktree and a branch
next to a repository, carries the uncommitted state of the parent into it,
checks the result, copies the files `.worktreeinclude` names, runs a setup hook,
records the fork in a registry and prints the command that resumes the session
there. `cleanup` takes a fork away again, `prune` clears registry rows whose
worktree is gone. Several of these commands may run at once, each a process of
its own; they share the repository, the file system and a handful of JSON
stores, and a user works in the same directories.

This directory holds TLA+ models of the parts where that can go wrong, the TLC
configurations that check them, and proofs checked by TLAPS. `PROJECT.json`
lists the components, runs, mutants, hazards and theorems and maps every
definition to the lines it models. Paths below are relative to
`src/agent_fork/` in the repository.

## The system

| part | state it keeps | operations | hard behaviour |
|---|---|---|---|
| registry (`registry.py`, `storage.py`, `models.py`) | `forks.json`, rows of fork name, repository, path and branch; a sibling lock file | `add_entry`, `remove_entry`, `remove_locked`, `apply_prune`, unlocked reads | processes race; a bounded wait for the lock; death between the temporary file and the rename |
| fork pipeline (`pipeline.py`, `rollback.py`, `interrupts.py`) | the worktree and branch being made | guards, `git worktree add -b`, materialize, verify, include, hook, `add_entry`, `add_lineage`, rollback | any step fails or is interrupted; two forks collide after both passed the guards; rollback is itself three commands |
| cleanup (`cleanup.py`) | a plan made before an unbounded consent | target resolution, inspection, revalidation under the lock, three git commands, row removal | everything may have changed since the plan; git stops half way |
| prune (`prune.py`) | the rows the user agreed to | classify, ask, classify again under the lock | rows and directories change between the two |
| repository access (`repository.py`, `git.py`, `worktree_list.py`) | none of its own; git's | live worktree pairs, guards, running git in a session of its own | git lists worktrees that are gone; a killed command leaves half its work |
| state carry (`content.py`, `materialize.py`, `verify.py`) | an inventory and a capture of the parent | collect, capture, materialize, verify, recheck skips | the parent changes meanwhile |
| submodule carry (`submodules.py`) | a snapshot of plans per submodule | snapshot, carry, per-submodule skip | nesting, partial failure |
| setup hook, includes (`include.py`) | the hook's process group, an emptied latch | eligibility, spawn, collect, reap ladder, report | signals in the middle; processes that leave the group; reuse of process numbers |
| lineage stores (`lineage.py`, `lineage_inference_store.py`) | claims, inferred records, a freshness index and its legacy copy | add, remove, record freshness, inspect | migration between files, two locks, unlocked readers |
| parent inference (`claude_lineage_inference.py`) | a shared cache of screens; per command, what it listed, screened, parsed and compared | list, screen, parse, compare, judge, look again, record | transcripts grow and the cache is shared while one corpus serves several sessions; clocks disagree or are missing |
| Codex client (`codex_app_server.py`) | one child process, one exchange | request, wait, page, terminate | a server that dies, stalls or repeats itself; threads renamed between two pages; broken pipes |
| configuration (`config.py`) | files layered from the system's to the project's | discover, load, merge, `config set` | keys that depend on each other across layers; files rewritten in place and unlocked |
| naming, location (`naming.py`, `location.py`) | none | candidate names, path templates | none: functions of strings |
| command line, output, doctor, sessions, agents | none | parse, render, inspect | the questions put to a user between a look and an act, which the models of the commands have |

They interact through calls within one process, and between processes only
through the repository, the directories and the stores: git's own checks and the
registry lock are the only synchronisation there is.

## Modules

`RegistryStore` is the abstract promise of the registry: a set of rows that
changes by one whole `StoreAdd`, `StoreRemove` or `StorePrune` at a time, next
to the directories the rows describe. A row carries a ghost field `inst`, which
of the directories that successively stood at its path it was written for; the
program cannot read it, the properties can.

`RegistryFile` is how `registry.py`, `storage.py` and `prune.py` keep the
promise: a process polls for the flock (`Expire`, `Acquire`, `GiveUp`), decodes
(`Decode`), decides on what it read and on the disk at that moment
(`StageAdd`/`RefuseAdd`, `StagePrune`, `StageRemove`/`RefuseRemove`, and
`Confirm`/`RefuseCleanup`/`Destroy` for the cleanup that runs git under the
lock), renames its temporary file over the registry (`Replace`) and unlocks. It
can fail or die at every stage. Directories come and go at any moment, because
whatever makes or deletes them does not take this lock. `seen` and `draft` are
the locals of the Python functions: what was decoded, what the temporary file
holds.

`GitWorktrees` is git, external to the repository, as the program uses it: a
worktree is a directory (`dir`) and an entry (`listed`), a branch is `ref`, and
each value is the fork command that made it, so that a property can tell a fork
from a later one at the same path, which neither git nor agent-fork can.
`git worktree add -b` is two steps, branch first, as git does it; `git branch
-D` refuses a branch whose entry is listed even when the directory is gone.

`ForkSystem` composes forks, cleanups, prunes and a user over `GitWorktrees` and
a registry taken at its word: an add or a remove is one step that needs the lock
free, which is what `RegistryFile` shows; a cleanup and a prune are seen to hold
the lock (`Lock`, `LockPrune`), as they run git under it, and keep the others
waiting. The
stages of a fork follow `fork()` in `pipeline.py`; `Handled` are the stages in
which the signal handlers are installed *and* the exception reaches the
rollback, `InterruptOutside` the others. A death leaves the running git command
to finish or not, because git runs in a session of its own. A cleanup follows
`cleanup()`: resolve, consent for an unbounded time, then, for an owned target,
lock, confirm, the three git commands, the row; a forced cleanup of an
unregistered target goes from consent straight to git. A command that is killed
outright loses the lock at once, while a git command it had started runs on: a
fork's ends or does not (`Die`), a cleanup's is an orphan (`KillCleanup`,
`OrphanEnds`) that takes what it finds there when it comes to it. Of failures
nothing is assumed away: any git command of a rollback or a cleanup may fail for
any reason, having done its work or not (`UndoFails`, `DestroyFails`), and so may
the compensation that takes a row back after a failed lineage claim, silently
(`Compensate`, which then marks the fork `stranded`).

`SetupHook` is `run_setup_hook` with its process group: a leader, children that
stay in the group or leave it and may hold the output open, a process number
the kernel may give to strangers once the group is empty, the two deadlines of
`_collect_output`, the SIGTERM/SIGKILL ladder of `_reap` with every probe a step
of its own, and the signal handler that runs the same ladder on top of whatever
it interrupted and then raises.

`WorkTree` is what the program reads from one working tree: a tree says what
each path is in the commit, in the index and on disk; `CollectInventory`,
`CaptureState`, `Same` and `Status` are `collect_inventory`, `capture_state`,
`compare_states` and git's short status over it. Content, mode and symlink
target of a file are one value. `IndexRecord` is what `git ls-files --stage`
tells of a path, and what is captured and compared: an intent-to-add entry has
the object of the empty file there, so that it cannot be told from an empty file
that is staged (`Blank` is the content of an empty file).

`StateCarry` is one fork between the first `git status` and the registry entry:
inventory and capture, the worktree, the three patches and the copies of
`materialize`, the rungs of `verify_fork` that concern state, includes, the
strict refusal, the hook and the last look at the skipped entries. Every git
command and every copied file is a step; between any two of them `Edit` may
change the parent (files, index, commit, readability), which is the point: the
code reads the parent live, several times, and must not be fooled.

`SubmoduleCarry` is the same for a chain of submodules, each inside the one
before: preflight, the frozen plan of every checkout, clone, urls, commit,
transport and copies from the parent as it is now, the comparison of child and
parent with the plan level by level. Each checkout is a tree of `WorkTree`; the
repository above sees only whether its gitlink shows (`LinkShows`). The patches
are one step here, since `StateCarry` takes them apart.

`LineageStores` is the parentage of Claude sessions: claims, inferred records,
and the freshness of a record in a state file and a legacy one. Analyses and
deletions take two locks in turn and change one file after the other; an
inspection reads without a lock, step by step, while transcripts appear. One
fault may strike anywhere: an error the code tolerates, a death, a file that
cannot be read. A store's locked read-modify-write is one step: `RegistryFile`
shows for the registry that it is atomic, and the other stores use the same
lock.

`CleanupGuards` is the other half of a cleanup, the work in the fork: pieces of
work are dirty, committed to the fork's branch, to another or to a detached
HEAD, pushed, or lost. The command asks git twice (`LookForChanges`,
`LookForCommits`), then waits for the lock and confirms the pair only
(`Reconfirm`), while the user edits, commits, resets, switches and pushes between
all of its steps.

`NameLookup` is what asking Codex about its sessions promises; `CodexExchange`
is the protocol that keeps the promise: the client's requests, its reads of as
much of the pipe as there is, its one deadline, its finally clause with both
half-second waits, and the broken pipes a dead server leaves. The server pages
through the threads in the order of their last update, while they are updated
and renamed, may die or be silent at any time and misbehaves once (an error,
malformed output, an answer twice, another thread, a page that starts again).

`ParentInference` is one run of `session claude-parent infer`: a transcript is a
sequence of versions, each a set of message nodes, of which more are written
while the command lists, screens (from its memo, from the shared cache, by a
scan that may be overtaken), parses, compares, judges and looks again. The
comparison itself (`SharedChain`, `Older`, `Best`, `Peers`) is computed on
message trees. It stops at the record; what becomes of records is
`LineageStores`.

`Settings` is `config.py`: files found one by one, loaded one by one and folded
with the environment and the flags (`Overlay` is one turn of the loop of
`resolve_config`), while runs of `config set` load, truncate and write them and
people edit them. Two runs of `config set` that overlap write one file through
two descriptors, each from its start: the shorter text comes to lie over the
longer (`Overlaid`), and what remains below it may set keys of its own or make
the file one that is refused. An editor may also put a new file in place of the
one a run has open, whose text is then lost (`Adrift`). `Declared` says what the
layers mean without the loop.

## Runs

| run | question | instance and bounds |
|---|---|---|
| `registry` | does the lock-file protocol keep the registry's promise, and does every wait end? | 2 processes, 4 possible rows: one name forked at two paths, at one of them twice in succession, and a version-1 row; 3 directories in all |
| `fork_all` | with everybody at work, what can hurt a finished fork, and what does a failed one leave or take? | 3 forks that share a path, a branch or a name in pairs, 1 forcing cleanup, 1 prune that holds the lock, and 1 signal, death or action of the user (`OneDisturbance`); one fork records a lineage claim |
| `fork_ends` | does an owned cleanup destroy only what its row was written for, does it leave nothing or its row, and does every command end? | 2 attempts at one fork, 2 cleanups, one forcing, 1 signal or death |
| `setup_hook` | is a hook always ended, and truthfully reported? | 2 children, 2 signals, every policy and eligibility |
| `state_carry` | what does a fork contain that succeeds, and why does a quiet one fail? | every state of one path, alone with 2 edits, and beside seven of a second, ignored one that an include may name with 1; every flag |
| `submodules` | the same for submodules in submodules | depth 2, a tracked and an untracked path each; every pair of trees and names nobody touches, four with 2 edits |
| `lineage` | what may the half-migrated freshness index say of a record? | 2 analyses, 1 deletion, 1 inspection, 2 children, 2 candidate universes; 1 change of the transcripts, 1 fault |
| `codex_exchange` | does the exchange keep `NameLookup`'s promise, whatever the server does, and leave no server? | 3 threads, 2 names, every order; 2 pages, 3 records, 2 pending messages; 1 update or renaming, 1 fault, 1 notice |
| `inference` | is a parent that is recorded the one a fresh comparison names? | 3 transcripts in 6 families, 3 sets of clocks, 3 orders of asking; 2 writes, 1 fault, 2 candidates |
| `settings` | does the loop over the layers mean what the layers say, and what does `config set` keep? | 2 files in every state, 2 drafts, an environment, flags; 2 runs of `config set`, 1 edit or death |
| `cleanup_guard` | does work that was there when cleanup looked survive it? | 2 pieces of work, every set of flags, 7 actions of the user |
| `settings_clobbered` | see Findings | one run of `config set` |

Two processes are enough for the registry because the lock admits one at a time
and the others only wait; the theorems remove the bound. The fork runs need two
attempts at the same path and branch (every identity confusion is between an
old and a new holder of one name) and a third fork that shares only a branch
with one and only a name with the other; one signal reaches each window, the
rollback of a fork that failed of its own accord included. Two signals, and a
signal together with an act of the user, are left to the theorems. `MaxSignals` and
`MaxMeddling` are the only counters bounded in the fork model, `MaxHookSignals`
in the hook model. Each fork and cleanup command runs once; a retry is another
member of `Maker` with the same pair.

Carrying works path by path, and what relates two paths is a deletion with a
skip and the order of the copies, so two paths are enough; two edits are what it
takes to change the parent and to change it back, which no comparison with the
parent alone can notice. The theorems remove both bounds, and had to: one of the
exceptions they found takes five edits. In `submodules` depth 2 is where a
submodule lies in one that is not the repository itself, and deeper ones are treated as the
second is. In `lineage` two analyses and a deletion reach every order of writers
of one entry, and the two analyses may also be of different children, which
share the files; a second fault changes the answer (see Findings). `limit`,
`MaxChanges` and `MaxFaults` are the bounds.

In `codex_exchange` three threads over two pages are what it takes for one to be
listed twice or to escape; two of them have a canonical id and one of those is
not flushed yet, so that every answer occurs. In `inference` three transcripts
are a child, its parent and the third that changes the judgement; the families
are a line of forks, siblings, two branches, copies with other times, a
collision of uuids and a circle of messages; two writes let a file change under
a scan and again after it. In `settings` the layering of more than two files is
the matter of the theorem. In `cleanup_guard` seven actions are enough for both
pieces to be written, committed, reset, moved off the branch and back;
`MaxMoves` is the bound, and the theorem removes it. `MaxTouches`, `MaxNotices`,
`MaxWrites` and `MaxFaults` bound what happens meanwhile in the others; the
limits `MaxPages`, `MaxRecords`, `MaxPending` and `MaxCandidates` are the code's
own, made small enough to be reached.

Deadlock is checked in `registry`; in the other modules the system ends when its
commands have. `lineage`, `settings` and `cleanup_guard` declare interchangeable
analyses, runs and pieces symmetric, which is sound as all their properties are
safety.

### Fairness

`RegistryFile` assumes weak fairness of polling only: a process that waits is
scheduled and its clock advances. Nothing is assumed of the lock's holder, which
runs git and may hang; that is why the wait is bounded. `ForkSystem` assumes
that a command that needs no answer from the user goes on (`Forks`, `Cleans`);
consent, signals, deaths and the user are not fair. `SetupHook` assumes that the
command's own steps, deadlines included, are taken, and nothing of the hook.
`CodexExchange` assumes weak fairness of the
client, whose waits are all bounded by its clock, and nothing of the server.
The other modules state safety only.

### What the properties say

* `SnapshotIsCurrent`, `OneRowPerSlot`, `RowsLeaveForCause`, `StoreSpecified`:
  no update is lost, a repository and a name pick one row, and a row leaves only
  because it was removed by its own command, pruned with consent while its
  directory was gone, or superseded by a fork of its own slot, even though the
  disk changes between the look at it and the rename.
* `DestroyedRowStillHeld`: a cleanup cannot find, after it destroyed the
  worktree, that its row is not the one it confirmed.
* `HarmIsConfined`: with everybody at work, a finished fork that is no longer
  whole shares its path or branch with one a cleanup or the user laid hands on;
  forks among themselves, however they fail, collide or are interrupted, and
  prunes do no harm. It needs git's own refusals: nothing in agent-fork
  serialises two forks before `add_entry`.
* `FailedForksLeaveNothing`: an undisturbed fork that fails, or is interrupted,
  and rolls back to the end left no directory, entry or branch, and no row
  unless its own removal failed (the lock was held too long, the file could not
  be written: the compensation gives up quietly, `pipeline.py:351`) or a signal
  came after the row was written and before the operation returned. What a
  rollback that does not come to its end leaves, and that nobody is told, is a
  finding (below).
* `RollbackTakesOnlyItsOwn`: an undisturbed rollback touches nothing but its own
  worktree and branch. Of a disturbed one this is not claimed: it goes by path,
  and after a forced cleanup it takes whatever fork has since been made there.
* `CleanupSparesOtherForks`, `CleanupIsWhole`: an owned cleanup goes by a row
  that is still there and destroys no worktree that another row was written for.
  From its confirmation on its row is there; when it is refused, fails, is
  stopped or dies the row stays, and when it reports success neither a row of
  that name and path nor anything of the fork that wrote it is left. Another
  fork's worktree may stand at the path by then, made after the first git command
  and before the row went: the lock does not stop `git worktree add`. The exception is a
  row of another name for the same path and branch, which is a finding (below),
  and nothing is claimed of the git command of a cleanup that was killed, which
  runs on without the lock; what it takes shows in `HarmIsConfined` as harm by
  that cleanup.
* `RetiredNumberIsNeverSignalled`, `InterruptedHookIsKilled`,
  `ClearedMeansCleared`, `HookStepEnds`: the latch holds across ladders that
  interrupt each other, an interrupted hook is killed before the rollback
  begins, the report of cleared descendants is true, and the step ends.
* `VerifiedForkIsExact`, `VerifiedSubmodulesAreExact`: whatever is edited
  meanwhile, a verified fork is the parent as it was captured, path by path.
  `VerifiedForkIsExact` speaks of index records, and has two exceptions besides,
  found by its proof; all three are told under Findings.
* `NothingIsOmittedSilently`, `SkippedEntriesStayUncopyable`,
  `SubmodulesAreAccountedFor`: even without verification every untracked entry
  and every submodule is in the fork or is named; what is named could not be
  copied to the end; no submodule keeps an origin that points into this machine.
* `OneEditKeepsRenamesWhole`: with one edit a skipped entry is never the new
  half of a rename whose old half is gone. With two it can be: the deletions
  that forbid a skip are those of an inventory older than the snapshot.
* `QuietFailuresAreExplained` (in both modules): a parent nobody touches fails
  to fork only for the reasons listed there. The list is what is interesting: it
  holds the two nested cases and the ignored file taken out of the index, told
  under Findings, an intent-to-add entry whose
  file is gone, an intent-to-add entry over a path of the commit (which
  `--no-verify` carries as a plain one), and changes in a submodule whose name
  contains `=`.
* `StandingWorkIsNotLost`: unpushed or uncommitted work that was in the fork when
  cleanup looked, and that no flag gives up, survives it, provided the fork was
  on its branch and not in use between the two looks. Both provisos were found
  by TLC: a soft reset between the looks moves a commit's work to where the
  first look has already been, and a branch that is not checked out is not
  looked at, though it may be back before the lock is taken.
* `LookupSpecified`, `NoServerIsLeft`, `LookupEnds`: a name resolves to a session
  that bore it while the lookup ran, and to one of several only if the others
  were touched meanwhile; an exchange that is over has reaped its server and no
  broken pipe ends the command, unless the server outlives SIGKILL for half a
  second, which escapes as an error of its own; and every exchange ends.
* `RecordedParentIsBest`, `CachedScreensAreExact`, `ParentsFormNoCircle`: the
  parent that is recorded is the one a comparison of all transcripts as they are
  at the last look would name; a screen in the cache names the messages of the
  version it is for; recorded parents lead to no circle, of any length, as long as
  file births are known of all sessions or of none. The first has two
  exceptions, both in the code: `evidence_stable` looks at the child and its
  parent only, so a third transcript written to since the corpus was listed may
  hold a better one, and a pair compared from its other side keeps the boundary
  of that side, which differs when the copies of a message carry other times.
* `SettingsAreLayered`, `SetsKeepTheRest`: a command that resolves its settings
  while no file changes has, key by key, what the highest source that decides
  the key says, and is refused exactly when a file it looks at is unreadable or
  the result unlawful; a file keeps what it holds for other keys through any
  runs of `config set` that neither overlap nor die while writing. Of runs that
  overlap, the last to write leaves its own key, unless the file is then refused.
* `RejectedStaysRejected`, `CorroborationIsNotLost`,
  `ReportedRemovalIsComplete`, `NoCircularWait`: an inspection calls a record
  current only by what the last analysis saw, unless a migration stopped half
  way; a record loses its freshness only to a removal of its own child (of a mere
  claim only if an analysis has written the record since the beginning) or to a
  failed write; a removal that reports success left nothing in either file; and
  the two locks are never waited for in a circle.

## Proofs

`RegistryFileProofs` proves, for any number of processes, rows, paths and
directories, `TypeCorrect`, `Safety` (the inductive invariant), `UniqueRows`,
`NoLostUpdate`, `NoLateRefusal`, `Causes` and `Implements` (the file implements
the store), from the two assumptions of the modules (`EntryAssumption`,
`ProcAssumption`). The argument: `LockInv` says that the process between flock
and unlock is the one the kernel names; hence what the holder read is the file
(`SnapshotIsCurrent`), because nobody else renames. What makes it inductive is
`DraftsAreLawful`: from the moment it is staged until it is renamed, a document
is what one operation of the store would make of the file, *whatever the disk
does in between*. That needs `RowsAreOfTheLived`: a row is written after its
directory was made, so a directory made later is never the row's own, and a row
whose directory is gone stays dead. Without it a prune could be undone by a
directory that comes back between the classification and the rename.

The registry's type correctness and the whole inductive invariant are proved and
not run again.

`SettingsProofs` proves `SettingsAreLayered` and `SetsKeepTheRest` for any number
of files, runs, drafts, requests and flags, from the four assumptions of
`Settings` (there is a file, the mark of an unset key is no value, and the two
keys that depend on each other are truth values). The step that matters is
`OverlayDeclares`: one turn of the loop over what the first `n` sources declare
gives what the first `n + 1` declare, so that `Merging` (the settings merged so
far are `Declared(sources, next - 1)`) is inductive. `Finding` and `Loading` say
which files have been passed while nothing changes; `Keeping` says that what a
run has loaded, unless it is out of date, is the file it will write over, with
everything the file owes. `OverlaidKeeps` is what is left of that when texts come
to lie over each other.

`RegistryFileProofs` also has the proof about `CleanupGuards`, the other half of a
cleanup: `StandingWorkIsNotLost`, for any number of pieces and of actions of the
user. Its invariant carries what the looks saw past the time
they were true: `LookingStill` (between the looks, unless the fork is in use, it
is as the first saw it) and `GuardsHeld` (past the guards, what stood in the fork
is pushed or waived; and what stood there can afterwards only move).

`ForkSystemProofs`, at its end, proves the three safety properties of the hook a
fork runs, for any number of children and signals; `MaxHookSignals \in Nat` is
the only assumption. They are about what a ladder knows of a group that changes under it, and rest on two
predicates that the kernel and the hook cannot undo: an empty group whose leader
is reaped stays empty (`Quiet`), and a group all of which was sent SIGKILL cannot
grow (`Doomed`). `HookInv` says what stands for them: the latch and a result
that claims a cleared group for `Quiet`, the rung after SIGKILL for `Doomed`, and
that a ladder about to signal has an open latch; `ControlInv` says where a
ladder can stand at all, since signals stack them.

`LineageStoresProofs` proves the four properties of the stores for any children,
candidates, commands and faults, from `LineageAssumption` (the commands are of
one kind each, the marks are no values). The index is two files changed one
after the other, so no property is about one state of one file. `StoresInv` says
who holds which lock at which step (`LockInv`: only a command that waits for
nothing holds the second lock), what an analysis or a deletion between the files
has done to the first (`WriteInv`, `DeleteInv`), what the files together say of a
child with a record and of the last analysis (`RecordInv`, `FoundInv`), and what
an inspection has seen so far (`SessionInv`).

`CodexExchangeProofs` proves `NoServerIsLeft` and that the exchange implements
`NameLookup`, for any threads, names, page contents, limits and faults, from
`ExchangeAssumption` (finitely many threads; names, threads and the refusals are
told apart). The fact that carries it is `Covered`: at any time every thread that
bears the name and was not touched is among the candidates, in the answer on its
way, or below the cursor. To say that, `ExchangeInv` must say that the request
under way is the only one and unanswered (`RequestInv`), and that everything in
the pipe is truthful (`MessageInv`). Each step is then mapped to a touch, the
answer, or a stutter of the lookup (`OtherStepsAreSilent`).

`ForkSystemProofs` proves the three properties of forks and the two of cleanups
for any number of commands, paths, branches, names, signals, deaths and acts of
the user, from `SystemAssumption` and `GitWorktrees`' own. Every command goes by
paths and branches, so the invariant says who made what stands there: `OwnAt`,
that what a fork made is there until it takes it back, or a hand was laid on its
path or branch; `RowsInv`, that a row is of a fork that has come that far, that a
finished fork has one unless disturbed, and that one rolled back has one only
when it is stranded; `PlanAt`, that an owned plan names a row some fork wrote, which a
confirmation under the lock makes true until the lock is given up; a killed
cleanup's git acts without any of this, and is why harm is said to be confined to
paths and branches that a hand was laid on. Steps that leave git, the rows or the lock
alone are dealt with once (`QuietMove`, `Losing`, `Receding`, `Spared`).

`StateCarryProofs` proves all six properties of `StateCarry` for any paths and
contents, any parent, any flags and any number of edits at any moment, from
`TreeAssumption` (the marks and contents are told apart, and ignored paths are
paths) and `CarryAssumption` (forks start from trees). There are three
invariants, all checked by TLC before they were proved.

* `CarryInv` holds of every fork. Transport reads a parent that moves, so it
  says nothing of carried paths while the child is filled, only of what is left
  out: what the flags keep off the lists (`ListsInv`), what the capture left out
  is skipped (`CaptureInv`), each listed path is still to be copied, in
  the child or skipped (`TodoInv`, `CopiesInv`), a sentinel that matches now has
  matched all along (`SkipsInv`), and a skipped file that was not touched is out
  of reach of every patch but a deletion (`LeftInv`). Then `RecaptureIsExact`: a
  child that compares equal is exact path by path; and `ExactInv`: nothing
  afterwards undoes that, as includes go where nothing is.
* `QuietInv` is for a parent nobody touches. Everything read of it is the same
  function of it (`ReadInv`), and the child is known facet by facet after every
  patch and copy (`FillInv`); so the statuses and the captures agree (`Alike...`)
  and no rung fails (`EndInv`).
* `WholeInv` is for one edit: whatever was missing from the parent at the first
  status is missing at the last, unless the capture saw the whole commit or the
  two statuses differ and the fork is doomed.

`SubmoduleCarryProofs` proves all four properties of `SubmoduleCarry` for a chain
of any depth, any paths, contents, names and flags, and any number of edits, from
`TreeAssumption` and `SubmoduleAssumption`: in a submodule only `Source` is
tracked and never by `--intent-to-add`, a checkout lies in one that is there, and
starts with urls its user gave it. Edits keep that (`ParentInv`).

* `CarryInv` holds of every fork. `ProgressInv` says that the levels are carried
  one after the other and that one that is skipped ends them, so that a level is
  carried exactly when no skipped one is at or above it; `ChildInv` and `PlansInv`
  say that a child's checkout can be read and that nothing ignored is copied.
  Nothing is said of contents while the child is filled from a parent that moves.
  `AgreementIsExact` starts where it is compared: a child whose listing and capture
  agree with the plan has what the plan holds, path by path; and `ExactInv` says
  that this stands of every level checked so far, to the end.
* `FrozenInv` is for a parent nobody touches: each plan is what its checkout was
  and is (`Frozen`), level by level, and no cold checkout holds anything. It is
  inductive with `CarryInv` only, since a level is read only below one that is there.
* `QuietInv` is for one where nothing is in the way besides (`Undisturbed`).
  `FilledInv` knows the child after the clone, the patches and the copies
  (`AtCommit`, `HasTracked`, `HasAll`), and that what is left out is named;
  `VerdictInv` that every comparison agrees. Between them stand `CapturesAgree` (a
  checkout filled from another is captured as it is) and `LinksAgree`: a gitlink
  shows in the child what it shows in the parent, because what was not carried is
  absent or unchanged, and because below the first level nothing was skipped. That
  last condition is the exception `SkipBelowTheFirst`: without it the lemma is
  false, and so is the code's promise (see Findings).

`ParentInferenceProofs` proves all three properties of `ParentInference` for any
number of sessions, transcripts of any length and shape, any clocks, requests,
writes, faults and limits, from `InferenceAssumption`: transcripts are finite sets of messages
in which a uuid names one, as the parser ensures; births are known of all
sessions or of none. `InferenceInv` says what each memo knows of a transcript that
was not written to since the corpus was listed (`MemoInv`), that a compared pair
was compared as it was parsed, from one of its sides (`PairsInv`), that a recorded
parent is older by every clock there is (`RecordsInv`), and what has become of
every transcript listed (`OthersInv`): it was written to, is still to come, shares
no message that counts, or was compared and, if related, is a candidate. That is
what `RecordedParentIsBest` needs: the best of the candidates is the best of all.

* `ScreenedOut` connects the screen with the comparison: what the screen drops
  without a hit is unrelated, as a related pair shares a message that counts.
* `ParentsFormNoCircle` follows from `NoDescent`: from child to parent one and the
  same clock falls, the births where there are births, else the first prompts, so
  that no session of a circle could have its least value.
* `GreatestOf`, `SortedHasAll` and `LineWithin` say that the `CHOOSE`s of the module
  choose something (a greatest candidate, an enumeration of the listing, the end
  of a line) and that a line lies within what two transcripts share.

Induction is where the provers end: the library's induction theorems take an
operator as a parameter. `LineWithin` and the other facts about recursive functions
and sequences are proved by a least counterexample instead: if a claim failed for some
number it would fail for a least one, which its predecessor refutes (`LeastNat`,
`LeastFinite`). This gives what the properties need, that the line of a message
is a subset of its tree; how long it is stays with TLC.

What is proved is for every value of the constants; the runs show the same on
their instances, where the mutants show that the statements are not empty. Every
safety property of a passing run is a theorem. Only model-checked is liveness
(`WaitEnds`, `ForksEnd`, `CleanupsEnd`, `HookStepEnds`, `LookupEnds`), since the
provers reach neither fairness nor ENABLED.

## Findings

`settings_clobbered` is a run that TLC refutes, and was reproduced with the
program: `config set agents.codex.session_name_resolution true` in a file that
has no `extra_args` writes `extra_args = []` next to it, because
`[agents.codex]` is written whole (and `load_config` reads a table without them
as one with none). A lower layer's `extra_args` are hidden from then on, although
the two arrays are "readable but not settable from the CLI" (README.md:659-660)
and `config set` is tested to leave other keys alone
(docs/testing/TEST-MATRIX.md:67).

Part of the properties' exceptions rather than runs of their own: a rollback that fails is not
reported at all, though REQ-22 (REQUIREMENTS.md:134) asks to "emit the exact
manual-recovery command when cleanup itself fails", because `run_with_rollback`
(`rollback.py:27`) drops what `rollback_worktree` returns and raises what started
the rollback; the loser of a
race for a path leaves its branch behind and reports that nothing was created; a
signal after `add_entry` rolls back worktree and branch and leaves the row, since
the compensation catches `Exception` only; an untracked repository in the parent
makes every verified fork fail, because capture records it, the copy skips it
and the comparison misses it; so does an untracked file that cannot be read in a
submodule of a submodule, because only gitlinks of the repository itself are
exempt (`_submodule_roots_with_entry_skips`). The last two were reproduced with
the program.

The proofs found more, where a statement TLC had passed on its instance could not
be proved as it stood; each led to a larger instance that TLC refutes, and then
to the exception the property now names:

* A tracked file that is `git rm --cached` and ignored makes every fork without
  `--with-ignored` fail verification ("file became absent"): it is in the
  snapshot as a staged path, and neither a patch nor a copy carries its content
  (`content.py:284` wants one domain for transport and verification). Reproduced
  with the program.
* An ignored file added with `git add -N -f` after the inventory comes with the
  unstaged patch, which is made for the entries of that moment
  (`materialize.py:333`). When the entry is given up again nothing notices, since
  without `--with-ignored` nobody looks at ignored files.
* A verified fork may have an empty file staged that the parent, by the time it
  is captured, has intent-to-add (or the other way about): the two have one index
  record (`content.py:143-162`), so only `git status` tells them apart, in the two
  moments it is read.
* A skipped path may be missing from a verified fork although its commit has it:
  five edits commit it, untrack and close it between the inventory and the
  capture, and put the deletion back before the last status. No rung looks at a
  skipped path, or at the parent's HEAD.
* A cleanup takes the worktree of a fork of another name: a row left behind by a
  rollback that could not take it back names the path and branch at which that
  fork was made later. `cleanup.py:257` matches rows by path and branch, while
  its docstring (`cleanup.py:242-245`) refuses a row of "a fork that no longer
  exists".
* Four sessions can form a circle of recorded parents, if file births are known
  of some and first prompts of the others, though no two of them contradict each
  other. `InferenceAssumption` says that a platform reports births or does not.

Also seen while modelling: a signal before the handlers
are installed or after the operation returned is not rolled back; a process a
returned hook left in its group is not reached by an interruption
(`include.py:388` counts on it); with two faults, a migration that could not
empty the legacy file and a deletion that failed between the files, a rejected
record is reported current again (REQUIREMENTS.md:195 rules that out); with
`XDG_STATE_HOME` and `XDG_CACHE_HOME` equal, an analysis waits for a lock it
holds itself.

## Not modelled

In the registry: two rows equal in every field (the token would be ambiguous;
`created_at` keeps them apart), and a path that is unmounted rather than gone.
In git: `git switch` inside a fork, detached worktrees, other users of the
repository beyond directories made and deleted. `killpg` returning EPERM (macOS)
is not modelled. In `ForkSystem` the work a cleanup looks for is a refusal that
may happen; `CleanupGuards` has the work and leaves out the rest. Ignored files
are in neither look and not in the model.

Beyond what is said above, these real hazards are exceptions of the properties,
not checked by them: what moves in a fork between cleanup's two looks; what a
rollback that failed has left, told to nobody; a process that lives on in the group
of a hook that returned; two edits that tear a rename from its other half; the
nested submodule with a skip; two faults between the files of the lineage index;
a third transcript that grows, or a pair compared from its other side; a reader
that finds a settings file truncated, and what overlapping runs of `config set`
leave below their own key.

In the carry: a patch applies only if its old side matches exactly; a copy is
one step (a file written meanwhile is torn, which verification notices and an
include does not); the order of the copies is free; what the hook does to the
child; renames as git detects them. `lstat` fails for untracked paths only. A reading of the parent (`CollectInventory`, `CaptureState`) is one instant,
though it takes up to eight git commands; `ApplyIntentToAdd` is one step, though it is a
loop of git commands over the paths; an edit falls before or after them. In
submodules: unmerged indexes (refused with the rest of preflight), intent-to-add
and ignored entries, gitlinks that are staged or removed, checkouts removed
while they are read, local configuration, the attached-branch rung (the child is
always detached) and the wording of notices.

In the lineage stores: transcripts are listed and read in one step, the
fingerprints of a record's sources are one number, and an analysis whose
freshness could not be written does not count as the last one. `EvidenceStable`
looks at all transcripts where `claude_lineage_inference.py:1130` looks at the
child and its parent; a change between that look and `add` reaches the same
states.

In parent inference: a session has one file; two records of one uuid inside a
transcript (they end the analysis, as a circle does); budgets of bytes, records
and edges other than the number of candidates and the time, which end an
analysis in the same way; what makes a screen uncertain is a constant. The
comparison of a pair is one step, since both sides are in memory.

In the Codex exchange: stderr, and the bytes of a line (a message is read whole
or not at all; the limits on bytes and on pending messages are one). In
settings: keys that take part in no interaction beyond the ordinary one, the
wording and provenance of findings, `mkdir`; a truncated file is the empty file
the code accepts, and where the text that lies below another one is cut is left open. A run of `config set` is given values that pass its own
checks.

Naming and location compute strings from their arguments and keep no state; the
collisions of names and paths they can produce are where `ForkSystem` starts.
The doctor and agent detection only read, the command line parses and renders;
a model of them would restate their tables.

## Plan

1. Done: the registry, its refinement and proof; forks, cleanups, prunes and
   signals over git; the guards of cleanup, proved; the setup hook; state carry
   and verification; submodules; the lineage stores and the inference that feeds
   them; the Codex exchange and its refinement; settings, proved.
2. Done: every safety property of every component as a theorem, and both
   refinements (the registry's file of its store, the exchange of the lookup).
3. `ParentInference` and `LineageStores` composed, so that what is recorded and
   what is said of it are one history; `CleanupGuards` inside `ForkSystem`.
4. Candidate names and path templates freed of their strings, if a property is
   found that their tests do not already state.
