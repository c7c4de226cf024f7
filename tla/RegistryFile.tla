---------------------------- MODULE RegistryFile ----------------------------
(***************************************************************************)
(* The registry as registry.py, storage.py and prune.py implement it: one  *)
(* JSON file, replaced whole by rename, edited by processes that each take *)
(* an flock on a sibling lock file with a bounded wait, read the file, look*)
(* at the disk, write a temporary file and rename it over the old one.     *)
(*                                                                         *)
(* A process runs one command at a time (job).  The kernel releases the    *)
(* lock of a process that dies; whatever temporary file it leaves behind   *)
(* is never read.  Directories come and go at any moment: other forks, the *)
(* user and other programs do not take the registry lock.                  *)
(***************************************************************************)
EXTENDS RegistryStore, FiniteSets

CONSTANTS
    Proc,       \* processes that run agent-fork commands
    Nobody      \* the lock is free

ASSUME ProcAssumption == Nobody \notin Proc

(***************************************************************************)
(* add        add_entry, by fork                                           *)
(* remove     remove_entry, by a fork that failed after add                *)
(* cleanup    cleanup of an owned fork, before it destroys anything        *)
(* destroyed  the same, its worktree destroyed and its row still to remove *)
(* prune      apply_prune, with the rows the user agreed to                *)
(***************************************************************************)
Kind == {"add", "remove", "cleanup", "destroyed", "prune"}
RemoveKind == {"remove", "destroyed"}

(***************************************************************************)
(* idle     no registry call in progress                                   *)
(* waiting  in the polling loop of registry_lock                           *)
(* held     flock granted, file not read yet                               *)
(* read     rows decoded into seen, disk not looked at yet                 *)
(* destroy  cleanup has confirmed its row and is about to run git          *)
(* staged   the new document is in a temporary file                        *)
(* leaving  in the finally clause that unlocks                             *)
(***************************************************************************)
Stage == {"idle", "waiting", "held", "read", "destroy", "staged", "leaving"}
Holding == {"held", "read", "destroy", "staged", "leaving"}

NoJob == [kind |-> "remove", rows |-> {}]

VARIABLES
    holder,     \* whose open descriptor holds the flock
    stage,      \* where each process is
    job,        \* the command each process runs: kind, and the rows it is about
    expired,    \* the deadline of the process's wait has passed
    seen,       \* the rows the process last decoded
    draft       \* the rows in the process's temporary file

disk == <<at, used>>
procs == <<stage, job, expired, seen, draft>>
vars == <<file, at, used, holder, stage, job, expired, seen, draft>>

-----------------------------------------------------------------------------
Init ==
    /\ StoreInit
    /\ holder = Nobody
    /\ stage = [p \in Proc |-> "idle"]
    /\ job = [p \in Proc |-> NoJob]
    /\ expired = [p \in Proc |-> FALSE]
    /\ seen = [p \in Proc |-> {}]
    /\ draft = [p \in Proc |-> {}]

Moves(p, s) == stage' = [stage EXCEPT ![p] = s]

\* The call returns or dies, and its locals with it.
Ends(p) ==
    /\ Moves(p, "idle")
    /\ job' = [job EXCEPT ![p] = NoJob]
    /\ expired' = [expired EXCEPT ![p] = FALSE]
    /\ seen' = [seen EXCEPT ![p] = {}]
    /\ draft' = [draft EXCEPT ![p] = {}]

\* What prune calls missing: rows with no repository, rows whose path is bare.
Missing(rows) == {r \in rows : r.repo = NoRepo \/ ~Exists(r.path)}

\* The rows occupied_fork finds that are not the new row's own worktree.
Occupying(rows, e) ==
    {r \in rows : SameSlot(r, e) /\ Exists(r.path) /\ ~SameWorktree(r, e)}

-----------------------------------------------------------------------------
\* A command reaches its call of the registry.  Its arguments were chosen
\* from an earlier, unlocked look at the file and the disk.
Begin(p, kind, rows) ==
    /\ stage[p] = "idle"
    /\ Moves(p, "waiting")
    /\ job' = [job EXCEPT ![p] = [kind |-> kind, rows |-> rows]]
    /\ UNCHANGED <<file, disk, holder, expired, seen, draft>>

\* The fork command registers the directory it has created.
BeginAdd(p, e) == e.repo # NoRepo /\ e.inst \in used /\ Begin(p, "add", {e})

\* The fork command takes back a row it wrote.
BeginRemove(p, e) == e.repo # NoRepo /\ e.inst \in used /\ Begin(p, "remove", {e})

\* resolve_cleanup_target has matched a row with a live worktree.
BeginCleanup(p, e) ==
    /\ e \in file /\ e.repo # NoRepo /\ Exists(e.path)
    /\ Begin(p, "cleanup", {e})

\* The user agreed to what plan_prune listed.
BeginPrune(p) == Missing(file) # {} /\ Begin(p, "prune", Missing(file))

\* Time passes in the polling loop.
Expire(p) ==
    /\ stage[p] = "waiting" /\ ~expired[p]
    /\ expired' = [expired EXCEPT ![p] = TRUE]
    /\ UNCHANGED <<file, disk, holder, stage, job, seen, draft>>

\* Mutant: flock is taken shared, so two processes may edit at once.
AcquireShared(p) ==
    /\ stage[p] = "waiting"
    /\ holder' = p
    /\ Moves(p, "held")
    /\ expired' = [expired EXCEPT ![p] = FALSE]
    /\ UNCHANGED <<file, disk, job, seen, draft>>

\* flock(LOCK_EX | LOCK_NB) succeeds.
Acquire(p) ==
    /\ stage[p] = "waiting" /\ holder = Nobody
    /\ holder' = p
    /\ Moves(p, "held")
    /\ expired' = [expired EXCEPT ![p] = FALSE]
    /\ UNCHANGED <<file, disk, job, seen, draft>>

\* Mutant: the deadline is computed but never compared.
GiveUpNever(p) == FALSE /\ UNCHANGED vars

\* flock fails after the deadline: RegistryBusyError, and the finally clause
\* unlocks a descriptor that holds nothing.
GiveUp(p) ==
    /\ stage[p] = "waiting" /\ holder # Nobody /\ expired[p]
    /\ Ends(p)
    /\ UNCHANGED <<file, disk, holder>>

\* add_entry and apply_prune decode the file.
Decode(p) ==
    /\ stage[p] = "held" /\ job[p].kind \in {"add", "prune"}
    /\ seen' = [seen EXCEPT ![p] = file]
    /\ Moves(p, "read")
    /\ UNCHANGED <<file, disk, holder, job, expired, draft>>

\* add_entry refuses: a row of this name is still on disk elsewhere.
RefuseAdd(p) ==
    /\ stage[p] = "read" /\ job[p].kind = "add"
    /\ \E e \in job[p].rows : Occupying(seen[p], e) # {}
    /\ Moves(p, "leaving")
    /\ UNCHANGED <<file, disk, holder, job, expired, seen, draft>>

Stages(p, rows) ==
    /\ draft' = [draft EXCEPT ![p] = rows]
    /\ Moves(p, "staged")
    /\ UNCHANGED <<file, disk, holder, job, expired, seen>>

\* Mutant: the new row is appended and the row of its slot stays.
StageAddAppending(p) ==
    /\ stage[p] = "read" /\ job[p].kind = "add"
    /\ \E e \in job[p].rows :
          /\ Occupying(seen[p], e) = {}
          /\ Stages(p, seen[p] \cup {e})

\* Mutant: preflight's occupied_fork is trusted and not repeated here.
StageAddUnchecked(p) ==
    /\ stage[p] = "read" /\ job[p].kind = "add"
    /\ \E e \in job[p].rows : Stages(p, {r \in seen[p] : ~SameSlot(r, e)} \cup {e})

\* add_entry drops the row of the slot and appends the new one.
StageAdd(p) ==
    /\ stage[p] = "read" /\ job[p].kind = "add"
    /\ \E e \in job[p].rows :
          /\ Occupying(seen[p], e) = {}
          /\ Stages(p, {r \in seen[p] : ~SameSlot(r, e)} \cup {e})

\* apply_prune classifies again and drops what is still missing of what was
\* agreed; it decodes the file a second time to do so.
StagePrune(p) ==
    /\ stage[p] = "read" /\ job[p].kind = "prune"
    /\ LET removing == Missing(seen[p]) \cap job[p].rows
       IN  IF removing = {}
           THEN Moves(p, "leaving")
                /\ UNCHANGED <<file, disk, holder, job, expired, seen, draft>>
           ELSE Stages(p, file \ removing)

\* cleanup under the lock: its row is still there and still live.
Confirm(p) ==
    /\ stage[p] = "held" /\ job[p].kind = "cleanup"
    /\ job[p].rows \subseteq file
    /\ \A e \in job[p].rows : Exists(e.path)
    /\ seen' = [seen EXCEPT ![p] = file]
    /\ Moves(p, "destroy")
    /\ UNCHANGED <<file, disk, holder, job, expired, draft>>

\* cleanup_registry_stale: the row is gone, or nothing live matches it (the
\* directory may stand there on another branch).
RefuseCleanup(p) ==
    /\ stage[p] = "held" /\ job[p].kind = "cleanup"
    /\ Moves(p, "leaving")
    /\ UNCHANGED <<file, disk, holder, job, expired, seen, draft>>

\* Mutant: the lock is held for the check and the removal, not in between.
DestroyUnlocked(p) ==
    /\ stage[p] = "destroy"
    /\ \E e \in job[p].rows : at' = [at EXCEPT ![e.path] = Nothing]
    /\ job' = [job EXCEPT ![p].kind = "destroyed"]
    /\ Moves(p, "held")
    /\ holder' = Nobody
    /\ UNCHANGED <<file, used, expired, seen, draft>>

\* git worktree remove, prune and branch -D have run; remove_locked is left,
\* the same code remove_entry runs.
Destroy(p) ==
    /\ stage[p] = "destroy"
    /\ \E e \in job[p].rows : at' = [at EXCEPT ![e.path] = Nothing]
    /\ job' = [job EXCEPT ![p].kind = "destroyed"]
    /\ Moves(p, "held")
    /\ UNCHANGED <<file, used, holder, expired, seen, draft>>

\* remove_locked: require_single, decode, drop the one row.
StageRemove(p) ==
    /\ stage[p] = "held" /\ job[p].kind \in RemoveKind
    /\ job[p].rows \subseteq file
    /\ seen' = [seen EXCEPT ![p] = file]
    /\ draft' = [draft EXCEPT ![p] = file \ job[p].rows]
    /\ Moves(p, "staged")
    /\ UNCHANGED <<file, disk, holder, job, expired>>

\* require_single: the row is not there.
RefuseRemove(p) ==
    /\ stage[p] = "held" /\ job[p].kind \in RemoveKind
    /\ ~(job[p].rows \subseteq file)
    /\ Moves(p, "leaving")
    /\ UNCHANGED <<file, disk, holder, job, expired, seen, draft>>

\* os.replace: the temporary file becomes the registry.
Replace(p) ==
    /\ stage[p] = "staged"
    /\ file' = draft[p]
    /\ Moves(p, "leaving")
    /\ UNCHANGED <<disk, holder, job, expired, seen, draft>>

\* An operating-system or git error while the lock is held.
Fail(p) ==
    /\ stage[p] \in Holding \ {"leaving"}
    /\ Moves(p, "leaving")
    /\ UNCHANGED <<file, disk, holder, job, expired, seen, draft>>

\* LOCK_UN and close.
Unlock(p) ==
    /\ stage[p] = "leaving"
    /\ holder' = Nobody
    /\ Ends(p)
    /\ UNCHANGED <<file, disk>>

\* The process dies; the kernel closes its descriptor.
Die(p) ==
    /\ stage[p] # "idle"
    /\ holder' = IF holder = p THEN Nobody ELSE holder
    /\ Ends(p)
    /\ UNCHANGED <<file, disk>>

\* Directories come and go; only the pattern of what exists where matters.
Environment ==
    /\ \E p \in Path : RemoveDirectory(p) \/ \E i \in Inst : MakeDirectory(p, i)
    /\ UNCHANGED <<holder, procs>>

\* What a process does of its own accord once its call has begun.
Locked(p) ==
    \/ Decode(p) \/ RefuseAdd(p) \/ StageAdd(p) \/ StagePrune(p)
    \/ Confirm(p) \/ RefuseCleanup(p) \/ Destroy(p)
    \/ StageRemove(p) \/ RefuseRemove(p) \/ Replace(p) \/ Unlock(p)

Polling(p) == Expire(p) \/ Acquire(p) \/ GiveUp(p)

Start(p) ==
    \/ \E e \in Entry : BeginAdd(p, e) \/ BeginRemove(p, e) \/ BeginCleanup(p, e)
    \/ BeginPrune(p)

Next ==
    \/ \E p \in Proc : Start(p) \/ Polling(p) \/ Locked(p) \/ Fail(p) \/ Die(p)
    \/ Environment

Spec == Init /\ [][Next]_vars

\* The scheduler runs a process that polls, and nothing more is assumed: a
\* process that holds the lock may hang in git for ever.
FairSpec == Spec /\ \A p \in Proc : WF_vars(Polling(p))
-----------------------------------------------------------------------------
\* Every variable keeps the shape the code gives it.
TypeOK ==
    /\ file \in SUBSET Entry
    /\ at \in [Path -> Inst \cup {Nothing}]
    /\ used \in SUBSET Inst
    /\ holder \in Proc \cup {Nobody}
    /\ stage \in [Proc -> Stage]
    /\ job \in [Proc -> [kind : Kind, rows : SUBSET Entry]]
    /\ expired \in [Proc -> BOOLEAN]
    /\ seen \in [Proc -> SUBSET Entry]
    /\ draft \in [Proc -> SUBSET Entry]

\* Two rows never share a repository and a name, so a name picks one fork
\* (add_entry replaces the row of its slot, whatever raced it).
OneRowPerSlot == \A r, s \in file : SameSlot(r, s) => r = s

\* What a process decided on is what the file still says when it writes:
\* no other call's update is lost (registry_lock around every read-modify-write).
SnapshotIsCurrent ==
    \A p \in Proc : stage[p] \in {"read", "destroy", "staged"} => seen[p] = file

\* A cleanup that is about to destroy a worktree, or has destroyed it, never
\* finds its row changed underneath it: the refusal of require_single comes
\* before the destruction or not at all.
DestroyedRowStillHeld ==
    \A p \in Proc :
        \/ stage[p] = "destroy"
        \/ stage[p] = "held" /\ job[p].kind = "destroyed"
        => job[p].rows \subseteq file

\* Why a row may leave the file when p writes: it is the one row p was asked
\* to remove; or the user agreed to prune it and its directory is gone (or it
\* names no repository); or p registers its slot again, and the row's own
\* directory is gone or is the very worktree p registers.
HasCause(p, r) ==
    \/ job[p].kind \in RemoveKind /\ job[p].rows = {r}
    \/ job[p].kind = "prune" /\ r \in job[p].rows /\ (r.repo = NoRepo \/ ~Alive(r))
    \/ job[p].kind = "add"
       /\ \E e \in job[p].rows : SameSlot(r, e) /\ (~Alive(r) \/ SameWorktree(r, e))

\* No row leaves the registry without such a cause, however many commands
\* race, die or give up, and however directories come and go between a
\* command's look at the disk and its rename.
RowsLeaveForCause ==
    [][\A r \in file \ file' : \E p \in Proc : stage[p] = "staged" /\ HasCause(p, r)]_vars

\* A command that waits for the lock gets it or reports the registry busy,
\* even when the holder hangs (DEFAULT_LOCK_TIMEOUT).
WaitEnds == \A p \in Proc : stage[p] = "waiting" ~> stage[p] # "waiting"

\* Seen through the renames alone, the file is the abstract store.
Store == INSTANCE RegistryStore
StoreSpecified == Store!StoreSpec

-----------------------------------------------------------------------------
(***************************************************************************)
(* Why all this holds: the parts of the inductive invariant.               *)
(***************************************************************************)

\* The process between flock and unlock is the one the kernel names.
LockInv == \A p \in Proc : stage[p] \in Holding <=> holder = p

\* A command is about one row, except prune; each kind has its own stages.
JobInv ==
    \A p \in Proc :
        /\ stage[p] # "idle" /\ job[p].kind # "prune" => \E e \in Entry : job[p].rows = {e}
        /\ stage[p] = "read" => job[p].kind \in {"add", "prune"}
        /\ stage[p] = "destroy" => job[p].kind = "cleanup"
        /\ stage[p] = "waiting" => job[p].kind # "destroyed"

\* A row is written after its directory was made, so a directory made later
\* is never the row's own: a row that is dead stays dead.
RowsAreOfTheLived ==
    /\ \A e \in file : e.inst \in used
    /\ \A p \in Proc : stage[p] # "idle" /\ job[p].kind = "add" =>
                          \A e \in job[p].rows : e.inst \in used

\* A staged document is what one operation of the store would make of the
\* file, from the moment it is written to the moment it is renamed, whatever
\* the disk does meanwhile.
LawfulAdd(p) ==
    \E e \in job[p].rows :
        /\ draft[p] = {r \in file : ~SameSlot(r, e)} \cup {e}
        /\ \A r \in file : SameSlot(r, e) => ~Alive(r) \/ SameWorktree(r, e)

LawfulPrune(p) ==
    /\ draft[p] \subseteq file
    /\ file \ draft[p] # {}
    /\ \A r \in file \ draft[p] : r \in job[p].rows /\ (r.repo = NoRepo \/ ~Alive(r))

LawfulRemove(p) ==
    /\ job[p].rows \subseteq file
    /\ draft[p] = file \ job[p].rows

DraftsAreLawful ==
    \A p \in Proc : stage[p] = "staged" =>
        \/ job[p].kind = "add" /\ LawfulAdd(p)
        \/ job[p].kind = "prune" /\ LawfulPrune(p)
        \/ job[p].kind \in RemoveKind /\ LawfulRemove(p)

Inductive ==
    /\ TypeOK
    /\ LockInv
    /\ JobInv
    /\ RowsAreOfTheLived
    /\ OneRowPerSlot
    /\ SnapshotIsCurrent
    /\ DestroyedRowStillHeld
    /\ DraftsAreLawful
=============================================================================
