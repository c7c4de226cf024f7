------------------------- MODULE RegistryFileProofs -------------------------
(***************************************************************************)
(* The registry protocol keeps its promises for any number of processes,   *)
(* rows, paths and directories: the inductive invariant of RegistryFile,   *)
(* the safety properties that follow from it, and the step simulation that *)
(* makes the lock-file protocol an implementation of RegistryStore.        *)
(***************************************************************************)
EXTENDS RegistryFile, CleanupGuards, TLAPS

USE EntryAssumption, ProcAssumption

\* The registry begins well typed.
LEMMA TypeInit == Init => TypeOK
  BY DEF Init, StoreInit, TypeOK, NoJob, Kind, Stage

\* Every step of every process keeps the types.
LEMMA TypeStep == TypeOK /\ [Next]_vars => TypeOK'
<1> SUFFICES ASSUME TypeOK, [Next]_vars PROVE TypeOK'
  OBVIOUS
<1> USE DEF TypeOK
<1>1. ASSUME NEW p \in Proc, NEW e \in Entry, BeginAdd(p, e) PROVE TypeOK'
  BY <1>1 DEF BeginAdd, Begin, Moves, Stage, Kind, disk
<1>2. ASSUME NEW p \in Proc, NEW e \in Entry, BeginRemove(p, e) PROVE TypeOK'
  BY <1>2 DEF BeginRemove, Begin, Moves, Stage, Kind, disk
<1>3. ASSUME NEW p \in Proc, NEW e \in Entry, BeginCleanup(p, e) PROVE TypeOK'
  BY <1>3 DEF BeginCleanup, Begin, Moves, Stage, Kind, disk
<1>4. ASSUME NEW p \in Proc, BeginPrune(p) PROVE TypeOK'
  <2>1. Missing(file) \in SUBSET Entry
    BY DEF Missing
  <2> QED BY <1>4, <2>1 DEF BeginPrune, Begin, Moves, Stage, Kind, disk
<1>5. ASSUME NEW p \in Proc, Expire(p) PROVE TypeOK'
  BY <1>5 DEF Expire, disk
<1>6. ASSUME NEW p \in Proc, Acquire(p) PROVE TypeOK'
  BY <1>6 DEF Acquire, Moves, Stage, disk
<1>7. ASSUME NEW p \in Proc, GiveUp(p) PROVE TypeOK'
  BY <1>7 DEF GiveUp, Ends, Moves, NoJob, Kind, Stage, disk
<1>8. ASSUME NEW p \in Proc, Decode(p) PROVE TypeOK'
  BY <1>8 DEF Decode, Moves, Stage, disk
<1>9. ASSUME NEW p \in Proc, RefuseAdd(p) PROVE TypeOK'
  BY <1>9 DEF RefuseAdd, Moves, Stage, disk
<1>10. ASSUME NEW p \in Proc, StageAdd(p) PROVE TypeOK'
  <2>1. PICK e \in job[p].rows : Stages(p, {r \in seen[p] : ~SameSlot(r, e)} \cup {e})
    BY <1>10 DEF StageAdd
  <2>2. {r \in seen[p] : ~SameSlot(r, e)} \cup {e} \in SUBSET Entry
    BY <2>1
  <2> QED BY <2>1, <2>2 DEF Stages, Moves, Stage, disk
<1>11. ASSUME NEW p \in Proc, StagePrune(p) PROVE TypeOK'
  <2> DEFINE removing == Missing(seen[p]) \cap job[p].rows
  <2>1. CASE removing = {}
    BY <1>11, <2>1 DEF StagePrune, Moves, Stage, disk
  <2>2. CASE removing # {}
    <3>1. Stages(p, file \ removing)
      BY <1>11, <2>2 DEF StagePrune
    <3> QED BY <3>1 DEF Stages, Moves, Stage, disk
  <2> QED BY <2>1, <2>2
<1>12. ASSUME NEW p \in Proc, Confirm(p) PROVE TypeOK'
  BY <1>12 DEF Confirm, Moves, Stage, disk
<1>13. ASSUME NEW p \in Proc, RefuseCleanup(p) PROVE TypeOK'
  BY <1>13 DEF RefuseCleanup, Moves, Stage, disk
<1>14. ASSUME NEW p \in Proc, Destroy(p) PROVE TypeOK'
  <2>1. job' \in [Proc -> [kind : Kind, rows : SUBSET Entry]]
    BY <1>14 DEF Destroy, Kind
  <2>2. at' \in [Path -> Inst \cup {Nothing}]
    BY <1>14 DEF Destroy
  <2> QED BY <1>14, <2>1, <2>2 DEF Destroy, Moves, Stage
<1>15. ASSUME NEW p \in Proc, StageRemove(p) PROVE TypeOK'
  BY <1>15 DEF StageRemove, Moves, Stage, disk
<1>16. ASSUME NEW p \in Proc, RefuseRemove(p) PROVE TypeOK'
  BY <1>16 DEF RefuseRemove, Moves, Stage, disk
<1>17. ASSUME NEW p \in Proc, Replace(p) PROVE TypeOK'
  BY <1>17 DEF Replace, Moves, Stage, disk
<1>18. ASSUME NEW p \in Proc, Fail(p) PROVE TypeOK'
  BY <1>18 DEF Fail, Moves, Stage, disk
<1>19. ASSUME NEW p \in Proc, Unlock(p) PROVE TypeOK'
  BY <1>19 DEF Unlock, Ends, Moves, NoJob, Kind, Stage, disk
<1>20. ASSUME NEW p \in Proc, Die(p) PROVE TypeOK'
  BY <1>20 DEF Die, Ends, Moves, NoJob, Kind, Stage, disk
<1>21. CASE Environment
  BY <1>21 DEF Environment, RemoveDirectory, MakeDirectory, procs
<1>22. CASE UNCHANGED vars
  BY <1>22 DEF vars
<1> QED
  BY <1>1, <1>2, <1>3, <1>4, <1>5, <1>6, <1>7, <1>8, <1>9, <1>10, <1>11, <1>12,
     <1>13, <1>14, <1>15, <1>16, <1>17, <1>18, <1>19, <1>20, <1>21, <1>22
     DEF Next, Start, Polling, Locked

\* The variables keep their shapes in every behaviour (registry.py, storage.py).
THEOREM TypeCorrect == Spec => []TypeOK
  BY TypeInit, TypeStep, PTL DEF Spec

-----------------------------------------------------------------------------
(***************************************************************************)
(* Frames: what a step of p leaves alone.                                  *)
(***************************************************************************)
Step(p) == Start(p) \/ Polling(p) \/ Locked(p) \/ Fail(p) \/ Die(p)

\* A step of p moves no other process.
LEMMA OthersUntouched ==
    ASSUME TypeOK, NEW p \in Proc, Step(p), NEW q \in Proc, q # p
    PROVE  /\ stage'[q] = stage[q]
           /\ job'[q] = job[q]
           /\ seen'[q] = seen[q]
           /\ draft'[q] = draft[q]
<1> USE DEF TypeOK
<1>1. CASE Start(p)
  BY <1>1 DEF Start, BeginAdd, BeginRemove, BeginCleanup, BeginPrune, Begin, Moves
<1>2. CASE Polling(p)
  BY <1>2 DEF Polling, Expire, Acquire, GiveUp, Ends, Moves
<1>3. CASE Decode(p) \/ RefuseAdd(p) \/ StageAdd(p)
  BY <1>3 DEF Decode, RefuseAdd, StageAdd, Stages, Moves
<1>4. CASE StagePrune(p)
  <2>1. \/ Moves(p, "leaving") /\ UNCHANGED <<job, seen, draft>>
        \/ \E rows : Stages(p, rows)
    BY <1>4 DEF StagePrune
  <2> QED BY <2>1 DEF Stages, Moves
<1>5. CASE Confirm(p) \/ RefuseCleanup(p) \/ Destroy(p)
  BY <1>5 DEF Confirm, RefuseCleanup, Destroy, Moves
<1>6. CASE StageRemove(p) \/ RefuseRemove(p) \/ Replace(p)
  BY <1>6 DEF StageRemove, RefuseRemove, Replace, Moves
<1>7. CASE Unlock(p) \/ Fail(p) \/ Die(p)
  BY <1>7 DEF Unlock, Fail, Die, Ends, Moves
<1> QED BY <1>1, <1>2, <1>3, <1>4, <1>5, <1>6, <1>7 DEF Step, Locked

\* Only Replace edits the file, and only Destroy edits the disk.
LEMMA WhoWrites ==
    ASSUME NEW p \in Proc, Step(p)
    PROVE  /\ used' = used
           /\ file' = file \/ Replace(p)
           /\ at' = at \/ Destroy(p)
<1>1. CASE Start(p)
  BY <1>1 DEF Start, BeginAdd, BeginRemove, BeginCleanup, BeginPrune, Begin, disk
<1>2. CASE Polling(p)
  BY <1>2 DEF Polling, Expire, Acquire, GiveUp, disk
<1>3. CASE Decode(p) \/ RefuseAdd(p) \/ StageAdd(p)
  BY <1>3 DEF Decode, RefuseAdd, StageAdd, Stages, disk
<1>4. CASE StagePrune(p)
  <2>1. UNCHANGED <<file, disk>> \/ \E rows : Stages(p, rows)
    BY <1>4 DEF StagePrune
  <2> QED BY <2>1 DEF Stages, disk
<1>5. CASE Confirm(p) \/ RefuseCleanup(p) \/ Destroy(p)
  BY <1>5 DEF Confirm, RefuseCleanup, Destroy, disk
<1>6. CASE StageRemove(p) \/ RefuseRemove(p) \/ Replace(p)
  BY <1>6 DEF StageRemove, RefuseRemove, Replace, disk
<1>7. CASE Unlock(p) \/ Fail(p) \/ Die(p)
  BY <1>7 DEF Unlock, Fail, Die, disk
<1> QED BY <1>1, <1>2, <1>3, <1>4, <1>5, <1>6, <1>7 DEF Step, Locked

\* The lock changes hands only through Acquire, Unlock and Die.
LEMMA LockStep ==
    ASSUME TypeOK, LockInv, NEW p \in Proc, Step(p)
    PROVE  LockInv'
<1> USE DEF TypeOK, LockInv, Holding
<1>1. CASE Start(p)
  BY <1>1 DEF Start, BeginAdd, BeginRemove, BeginCleanup, BeginPrune, Begin, Moves
<1>2. CASE Polling(p)
  BY <1>2 DEF Polling, Expire, Acquire, GiveUp, Ends, Moves
<1>3. CASE Decode(p) \/ RefuseAdd(p) \/ StageAdd(p)
  BY <1>3 DEF Decode, RefuseAdd, StageAdd, Stages, Moves
<1>4. CASE StagePrune(p)
  <2>1. /\ stage[p] = "read"
        /\ \/ Moves(p, "leaving") /\ UNCHANGED holder
           \/ \E rows : Stages(p, rows)
    BY <1>4 DEF StagePrune
  <2> QED BY <2>1 DEF Stages, Moves
<1>5. CASE Confirm(p) \/ RefuseCleanup(p) \/ Destroy(p)
  BY <1>5 DEF Confirm, RefuseCleanup, Destroy, Moves
<1>6. CASE StageRemove(p) \/ RefuseRemove(p) \/ Replace(p)
  BY <1>6 DEF StageRemove, RefuseRemove, Replace, Moves
<1>7. CASE Unlock(p) \/ Fail(p) \/ Die(p)
  BY <1>7 DEF Unlock, Fail, Die, Ends, Moves
<1> QED BY <1>1, <1>2, <1>3, <1>4, <1>5, <1>6, <1>7 DEF Step, Locked

\* Each kind of command keeps to its own stages and to its one row.
LEMMA JobStep ==
    ASSUME TypeOK, JobInv, NEW p \in Proc, Step(p)
    PROVE  JobInv'
<1> USE DEF TypeOK
<1> DEFINE JobOK(kind, rows, where) ==
        /\ where # "idle" /\ kind # "prune" => \E e \in Entry : rows = {e}
        /\ where = "read" => kind \in {"add", "prune"}
        /\ where = "destroy" => kind = "cleanup"
        /\ where = "waiting" => kind # "destroyed"
<1>a. JobOK(job[p].kind, job[p].rows, stage[p])
  BY DEF JobInv
<1>b. ASSUME JobOK(job'[p].kind, job'[p].rows, stage'[p]) PROVE JobInv'
  <2>1. \A q \in Proc : q # p => stage'[q] = stage[q] /\ job'[q] = job[q]
    BY OthersUntouched
  <2> QED BY <1>b, <2>1 DEF JobInv
<1>1. CASE Start(p)
  <2>1. ASSUME NEW kind \in Kind \ {"destroyed"}, NEW rows, Begin(p, kind, rows),
               kind = "prune" \/ \E e \in Entry : rows = {e}
        PROVE  JobInv'
    <3>1. job'[p] = [kind |-> kind, rows |-> rows] /\ stage'[p] = "waiting"
      BY <2>1 DEF Begin, Moves
    <3> QED BY <1>b, <2>1, <3>1
  <2> QED BY <1>1, <2>1 DEF Start, BeginAdd, BeginRemove, BeginCleanup, BeginPrune, Kind
<1>2. CASE Expire(p) \/ Acquire(p)
  <2>1. job' = job /\ stage[p] = "waiting" /\ stage'[p] \in {"waiting", "held"}
    BY <1>2 DEF Expire, Acquire, Moves
  <2> QED BY <1>a, <1>b, <2>1
<1>3. CASE GiveUp(p) \/ Unlock(p) \/ Die(p)
  <2>1. stage'[p] = "idle"
    BY <1>3 DEF GiveUp, Unlock, Die, Ends, Moves
  <2> QED BY <1>b, <2>1
<1>4. CASE Decode(p)
  <2>1. job' = job /\ stage[p] = "held" /\ job[p].kind \in {"add", "prune"} /\ stage'[p] = "read"
    BY <1>4 DEF Decode, Moves
  <2> QED BY <1>a, <1>b, <2>1
<1>5. CASE \/ RefuseAdd(p) \/ StageAdd(p) \/ StagePrune(p) \/ RefuseCleanup(p)
           \/ StageRemove(p) \/ RefuseRemove(p) \/ Replace(p) \/ Fail(p)
  <2>1. job' = job /\ stage[p] # "idle" /\ stage'[p] \in {"leaving", "staged"}
    <3>1. CASE RefuseAdd(p) \/ StageAdd(p)
      BY <3>1 DEF RefuseAdd, StageAdd, Stages, Moves
    <3>2. CASE StagePrune(p)
      BY <3>2 DEF StagePrune, Stages, Moves
    <3>3. CASE RefuseCleanup(p) \/ StageRemove(p) \/ RefuseRemove(p)
      BY <3>3 DEF RefuseCleanup, StageRemove, RefuseRemove, Moves
    <3>4. CASE Replace(p) \/ Fail(p)
      BY <3>4 DEF Replace, Fail, Holding, Moves
    <3> QED BY <1>5, <3>1, <3>2, <3>3, <3>4
  <2> QED BY <1>a, <1>b, <2>1
<1>6. CASE Confirm(p)
  <2>1. job' = job /\ stage[p] = "held" /\ job[p].kind = "cleanup" /\ stage'[p] = "destroy"
    BY <1>6 DEF Confirm, Moves
  <2> QED BY <1>a, <1>b, <2>1
<1>7. CASE Destroy(p)
  <2>1. job' = [job EXCEPT ![p] = [job[p] EXCEPT !.kind = "destroyed"]]
    BY <1>7 DEF Destroy
  <2>2. job'[p].rows = job[p].rows
    BY <2>1
  <2>3. job'[p].kind = "destroyed"
    BY <2>1
  <2>4. stage[p] = "destroy" /\ job[p].kind = "cleanup" /\ stage'[p] = "held"
    BY <1>7, <1>a DEF Destroy, Moves
  <2> QED BY <1>a, <1>b, <2>2, <2>3, <2>4
<1> QED BY <1>1, <1>2, <1>3, <1>4, <1>5, <1>6, <1>7 DEF Step, Locked, Polling

-----------------------------------------------------------------------------
(***************************************************************************)
(* What the holder of the lock knows, and why nobody takes it away.        *)
(***************************************************************************)
Lawful(p) ==
    \/ job[p].kind = "add" /\ LawfulAdd(p)
    \/ job[p].kind = "prune" /\ LawfulPrune(p)
    \/ job[p].kind \in RemoveKind /\ LawfulRemove(p)

HolderOK(p) ==
    /\ stage[p] \in {"read", "destroy", "staged"} => seen[p] = file
    /\ stage[p] = "destroy" => job[p].rows \subseteq file
    /\ stage[p] = "held" /\ job[p].kind = "destroyed" => job[p].rows \subseteq file
    /\ stage[p] = "staged" => Lawful(p)

\* The three clauses about the holder of the lock are one, said process by process.
LEMMA HolderParts ==
    SnapshotIsCurrent /\ DestroyedRowStillHeld /\ DraftsAreLawful
        <=> \A p \in Proc : HolderOK(p)
  BY DEF SnapshotIsCurrent, DestroyedRowStillHeld, DraftsAreLawful, HolderOK, Lawful

\* A directory that is gone does not come back: a new one is another one.
LEMMA DeadStaysDead ==
    ASSUME TypeOK, NEW r \in Entry, r.inst \in used, ~Alive(r),
           Environment \/ at' = at \/ \E p \in Proc : Destroy(p)
    PROVE  ~Alive(r)'
<1> USE DEF TypeOK, Alive
<1>0. r.path \in Path /\ r.inst \in Inst /\ r.inst # Nothing
  OBVIOUS
<1>1. CASE at' = at
  BY <1>1
<1>2. ASSUME NEW q \in Path, at' = [at EXCEPT ![q] = Nothing] PROVE ~Alive(r)'
  BY <1>0, <1>2
<1>3. ASSUME NEW q \in Path, NEW i \in Inst, MakeDirectory(q, i) PROVE ~Alive(r)'
  BY <1>0, <1>3 DEF MakeDirectory
<1>4. CASE \E p \in Proc : Destroy(p)
  <2>1. PICK p \in Proc : \E e \in job[p].rows : at' = [at EXCEPT ![e.path] = Nothing]
    BY <1>4 DEF Destroy
  <2> PICK e \in job[p].rows : at' = [at EXCEPT ![e.path] = Nothing]
    BY <2>1
  <2>2. e.path \in Path
    BY <2>1
  <2> QED BY <1>2, <2>1, <2>2
<1>5. CASE Environment
  BY <1>2, <1>3, <1>5 DEF Environment, RemoveDirectory
<1> QED BY <1>1, <1>4, <1>5

\* What the store would allow, it goes on allowing while only the disk moves.
LEMMA LawfulStable ==
    ASSUME TypeOK, RowsAreOfTheLived, NEW q \in Proc, Lawful(q), file' = file,
           job'[q] = job[q], draft'[q] = draft[q],
           Environment \/ at' = at \/ \E p \in Proc : Destroy(p)
    PROVE  Lawful(q)'
<1>1. \A r \in file : ~Alive(r) => ~Alive(r)'
  BY DeadStaysDead DEF RowsAreOfTheLived, TypeOK
<1>2. CASE job[q].kind = "add" /\ LawfulAdd(q)
  BY <1>1, <1>2 DEF Lawful, LawfulAdd
<1>3. CASE job[q].kind = "prune" /\ LawfulPrune(q)
  BY <1>1, <1>3 DEF Lawful, LawfulPrune
<1>4. CASE job[q].kind \in RemoveKind /\ LawfulRemove(q)
  BY <1>4 DEF Lawful, LawfulRemove
<1> QED BY <1>2, <1>3, <1>4 DEF Lawful

\* A step of p leaves what any other holder knows true: while q holds the
\* lock, p does not, so p neither renames nor destroys.
LEMMA OthersKeep ==
    ASSUME Inductive, NEW p \in Proc, Step(p), NEW q \in Proc, q # p
    PROVE  HolderOK(q)'
<1> USE DEF Inductive
<1>1. stage'[q] = stage[q] /\ job'[q] = job[q] /\ seen'[q] = seen[q] /\ draft'[q] = draft[q]
  BY OthersUntouched
<1>2. HolderOK(q)
  BY HolderParts
<1>3. CASE stage[q] \in {"held", "read", "destroy", "staged"}
  <2>1. stage[p] \notin Holding
    BY <1>3 DEF LockInv, Holding
  <2>2. ~Replace(p) /\ ~Destroy(p)
    BY <2>1 DEF Replace, Destroy, Holding
  <2>3. file' = file /\ at' = at
    BY <2>2, WhoWrites
  <2>4. stage[q] = "staged" => Lawful(q)'
    BY <1>1, <1>2, <2>3, LawfulStable DEF HolderOK
  <2> QED BY <1>1, <1>2, <2>3, <2>4 DEF HolderOK
<1>4. CASE stage[q] \notin {"held", "read", "destroy", "staged"}
  BY <1>1, <1>4 DEF HolderOK
<1> QED BY <1>3, <1>4

\* A step of p leaves what p knows true.
LEMMA SelfKeeps ==
    ASSUME Inductive, NEW p \in Proc, Step(p)
    PROVE  HolderOK(p)'
<1> USE DEF Inductive, TypeOK
<1>0. HolderOK(p) /\ job[p] \in [kind : Kind, rows : SUBSET Entry]
  BY HolderParts
<1>1. CASE Start(p) \/ Expire(p) \/ GiveUp(p) \/ Unlock(p) \/ Die(p)
  <2>1. stage'[p] \in {"idle", "waiting"}
    BY <1>1 DEF Start, BeginAdd, BeginRemove, BeginCleanup, BeginPrune, Begin,
                Expire, GiveUp, Unlock, Die, Ends, Moves
  <2> QED BY <2>1 DEF HolderOK
<1>2. CASE Acquire(p)
  <2>1. stage'[p] = "held" /\ job' = job /\ stage[p] = "waiting"
    BY <1>2 DEF Acquire, Moves
  <2> QED BY <2>1 DEF HolderOK, JobInv
<1>3. CASE Decode(p)
  BY <1>3 DEF Decode, Moves, HolderOK
<1>4. CASE RefuseAdd(p) \/ RefuseCleanup(p) \/ RefuseRemove(p) \/ Replace(p) \/ Fail(p)
  <2>1. stage'[p] = "leaving"
    BY <1>4 DEF RefuseAdd, RefuseCleanup, RefuseRemove, Replace, Fail, Moves, Holding
  <2> QED BY <2>1 DEF HolderOK
<1>5. CASE StageAdd(p)
  <2>1. PICK e \in job[p].rows :
            /\ Occupying(seen[p], e) = {}
            /\ Stages(p, {r \in seen[p] : ~SameSlot(r, e)} \cup {e})
    BY <1>5 DEF StageAdd
  <2>2. /\ stage'[p] = "staged" /\ stage[p] = "read" /\ job' = job /\ seen' = seen
        /\ file' = file /\ at' = at /\ seen[p] = file
        /\ draft'[p] = {r \in file : ~SameSlot(r, e)} \cup {e}
    BY <1>0, <1>5, <2>1 DEF StageAdd, Stages, Moves, HolderOK, disk
  <2>3. \A r \in file : SameSlot(r, e) => ~Alive(r) \/ SameWorktree(r, e)
    BY <2>1, <2>2 DEF Occupying, Exists, Alive
  <2>4. LawfulAdd(p)'
    BY <2>1, <2>2, <2>3 DEF LawfulAdd, Alive
  <2> QED BY <1>5, <2>2, <2>4 DEF StageAdd, HolderOK, Lawful
<1>6. CASE StagePrune(p)
  <2> DEFINE removing == Missing(seen[p]) \cap job[p].rows
  <2>1. CASE removing = {}
    BY <1>6, <2>1 DEF StagePrune, Moves, HolderOK
  <2>2. CASE removing # {}
    <3>1. Stages(p, file \ removing) /\ stage[p] = "read" /\ job[p].kind = "prune"
      BY <1>6, <2>2 DEF StagePrune
    <3>2. /\ stage'[p] = "staged" /\ job' = job /\ seen' = seen
          /\ file' = file /\ at' = at /\ seen[p] = file
          /\ draft'[p] = file \ removing
      BY <1>0, <3>1 DEF Stages, Moves, HolderOK, disk
    <3>3. /\ removing \subseteq file /\ removing \subseteq job[p].rows
          /\ \A r \in removing : r.repo = NoRepo \/ ~Alive(r)
      BY <3>2 DEF Missing, Exists, Alive
    <3>4. LawfulPrune(p)'
      BY <2>2, <3>2, <3>3 DEF LawfulPrune, Alive
    <3> QED BY <3>1, <3>2, <3>4 DEF HolderOK, Lawful
  <2> QED BY <2>1, <2>2
<1>7. CASE Confirm(p)
  BY <1>7 DEF Confirm, Moves, HolderOK
<1>8. CASE Destroy(p)
  <2>1. /\ stage[p] = "destroy" /\ stage'[p] = "held" /\ file' = file
        /\ job' = [job EXCEPT ![p] = [job[p] EXCEPT !.kind = "destroyed"]]
    BY <1>8 DEF Destroy, Moves
  <2>2. job'[p].rows = job[p].rows
    BY <2>1
  <2> QED BY <1>0, <2>1, <2>2 DEF HolderOK
<1>9. CASE StageRemove(p)
  <2>1. /\ stage'[p] = "staged" /\ seen'[p] = file /\ file' = file /\ job' = job
        /\ draft'[p] = file \ job[p].rows
        /\ job[p].rows \subseteq file /\ job[p].kind \in RemoveKind
    BY <1>9 DEF StageRemove, Moves
  <2> QED BY <2>1 DEF HolderOK, Lawful, LawfulRemove
<1> QED BY <1>1, <1>2, <1>3, <1>4, <1>5, <1>6, <1>7, <1>8, <1>9 DEF Step, Polling, Locked

\* Directories only grow in number, and rows enter the file only through add.
LEMMA LivedStep ==
    ASSUME Inductive, NEW p \in Proc, Step(p)
    PROVE  RowsAreOfTheLived'
<1> USE DEF Inductive, RowsAreOfTheLived
<1>1. used' = used
  BY WhoWrites
<1>2. ASSUME NEW e \in file' PROVE e.inst \in used
  <2>1. CASE file' = file
    BY <1>2, <2>1
  <2>2. CASE Replace(p)
    <3>1. stage[p] = "staged" /\ file' = draft[p]
      BY <2>2 DEF Replace
    <3>2. e \in file \/ (job[p].kind = "add" /\ e \in job[p].rows)
      BY <1>2, <3>1 DEF DraftsAreLawful, LawfulAdd, LawfulPrune, LawfulRemove
    <3> QED BY <3>1, <3>2
  <2> QED BY <2>1, <2>2, WhoWrites
<1>3. ASSUME NEW q \in Proc, stage'[q] # "idle", job'[q].kind = "add", NEW e \in job'[q].rows
      PROVE  e.inst \in used
  <2>1. CASE q # p
    BY <1>3, <2>1, OthersUntouched
  <2>2. CASE q = p /\ Start(p)
    <3> USE DEF TypeOK
    <3>1. ASSUME NEW f \in Entry, BeginAdd(p, f) PROVE e.inst \in used
      BY <1>3, <2>2, <3>1 DEF BeginAdd, Begin
    <3>2. ASSUME NEW f \in Entry, BeginRemove(p, f) \/ BeginCleanup(p, f) PROVE FALSE
      BY <1>3, <2>2, <3>2 DEF BeginRemove, BeginCleanup, Begin
    <3>3. ASSUME BeginPrune(p) PROVE FALSE
      BY <1>3, <2>2, <3>3 DEF BeginPrune, Begin
    <3> QED BY <2>2, <3>1, <3>2, <3>3 DEF Start
  <2>3. CASE q = p /\ Destroy(p)
    BY <1>3, <2>3 DEF Destroy, TypeOK
  <2>4. CASE q = p /\ job' = job /\ stage[p] # "idle"
    BY <1>3, <2>4
  <2>5. CASE q = p /\ (GiveUp(p) \/ Unlock(p) \/ Die(p))
    BY <1>3, <2>5 DEF GiveUp, Unlock, Die, Ends, Moves, TypeOK
  <2>6. \/ Start(p) \/ Destroy(p) \/ GiveUp(p) \/ Unlock(p) \/ Die(p)
        \/ job' = job /\ stage[p] # "idle"
    <3>1. CASE Expire(p) \/ Acquire(p) \/ Decode(p) \/ RefuseAdd(p) \/ StageAdd(p)
      BY <3>1 DEF Expire, Acquire, Decode, RefuseAdd, StageAdd, Stages
    <3>2. CASE StagePrune(p)
      BY <3>2 DEF StagePrune, Stages
    <3>3. CASE Confirm(p) \/ RefuseCleanup(p) \/ StageRemove(p) \/ RefuseRemove(p)
      BY <3>3 DEF Confirm, RefuseCleanup, StageRemove, RefuseRemove
    <3>4. CASE Replace(p) \/ Fail(p)
      BY <3>4 DEF Replace, Fail, Holding
    <3> QED BY <3>1, <3>2, <3>3, <3>4 DEF Step, Polling, Locked
  <2> QED BY <2>1, <2>2, <2>3, <2>4, <2>5, <2>6
<1> QED BY <1>1, <1>2, <1>3

\* A lawful document holds one row per slot when the file does.
LEMMA SlotStep ==
    ASSUME Inductive, NEW p \in Proc, Step(p)
    PROVE  OneRowPerSlot'
<1> USE DEF Inductive, OneRowPerSlot
<1>1. CASE file' = file
  BY <1>1 DEF SameSlot
<1>2. CASE Replace(p)
  <2>1. stage[p] = "staged" /\ file' = draft[p]
    BY <1>2 DEF Replace
  <2>2. CASE LawfulAdd(p)
    BY <2>1, <2>2 DEF LawfulAdd, SameSlot
  <2>3. CASE LawfulPrune(p) \/ LawfulRemove(p)
    BY <2>1, <2>3 DEF LawfulPrune, LawfulRemove, SameSlot
  <2> QED BY <2>1, <2>2, <2>3 DEF DraftsAreLawful
<1> QED BY <1>1, <1>2, WhoWrites

\* Directories that come and go disturb nothing of this.
LEMMA EnvironmentStep ==
    ASSUME Inductive, Environment
    PROVE  Inductive'
<1> USE DEF Inductive
<1>1. /\ file' = file /\ UNCHANGED <<holder, stage, job, expired, seen, draft>>
      /\ used \subseteq used'
  BY DEF Environment, RemoveDirectory, MakeDirectory, procs
<1>2. TypeOK'
  BY TypeStep DEF Next
<1>3. LockInv' /\ JobInv' /\ RowsAreOfTheLived' /\ OneRowPerSlot'
  BY <1>1 DEF LockInv, JobInv, RowsAreOfTheLived, OneRowPerSlot, SameSlot
<1>4. ASSUME NEW p \in Proc PROVE HolderOK(p)'
  <2>1. HolderOK(p)
    BY HolderParts
  <2>2. stage[p] = "staged" => Lawful(p)'
    BY <1>1, <2>1, LawfulStable DEF HolderOK
  <2> QED BY <1>1, <2>1, <2>2 DEF HolderOK
<1>5. (SnapshotIsCurrent /\ DestroyedRowStillHeld /\ DraftsAreLawful)'
  BY <1>4 DEF SnapshotIsCurrent, DestroyedRowStillHeld, DraftsAreLawful, HolderOK, Lawful
<1> QED BY <1>2, <1>3, <1>5

\* An unlocked registry nobody works on satisfies the invariant.
LEMMA InductiveInit == Init => Inductive
<1> SUFFICES ASSUME Init PROVE Inductive
  OBVIOUS
<1> USE DEF Init, StoreInit
<1>1. TypeOK
  BY TypeInit
<1>2. LockInv /\ JobInv
  BY DEF LockInv, JobInv, Holding
<1>3. RowsAreOfTheLived /\ OneRowPerSlot
  BY DEF RowsAreOfTheLived, OneRowPerSlot, SameSlot
<1>4. SnapshotIsCurrent /\ DestroyedRowStillHeld /\ DraftsAreLawful
  BY DEF SnapshotIsCurrent, DestroyedRowStillHeld, DraftsAreLawful
<1> QED BY <1>1, <1>2, <1>3, <1>4 DEF Inductive

\* Every step of every process and of the disk keeps the invariant.
LEMMA InductiveStep == Inductive /\ [Next]_vars => Inductive'
<1> SUFFICES ASSUME Inductive, [Next]_vars PROVE Inductive'
  OBVIOUS
<1>1. ASSUME NEW p \in Proc, Step(p) PROVE Inductive'
  <2>1. TypeOK'
    BY TypeStep DEF Inductive
  <2>2. LockInv' /\ JobInv'
    BY <1>1, LockStep, JobStep DEF Inductive
  <2>3. RowsAreOfTheLived' /\ OneRowPerSlot'
    BY <1>1, LivedStep, SlotStep
  <2>4. \A q \in Proc : HolderOK(q)'
    BY <1>1, OthersKeep, SelfKeeps
  <2>5. (SnapshotIsCurrent /\ DestroyedRowStillHeld /\ DraftsAreLawful)'
    BY <2>4 DEF SnapshotIsCurrent, DestroyedRowStillHeld, DraftsAreLawful, HolderOK, Lawful
  <2> QED BY <2>1, <2>2, <2>3, <2>5 DEF Inductive
<1>2. CASE Environment
  BY <1>2, EnvironmentStep
<1>3. CASE UNCHANGED vars
  <2> USE <1>3 DEF vars
  <2>1. TypeOK'
    BY TypeStep DEF Inductive
  <2>2. LockInv' /\ JobInv' /\ RowsAreOfTheLived' /\ OneRowPerSlot'
    BY DEF Inductive, LockInv, JobInv, RowsAreOfTheLived, OneRowPerSlot, SameSlot
  <2>3. SnapshotIsCurrent' /\ DestroyedRowStillHeld'
    BY DEF Inductive, SnapshotIsCurrent, DestroyedRowStillHeld
  <2>4. DraftsAreLawful'
    BY DEF Inductive, DraftsAreLawful, LawfulAdd, LawfulPrune, LawfulRemove,
           Alive, SameSlot, SameWorktree
  <2> QED BY <2>1, <2>2, <2>3, <2>4 DEF Inductive
<1> QED BY <1>1, <1>2, <1>3 DEF Next, Step

-----------------------------------------------------------------------------
\* The inductive invariant holds in every reachable state of the protocol.
THEOREM Safety == Spec => []Inductive
  BY InductiveInit, InductiveStep, PTL DEF Spec

\* A repository and a name pick at most one row, whatever raced add_entry.
THEOREM UniqueRows == Spec => []OneRowPerSlot
<1>1. Inductive => OneRowPerSlot
  BY DEF Inductive
<1> QED BY <1>1, Safety, PTL

\* Nobody edits the file between a command's read of it and its rename.
THEOREM NoLostUpdate == Spec => []SnapshotIsCurrent
<1>1. Inductive => SnapshotIsCurrent
  BY DEF Inductive
<1> QED BY <1>1, Safety, PTL

\* cleanup never destroys a worktree and then finds its row stale.
THEOREM NoLateRefusal == Spec => []DestroyedRowStillHeld
<1>1. Inductive => DestroyedRowStillHeld
  BY DEF Inductive
<1> QED BY <1>1, Safety, PTL

\* Rows leave the registry for a cause: asked for, agreed to and gone, or
\* registered again (add_entry, remove_locked, apply_prune).
THEOREM Causes == Spec => RowsLeaveForCause
<1> DEFINE Caused == \A r \in file \ file' :
                        \E p \in Proc : stage[p] = "staged" /\ HasCause(p, r)
<1>1. Inductive /\ [Next]_vars => [Caused]_vars
  <2> SUFFICES ASSUME Inductive, Next, NEW r \in file \ file'
               PROVE  \E p \in Proc : stage[p] = "staged" /\ HasCause(p, r)
    OBVIOUS
  <2>1. PICK p \in Proc : Replace(p)
    <3>1. ~Environment
      BY DEF Environment, RemoveDirectory, MakeDirectory
    <3> QED BY <3>1, WhoWrites DEF Next, Step
  <2>2. stage[p] = "staged" /\ file' = draft[p]
    BY <2>1 DEF Replace
  <2>3. CASE job[p].kind = "add" /\ LawfulAdd(p)
    BY <2>2, <2>3 DEF LawfulAdd, HasCause
  <2>4. CASE job[p].kind = "prune" /\ LawfulPrune(p)
    BY <2>2, <2>4 DEF LawfulPrune, HasCause
  <2>5. CASE job[p].kind \in RemoveKind /\ LawfulRemove(p)
    <3>1. PICK e \in Entry : job[p].rows = {e}
      BY <2>2, <2>5 DEF Inductive, JobInv, RemoveKind
    <3> QED BY <2>2, <2>5, <3>1 DEF LawfulRemove, HasCause
  <2> QED BY <2>2, <2>3, <2>4, <2>5 DEF Inductive, DraftsAreLawful
<1> QED BY <1>1, Safety, PTL DEF Spec, RowsLeaveForCause

\* The protocol implements the store: every rename is one operation of it,
\* and every other step stutters or is the disk's own.
THEOREM Implements == Spec => StoreSpecified
<1>1. Init => Store!StoreInit
  BY DEF Init, StoreInit, Store!StoreInit, Exists, Store!Exists
<1>2. Inductive /\ [Next]_vars => [Store!StoreNext]_(Store!StoreVars)
  <2> SUFFICES ASSUME Inductive, [Next]_vars
               PROVE  Store!StoreNext \/ UNCHANGED Store!StoreVars
    OBVIOUS
  <2>1. ASSUME NEW p \in Proc, Replace(p)
        PROVE  Store!StoreNext \/ UNCHANGED Store!StoreVars
    <3>1. stage[p] = "staged" /\ file' = draft[p] /\ at' = at /\ used' = used
      BY <2>1 DEF Replace, disk
    <3>2. CASE job[p].kind = "add" /\ LawfulAdd(p)
      <4>1. PICK e \in job[p].rows :
                /\ draft[p] = {r \in file : ~SameSlot(r, e)} \cup {e}
                /\ \A r \in file : SameSlot(r, e) => ~Alive(r) \/ SameWorktree(r, e)
        BY <3>2 DEF LawfulAdd
      <4>2. e \in Entry
        BY <4>1 DEF Inductive, TypeOK
      <4>3. Store!StoreAdd(e)
        BY <3>1, <4>1 DEF Store!StoreAdd, SameSlot, Store!SameSlot, Alive, Store!Alive,
                          SameWorktree, Store!SameWorktree
      <4> QED BY <4>2, <4>3 DEF Store!StoreNext
    <3>3. CASE job[p].kind = "prune" /\ LawfulPrune(p)
      <4> DEFINE gone == file \ draft[p]
      <4>1. Store!StorePrune(gone)
        BY <3>1, <3>3 DEF LawfulPrune, Store!StorePrune, Alive, Store!Alive
      <4>2. gone \in SUBSET Entry
        BY DEF Inductive, TypeOK
      <4> QED BY <4>1, <4>2 DEF Store!StoreNext
    <3>4. CASE job[p].kind \in RemoveKind /\ LawfulRemove(p)
      <4>1. PICK e \in Entry : job[p].rows = {e}
        BY <3>1, <3>4 DEF Inductive, JobInv, RemoveKind
      <4>2. Store!StoreRemove(e)
        BY <3>1, <3>4, <4>1 DEF LawfulRemove, Store!StoreRemove
      <4> QED BY <4>2 DEF Store!StoreNext
    <3> QED BY <3>1, <3>2, <3>3, <3>4 DEF Inductive, DraftsAreLawful
  <2>2. ASSUME NEW p \in Proc, Destroy(p)
        PROVE  Store!StoreNext \/ UNCHANGED Store!StoreVars
    <3>1. PICK e \in job[p].rows : at' = [at EXCEPT ![e.path] = Nothing]
      BY <2>2 DEF Destroy
    <3>2. e.path \in Path /\ file' = file /\ used' = used
      BY <2>2 DEF Destroy, Inductive, TypeOK
    <3>3. CASE at[e.path] = Nothing
      BY <3>1, <3>2, <3>3 DEF Inductive, TypeOK, Store!StoreVars
    <3>4. CASE at[e.path] # Nothing
      <4>1. Store!RemoveDirectory(e.path)
        BY <3>1, <3>2, <3>4 DEF Store!RemoveDirectory, Store!Exists
      <4> QED BY <3>2, <4>1 DEF Store!StoreNext
    <3> QED BY <3>3, <3>4
  <2>3. CASE Environment
    <3>1. CASE \E q \in Path : RemoveDirectory(q)
      <4>1. PICK q \in Path : RemoveDirectory(q)
        BY <3>1
      <4>2. Store!RemoveDirectory(q)
        BY <4>1 DEF RemoveDirectory, Store!RemoveDirectory, Exists, Store!Exists
      <4> QED BY <4>2 DEF Store!StoreNext
    <3>2. CASE \E q \in Path, i \in Inst : MakeDirectory(q, i)
      <4>1. PICK q \in Path, i \in Inst : MakeDirectory(q, i)
        BY <3>2
      <4>2. Store!MakeDirectory(q, i)
        BY <4>1 DEF MakeDirectory, Store!MakeDirectory, Exists, Store!Exists
      <4> QED BY <4>2 DEF Store!StoreNext
    <3> QED BY <2>3, <3>1, <3>2 DEF Environment
  <2>4. ASSUME NEW p \in Proc, Step(p), ~Replace(p), ~Destroy(p)
        PROVE  UNCHANGED Store!StoreVars
    BY <2>4, WhoWrites DEF Store!StoreVars
  <2>5. CASE UNCHANGED vars
    BY <2>5 DEF vars, Store!StoreVars
  <2> QED BY <2>1, <2>2, <2>3, <2>4, <2>5 DEF Next, Step
<1> QED BY <1>1, <1>2, Safety, PTL DEF Spec, StoreSpecified, Store!StoreSpec
-----------------------------------------------------------------------------
(***************************************************************************)
(* CleanupGuards: what cleanup looks at before it takes the registry's lock*)
(* to destroy a fork.  Its two looks protect the work standing in the fork,*)
(* for any number of pieces of work and of things the fork's user does.    *)
(***************************************************************************)

Waived(p) == asked \cap {"force", Guard(p)} # {}

(* Nothing is lost before the tree is removed. *)
NothingLostYet == step \notin {"removed", "done"} => \A p \in Piece : place[p] # "lost"

(* Before the first look nothing is recorded as having stood. *)
NotLookedYet == step \in {"start", "asked", "agreed"} => \A p \in Piece : stood[p] = "unborn"

(* Between the looks, unless the fork is in use, it is as the first saw it. *)
LookingStill ==
    step = "looking" /\ ~astray => head = "fork" /\ place = stood /\ sawDirty = Dirty

(* A command that is past its guards has found nothing they protect. *)
GuardsHeld ==
    step \in {"waiting", "confirmed", "removed", "done"} /\ ~astray =>
        \A p \in Piece : /\ stood[p] = "dirty" => Waived(p)
                         /\ stood[p] = "fork" => p \in pushed \/ Waived(p)

At == {"start", "asked", "agreed", "cancelled", "refused", "looking", "shown", "waiting",
       "confirmed", "removed", "done"}

Guarded ==
    /\ step \in At /\ head \in Head
    /\ DOMAIN place = Piece
    /\ NothingLostYet /\ NotLookedYet /\ LookingStill /\ GuardsHeld

\* Before it looked a cleanup has seen nothing that could be lost.
LEMMA InitGuarded == GuardsInit => Guarded
BY DEF GuardsInit, Guarded, At, Head, NothingLostYet, NotLookedYet, LookingStill, GuardsHeld

(* Whatever the user does moves pieces, but loses none and unpushes none. *)
LEMMA UseMoves ==
    ASSUME Uses, head \in Head, DOMAIN place = Piece
    PROVE  /\ Move /\ pushed \subseteq pushed' /\ head' \in Head
           /\ DOMAIN place' = Piece
           /\ \A p \in Piece : place[p] # "lost" => place'[p] # "lost"
<1>1. ASSUME NEW p \in Piece, Work(p) \/ Reset(p)
      PROVE  /\ Move /\ UNCHANGED <<head, pushed>> /\ Puts({p}, "dirty")
  BY <1>1 DEF Work, Reset
<1>2. CASE Commit
  BY <1>2 DEF Commit, Puts, Head
<1>3. ASSUME NEW h \in Head, Switch(h)
      PROVE  /\ Move /\ head' \in Head /\ UNCHANGED pushed
             /\ Puts({p \in Piece : place[p] = "detached"}, "other")
  BY <1>3 DEF Switch
<1>4. CASE Push
  BY <1>4 DEF Push
<1> QED
  BY <1>1, <1>2, <1>3, <1>4 DEF Uses, Puts

\* No step of the cleanup or of the user of the fork breaks what the looks established.
LEMMA GuardedStep == Guarded /\ [GuardsNext]_guardVars => Guarded'
<1> SUFFICES ASSUME Guarded, [GuardsNext]_guardVars PROVE Guarded'
  OBVIOUS
<1> USE DEF Guarded
<1>1. CASE Uses
  <2>1. /\ Move /\ pushed \subseteq pushed' /\ head' \in Head
        /\ DOMAIN place' = Piece
        /\ \A p \in Piece : place[p] # "lost" => place'[p] # "lost"
    BY <1>1, UseMoves
  <2>2. /\ step' = step /\ asked' = asked /\ stood' = stood
        /\ astray' = (astray \/ step = "looking")
    BY <2>1 DEF Move
  <2>3. NothingLostYet' /\ NotLookedYet' /\ LookingStill'
    BY <2>1, <2>2 DEF NothingLostYet, NotLookedYet, LookingStill
  <2>4. GuardsHeld'
    BY <2>1, <2>2 DEF GuardsHeld, Waived, Guard
  <2> QED BY <2>1, <2>2, <2>3, <2>4
<1>2. CASE Resolve \/ Consent \/ RefuseInside \/ Reconfirm
  <2>1. UNCHANGED <<head, place, pushed, asked, sawDirty, stood, astray>>
    BY <1>2 DEF Resolve, Consent, RefuseInside, Reconfirm, work
  <2>2. /\ step' \in {"asked", "agreed", "cancelled", "refused", "confirmed"}
        /\ step' \in {"asked", "agreed"} => step \in {"start", "asked"}
        /\ step' = "confirmed" => step = "waiting"
        /\ step \notin {"removed", "done"}
    BY <1>2 DEF Resolve, Consent, RefuseInside, Reconfirm, Goes
  <2> QED
    BY <2>1, <2>2 DEF At, NothingLostYet, NotLookedYet, LookingStill, GuardsHeld,
                      Waived, Guard
<1>3. CASE LookForChanges
  BY <1>3 DEF LookForChanges, Goes, work, At, NothingLostYet, NotLookedYet,
              LookingStill, GuardsHeld, Dirty
<1>4. CASE LookForCommits
  <2>1. /\ UNCHANGED <<head, place, pushed, asked, sawDirty, stood, astray>>
        /\ step = "looking" /\ step' \in {"refused", "shown", "waiting"}
        /\ step' = "waiting" => /\ sawDirty = {} \/ Waives("allow_dirty")
                                /\ Unpushed = {} \/ Waives("allow_unpushed")
    BY <1>4 DEF LookForCommits, Goes, work
  <2>2. ASSUME step' = "waiting", ~astray, NEW p \in Piece
        PROVE  /\ stood[p] = "dirty" => Waived(p)
               /\ stood[p] = "fork" => p \in pushed \/ Waived(p)
    <3>1. head = "fork" /\ place = stood /\ sawDirty = Dirty
      BY <2>1, <2>2 DEF LookingStill
    <3>2. stood[p] = "dirty" => Waived(p)
      <4> SUFFICES ASSUME stood[p] = "dirty" PROVE Waived(p)
        OBVIOUS
      <4>1. p \in sawDirty
        BY <2>2, <3>1 DEF Dirty
      <4>2. Waives("allow_dirty")
        BY <2>1, <2>2, <4>1
      <4> QED
        BY <4>2 DEF Waives, Waived, Guard
    <3>3. stood[p] = "fork" => p \in pushed \/ Waived(p)
      BY <2>1, <2>2, <3>1 DEF Unpushed, Waives, Waived, Guard
    <3> QED BY <3>2, <3>3
  <2>3. GuardsHeld'
    BY <2>1, <2>2 DEF GuardsHeld, Waived, Guard
  <2> QED
    BY <2>1, <2>3 DEF At, NothingLostYet, NotLookedYet, LookingStill
<1>5. CASE RemoveTree \/ DeleteBranch
  <2>1. /\ UNCHANGED <<head, pushed, asked, stood, astray>>
        /\ step \in {"confirmed", "removed"} /\ step' \in {"removed", "done"}
        /\ DOMAIN place' = Piece
    BY <1>5 DEF RemoveTree, DeleteBranch, Goes, Puts
  <2> QED
    BY <2>1 DEF At, NothingLostYet, NotLookedYet, LookingStill, GuardsHeld, Waived, Guard
<1>6. CASE UNCHANGED guardVars
  BY <1>6 DEF guardVars, work, command, NothingLostYet, NotLookedYet, LookingStill,
              GuardsHeld, Waived, Guard, Dirty
<1> QED
  BY <1>1, <1>2, <1>3, <1>4, <1>5, <1>6 DEF GuardsNext, Cleans

(***************************************************************************)
(* What cleanup's two guards protect is not destroyed, however long it     *)
(* waits for consent and for the lock, and whatever the fork's user does   *)
(* before the looks and after them.                                        *)
(***************************************************************************)
THEOREM StandingWorkIsNotLostTheorem == GuardsSpec => []StandingWorkIsNotLost
<1>1. Guarded => StandingWorkIsNotLost
  <2> SUFFICES ASSUME Guarded, NEW p \in Piece,
                      stood[p] \in {"dirty", "fork"}, p \notin pushed,
                      ~Waived(p), ~astray, place[p] = "lost"
               PROVE  FALSE
    BY DEF StandingWorkIsNotLost, Waived
  <2>1. step \in {"removed", "done"}
    BY DEF Guarded, NothingLostYet
  <2> QED
    BY <2>1 DEF Guarded, GuardsHeld
<1> QED
  BY <1>1, InitGuarded, GuardedStep, PTL DEF GuardsSpec
=============================================================================
