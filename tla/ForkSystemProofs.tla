------------------------- MODULE ForkSystemProofs -------------------------
(***************************************************************************)
(* The safety of agent-fork as a system, for any number of fork, cleanup   *)
(* and prune commands, any names, paths and branches they ask for, any     *)
(* number of signals and deaths and whatever the user does.                *)
(*                                                                         *)
(* Every command goes by paths and branches, so what has to be shown is    *)
(* who made what stands there.  The argument: a fork's branch and worktree *)
(* are its own until a cleanup or the user lays hands on a fork of that    *)
(* branch or path (OwnAt); a rollback is among those that hold this, so it *)
(* takes only its own.  A row lasts as long as its worktree or the lock    *)
(* (RowsInv, PlanAt, PruneInv).                                            *)
(***************************************************************************)
EXTENDS ForkSystem, SetupHook, TLAPS

Plans == [owned : BOOLEAN, path : Path \cup {Nothing}, branch : Branch \cup {Nothing},
          row : Row \cup {Nothing}]

GitTyped ==
    /\ dir \in [Path -> Maker \cup {Alien, Nothing}]
    /\ listed \in [Path -> Maker \cup {Nothing}]
    /\ ref \in [Branch -> Maker \cup {Nothing}]
    /\ hit \subseteq Maker

ForksTyped ==
    /\ fork \in [Maker -> ForkStage] /\ signalled \subseteq Maker /\ cleaned \subseteq Maker
    /\ stranded \subseteq Maker
    /\ signals \in Nat /\ meddling \in Nat

CleansTyped ==
    /\ rows \subseteq Row /\ lock \in Cleaner \cup Pruner \cup {Nothing}
    /\ clean \in [Cleaner -> CleanStage] /\ plan \in [Cleaner -> Plans]
    /\ agreed \in [Pruner -> SUBSET Row]

TypeOK == GitTyped /\ ForksTyped /\ CleansTyped

PathHit(p) == \E x \in hit : Pair[x].path = p
BranchHit(b) == \E x \in hit : Pair[x].branch = b

\* The stages at which a fork's worktree, or its branch, has to be there; at
\* which its row has to be; at which it may be.
Standing == {"created", "returning", "done", "undo_tree"} \cup Handled
Branched == Standing \cup {"branched", "undo_branch"}
Settled == {"registered", "returning", "done"}
Enrolled == Settled \cup Undoing \cup {"compensating", "failed", "interrupted", "dead"}

\* What stands at a place was made for it.
PlacesInv ==
    /\ \A p \in Path : /\ dir[p] \in Maker => Pair[dir[p]].path = p
                       /\ listed[p] \in Maker => Pair[listed[p]].path = p
    /\ \A b \in Branch : ref[b] \in Maker => Pair[ref[b]].branch = b

UndoneTree(x) == (dir[Pair[x].path] # x /\ listed[Pair[x].path] # x) \/ Disturbed(x)
UndoneBranch(x) == ref[Pair[x].branch] # x \/ Disturbed(x)

\* A fork's branch and worktree are its own, until they are undone.
OwnAt(x) ==
    /\ fork[x] \in Branched => ref[Pair[x].branch] = x \/ BranchHit(Pair[x].branch)
    /\ fork[x] \in Standing =>
          \/ dir[Pair[x].path] = x /\ listed[Pair[x].path] = x
          \/ PathHit(Pair[x].path)
    /\ fork[x] \in {"undo_branch", "undo_prune"} \/ x \in cleaned => UndoneTree(x)
    /\ fork[x] = "undo_prune" \/ x \in cleaned => UndoneBranch(x)
    /\ x \in cleaned => fork[x] \in {"failed", "interrupted"}

\* git keeps the branch of every worktree it lists.
ListedAt(p) ==
    listed[p] \in Maker =>
        ref[Pair[listed[p]].branch] = listed[p] \/ BranchHit(Pair[listed[p]].branch)

GitInv == /\ GitTyped /\ PlacesInv
          /\ \A x \in Maker : OwnAt(x)
          /\ \A p \in Path : ListedAt(p)

\* A row was written by a fork that has come that far.
WrittenRow(r) == r \in Row /\ r = RowOf(r.by) /\ fork[r.by] \in Enrolled

\* A fork that is rolling back, or has to the end, lost its row or is stranded.
RollsBack(x) == fork[x] \in Undoing \/ x \in cleaned

RowsInv ==
    /\ \A r \in rows : WrittenRow(r)
    /\ \A r, s \in rows : r.name = s.name => r = s
    /\ \A x \in Maker : fork[x] \in Settled => RowOf(x) \in rows \/ Disturbed(x)
    /\ \A x \in Maker : RollsBack(x) /\ RowOf(x) \in rows => x \in stranded

\* What a cleanup goes by: a row, under the lock from the confirmation on,
\* and a worktree of that row's path and branch.
OwnedAt(c) ==
    /\ plan[c].path = plan[c].row.path /\ plan[c].branch = plan[c].row.branch
    /\ WrittenRow(plan[c].row)
    /\ clean[c] \in Locked => lock = c
    /\ clean[c] \in Destroying => plan[c].row \in rows
    /\ clean[c] = "destroy" =>
          \A r \in rows : r.by = dir[plan[c].path] => r.branch = plan[c].branch
    /\ clean[c] \in {"prune", "branch", "row"} =>
          /\ fork[plan[c].row.by] \in Settled => Disturbed(plan[c].row.by)
          /\ dir[plan[c].path] # plan[c].row.by /\ listed[plan[c].path] # plan[c].row.by

PlanAt(c) ==
    /\ clean[c] = "start" => plan[c].owned = FALSE
    /\ clean[c] # "start" => plan[c].path \in Path /\ plan[c].branch \in Branch
    /\ clean[c] \in {"waiting", "held", "row"} => plan[c].owned
    /\ plan[c].owned => OwnedAt(c)

LockInv == lock \in Cleaner => plan[lock].owned /\ clean[lock] \in Locked

\* A fork whose row a prune under the lock is about to remove has lost its worktree.
PruneInv ==
    lock \in Pruner =>
        \A r \in agreed[lock] : fork[r.by] \in Settled => Disturbed(r.by)

ForkInv == /\ TypeOK /\ GitInv /\ RowsInv /\ LockInv /\ PruneInv
           /\ \A c \in Cleaner : PlanAt(c)

-----------------------------------------------------------------------------
\* What the constants are.
LEMMA PairsAre ==
    /\ \A x \in Maker : Pair[x].path \in Path /\ Pair[x].branch \in Branch
    /\ Alien \notin Maker /\ Nothing \notin Maker /\ Alien # Nothing /\ Nothing \notin Cleaner
    /\ Nothing \notin Pruner /\ \A c \in Cleaner : c \notin Pruner
BY GitAssumption, SystemAssumption DEF GitAssumption, SystemAssumption

\* The row a fork writes.
LEMMA RowOfIs ==
    ASSUME NEW x \in Maker
    PROVE  /\ RowOf(x) \in Row /\ RowOf(x).by = x /\ RowOf(x).name = NameOf[x]
           /\ RowOf(x).path = Pair[x].path /\ RowOf(x).branch = Pair[x].branch
<1>1. NameOf[x] \in Name
  BY SystemAssumption DEF SystemAssumption
<1>2. QED
  BY <1>1, PairsAre DEF RowOf, Row

\* A fork is disturbed when its path or its branch is.
LEMMA DisturbedIs ==
    ASSUME NEW x
    PROVE  Disturbed(x) <=> PathHit(Pair[x].path) \/ BranchHit(Pair[x].branch)
BY DEF Disturbed, PathHit, BranchHit

\* What was disturbed stays so.
LEMMA HitsLast ==
    ASSUME hit \subseteq hit'
    PROVE  /\ \A p : PathHit(p) => PathHit(p)'
           /\ \A b : BranchHit(b) => BranchHit(b)'
           /\ \A x : Disturbed(x) => Disturbed(x)'
BY DEF Disturbed, PathHit, BranchHit

-----------------------------------------------------------------------------
(* What git holds.                                                          *)

\* A fork that moves on without anything new: what it has undone stays undone,
\* what it undoes now is gone.
MovesOn(x) ==
    /\ fork'[x] \in Branched => fork[x] \in Branched
    /\ fork'[x] \in Standing => fork[x] \in Standing
    /\ \/ fork'[x] = fork[x] /\ (x \in cleaned' <=> x \in cleaned)
       \/ fork'[x] \notin {"undo_branch", "undo_prune"} /\ x \notin cleaned'
       \/ /\ UndoneTree(x)'
          /\ UndoneBranch(x)' \/ (fork'[x] = "undo_branch" /\ x \notin cleaned')
          /\ x \in cleaned' => fork'[x] \in {"failed", "interrupted"}

\* A step that adds nothing to git, and takes from a fork that needs it only
\* what a hand was laid on.
Losing ==
    /\ GitTyped' /\ hit \subseteq hit'
    /\ \A p \in Path : /\ dir'[p] = dir[p] \/ dir'[p] \notin Maker
                       /\ listed'[p] = listed[p] \/ listed'[p] = Nothing
    /\ \A b \in Branch : ref'[b] = ref[b] \/ (ref'[b] = Nothing /\ b \notin CheckedOut)
    /\ \A x \in Maker :
          /\ MovesOn(x)
          /\ fork'[x] \in Standing /\ dir[Pair[x].path] = x /\ listed[Pair[x].path] = x =>
                \/ dir'[Pair[x].path] = x /\ listed'[Pair[x].path] = x
                \/ PathHit(Pair[x].path)'
          /\ fork'[x] \in Branched /\ ref[Pair[x].branch] = x =>
                ref'[Pair[x].branch] = x \/ BranchHit(Pair[x].branch)'

\* What git loses to a recorded hit leaves the rest of what is known of it true.
LEMMA LosingKeepsGit ==
    ASSUME GitInv, Losing
    PROVE  GitInv'
<1>1. /\ \A p : PathHit(p) => PathHit(p)'
      /\ \A b : BranchHit(b) => BranchHit(b)'
      /\ \A x : Disturbed(x) => Disturbed(x)'
  BY HitsLast DEF Losing
<1>2. PlacesInv'
  BY PairsAre DEF GitInv, PlacesInv, Losing
<1>3. ASSUME NEW x \in Maker PROVE OwnAt(x)'
  <2>1. Pair[x].path \in Path /\ Pair[x].branch \in Branch /\ x # Nothing
    BY PairsAre
  <2>2. OwnAt(x) /\ MovesOn(x)
    BY DEF GitInv, Losing
  <2>3. UndoneTree(x) => UndoneTree(x)'
    BY <1>1, <2>1 DEF UndoneTree, Losing
  <2>4. UndoneBranch(x) => UndoneBranch(x)'
    BY <1>1, <2>1 DEF UndoneBranch, Losing
  <2>5. fork'[x] \in Branched => ref'[Pair[x].branch] = x \/ BranchHit(Pair[x].branch)'
    BY <1>1, <2>1, <2>2 DEF OwnAt, MovesOn, Losing
  <2>6. fork'[x] \in Standing =>
           \/ dir'[Pair[x].path] = x /\ listed'[Pair[x].path] = x
           \/ PathHit(Pair[x].path)'
    BY <1>1, <2>1, <2>2 DEF OwnAt, MovesOn, Losing
  <2>7. fork'[x] \in {"undo_branch", "undo_prune"} \/ x \in cleaned' => UndoneTree(x)'
    BY <2>2, <2>3 DEF OwnAt, MovesOn
  <2>8. fork'[x] = "undo_prune" \/ x \in cleaned' => UndoneBranch(x)'
    BY <2>2, <2>4 DEF OwnAt, MovesOn
  <2>9. x \in cleaned' => fork'[x] \in {"failed", "interrupted"}
    BY <2>2 DEF OwnAt, MovesOn
  <2>10. QED
    BY <2>5, <2>6, <2>7, <2>8, <2>9 DEF OwnAt
<1>4. ASSUME NEW p \in Path PROVE ListedAt(p)'
  <2> SUFFICES ASSUME listed'[p] \in Maker PROVE ListedAt(p)'
    BY DEF ListedAt, BranchHit
  <2>1. listed'[p] = listed[p] /\ listed[p] \in Maker
    BY PairsAre DEF Losing
  <2>2. Pair[listed[p]].branch \in CheckedOut /\ Pair[listed[p]].branch \in Branch
    BY <2>1, PairsAre DEF CheckedOut
  <2>3. ref[Pair[listed[p]].branch] = listed[p] \/ BranchHit(Pair[listed[p]].branch)
    BY <2>1 DEF GitInv, ListedAt
  <2>4. \/ ref'[Pair[listed[p]].branch] = listed[p]
        \/ BranchHit(Pair[listed[p]].branch)'
    BY <2>1, <2>2, <2>3 DEF BranchHit, Losing
  <2>5. QED
    BY <2>1, <2>4 DEF ListedAt, BranchHit
<1>5. QED
  BY <1>2, <1>3, <1>4 DEF GitInv, Losing

\* git worktree add, first half.
LEMMA CreateBranchKeepsGit ==
    ASSUME TypeOK, GitInv, NEW x \in Maker, CreateBranch(x)
    PROVE  GitInv'
<1>1. /\ fork[x] = "guarded" /\ fork' = [fork EXCEPT ![x] = "branched"]
      /\ ref[Pair[x].branch] = Nothing /\ ref' = [ref EXCEPT ![Pair[x].branch] = x]
      /\ UNCHANGED <<dir, listed, cleaned, hit>>
  BY DEF CreateBranch, AddBranch, CanAddBranch, Goes, ends
<1>2. Pair[x].path \in Path /\ Pair[x].branch \in Branch /\ x # Nothing
  BY PairsAre
<1>3. /\ fork'[x] = "branched" /\ \A y \in Maker : y # x => fork'[y] = fork[y]
      /\ ref'[Pair[x].branch] = x
      /\ \A b \in Branch : b # Pair[x].branch => ref'[b] = ref[b]
  BY <1>1, <1>2 DEF TypeOK, GitTyped, ForksTyped
<1>4. GitTyped'
  BY <1>1, <1>2 DEF TypeOK, GitTyped
<1>5. PlacesInv'
  BY <1>1, <1>2, <1>3 DEF GitInv, PlacesInv
<1>6. ASSUME NEW y \in Maker PROVE OwnAt(y)'
  <2>1. OwnAt(y) /\ Pair[y].branch \in Branch /\ y # Nothing
    BY PairsAre DEF GitInv
  <2>2. CASE y = x
    <3>1. x \notin cleaned'
      BY <1>1, <2>1, <2>2 DEF OwnAt
    <3>2. fork'[x] \notin Standing \cup {"undo_branch", "undo_prune"}
      BY <1>3 DEF Standing, Handled
    <3>3. QED
      BY <1>3, <2>2, <3>1, <3>2 DEF OwnAt
  <2>3. CASE y # x
    <3>1. fork'[y] = fork[y]
      BY <1>3, <2>3
    <3>2. ref[Pair[y].branch] = y => ref'[Pair[y].branch] = y
      BY <1>1, <1>3, <2>1
    <3>3. ref'[Pair[y].branch] = y => ref[Pair[y].branch] = y
      BY <1>1, <1>3, <2>1, <2>3
    <3>4. QED
      BY <1>1, <2>1, <3>1, <3>2, <3>3
         DEF OwnAt, UndoneTree, UndoneBranch, PathHit, BranchHit, Disturbed
  <2>4. QED
    BY <2>2, <2>3
<1>7. ASSUME NEW p \in Path PROVE ListedAt(p)'
  <2>1. ListedAt(p) /\ listed'[p] = listed[p]
    BY <1>1 DEF GitInv
  <2>2. listed[p] \in Maker /\ ref[Pair[listed[p]].branch] = listed[p] =>
           ref'[Pair[listed[p]].branch] = listed[p]
    BY <1>1, <1>3, PairsAre
  <2>3. QED
    BY <1>1, <2>1, <2>2 DEF ListedAt, BranchHit
<1>8. QED
  BY <1>4, <1>5, <1>6, <1>7 DEF GitInv

\* Its second half, which may outlive the command.
LEMMA AddTreeKeepsGit ==
    ASSUME TypeOK, GitInv, NEW x \in Maker, fork[x] = "branched", AddTree(x),
           NEW s \in {"created", "dead"}, fork' = [fork EXCEPT ![x] = s],
           UNCHANGED <<cleaned, hit>>
    PROVE  GitInv'
<1>1. /\ dir[Pair[x].path] = Nothing /\ listed[Pair[x].path] = Nothing
      /\ dir' = [dir EXCEPT ![Pair[x].path] = x] /\ listed' = [listed EXCEPT ![Pair[x].path] = x]
      /\ ref' = ref
  BY DEF AddTree, CanAddTree, Exists
<1>2. Pair[x].path \in Path /\ Pair[x].branch \in Branch /\ x # Nothing
  BY PairsAre
<1>3. /\ fork'[x] = s /\ \A y \in Maker : y # x => fork'[y] = fork[y]
      /\ dir'[Pair[x].path] = x /\ listed'[Pair[x].path] = x
      /\ \A p \in Path : p # Pair[x].path => dir'[p] = dir[p] /\ listed'[p] = listed[p]
  BY <1>1, <1>2 DEF TypeOK, GitTyped, ForksTyped
<1>4. GitTyped'
  BY <1>1, <1>2 DEF TypeOK, GitTyped
<1>5. PlacesInv'
  BY <1>1, <1>2, <1>3 DEF GitInv, PlacesInv
<1>6. ref[Pair[x].branch] = x \/ BranchHit(Pair[x].branch)
  BY DEF GitInv, OwnAt, Branched
<1>7. ASSUME NEW y \in Maker PROVE OwnAt(y)'
  <2>1. OwnAt(y) /\ Pair[y].path \in Path /\ y # Nothing
    BY PairsAre DEF GitInv
  <2>2. CASE y = x
    <3>1. x \notin cleaned'
      BY <2>1, <2>2 DEF OwnAt
    <3>2. fork'[x] \notin {"undo_branch", "undo_prune"}
      BY <1>3
    <3>3. (ref[Pair[x].branch] = x \/ BranchHit(Pair[x].branch))'
      BY <1>1, <1>6 DEF BranchHit
    <3>4. QED
      BY <1>3, <2>2, <3>1, <3>2, <3>3 DEF OwnAt
  <2>3. CASE y # x
    <3>1. fork'[y] = fork[y]
      BY <1>3, <2>3
    <3>2. dir[Pair[y].path] = y => Pair[y].path # Pair[x].path
      BY <1>1, <2>1
    <3>3. /\ dir[Pair[y].path] = y => dir'[Pair[y].path] = y
          /\ listed[Pair[y].path] = y => listed'[Pair[y].path] = y
          /\ dir'[Pair[y].path] = y => dir[Pair[y].path] = y
          /\ listed'[Pair[y].path] = y => listed[Pair[y].path] = y
      BY <1>1, <1>3, <2>1, <2>3
    <3>4. QED
      BY <1>1, <2>1, <3>1, <3>3
         DEF OwnAt, UndoneTree, UndoneBranch, PathHit, BranchHit, Disturbed
  <2>4. QED
    BY <2>2, <2>3
<1>8. ASSUME NEW p \in Path PROVE ListedAt(p)'
  <2>1. CASE p = Pair[x].path
    BY <1>1, <1>3, <1>6, <2>1 DEF ListedAt, BranchHit
  <2>2. CASE p # Pair[x].path
    BY <1>1, <1>3, <2>2 DEF GitInv, ListedAt, BranchHit
  <2>3. QED
    BY <2>1, <2>2
<1>9. QED
  BY <1>4, <1>5, <1>7, <1>8 DEF GitInv

\* A fork that moves on while git and the hands laid on it stay as they are.
QuietMove(x) ==
    /\ \E s \in ForkStage :
          /\ fork' = [fork EXCEPT ![x] = s]
          /\ s \in Branched => fork[x] \in Branched
          /\ s \in Standing => fork[x] \in Standing
          /\ s \notin {"undo_branch", "undo_prune"}
    /\ fork[x] \notin {"failed", "interrupted"}
    /\ UNCHANGED <<dir, listed, ref, cleaned, hit>>

\* A fork that moves on without git keeps what is known of it.
LEMMA QuietMoveKeepsGit ==
    ASSUME TypeOK, GitInv, NEW x \in Maker, QuietMove(x)
    PROVE  GitInv'
<1>1. PICK s \in ForkStage :
         /\ fork' = [fork EXCEPT ![x] = s]
         /\ s \in Branched => fork[x] \in Branched
         /\ s \in Standing => fork[x] \in Standing
         /\ s \notin {"undo_branch", "undo_prune"}
  BY DEF QuietMove
<1>2. fork'[x] = s /\ \A y \in Maker : y # x => fork'[y] = fork[y]
  BY <1>1 DEF TypeOK, ForksTyped
<1>3. UNCHANGED <<dir, listed, ref, cleaned, hit>> /\ fork[x] \notin {"failed", "interrupted"}
  BY DEF QuietMove
<1>4. x \notin cleaned'
  BY <1>3 DEF GitInv, OwnAt
<1>5. \A y \in Maker : MovesOn(y)
  BY <1>1, <1>2, <1>3, <1>4 DEF MovesOn
<1>6. Losing
  <2>1. GitTyped'
    BY <1>3 DEF TypeOK, GitTyped
  <2>2. QED
    BY <1>3, <1>5, <2>1 DEF Losing
<1>7. QED
  BY <1>6, LosingKeepsGit

\* Steps of a fork that leave git alone.
LEMMA QuietForkSteps ==
    ASSUME NEW x \in Maker,
           \/ Guard(x) \/ Collide(x) \/ EnterHandlers(x) \/ Work(x) \/ Fail(x) \/ AddEntry(x)
           \/ RefuseEntry(x) \/ Return(x) \/ FailLineage(x) \/ Compensate(x) \/ Succeed(x)
           \/ Interrupt(x)
           \/ (UndoFails(x) \/ InterruptOutside(x) \/ Die(x)) /\ UNCHANGED git
    PROVE  QuietMove(x)
<1> USE DEF QuietMove, Goes, git, ends, ForkStage, ForkEnded, Undoing, Branched, Standing, Handled
<1>1. CASE Guard(x) \/ Collide(x)
  BY <1>1 DEF Guard, Collide
<1>2. CASE EnterHandlers(x) \/ Work(x) \/ Fail(x)
  BY <1>2 DEF EnterHandlers, Work, Fail
<1>3. CASE AddEntry(x) \/ RefuseEntry(x)
  BY <1>3 DEF AddEntry, RefuseEntry
<1>4. CASE Return(x) \/ FailLineage(x) \/ Compensate(x) \/ Succeed(x)
  BY <1>4 DEF Return, FailLineage, Compensate, Succeed
<1>5. CASE Interrupt(x)
  BY <1>5 DEF Interrupt
<1>6. CASE (UndoFails(x) \/ InterruptOutside(x)) /\ UNCHANGED git
  BY <1>6 DEF UndoFails, InterruptOutside, Raised
<1>7. CASE Die(x) /\ UNCHANGED git
  BY <1>7 DEF Die
<1>8. QED
  BY <1>1, <1>2, <1>3, <1>4, <1>5, <1>6, <1>7

\* A rollback takes the worktree that stands at the fork's path: its own,
\* unless a hand was laid on that path.
LEMMA OwnTreeStands ==
    ASSUME GitInv, NEW x \in Maker, fork[x] = "undo_tree"
    PROVE  \/ dir[Pair[x].path] = x /\ listed[Pair[x].path] = x
           \/ PathHit(Pair[x].path)
BY DEF GitInv, OwnAt, Standing

\* While it is rolled back a fork has its branch, unless somebody laid hands on that.
LEMMA OwnBranchStands ==
    ASSUME GitInv, NEW x \in Maker, fork[x] \in {"undo_tree", "undo_branch"}
    PROVE  ref[Pair[x].branch] = x \/ BranchHit(Pair[x].branch)
BY DEF GitInv, OwnAt, Standing, Branched

\* The first command of a rollback takes the tree of the fork itself, or one already hit.
LEMMA TakingTreeKeepsGit ==
    ASSUME TypeOK, GitInv, NEW x \in Maker, fork[x] = "undo_tree",
           RemoveTree(Pair[x].path) \/ RemoveTreePartly(Pair[x].path),
           NEW s \in {"undo_branch", "failed", "interrupted", "dead"},
           s = "undo_branch" => RemoveTree(Pair[x].path),
           fork' = [fork EXCEPT ![x] = s], UNCHANGED <<cleaned, hit>>
    PROVE  GitInv'
<1> DEFINE p == Pair[x].path
<1>1. p \in Path
  BY PairsAre
<1>2. /\ dir' = [dir EXCEPT ![p] = Nothing] /\ ref' = ref
      /\ listed' = listed \/ listed' = [listed EXCEPT ![p] = Nothing]
      /\ s = "undo_branch" => listed' = [listed EXCEPT ![p] = Nothing]
  BY DEF RemoveTree, RemoveTreePartly
<1> HIDE DEF p
<1>3. /\ fork'[x] = s /\ \A y \in Maker : y # x => fork'[y] = fork[y]
      /\ dir'[p] = Nothing /\ (listed'[p] = listed[p] \/ listed'[p] = Nothing)
      /\ s = "undo_branch" => listed'[p] = Nothing
      /\ \A q \in Path : q # p => dir'[q] = dir[q] /\ listed'[q] = listed[q]
  BY <1>1, <1>2 DEF TypeOK, GitTyped, ForksTyped
<1>4. GitTyped'
  BY <1>1, <1>2 DEF TypeOK, GitTyped
<1>5. x \notin cleaned' /\ x # Nothing
  BY PairsAre DEF GitInv, OwnAt
<1>6. MovesOn(x)
  <2>1. s = "undo_branch" => UndoneTree(x)'
    BY <1>3, <1>5 DEF UndoneTree, p
  <2>2. QED
    BY <1>3, <1>5, <2>1 DEF MovesOn, Branched, Standing, Handled
<1>7. \A y \in Maker : MovesOn(y)
  BY <1>3, <1>6 DEF MovesOn
<1>8. ASSUME NEW y \in Maker, fork'[y] \in Standing, dir[Pair[y].path] = y, listed[Pair[y].path] = y
      PROVE  \/ dir'[Pair[y].path] = y /\ listed'[Pair[y].path] = y
             \/ PathHit(Pair[y].path)'
  <2>1. Pair[y].path \in Path /\ y # x
    BY <1>3, <1>8, PairsAre DEF Standing, Handled
  <2>2. CASE Pair[y].path = p
    <3>1. PathHit(p)
      BY <1>8, <2>1, <2>2, OwnTreeStands DEF p
    <3>2. QED
      BY <2>2, <3>1 DEF PathHit
  <2>3. CASE Pair[y].path # p
    BY <1>3, <1>8, <2>1, <2>3
  <2>4. QED
    BY <2>2, <2>3
<1>9. Losing
  <2>1. \A q \in Path : /\ dir'[q] = dir[q] \/ dir'[q] \notin Maker
                        /\ listed'[q] = listed[q] \/ listed'[q] = Nothing
    BY <1>3, PairsAre
  <2>2. QED
    BY <1>2, <1>4, <1>7, <1>8, <2>1 DEF Losing
<1>10. QED
  BY <1>9, LosingKeepsGit

\* A step of the rollback itself, after which there is nothing of the fork
\* where the step looked.
LEMMA UndoTreeKeepsGit ==
    ASSUME TypeOK, GitInv, NEW x \in Maker, UndoTree(x)
    PROVE  GitInv'
<1>1. fork[x] = "undo_tree" /\ fork' = [fork EXCEPT ![x] = "undo_branch"]
      /\ UNCHANGED <<cleaned, hit>>
  BY DEF UndoTree, Goes, ends, bounds
<1>2. CASE Exists(Pair[x].path)
  BY <1>1, <1>2, TakingTreeKeepsGit DEF UndoTree
<1>3. CASE ~Exists(Pair[x].path)
  <2>1. UNCHANGED <<dir, listed, ref>> /\ dir[Pair[x].path] = Nothing
    BY <1>3 DEF UndoTree, git, Exists
  <2>2. PathHit(Pair[x].path)'
    BY <1>1, <2>1, OwnTreeStands, PairsAre DEF PathHit
  <2>3. fork'[x] = "undo_branch" /\ \A y \in Maker : y # x => fork'[y] = fork[y]
    BY <1>1 DEF TypeOK, ForksTyped
  <2>4. UndoneTree(x)'
    BY <2>2 DEF UndoneTree, Disturbed, PathHit
  <2>5. x \notin cleaned'
    BY <1>1 DEF GitInv, OwnAt
  <2>6. \A y \in Maker : MovesOn(y)
    BY <1>1, <2>3, <2>4, <2>5 DEF MovesOn, Branched, Standing, Handled
  <2>7. Losing
    BY <1>1, <2>1, <2>6 DEF Losing, TypeOK, GitTyped
  <2>8. QED
    BY <2>7, LosingKeepsGit
<1>4. QED
  BY <1>2, <1>3

\* The second takes the branch of the fork itself, or one already hit.
LEMMA TakingBranchKeepsGit ==
    ASSUME TypeOK, GitInv, NEW x \in Maker, fork[x] = "undo_branch",
           DeleteBranch(Pair[x].branch),
           NEW s \in {"undo_prune", "failed", "interrupted", "dead"},
           fork' = [fork EXCEPT ![x] = s], UNCHANGED <<cleaned, hit>>
    PROVE  GitInv'
<1> DEFINE b == Pair[x].branch
<1>1. /\ b \notin CheckedOut /\ ref' = [ref EXCEPT ![b] = Nothing]
      /\ UNCHANGED <<dir, listed, cleaned, hit>> /\ b \in Branch
  BY PairsAre DEF DeleteBranch, CanDeleteBranch
<1> HIDE DEF b
<1>2. /\ fork'[x] = s /\ \A y \in Maker : y # x => fork'[y] = fork[y]
      /\ ref'[b] = Nothing /\ \A c \in Branch : c # b => ref'[c] = ref[c]
  BY <1>1 DEF TypeOK, GitTyped, ForksTyped
<1>3. x \notin cleaned' /\ x # Nothing /\ UndoneTree(x)
  BY <1>1, PairsAre DEF GitInv, OwnAt
<1>4. \A y \in Maker : MovesOn(y)
  <2>1. UndoneTree(x)'
    BY <1>1, <1>3 DEF UndoneTree, Disturbed
  <2>2. UndoneBranch(x)'
    BY <1>2, <1>3 DEF UndoneBranch, b
  <2>3. QED
    BY <1>1, <1>2, <1>3, <2>1, <2>2 DEF MovesOn, Branched, Standing, Handled
<1>5. ASSUME NEW y \in Maker, fork'[y] \in Branched, ref[Pair[y].branch] = y
      PROVE  ref'[Pair[y].branch] = y \/ BranchHit(Pair[y].branch)'
  <2>1. Pair[y].branch \in Branch /\ y # x
    BY <1>2, <1>5, PairsAre DEF Branched, Standing, Handled
  <2>2. CASE Pair[y].branch = b
    <3>1. BranchHit(b)
      BY <1>1, <1>5, <2>1, <2>2, OwnBranchStands DEF b
    <3>2. QED
      BY <1>1, <2>2, <3>1 DEF BranchHit
  <2>3. CASE Pair[y].branch # b
    BY <1>2, <1>5, <2>1, <2>3
  <2>4. QED
    BY <2>2, <2>3
<1>6. Losing
  <2>1. GitTyped'
    BY <1>1 DEF TypeOK, GitTyped
  <2>2. \A c \in Branch : ref'[c] = ref[c] \/ (ref'[c] = Nothing /\ c \notin CheckedOut)
    BY <1>1, <1>2
  <2>3. QED
    BY <1>1, <1>4, <1>5, <2>1, <2>2 DEF Losing
<1>7. QED
  BY <1>6, LosingKeepsGit

\* So it is when it goes well.
LEMMA UndoBranchKeepsGit ==
    ASSUME TypeOK, GitInv, NEW x \in Maker, UndoBranch(x)
    PROVE  GitInv'
BY TakingBranchKeepsGit DEF UndoBranch, Goes, ends, bounds

\* git worktree prune takes no entry of a worktree that is there.
LEMMA PruningKeepsGit ==
    ASSUME TypeOK, GitInv, PruneTrees, UNCHANGED hit, \A x \in Maker : MovesOn(x)
    PROVE  GitInv'
<1>1. UNCHANGED <<dir, ref>> /\ listed' \in [Path -> Maker \cup {Nothing}]
  BY DEF PruneTrees, TypeOK, GitTyped
<1>2. \A p \in Path : listed'[p] = IF dir[p] = listed[p] THEN listed[p] ELSE Nothing
  BY DEF PruneTrees
<1>3. \A x \in Maker : Pair[x].path \in Path
  BY PairsAre
<1>4. Losing
  BY <1>1, <1>2, <1>3 DEF Losing, TypeOK, GitTyped
<1>5. QED
  BY <1>4, LosingKeepsGit

\* The third prunes entries whose directory is gone, which no whole fork has.
LEMMA UndoPruneKeepsGit ==
    ASSUME TypeOK, GitInv, NEW x \in Maker, UndoPrune(x)
    PROVE  GitInv'
<1>1. /\ fork[x] = "undo_prune" /\ fork' = [fork EXCEPT ![x] = Raised(x)] /\ PruneTrees
      /\ cleaned' = cleaned \cup {x} /\ UNCHANGED hit
  BY DEF UndoPrune, Goes
<1>2. /\ fork'[x] \in {"failed", "interrupted"} /\ \A y \in Maker : y # x => fork'[y] = fork[y]
  BY <1>1 DEF TypeOK, ForksTyped, Raised
<1>3. UndoneTree(x) /\ UndoneBranch(x)
  BY <1>1 DEF GitInv, OwnAt
<1>4. UNCHANGED <<dir, ref>> /\ listed'[Pair[x].path] \in {listed[Pair[x].path], Nothing}
  BY <1>1, PairsAre DEF PruneTrees
<1>5. UndoneTree(x)' /\ UndoneBranch(x)'
  BY <1>1, <1>3, <1>4, PairsAre DEF UndoneTree, UndoneBranch, Disturbed
<1>6. \A y \in Maker : MovesOn(y)
  BY <1>1, <1>2, <1>5 DEF MovesOn, Branched, Standing, Handled
<1>7. QED
  BY <1>1, <1>6, PruningKeepsGit

\* A rollback, or a fork killed in it, whose git command fails or runs on.
LEMMA StoppedGitKeepsGit ==
    ASSUME TypeOK, GitInv, NEW x \in Maker, UndoFails(x) \/ InterruptOutside(x) \/ Die(x)
    PROVE  GitInv'
<1>1. CASE UNCHANGED git
  BY <1>1, QuietForkSteps, QuietMoveKeepsGit
<1>2. /\ \E s \in {"failed", "interrupted", "dead"} : fork' = [fork EXCEPT ![x] = s]
      /\ UNCHANGED <<cleaned, hit>>
  BY DEF UndoFails, InterruptOutside, Die, Goes, Raised, ends, bounds
<1>3. CASE fork[x] = "undo_tree" /\ (RemoveTree(Pair[x].path) \/ RemoveTreePartly(Pair[x].path))
  BY <1>2, <1>3, TakingTreeKeepsGit
<1>4. CASE fork[x] = "undo_branch" /\ DeleteBranch(Pair[x].branch)
  BY <1>2, <1>4, TakingBranchKeepsGit
<1>5. CASE Die(x) /\ fork[x] = "branched" /\ AddTree(x)
  BY <1>5, AddTreeKeepsGit DEF Die, Goes, ends, bounds
<1>6. QED
  BY <1>1, <1>3, <1>4, <1>5 DEF UndoFails, InterruptOutside, Die, UndoesSome

\* A cleanup or the user takes what stands at a path, which counts as a hand
\* laid on the fork that made it.
LEMMA HandOnTreeKeepsGit ==
    ASSUME TypeOK, GitInv, NEW p \in Path, NEW v \in {Alien, Nothing},
           dir' = [dir EXCEPT ![p] = v],
           listed' = listed \/ listed' = [listed EXCEPT ![p] = Nothing],
           hit' = hit \cup ({dir[p]} \cap Maker),
           UNCHANGED <<ref, fork, cleaned>>
    PROVE  GitInv'
<1>1. /\ dir'[p] = v /\ (listed'[p] = listed[p] \/ listed'[p] = Nothing)
      /\ \A q \in Path : q # p => dir'[q] = dir[q] /\ listed'[q] = listed[q]
      /\ v \notin Maker
  BY PairsAre DEF TypeOK, GitTyped
<1>2. GitTyped'
  BY DEF TypeOK, GitTyped
<1>3. ASSUME NEW y \in Maker, dir[Pair[y].path] = y, listed[Pair[y].path] = y
      PROVE  \/ dir'[Pair[y].path] = y /\ listed'[Pair[y].path] = y
             \/ PathHit(Pair[y].path)'
  <2>1. CASE Pair[y].path = p
    <3>1. y \in hit'
      BY <1>3, <2>1
    <3>2. QED
      BY <3>1 DEF PathHit
  <2>2. CASE Pair[y].path # p
    BY <1>1, <1>3, <2>2, PairsAre
  <2>3. QED
    BY <2>1, <2>2
<1>4. \A y \in Maker : MovesOn(y)
  BY DEF MovesOn
<1>5. Losing
  BY <1>1, <1>2, <1>3, <1>4 DEF Losing
<1>6. QED
  BY <1>5, LosingKeepsGit

\* What a cleanup destroys was made by its row's fork or is recorded as hit.
LEMMA CleanersKeepGit ==
    ASSUME TypeOK, GitInv, NEW c \in Cleaner, PlanAt(c),
           \/ DestroyTree(c) \/ DestroyPrune(c) \/ DestroyBranch(c)
           \/ DestroyFails(c) \/ OrphanEnds(c)
    PROVE  GitInv'
<1>1. clean[c] # "start"
  BY DEF DestroyTree, DestroyFails, OrphanEnds, DestroyPrune, DestroyBranch, Locked, Destroying,
         Orphan
<1>2. plan[c].path \in Path /\ plan[c].branch \in Branch
  BY <1>1 DEF PlanAt
<1>3. UNCHANGED <<fork, cleaned>>
  BY DEF DestroyTree, DestroyFails, OrphanEnds, DestroyPrune, DestroyBranch, forks, ends
<1>4. \A y \in Maker : MovesOn(y)
  BY <1>3 DEF MovesOn
<1>5. CASE /\ RemoveTree(plan[c].path) \/ RemoveTreePartly(plan[c].path)
           /\ hit' = hit \cup ({dir[plan[c].path]} \cap Maker)
  BY <1>2, <1>3, <1>5, HandOnTreeKeepsGit DEF RemoveTree, RemoveTreePartly
<1>6. CASE UNCHANGED <<git, hit>>
  <2>1. Losing
    BY <1>4, <1>6 DEF Losing, TypeOK, GitTyped, git
  <2>2. QED
    BY <2>1, LosingKeepsGit
<1>7. CASE PruneTrees /\ UNCHANGED hit
  BY <1>4, <1>7, PruningKeepsGit
<1>8. CASE /\ DeleteBranch(plan[c].branch)
           /\ hit' = hit \cup ({ref[plan[c].branch]} \cap Maker)
  <2> DEFINE b == plan[c].branch
  <2>1. /\ b \notin CheckedOut /\ ref' = [ref EXCEPT ![b] = Nothing]
        /\ UNCHANGED <<dir, listed>> /\ hit' = hit \cup ({ref[b]} \cap Maker) /\ b \in Branch
    BY <1>2, <1>8 DEF DeleteBranch, CanDeleteBranch
  <2> HIDE DEF b
  <2>2. ref'[b] = Nothing /\ \A d \in Branch : d # b => ref'[d] = ref[d]
    BY <2>1 DEF TypeOK, GitTyped
  <2>3. GitTyped'
    BY <2>1 DEF TypeOK, GitTyped
  <2>4. ASSUME NEW y \in Maker, ref[Pair[y].branch] = y
        PROVE  ref'[Pair[y].branch] = y \/ BranchHit(Pair[y].branch)'
    <3>1. CASE Pair[y].branch = b
      <4>1. y \in hit'
        BY <2>1, <2>4, <3>1
      <4>2. QED
        BY <4>1 DEF BranchHit
    <3>2. CASE Pair[y].branch # b
      BY <2>2, <2>4, <3>2, PairsAre
    <3>3. QED
      BY <3>1, <3>2
  <2>5. Losing
    BY <1>4, <2>1, <2>2, <2>3, <2>4 DEF Losing
  <2>6. QED
    BY <2>5, LosingKeepsGit
<1>9. QED
  BY <1>5, <1>6, <1>7, <1>8 DEF DestroyTree, DestroyPrune, DestroyBranch, DestroyFails, OrphanEnds,
     CleanupGitStops, CleanupGit, bounds

\* What the user destroys is recorded as hit.
LEMMA MeddleKeepsGit ==
    ASSUME TypeOK, GitInv, Meddle
    PROVE  GitInv'
<1>1. PICK p \in Path : /\ UserDeletes(p) \/ UserMakes(p)
                        /\ hit' = hit \cup ({dir[p]} \cap Maker)
  BY DEF Meddle
<1>2. UNCHANGED <<fork, cleaned>>
  BY DEF Meddle, forks, ends
<1>3. UNCHANGED <<ref, listed>>
      /\ (dir' = [dir EXCEPT ![p] = Nothing] \/ dir' = [dir EXCEPT ![p] = Alien])
  BY <1>1 DEF UserDeletes, UserMakes
<1>4. QED
  BY <1>1, <1>2, <1>3, HandOnTreeKeepsGit

\* Every other step of a cleanup, and prune, leave git alone.
LEMMA SameGitKeepsGit ==
    ASSUME TypeOK, GitInv, UNCHANGED <<dir, listed, ref, fork, cleaned, hit>>
    PROVE  GitInv'
<1>1. \A y \in Maker : MovesOn(y)
  BY DEF MovesOn
<1>2. Losing
  BY <1>1 DEF Losing, TypeOK, GitTyped
<1>3. QED
  BY <1>2, LosingKeepsGit

\* A cleanup touches the repository in its destroying steps only.
LEMMA QuietCleanSteps ==
    ASSUME NEW c \in Cleaner,
           \/ ResolveOwned(c) \/ ResolveForced(c) \/ Consent(c) \/ Decline(c) \/ Lock(c)
           \/ Confirm(c) \/ KeepBranch(c) \/ KillCleanup(c) \/ RemoveRow(c)
    PROVE  UNCHANGED <<dir, listed, ref, fork, cleaned, hit>>
BY DEF ResolveOwned, ResolveForced, Resolves, Consent, Decline, Lock, Confirm, KeepBranch,
       KillCleanup, RemoveRow, git, forks, ends, bounds

\* Every step.
LEMMA NextKeepsGit == ForkInv /\ [Next]_vars => GitInv'
<1> SUFFICES ASSUME ForkInv, [Next]_vars PROVE GitInv'
  OBVIOUS
<1>1. TypeOK /\ GitInv
  BY DEF ForkInv
<1>2. ASSUME NEW x \in Maker, Guard(x) \/ Forks(x) \/ Interrupt(x)
      PROVE  GitInv'
  <2>1. CASE CreateBranch(x)
    BY <1>1, <2>1, CreateBranchKeepsGit
  <2>2. CASE CreateTree(x)
    BY <1>1, <2>2, AddTreeKeepsGit DEF CreateTree, Goes, ends, bounds
  <2>3. CASE UndoTree(x) \/ UndoBranch(x) \/ UndoPrune(x) \/ UndoFails(x)
    BY <1>1, <2>3, UndoTreeKeepsGit, UndoBranchKeepsGit, UndoPruneKeepsGit, StoppedGitKeepsGit
  <2>4. CASE \/ Guard(x) \/ Collide(x) \/ EnterHandlers(x) \/ Work(x) \/ Fail(x) \/ AddEntry(x)
             \/ RefuseEntry(x) \/ Return(x) \/ FailLineage(x) \/ Compensate(x) \/ Succeed(x)
             \/ Interrupt(x)
    BY <1>1, <2>4, QuietForkSteps, QuietMoveKeepsGit
  <2>5. QED
    BY <1>2, <2>1, <2>2, <2>3, <2>4 DEF Forks
<1>3. ASSUME NEW x \in Maker, InterruptOutside(x) \/ Die(x) PROVE GitInv'
  BY <1>1, <1>3, StoppedGitKeepsGit
<1>4. ASSUME NEW c \in Cleaner,
             \/ ResolveOwned(c) \/ ResolveForced(c) \/ Consent(c) \/ Decline(c) \/ Cleans(c)
             \/ KillCleanup(c)
      PROVE  GitInv'
  <2>1. PlanAt(c)
    BY DEF ForkInv
  <2>2. CASE \/ DestroyTree(c) \/ DestroyPrune(c) \/ DestroyBranch(c)
             \/ DestroyFails(c) \/ OrphanEnds(c)
    BY <1>1, <2>1, <2>2, CleanersKeepGit
  <2>3. CASE \/ ResolveOwned(c) \/ ResolveForced(c) \/ Consent(c) \/ Decline(c) \/ Lock(c)
             \/ Confirm(c) \/ KeepBranch(c) \/ KillCleanup(c) \/ RemoveRow(c)
    BY <1>1, <2>3, QuietCleanSteps, SameGitKeepsGit
  <2>4. QED
    BY <1>4, <2>2, <2>3 DEF Cleans
<1>5. ASSUME NEW q \in Pruner, PlanPrune(q) \/ LockPrune(q) \/ ApplyPrune(q) \/ EndPrune(q)
      PROVE  GitInv'
  BY <1>1, <1>5, SameGitKeepsGit DEF PlanPrune, LockPrune, ApplyPrune, EndPrune, git, forks, ends,
     bounds
<1>6. CASE Meddle
  BY <1>1, <1>6, MeddleKeepsGit
<1>7. CASE UNCHANGED vars
  BY <1>1, <1>7, SameGitKeepsGit DEF vars
<1>8. QED
  BY <1>2, <1>3, <1>4, <1>5, <1>6, <1>7 DEF Next

-----------------------------------------------------------------------------
(* The registry and the cleanups.                                           *)

\* Rows stay as they are or go; one that goes was not needed any more, and a
\* fork that begins to roll back has no row or is stranded.
Receding ==
    /\ hit \subseteq hit' /\ stranded \subseteq stranded' /\ rows' \subseteq rows
    /\ \A x \in Maker :
          /\ fork[x] \in Enrolled => fork'[x] \in Enrolled
          /\ fork'[x] \in Settled => fork[x] \in Settled
          /\ RollsBack(x)' /\ RowOf(x) \in rows' => RollsBack(x) \/ x \in stranded'
          /\ fork'[x] \in Settled /\ RowOf(x) \in rows => RowOf(x) \in rows' \/ Disturbed(x)'

\* Rows that only go, and go for cause, stay true of the forks.
LEMMA RecedingKeepsRows ==
    ASSUME RowsInv, Receding
    PROVE  RowsInv'
<1>1. \A x : Disturbed(x) => Disturbed(x)'
  BY HitsLast DEF Receding
<1>2. \A r \in rows' : WrittenRow(r)'
  <2> SUFFICES ASSUME NEW r \in rows' PROVE WrittenRow(r)'
    OBVIOUS
  <2>1. WrittenRow(r)
    BY DEF RowsInv, Receding
  <2>2. r.by \in Maker
    BY <2>1 DEF WrittenRow, Row
  <2>3. QED
    BY <2>1, <2>2 DEF WrittenRow, Receding
<1>3. \A r, s \in rows' : r.name = s.name => r = s
  BY DEF RowsInv, Receding
<1>4. \A x \in Maker : fork'[x] \in Settled => RowOf(x) \in rows' \/ Disturbed(x)'
  BY <1>1 DEF RowsInv, Receding
<1>5. \A x \in Maker : RollsBack(x)' /\ RowOf(x) \in rows' => x \in stranded'
  BY DEF RowsInv, Receding
<1>6. QED
  BY <1>2, <1>3, <1>4, <1>5 DEF RowsInv

\* No worktree appears where a row was written for one.
NoneReturns ==
    \A p \in Path :
        /\ dir'[p] \in Maker => dir'[p] = dir[p] \/ fork[dir'[p]] \notin Enrolled
        /\ listed'[p] \in Maker => listed'[p] = listed[p] \/ fork[listed'[p]] \notin Enrolled

\* What is to be kept besides the facts of git.
Rest == /\ ForksTyped /\ CleansTyped /\ RowsInv /\ LockInv /\ PruneInv
        /\ \A c \in Cleaner : PlanAt(c)

\* A cleanup stays as it was, and what its confirmation found is still so if it
\* holds the lock.
Spared(c) ==
    /\ plan'[c] = plan[c] /\ clean'[c] = clean[c]
    /\ hit \subseteq hit'
    /\ \A x \in Maker : fork[x] \in Enrolled => fork'[x] \in Enrolled
    /\ lock = c =>
          /\ lock' = c /\ rows' = rows
          /\ \A x \in Maker : fork'[x] \in Settled => fork[x] \in Settled
          /\ NoneReturns

\* What does not concern a cleanup's row leaves its plan as it was.
LEMMA SparedKeepsPlan ==
    ASSUME RowsInv, NEW c \in Cleaner, PlanAt(c), Spared(c)
    PROVE  PlanAt(c)'
<1>1. plan'[c] = plan[c] /\ clean'[c] = clean[c]
  BY DEF Spared
<1>2. ASSUME plan[c].owned PROVE OwnedAt(c)'
  <2>1. OwnedAt(c) /\ WrittenRow(plan[c].row)
    BY <1>2 DEF PlanAt, OwnedAt
  <2>2. plan[c].row.by \in Maker /\ plan[c].row.path \in Path
    BY <2>1 DEF WrittenRow, Row
  <2>3. WrittenRow(plan[c].row)'
    BY <1>1, <2>1, <2>2 DEF WrittenRow, Spared
  <2>4. plan'[c].path = plan'[c].row.path /\ plan'[c].branch = plan'[c].row.branch
    BY <1>1, <2>1 DEF OwnedAt
  <2>5. clean'[c] \in Locked => lock' = c
    BY <1>1, <2>1 DEF OwnedAt, Spared
  <2>6. clean'[c] \in Destroying => plan'[c].row \in rows'
    BY <1>1, <2>1 DEF OwnedAt, Spared, Locked
  <2>7. ASSUME clean'[c] = "destroy", NEW r \in rows', r.by = dir'[plan'[c].path]
        PROVE  r.branch = plan'[c].branch
    <3>1. lock = c /\ clean[c] = "destroy" /\ r \in rows
      BY <1>1, <2>1, <2>7 DEF OwnedAt, Spared, Locked, Destroying
    <3>2. WrittenRow(r) /\ r.by \in Maker /\ fork[r.by] \in Enrolled
      BY <3>1 DEF RowsInv, WrittenRow, Row
    <3>3. plan[c].path \in Path
      BY <2>1, <2>2 DEF OwnedAt
    <3>4. r.by = dir[plan[c].path]
      BY <1>1, <2>7, <3>1, <3>2, <3>3 DEF Spared, NoneReturns
    <3>5. QED
      BY <1>1, <2>1, <3>1, <3>4 DEF OwnedAt
  <2>8. clean'[c] \in {"prune", "branch", "row"} /\ fork'[plan'[c].row.by] \in Settled =>
           Disturbed(plan[c].row.by)'
    <3>1. SUFFICES ASSUME clean[c] \in {"prune", "branch", "row"},
                          fork'[plan[c].row.by] \in Settled
                   PROVE  Disturbed(plan[c].row.by)'
      BY <1>1
    <3>2. lock = c
      BY <2>1, <3>1 DEF OwnedAt, Locked, Destroying
    <3>3. Disturbed(plan[c].row.by)
      BY <2>1, <2>2, <3>1, <3>2 DEF OwnedAt, Spared
    <3>4. QED
      BY <1>1, <3>3 DEF Spared, Disturbed
  <2>9. ASSUME clean'[c] \in {"prune", "branch", "row"}
        PROVE  dir'[plan'[c].path] # plan'[c].row.by /\ listed'[plan'[c].path] # plan'[c].row.by
    <3>1. lock = c
      BY <1>1, <2>1, <2>9 DEF OwnedAt, Locked, Destroying
    <3>2. dir[plan[c].path] # plan[c].row.by /\ listed[plan[c].path] # plan[c].row.by
      BY <1>1, <2>1, <2>9 DEF OwnedAt
    <3>3. fork[plan[c].row.by] \in Enrolled /\ plan[c].path \in Path
      BY <2>1, <2>2 DEF OwnedAt, WrittenRow
    <3>4. QED
      BY <1>1, <2>2, <3>1, <3>2, <3>3 DEF Spared, NoneReturns
  <2>10. QED
    BY <1>1, <2>3, <2>4, <2>5, <2>6, <2>7, <2>8, <2>9 DEF OwnedAt
<1>3. QED
  BY <1>1, <1>2 DEF PlanAt

\* A prune under the lock goes by the worktrees that were lost.
LEMMA PruningStands ==
    ASSUME TypeOK, PruneInv, hit \subseteq hit', lock' \in Pruner => lock' = lock /\ agreed' = agreed,
           \A x \in Maker : fork'[x] \in Settled => fork[x] \in Settled
    PROVE  PruneInv'
<1> SUFFICES ASSUME lock' \in Pruner, NEW r \in agreed'[lock'], fork'[r.by] \in Settled
             PROVE  Disturbed(r.by)'
  BY DEF PruneInv
<1>1. lock' = lock /\ r \in agreed[lock] /\ r.by \in Maker
  BY DEF TypeOK, CleansTyped, Row
<1>2. Disturbed(r.by)
  BY <1>1 DEF PruneInv
<1>3. QED
  BY <1>2 DEF Disturbed

\* A fork that moves on while the registry and the cleanups stay as they are.
PlainMove(x) ==
    /\ \E s \in ForkStage :
          /\ fork' = [fork EXCEPT ![x] = s]
          /\ fork[x] \in Enrolled => s \in Enrolled
          /\ s \in Settled => fork[x] \in Settled
          /\ s \in Undoing =>
                fork[x] \in Undoing \/ x \in stranded' \/ fork[x] \notin Enrolled
    /\ signalled' \in {signalled, signalled \cup {x}}
    /\ stranded' \in {stranded, stranded \cup {x}}
    /\ cleaned' = cleaned \/ (fork[x] \in Undoing /\ cleaned' = cleaned \cup {x})
    /\ signals' \in {signals, signals + 1}
    /\ UNCHANGED <<rows, lock, clean, plan, agreed, meddling, hit>>
    /\ NoneReturns

\* A fork's step that leaves rows and lock alone keeps everything but the facts of git.
LEMMA PlainMoveKeepsRest ==
    ASSUME ForkInv, NEW x \in Maker, PlainMove(x)
    PROVE  Rest'
<1>1. PICK s \in ForkStage :
         /\ fork' = [fork EXCEPT ![x] = s]
         /\ fork[x] \in Enrolled => s \in Enrolled
         /\ s \in Settled => fork[x] \in Settled
         /\ s \in Undoing =>
               fork[x] \in Undoing \/ x \in stranded' \/ fork[x] \notin Enrolled
  BY DEF PlainMove
<1>2. fork'[x] = s /\ \A y \in Maker : y # x => fork'[y] = fork[y]
  BY <1>1 DEF ForkInv, TypeOK, ForksTyped
<1>3. ForksTyped'
  BY <1>1 DEF ForkInv, TypeOK, ForksTyped, PlainMove
<1>4. CleansTyped'
  BY DEF ForkInv, TypeOK, CleansTyped, PlainMove
<1>5. /\ \A y \in Maker : fork[y] \in Enrolled => fork'[y] \in Enrolled
      /\ \A y \in Maker : fork'[y] \in Settled => fork[y] \in Settled
  BY <1>1, <1>2
<1>6. RowsInv'
  <2>1. RowOf(x) \in rows => fork[x] \in Enrolled
    BY RowOfIs DEF ForkInv, RowsInv, WrittenRow
  <2>2. \A y \in Maker : RollsBack(y)' /\ RowOf(y) \in rows' => RollsBack(y) \/ y \in stranded'
    <3>1. rows' = rows
      BY DEF PlainMove
    <3>2. \A y \in Maker : y \in cleaned' => RollsBack(y)
      BY DEF RollsBack, PlainMove
    <3>3. \A y \in Maker : fork'[y] \in Undoing /\ RowOf(y) \in rows' => RollsBack(y) \/ y \in stranded'
      BY <1>1, <1>2, <2>1, <3>1 DEF RollsBack
    <3>4. QED
      BY <3>2, <3>3 DEF RollsBack
  <2>3. Receding
    BY <1>5, <2>2 DEF Receding, PlainMove
  <2>4. QED
    BY <2>3, RecedingKeepsRows DEF ForkInv
<1>7. LockInv' /\ PruneInv'
  <2>1. LockInv'
    BY DEF ForkInv, LockInv, PlainMove
  <2>2. PruneInv'
    BY <1>5, PruningStands DEF ForkInv, PlainMove
  <2>3. QED
    BY <2>1, <2>2
<1>8. ASSUME NEW c \in Cleaner PROVE PlanAt(c)'
  <2>1. Spared(c)
    BY <1>5 DEF Spared, PlainMove
  <2>2. QED
    BY <2>1, SparedKeepsPlan DEF ForkInv
<1>9. QED
  BY <1>3, <1>4, <1>6, <1>7, <1>8 DEF Rest

\* All steps of a fork but those that write its row or take it back are such.
LEMMA PlainForkSteps ==
    ASSUME ForkInv, NEW x \in Maker,
           \/ Guard(x) \/ CreateBranch(x) \/ CreateTree(x) \/ Collide(x) \/ EnterHandlers(x)
           \/ Work(x) \/ Fail(x) \/ RefuseEntry(x) \/ Return(x) \/ FailLineage(x) \/ Succeed(x)
           \/ UndoTree(x) \/ UndoBranch(x) \/ UndoPrune(x) \/ UndoFails(x)
           \/ Interrupt(x) \/ InterruptOutside(x) \/ Die(x)
    PROVE  PlainMove(x)
<1>1. /\ dir \in [Path -> Maker \cup {Alien, Nothing}] /\ Pair[x].path \in Path
      /\ listed \in [Path -> Maker \cup {Nothing}] /\ Nothing \notin Maker
  BY PairsAre DEF ForkInv, TypeOK, GitTyped
<1>2. ASSUME RemoveTree(Pair[x].path) \/ RemoveTreePartly(Pair[x].path)
      PROVE  NoneReturns
  BY <1>1, <1>2 DEF RemoveTree, RemoveTreePartly, NoneReturns
<1>3. ASSUME AddTree(x), fork[x] \notin Enrolled
      PROVE  NoneReturns
  BY <1>1, <1>3 DEF AddTree, NoneReturns
<1>4. ASSUME PruneTrees PROVE NoneReturns
  BY <1>1, <1>4 DEF PruneTrees, NoneReturns
<1>5. ASSUME UNCHANGED <<dir, listed>> PROVE NoneReturns
  BY <1>5 DEF NoneReturns
<1>6. ASSUME UndoesSome(x) PROVE NoneReturns
  BY <1>2, <1>5, <1>6 DEF UndoesSome, DeleteBranch, git
<1> USE DEF PlainMove, Goes, git, ends, cleans, bounds, ForkStage, ForkEnded, Undoing, Enrolled,
            Settled, Handled, Raised, Signal
<1>7. CASE Guard(x) \/ Collide(x)
  BY <1>5, <1>7 DEF Guard, Collide
<1>8. CASE CreateBranch(x)
  BY <1>5, <1>8 DEF CreateBranch, AddBranch
<1>9. CASE CreateTree(x)
  BY <1>3, <1>9 DEF CreateTree
<1>10. CASE EnterHandlers(x) \/ Work(x) \/ Fail(x) \/ RefuseEntry(x)
  BY <1>5, <1>10 DEF EnterHandlers, Work, Fail, RefuseEntry
<1>11. CASE Return(x) \/ FailLineage(x) \/ Succeed(x)
  BY <1>5, <1>11 DEF Return, FailLineage, Succeed
<1>12. CASE UndoTree(x)
  BY <1>2, <1>5, <1>12 DEF UndoTree
<1>13. CASE UndoBranch(x)
  BY <1>5, <1>13 DEF UndoBranch, DeleteBranch
<1>14. CASE UndoPrune(x)
  BY <1>4, <1>14 DEF UndoPrune
<1>15. CASE UndoFails(x)
  BY <1>6, <1>15 DEF UndoFails
<1>16. CASE Interrupt(x)
  BY <1>5, <1>16 DEF Interrupt
<1>17. CASE InterruptOutside(x)
  BY <1>6, <1>17 DEF InterruptOutside
<1>18. CASE Die(x)
  BY <1>3, <1>6, <1>18 DEF Die
<1>19. QED
  BY <1>7, <1>8, <1>9, <1>10, <1>11, <1>12, <1>13, <1>14, <1>15, <1>16, <1>17, <1>18

\* add_entry puts no row out that another fork still needs.
LEMMA AddEntryKeepsRest ==
    ASSUME ForkInv, NEW x \in Maker, AddEntry(x)
    PROVE  Rest'
<1>1. /\ fork[x] = "registering" /\ lock = Nothing
      /\ \A r \in Occupied(x) : r.path = Pair[x].path /\ r.branch = Pair[x].branch
      /\ rows' = {r \in rows : r.name # NameOf[x]} \cup {RowOf(x)}
      /\ fork' = [fork EXCEPT ![x] = "registered"]
      /\ UNCHANGED <<dir, listed, ref, lock, signalled, cleaned, stranded, clean, plan, agreed,
                     signals, meddling, hit>>
  BY DEF AddEntry, Goes, git, ends, cleans, bounds
<1>2. fork'[x] = "registered" /\ \A y \in Maker : y # x => fork'[y] = fork[y]
  BY <1>1 DEF ForkInv, TypeOK, ForksTyped
<1>3. ForksTyped' /\ CleansTyped'
  BY <1>1, RowOfIs DEF ForkInv, TypeOK, ForksTyped, CleansTyped, ForkStage, Handled
<1>4. LockInv' /\ PruneInv'
  BY <1>1, PairsAre DEF LockInv, PruneInv
<1>5. \A y \in Maker : fork[y] \in Enrolled => fork'[y] \in Enrolled
  BY <1>1, <1>2 DEF Enrolled, Settled
<1>6. RowsInv'
  <2>1. ASSUME NEW r \in rows' PROVE WrittenRow(r)'
    <3>1. CASE r = RowOf(x)
      BY <1>2, <3>1, RowOfIs DEF WrittenRow, Enrolled, Settled
    <3>2. CASE r \in rows
      <4>1. WrittenRow(r) /\ r.by \in Maker
        BY <3>2 DEF ForkInv, RowsInv, WrittenRow, Row
      <4>2. QED
        BY <1>5, <4>1 DEF WrittenRow
    <3>3. QED
      BY <1>1, <3>1, <3>2
  <2>2. \A r, s \in rows' : r.name = s.name => r = s
    BY <1>1, RowOfIs DEF ForkInv, RowsInv
  <2>3. ASSUME NEW y \in Maker, fork'[y] \in Settled, RowOf(y) \notin rows'
        PROVE  Disturbed(y)'
    <3>1. y # x /\ fork[y] \in Settled
      BY <1>1, <1>2, <2>3
    <3>2. CASE Disturbed(y)
      BY <1>1, <3>2 DEF Disturbed
    <3>3. CASE RowOf(y) \in rows
      <4>1. RowOf(y).name = NameOf[x] /\ RowOf(y).path = Pair[y].path
        BY <1>1, <2>3, <3>3, RowOfIs
      <4>2. dir[Pair[y].path] = y \/ PathHit(Pair[y].path)
        BY <3>1 DEF ForkInv, GitInv, OwnAt, Settled, Standing, Handled
      <4>3. dir[Pair[x].path] = x \/ PathHit(Pair[x].path)
        BY <1>1 DEF ForkInv, GitInv, OwnAt, Standing, Handled
      <4>4. dir[Pair[y].path] = y => Pair[y].path = Pair[x].path
        BY <1>1, <3>3, <4>1, PairsAre DEF Occupied, Exists
      <4>5. PathHit(Pair[y].path)
        BY <3>1, <4>2, <4>3, <4>4
      <4>6. QED
        BY <1>1, <4>5 DEF PathHit, Disturbed
    <3>4. QED
      BY <3>1, <3>2, <3>3 DEF ForkInv, RowsInv
  <2>4. ASSUME NEW y \in Maker, RollsBack(y)', RowOf(y) \in rows'
        PROVE  y \in stranded'
    <3>1. x \notin cleaned
      BY <1>1 DEF ForkInv, GitInv, OwnAt
    <3>2. y # x /\ RollsBack(y)
      BY <1>1, <1>2, <2>4, <3>1 DEF RollsBack, Undoing
    <3>3. RowOf(y) \in rows
      BY <1>1, <2>4, <3>2, RowOfIs
    <3>4. QED
      BY <1>1, <3>2, <3>3 DEF ForkInv, RowsInv
  <2>5. QED
    BY <2>1, <2>2, <2>3, <2>4 DEF RowsInv
<1>7. ASSUME NEW c \in Cleaner PROVE PlanAt(c)'
  <2>1. Spared(c)
    BY <1>1, <1>5, PairsAre DEF Spared
  <2>2. QED
    BY <2>1, SparedKeepsPlan DEF ForkInv
<1>8. QED
  BY <1>3, <1>4, <1>6, <1>7 DEF Rest

\* The compensation takes its own row, or the fork is stranded.
LEMMA CompensateKeepsRest ==
    ASSUME ForkInv, NEW x \in Maker, Compensate(x)
    PROVE  Rest'
<1>1. /\ fork[x] = "compensating" /\ fork' = [fork EXCEPT ![x] = "undo_tree"]
      /\ \/ lock = Nothing /\ rows' = rows \ {RowOf(x)} /\ stranded' = stranded
         \/ rows' = rows /\ stranded' = stranded \cup {x}
      /\ UNCHANGED <<dir, listed, ref, lock, signalled, cleaned, clean, plan, agreed, signals,
                     meddling, hit>>
  BY DEF Compensate, Goes, git, cleans, bounds
<1>2. fork'[x] = "undo_tree" /\ \A y \in Maker : y # x => fork'[y] = fork[y]
  BY <1>1 DEF ForkInv, TypeOK, ForksTyped
<1>3. ForksTyped' /\ CleansTyped'
  BY <1>1 DEF ForkInv, TypeOK, ForksTyped, CleansTyped, ForkStage, Undoing
<1>4. /\ \A y \in Maker : fork[y] \in Enrolled => fork'[y] \in Enrolled
      /\ \A y \in Maker : fork'[y] \in Settled => fork[y] \in Settled
  BY <1>1, <1>2 DEF Enrolled, Settled, Undoing
<1>5. LockInv' /\ PruneInv'
  <2>1. LockInv'
    BY <1>1 DEF ForkInv, LockInv
  <2>2. PruneInv'
    BY <1>1, <1>4, PruningStands DEF ForkInv
  <2>3. QED
    BY <2>1, <2>2
<1>6. RowsInv'
  <2>1. RowOf(x) \in rows' => x \in stranded'
    BY <1>1
  <2>2. \A y \in Maker : y # x => RowOf(y) # RowOf(x)
    BY RowOfIs
  <2>3. \A y \in Maker : fork'[y] \in Settled => y # x
    BY <1>2 DEF Settled
  <2>4. rows' \subseteq rows /\ \A y \in Maker : y # x /\ RowOf(y) \in rows => RowOf(y) \in rows'
    BY <1>1, <2>2
  <2>5. \A y \in Maker : RollsBack(y)' /\ RowOf(y) \in rows' => RollsBack(y) \/ y \in stranded'
    BY <1>1, <1>2, <2>1 DEF RollsBack
  <2>6. Receding
    BY <1>1, <1>4, <2>3, <2>4, <2>5 DEF Receding
  <2>7. QED
    BY <2>6, RecedingKeepsRows DEF ForkInv
<1>7. ASSUME NEW c \in Cleaner PROVE PlanAt(c)'
  <2>1. NoneReturns
    BY <1>1 DEF NoneReturns
  <2>2. Spared(c)
    BY <1>1, <1>4, <2>1, PairsAre DEF Spared
  <2>3. QED
    BY <2>2, SparedKeepsPlan DEF ForkInv
<1>8. QED
  BY <1>3, <1>5, <1>6, <1>7 DEF Rest

\* A prune learns under the lock whose worktree is gone.
LEMMA LockPruneFinds ==
    ASSUME ForkInv, NEW q \in Pruner, LockPrune(q)
    PROVE  PruneInv'
<1>1. lock' = q /\ agreed'[q] = agreed[q] \cap Missing /\ UNCHANGED <<fork, dir, hit>>
  BY DEF LockPrune, forks, git, bounds, ForkInv, TypeOK, CleansTyped
<1>2. ASSUME NEW r \in agreed'[q], fork[r.by] \in Settled PROVE Disturbed(r.by)
  <2>1. r \in rows /\ dir[r.path] = Nothing
    BY <1>1, <1>2 DEF Missing, Exists
  <2>2. r = RowOf(r.by) /\ r.by \in Maker
    BY <2>1 DEF ForkInv, RowsInv, WrittenRow, Row
  <2>3. r.path = Pair[r.by].path
    BY <2>2, RowOfIs
  <2>4. dir[Pair[r.by].path] = r.by \/ PathHit(Pair[r.by].path)
    BY <1>2, <2>2 DEF ForkInv, GitInv, OwnAt, Settled, Standing, Handled
  <2>5. QED
    BY <2>1, <2>2, <2>3, <2>4, PairsAre, DisturbedIs
<1>3. \A r \in agreed'[q] : fork'[r.by] \in Settled => Disturbed(r.by)'
  BY <1>1, <1>2 DEF Disturbed
<1>4. QED
  BY <1>1, <1>3 DEF PruneInv

\* prune takes rows whose worktree is gone, under the lock.
LEMMA PrunersKeepRest ==
    ASSUME ForkInv, NEW q \in Pruner, PlanPrune(q) \/ LockPrune(q) \/ ApplyPrune(q) \/ EndPrune(q)
    PROVE  Rest'
<1>1. UNCHANGED <<dir, listed, ref, fork, signalled, cleaned, stranded, clean, plan, signals,
                  meddling, hit>>
  BY DEF PlanPrune, LockPrune, ApplyPrune, EndPrune, git, forks, ends, cleans, bounds
<1>2. /\ rows' = rows \/ (lock = q /\ rows' = rows \ agreed[q])
      /\ lock' = lock \/ (lock \in {Nothing, q} /\ lock' \in {Nothing, q})
      /\ lock' \in Pruner => (lock' = lock /\ agreed' = agreed) \/ LockPrune(q) \/ lock' # q
  BY PairsAre DEF PlanPrune, LockPrune, ApplyPrune, EndPrune, Unlocks
<1>3. ForksTyped'
  BY <1>1 DEF ForkInv, TypeOK, ForksTyped
<1>4. CleansTyped'
  <2>1. agreed' \in [Pruner -> SUBSET Row]
    BY DEF PlanPrune, LockPrune, ApplyPrune, EndPrune, ForkInv, TypeOK, CleansTyped, Missing
  <2>2. rows' \subseteq Row /\ lock' \in Cleaner \cup Pruner \cup {Nothing}
    BY <1>2 DEF ForkInv, TypeOK, CleansTyped
  <2>3. QED
    BY <1>1, <2>1, <2>2 DEF ForkInv, TypeOK, CleansTyped
<1>5. LockInv'
  BY <1>1, <1>2, PairsAre DEF ForkInv, LockInv
<1>6. PruneInv'
  <2>1. CASE LockPrune(q)
    BY <2>1, LockPruneFinds
  <2>2. CASE lock' = q /\ ~LockPrune(q)
    <3>1. lock' = lock /\ agreed' = agreed
      BY <1>2, <2>2
    <3>2. QED
      BY <1>1, <3>1 DEF ForkInv, PruneInv, Disturbed
  <2>3. CASE lock' # q
    <3>1. lock' = lock \/ lock' = Nothing
      BY <1>2, <2>3
    <3>2. \A z \in Pruner : z # q => agreed'[z] = agreed[z]
      BY DEF PlanPrune, LockPrune, ApplyPrune, EndPrune, ForkInv, TypeOK, CleansTyped
    <3>3. QED
      BY <1>1, <2>3, <3>1, <3>2, PairsAre DEF ForkInv, PruneInv, Disturbed
  <2>4. QED
    BY <2>1, <2>2, <2>3
<1>7. RowsInv'
  <2>1. ASSUME NEW x \in Maker, fork[x] \in Settled, RowOf(x) \in rows, RowOf(x) \notin rows'
        PROVE  Disturbed(x)'
    <3>1. lock = q /\ RowOf(x) \in agreed[q]
      BY <1>2, <2>1
    <3>2. Disturbed(x)
      BY <2>1, <3>1, RowOfIs DEF ForkInv, PruneInv
    <3>3. QED
      BY <1>1, <3>2 DEF Disturbed
  <2>2. \A x \in Maker : RollsBack(x)' => RollsBack(x)
    BY <1>1 DEF RollsBack
  <2>3. Receding
    BY <1>1, <1>2, <2>1, <2>2 DEF Receding
  <2>4. QED
    BY <2>3, RecedingKeepsRows DEF ForkInv
<1>8. ASSUME NEW c \in Cleaner PROVE PlanAt(c)'
  <2>1. NoneReturns
    BY <1>1 DEF NoneReturns
  <2>2. c # q /\ c # Nothing
    BY PairsAre
  <2>3. Spared(c)
    BY <1>1, <1>2, <2>1, <2>2 DEF Spared
  <2>4. QED
    BY <2>3, SparedKeepsPlan DEF ForkInv
<1>9. QED
  BY <1>3, <1>4, <1>5, <1>6, <1>7, <1>8 DEF Rest

\* The user changes directories only, and makes no worktree.
LEMMA MeddleKeepsRest ==
    ASSUME ForkInv, Meddle
    PROVE  Rest'
<1>1. /\ UNCHANGED <<fork, rows, lock, signalled, cleaned, stranded, clean, plan, agreed, signals>>
      /\ meddling' = meddling + 1 /\ hit \subseteq hit'
  BY DEF Meddle, forks, ends, cleans
<1>2. NoneReturns
  BY PairsAre DEF Meddle, UserDeletes, UserMakes, ForkInv, TypeOK, GitTyped, NoneReturns
<1>3. ForksTyped'
  BY <1>1 DEF ForkInv, TypeOK, ForksTyped
<1>4. CleansTyped'
  BY <1>1 DEF ForkInv, TypeOK, CleansTyped
<1>5. LockInv' /\ PruneInv'
  BY <1>1, PruningStands DEF ForkInv, LockInv
<1>6. RowsInv'
  <2>1. Receding
    BY <1>1 DEF Receding, RollsBack
  <2>2. QED
    BY <2>1, RecedingKeepsRows DEF ForkInv
<1>7. ASSUME NEW c \in Cleaner PROVE PlanAt(c)'
  <2>1. Spared(c)
    BY <1>1, <1>2 DEF Spared
  <2>2. QED
    BY <2>1, SparedKeepsPlan DEF ForkInv
<1>8. QED
  BY <1>3, <1>4, <1>5, <1>6, <1>7 DEF Rest

\* A step of cleanup c: it leaves the lock and the registry to whom they belong,
\* and goes by something afterwards.
CleanMove(c) ==
    /\ \E s \in CleanStage : clean' = [clean EXCEPT ![c] = s]
    /\ plan' = plan \/ \E v \in Plans : plan' = [plan EXCEPT ![c] = v]
    /\ UNCHANGED <<fork, signalled, cleaned, stranded, agreed, meddling>>
    /\ signals' \in {signals, signals + 1} /\ hit \subseteq hit'
    /\ NoneReturns
    /\ lock' = lock \/ (lock \in {Nothing, c} /\ lock' \in {Nothing, c})
    /\ lock' = c => plan'[c].owned /\ clean'[c] \in Locked
    /\ \/ rows' = rows
       \/ /\ lock = c /\ rows' = rows \ {plan[c].row}
          /\ fork[plan[c].row.by] \in Settled => Disturbed(plan[c].row.by)
    /\ PlanAt(c)'

\* A cleanup's step that follows its plan keeps everything but the facts of git.
LEMMA CleanMoveKeepsRest ==
    ASSUME ForkInv, NEW c \in Cleaner, CleanMove(c)
    PROVE  Rest'
<1>1. \A d \in Cleaner : d # c => clean'[d] = clean[d] /\ plan'[d] = plan[d]
  BY DEF ForkInv, TypeOK, CleansTyped, CleanMove
<1>2. ForksTyped'
  BY DEF ForkInv, TypeOK, ForksTyped, CleanMove
<1>3. CleansTyped'
  <2>1. clean' \in [Cleaner -> CleanStage]
    BY DEF ForkInv, TypeOK, CleansTyped, CleanMove
  <2>2. plan' \in [Cleaner -> Plans]
    BY DEF ForkInv, TypeOK, CleansTyped, CleanMove
  <2>3. /\ rows' \subseteq Row /\ lock' \in Cleaner \cup Pruner \cup {Nothing}
        /\ agreed' \in [Pruner -> SUBSET Row]
    BY DEF ForkInv, TypeOK, CleansTyped, CleanMove
  <2>4. QED
    BY <2>1, <2>2, <2>3 DEF CleansTyped
<1>4. RowsInv'
  <2>1. ASSUME NEW x \in Maker, fork[x] \in Settled, RowOf(x) \in rows, RowOf(x) \notin rows'
        PROVE  Disturbed(x)'
    <3>1. RowOf(x) = plan[c].row /\ (fork[plan[c].row.by] \in Settled => Disturbed(plan[c].row.by))
      BY <2>1 DEF CleanMove
    <3>2. Disturbed(x)
      BY <2>1, <3>1, RowOfIs
    <3>3. QED
      BY <3>2 DEF Disturbed, CleanMove
  <2>2. Receding
    BY <2>1 DEF Receding, RollsBack, CleanMove
  <2>3. QED
    BY <2>2, RecedingKeepsRows DEF ForkInv
<1>5. LockInv'
  <2>1. CASE lock' = c
    BY <2>1 DEF LockInv, CleanMove
  <2>2. CASE lock' # c /\ lock' \in Cleaner
    <3>1. lock' = lock /\ lock \in Cleaner
      BY <2>2, PairsAre DEF CleanMove
    <3>2. QED
      BY <1>1, <2>2, <3>1 DEF ForkInv, LockInv
  <2>3. QED
    BY <2>1, <2>2 DEF LockInv
<1>6. PruneInv'
  <2>1. lock' \in Pruner => lock' = lock /\ agreed' = agreed
    BY PairsAre DEF CleanMove
  <2>2. QED
    BY <2>1, PruningStands DEF ForkInv, CleanMove
<1>7. ASSUME NEW d \in Cleaner PROVE PlanAt(d)'
  <2>1. CASE d = c
    BY <2>1 DEF CleanMove
  <2>2. CASE d # c
    <3>1. Spared(d)
      BY <1>1, <2>2, PairsAre DEF Spared, CleanMove
    <3>2. QED
      BY <3>1, SparedKeepsPlan DEF ForkInv
  <2>3. QED
    BY <2>1, <2>2
<1>8. QED
  BY <1>2, <1>3, <1>4, <1>5, <1>6, <1>7 DEF Rest

\* The cleanup's own stage and plan before a step.
LEMMA CleanerIs ==
    ASSUME ForkInv, NEW c \in Cleaner
    PROVE  /\ clean[c] \in CleanStage /\ plan[c] \in Plans /\ c # Nothing
           /\ clean \in [Cleaner -> CleanStage] /\ plan \in [Cleaner -> Plans]
           /\ PlanAt(c)
           /\ lock = c => plan[c].owned /\ clean[c] \in Locked
BY PairsAre DEF ForkInv, TypeOK, CleansTyped, LockInv

\* Choosing what to clean up.
LEMMA ResolvingMoves ==
    ASSUME ForkInv, NEW c \in Cleaner, ResolveOwned(c) \/ ResolveForced(c)
    PROVE  CleanMove(c)
<1>1. /\ clean[c] = "start" /\ clean' = [clean EXCEPT ![c] = "consent"]
      /\ UNCHANGED <<dir, listed, rows, lock, fork, signalled, cleaned, stranded, agreed, signals,
                     meddling, hit>>
  BY DEF ResolveOwned, ResolveForced, Resolves, Does, git, forks, ends, bounds
<1>2. clean'[c] = "consent" /\ lock' # c /\ NoneReturns
  BY <1>1, CleanerIs DEF Locked, Destroying, NoneReturns
<1>3. CASE ResolveOwned(c)
  <2>1. PICK r \in rows :
          plan' = [plan EXCEPT ![c] = [owned |-> TRUE, path |-> r.path, branch |-> r.branch,
                                       row |-> r]]
    BY <1>3 DEF ResolveOwned, Resolves
  <2>2. WrittenRow(r) /\ r \in Row /\ r.path \in Path /\ r.branch \in Branch
    BY DEF ForkInv, RowsInv, WrittenRow, Row
  <2>3. [owned |-> TRUE, path |-> r.path, branch |-> r.branch, row |-> r] \in Plans
    BY <2>2 DEF Plans
  <2>4. plan'[c] = [owned |-> TRUE, path |-> r.path, branch |-> r.branch, row |-> r]
    BY <2>1, CleanerIs
  <2>5. PlanAt(c)'
    BY <1>1, <1>2, <2>2, <2>4 DEF PlanAt, OwnedAt, WrittenRow, Locked, Destroying
  <2>6. QED
    BY <1>1, <1>2, <2>1, <2>3, <2>5 DEF CleanMove, CleanStage
<1>4. CASE ResolveForced(c)
  <2>1. PICK p \in Path, b \in Branch :
          plan' = [plan EXCEPT ![c] = [owned |-> FALSE, path |-> p, branch |-> b,
                                       row |-> Nothing]]
    BY <1>4 DEF ResolveForced, Resolves
  <2>2. [owned |-> FALSE, path |-> p, branch |-> b, row |-> Nothing] \in Plans
    BY DEF Plans
  <2>3. plan'[c] = [owned |-> FALSE, path |-> p, branch |-> b, row |-> Nothing]
    BY <2>1, CleanerIs
  <2>4. PlanAt(c)'
    BY <1>2, <2>3 DEF PlanAt
  <2>5. QED
    BY <1>1, <1>2, <2>1, <2>2, <2>4 DEF CleanMove, CleanStage
<1>5. QED
  BY <1>3, <1>4

\* Agreeing, taking the lock, and giving up.
LEMMA WaitingMoves ==
    ASSUME ForkInv, NEW c \in Cleaner, Consent(c) \/ Decline(c) \/ Lock(c)
    PROVE  CleanMove(c)
<1>1. /\ clean[c] \in {"consent", "waiting"}
      /\ UNCHANGED <<dir, listed, rows, plan, fork, signalled, cleaned, stranded, agreed, signals,
                     meddling, hit>>
      /\ \E s \in CleanStage : clean' = [clean EXCEPT ![c] = s]
  BY DEF Consent, Decline, Lock, Does, git, forks, ends, bounds, CleanStage, Locked, Destroying
<1>2. lock # c /\ NoneReturns
  BY <1>1, CleanerIs DEF Locked, Destroying, NoneReturns
<1>3. \/ clean'[c] = "waiting" /\ plan[c].owned /\ lock' = lock
      \/ clean'[c] = "destroy" /\ ~plan[c].owned /\ lock' = lock
      \/ clean'[c] = "ended" /\ lock' = lock
      \/ clean'[c] = "held" /\ lock = Nothing /\ lock' = c /\ plan[c].owned
  BY CleanerIs DEF Consent, Decline, Lock, Does, PlanAt
<1>4. lock' = c => plan'[c].owned /\ clean'[c] \in Locked
  BY <1>1, <1>2, <1>3 DEF Locked
<1>5. PlanAt(c)'
  <2>1. ASSUME plan[c].owned PROVE OwnedAt(c)'
    <3>1. OwnedAt(c)
      BY <2>1, CleanerIs DEF PlanAt
    <3>2. WrittenRow(plan[c].row)'
      BY <1>1, <3>1 DEF OwnedAt, WrittenRow
    <3>3. clean'[c] \notin Destroying /\ (clean'[c] \in Locked => lock' = c)
      BY <1>3, <2>1 DEF Destroying, Locked
    <3>4. QED
      BY <1>1, <3>1, <3>2, <3>3 DEF OwnedAt, Destroying
  <2>2. plan[c].path \in Path /\ plan[c].branch \in Branch
    BY <1>1, CleanerIs DEF PlanAt
  <2>3. QED
    BY <1>1, <1>3, <2>1, <2>2 DEF PlanAt
<1>6. QED
  BY <1>1, <1>2, <1>3, <1>4, <1>5 DEF CleanMove

\* A cleanup that ends, for whatever reason, gives the lock up.
LEMMA EndingMoves ==
    ASSUME ForkInv, NEW c \in Cleaner, clean[c] \in Locked \cup Orphaned,
           NEW s \in {"ended"} \cup Orphaned, clean' = [clean EXCEPT ![c] = s], Unlocks(c),
           UNCHANGED <<rows, plan, fork, signalled, cleaned, stranded, agreed, meddling>>,
           signals' \in {signals, signals + 1}, hit \subseteq hit', NoneReturns
    PROVE  CleanMove(c)
<1>1. clean'[c] = s /\ c # Nothing
  BY CleanerIs
<1>2. s \notin Locked \cup {"start", "waiting"}
  BY DEF Orphaned, Locked, Destroying
<1>3. lock' # c /\ (lock' = lock \/ (lock = c /\ lock' = Nothing))
  BY <1>1 DEF Unlocks
<1>4. PlanAt(c)'
  <2>1. ASSUME plan[c].owned PROVE OwnedAt(c)'
    <3>1. OwnedAt(c)
      BY <2>1, CleanerIs DEF PlanAt
    <3>2. WrittenRow(plan[c].row)'
      BY <3>1 DEF OwnedAt, WrittenRow
    <3>3. QED
      BY <1>1, <1>2, <3>1, <3>2 DEF OwnedAt, Locked, Destroying
  <2>2. plan[c].path \in Path /\ plan[c].branch \in Branch
    BY CleanerIs DEF PlanAt, Locked, Destroying, Orphaned
  <2>3. QED
    BY <1>1, <1>2, <2>1, <2>2 DEF PlanAt, Locked, Destroying
<1>5. QED
  BY <1>3, <1>4 DEF CleanMove, CleanStage

\* From the lock on: the stage changes, the plan and its row do not.
LEMMA WorkingMoves ==
    ASSUME ForkInv, NEW c \in Cleaner, clean[c] \in Locked,
           NEW s \in Destroying \cup {"cleaned"}, clean' = [clean EXCEPT ![c] = s],
           UNCHANGED <<rows, lock, plan, fork, signalled, cleaned, stranded, agreed, signals,
                       meddling>>,
           hit \subseteq hit', NoneReturns,
           s \in {"row", "cleaned"} => (s = "row" <=> plan[c].owned),
           plan[c].owned =>
              /\ plan[c].row \in rows
              /\ s = "destroy" =>
                    \A r \in rows : r.by = dir'[plan[c].path] => r.branch = plan[c].branch
              /\ s # "destroy" =>
                    /\ fork[plan[c].row.by] \in Settled => Disturbed(plan[c].row.by)'
                    /\ dir'[plan[c].path] # plan[c].row.by
                    /\ listed'[plan[c].path] # plan[c].row.by
    PROVE  CleanMove(c)
<1>1. clean'[c] = s
  BY CleanerIs
<1>2. lock' = c => plan'[c].owned /\ clean'[c] \in Locked
  BY <1>1, CleanerIs DEF Locked
<1>3. PlanAt(c)'
  <2>1. ASSUME plan[c].owned PROVE OwnedAt(c)'
    <3>1. OwnedAt(c)
      BY <2>1, CleanerIs DEF PlanAt
    <3>2. WrittenRow(plan[c].row)'
      BY <3>1 DEF OwnedAt, WrittenRow
    <3>3. lock' = c
      BY <3>1 DEF OwnedAt
    <3>4. clean'[c] = "destroy" =>
             \A r \in rows' : r.by = dir'[plan'[c].path] => r.branch = plan'[c].branch
      BY <1>1, <2>1
    <3>5. clean'[c] \in {"prune", "branch", "row"} =>
             /\ fork'[plan'[c].row.by] \in Settled => Disturbed(plan[c].row.by)'
             /\ dir'[plan'[c].path] # plan'[c].row.by /\ listed'[plan'[c].path] # plan'[c].row.by
      BY <1>1, <2>1
    <3>6. QED
      BY <1>1, <2>1, <3>1, <3>2, <3>3, <3>4, <3>5 DEF OwnedAt
  <2>2. plan[c].path \in Path /\ plan[c].branch \in Branch
    BY CleanerIs DEF PlanAt, Locked, Destroying
  <2>3. clean'[c] # "start" /\ (clean'[c] \in {"waiting", "held", "row"} => plan[c].owned)
    BY <1>1 DEF Destroying
  <2>4. QED
    BY <2>1, <2>2, <2>3 DEF PlanAt
<1>4. QED
  BY <1>2, <1>3 DEF CleanMove, CleanStage, Locked, Destroying

\* A confirmation under the lock, whether it agrees or refuses, is such a step.
LEMMA ConfirmMoves ==
    ASSUME ForkInv, NEW c \in Cleaner, Confirm(c)
    PROVE  CleanMove(c)
<1>1. /\ clean[c] = "held"
      /\ UNCHANGED <<dir, listed, rows, plan, fork, signalled, cleaned, stranded, agreed, signals,
                     meddling, hit>>
      /\ NoneReturns
  BY DEF Confirm, git, forks, ends, bounds, NoneReturns
<1>2. CASE plan[c].row \in rows /\ Live(plan[c].path, plan[c].branch)
  <2>1. clean' = [clean EXCEPT ![c] = "destroy"] /\ UNCHANGED lock
    BY <1>2 DEF Confirm, Does
  <2>2. ASSUME NEW r \in rows, r.by = dir[plan[c].path] PROVE r.branch = plan[c].branch
    <3>1. r = RowOf(r.by) /\ r.by \in Maker
      BY DEF ForkInv, RowsInv, WrittenRow, Row
    <3>2. r.branch = Pair[r.by].branch
      BY <3>1, RowOfIs
    <3>3. QED
      BY <1>2, <2>2, <3>2 DEF Live
  <2>3. clean[c] \in Locked /\ "destroy" \in Destroying \cup {"cleaned"}
    BY <1>1 DEF Locked, Destroying
  <2>4. QED
    BY <1>1, <1>2, <2>1, <2>2, <2>3, WorkingMoves
<1>3. CASE ~(plan[c].row \in rows /\ Live(plan[c].path, plan[c].branch))
  <2>1. clean' = [clean EXCEPT ![c] = "ended"] /\ Unlocks(c)
    BY <1>3 DEF Confirm, Does
  <2>2. clean[c] \in Locked
    BY <1>1 DEF Locked
  <2>3. QED
    BY <1>1, <2>1, <2>2, EndingMoves
<1>4. QED
  BY <1>2, <1>3

\* git worktree remove: the fork of the row is disturbed now, if it settled.
LEMMA DestroyTreeMoves ==
    ASSUME ForkInv, NEW c \in Cleaner, DestroyTree(c)
    PROVE  CleanMove(c)
<1>1. /\ clean[c] = "destroy" /\ clean' = [clean EXCEPT ![c] = "prune"]
      /\ dir' = [dir EXCEPT ![plan[c].path] = Nothing]
      /\ listed' = [listed EXCEPT ![plan[c].path] = Nothing]
      /\ hit' = hit \cup ({dir[plan[c].path]} \cap Maker)
      /\ UNCHANGED <<rows, lock, plan, fork, signalled, cleaned, stranded, agreed, signals,
                     meddling>>
  BY DEF DestroyTree, RemoveTree, Does, forks, ends, bounds
<1>2. NoneReturns
  BY <1>1, PairsAre DEF ForkInv, TypeOK, GitTyped, NoneReturns
<1>3. ASSUME plan[c].owned, fork[plan[c].row.by] \in Settled
      PROVE  Disturbed(plan[c].row.by)'
  <2> DEFINE x == plan[c].row.by
  <2>1. OwnedAt(c)
    BY <1>3, CleanerIs DEF PlanAt
  <2>2. x \in Maker /\ plan[c].row = RowOf(x)
    BY <2>1 DEF OwnedAt, WrittenRow, Row
  <2>3. plan[c].path = Pair[x].path
    BY <2>1, <2>2, RowOfIs DEF OwnedAt
  <2>4. dir[Pair[x].path] = x \/ PathHit(Pair[x].path)
    BY <1>3, <2>2 DEF ForkInv, GitInv, OwnAt, Standing, Handled, Settled
  <2>5. CASE dir[Pair[x].path] = x
    <3>1. x \in hit'
      BY <1>1, <2>2, <2>3, <2>5
    <3>2. QED
      BY <1>1, <3>1 DEF Disturbed
  <2>6. CASE PathHit(Pair[x].path)
    BY <1>1, <2>6 DEF PathHit, Disturbed
  <2>7. QED
    BY <2>4, <2>5, <2>6
<1>4. plan[c].owned => plan[c].row \in rows
  BY <1>1, CleanerIs DEF PlanAt, OwnedAt, Destroying
<1>5. clean[c] \in Locked /\ "prune" \in Destroying \cup {"cleaned"}
  BY <1>1 DEF Locked, Destroying
<1>6. hit \subseteq hit'
  BY <1>1
<1>7. ASSUME plan[c].owned
      PROVE  dir'[plan[c].path] # plan[c].row.by /\ listed'[plan[c].path] # plan[c].row.by
  <2>1. plan[c].row.by \in Maker /\ plan[c].path \in Path
    BY <1>1, <1>7, CleanerIs DEF PlanAt, OwnedAt, WrittenRow, Row
  <2>2. QED
    BY <1>1, <2>1, PairsAre DEF ForkInv, TypeOK, GitTyped
<1>8. QED
  BY <1>1, <1>2, <1>3, <1>4, <1>5, <1>6, <1>7, WorkingMoves

\* The git commands after it.
LEMMA DestroyingMoves ==
    ASSUME ForkInv, NEW c \in Cleaner, DestroyPrune(c) \/ DestroyBranch(c) \/ KeepBranch(c)
    PROVE  CleanMove(c)
<1>1. /\ clean[c] \in {"prune", "branch"}
      /\ UNCHANGED <<dir, rows, lock, plan, fork, signalled, cleaned, stranded, agreed, signals,
                     meddling>>
      /\ hit \subseteq hit'
  BY DEF DestroyPrune, DestroyBranch, KeepBranch, PruneTrees, DeleteBranch, git, forks, ends, bounds
<1>2. PICK s \in {"branch", "row", "cleaned"} :
        /\ clean' = [clean EXCEPT ![c] = s]
        /\ s # "branch" => (s = "row" <=> plan[c].owned)
  BY DEF DestroyPrune, DestroyBranch, KeepBranch, Destroyed, Does
<1>3. ASSUME plan[c].owned PROVE plan[c].row \in rows
  BY <1>1, <1>3, CleanerIs DEF PlanAt, OwnedAt, Destroying
<1>4. ASSUME plan[c].owned, fork[plan[c].row.by] \in Settled
      PROVE  Disturbed(plan[c].row.by)'
  <2>1. Disturbed(plan[c].row.by)
    BY <1>1, <1>4, CleanerIs DEF PlanAt, OwnedAt
  <2>2. QED
    BY <1>1, <2>1 DEF Disturbed
<1>5. clean[c] \in Locked /\ s \in Destroying \cup {"cleaned"} /\ s # "destroy"
  BY <1>1 DEF Locked, Destroying
<1>6. listed' = listed \/ \A p \in Path : listed'[p] \in {listed[p], Nothing}
  BY DEF DestroyPrune, DestroyBranch, KeepBranch, PruneTrees, DeleteBranch, git
<1>7. NoneReturns
  BY <1>1, <1>6, PairsAre DEF NoneReturns
<1>8. ASSUME plan[c].owned
      PROVE  dir'[plan[c].path] # plan[c].row.by /\ listed'[plan[c].path] # plan[c].row.by
  <2>1. OwnedAt(c)
    BY <1>8, CleanerIs DEF PlanAt
  <2>2. plan[c].row.by \in Maker /\ plan[c].path \in Path
    BY <2>1 DEF OwnedAt, WrittenRow, Row
  <2>3. QED
    BY <1>1, <1>6, <2>1, <2>2, PairsAre DEF OwnedAt
<1>9. QED
  BY <1>1, <1>2, <1>3, <1>4, <1>5, <1>7, <1>8, WorkingMoves

\* remove_locked: the row goes, and its fork is disturbed or not settled.
LEMMA RemoveRowMoves ==
    ASSUME ForkInv, NEW c \in Cleaner, RemoveRow(c)
    PROVE  CleanMove(c)
<1>1. /\ clean[c] = "row" /\ clean' = [clean EXCEPT ![c] = "cleaned"]
      /\ rows' = rows \ {plan[c].row}
      /\ Unlocks(c)
      /\ UNCHANGED <<dir, listed, plan, fork, signalled, cleaned, stranded, agreed, signals,
                     meddling, hit>>
      /\ NoneReturns
  BY DEF RemoveRow, Does, git, forks, ends, bounds, NoneReturns
<1>2. plan[c].owned /\ OwnedAt(c) /\ clean'[c] = "cleaned"
  BY <1>1, CleanerIs DEF PlanAt
<1>3. lock = c /\ lock' = Nothing
  BY <1>1, <1>2 DEF OwnedAt, Unlocks, Locked, Destroying
<1>4. fork[plan[c].row.by] \in Settled => Disturbed(plan[c].row.by)
  BY <1>1, <1>2 DEF OwnedAt
<1>5. PlanAt(c)'
  <2>1. WrittenRow(plan[c].row)'
    BY <1>1, <1>2 DEF OwnedAt, WrittenRow
  <2>2. OwnedAt(c)'
    BY <1>1, <1>2, <2>1 DEF OwnedAt, Locked, Destroying
  <2>3. plan[c].path \in Path /\ plan[c].branch \in Branch
    BY <1>1, CleanerIs DEF PlanAt
  <2>4. QED
    BY <1>1, <1>2, <2>2, <2>3 DEF PlanAt
<1>6. QED
  BY <1>1, <1>3, <1>4, <1>5, CleanerIs DEF CleanMove, CleanStage

\* The git of a cleanup, whole or cut short, makes no worktree.
LEMMA StoppedGitTakes ==
    ASSUME ForkInv, NEW c \in Cleaner, NEW s, CleanupGitStops(c, s)
    PROVE  NoneReturns /\ hit \subseteq hit'
<1>1. /\ dir \in [Path -> Maker \cup {Alien, Nothing}] /\ Nothing \notin Maker
      /\ listed \in [Path -> Maker \cup {Nothing}]
  BY PairsAre DEF ForkInv, TypeOK, GitTyped
<1>2. CASE RemoveTree(plan[c].path) \/ RemoveTreePartly(plan[c].path)
  <2>1. NoneReturns
    BY <1>1, <1>2 DEF RemoveTree, RemoveTreePartly, NoneReturns
  <2>2. QED
    BY <2>1 DEF CleanupGitStops, CleanupGit
<1>3. CASE PruneTrees
  BY <1>1, <1>3 DEF PruneTrees, NoneReturns, CleanupGitStops, CleanupGit
<1>4. CASE DeleteBranch(plan[c].branch) \/ UNCHANGED git
  BY <1>4 DEF DeleteBranch, git, NoneReturns, CleanupGitStops, CleanupGit
<1>5. QED
  BY <1>2, <1>3, <1>4 DEF CleanupGitStops, CleanupGit, git

\* So does every other step of a cleanup.
LEMMA CleanersKeepRest ==
    ASSUME ForkInv, NEW c \in Cleaner,
           \/ ResolveOwned(c) \/ ResolveForced(c) \/ Consent(c) \/ Decline(c) \/ Cleans(c)
           \/ KillCleanup(c)
    PROVE  CleanMove(c)
<1>1. CASE ResolveOwned(c) \/ ResolveForced(c)
  BY <1>1, ResolvingMoves
<1>2. CASE Consent(c) \/ Decline(c) \/ Lock(c)
  BY <1>2, WaitingMoves
<1>3. CASE Confirm(c)
  BY <1>3, ConfirmMoves
<1>4. CASE DestroyTree(c)
  BY <1>4, DestroyTreeMoves
<1>5. CASE DestroyPrune(c) \/ DestroyBranch(c) \/ KeepBranch(c)
  BY <1>5, DestroyingMoves
<1>6. CASE RemoveRow(c)
  BY <1>6, RemoveRowMoves
<1>7. CASE DestroyFails(c)
  <2>1. /\ clean[c] \in Locked /\ clean' = [clean EXCEPT ![c] = "ended"] /\ Unlocks(c)
        /\ UNCHANGED <<rows, plan, fork, signalled, cleaned, stranded, agreed, signals, meddling>>
    BY <1>7 DEF DestroyFails, Does, forks, ends, bounds
  <2>2. NoneReturns /\ hit \subseteq hit'
    BY <1>7, StoppedGitTakes DEF DestroyFails
  <2>3. QED
    BY <2>1, <2>2, EndingMoves
<1>8. CASE KillCleanup(c)
  <2>1. PICK s \in {"ended"} \cup Orphaned : clean' = [clean EXCEPT ![c] = s]
    <3>1. /\ Orphan["destroy"] = "orphan_tree" /\ Orphan["prune"] = "orphan_prune"
          /\ Orphan["branch"] = "orphan_branch"
          /\ DOMAIN Orphan = {"destroy", "prune", "branch"}
      BY DEF Orphan
    <3>2. clean[c] \in DOMAIN Orphan => Orphan[clean[c]] \in Orphaned
      BY <3>1 DEF Orphaned
    <3>3. QED
      BY <1>8, <3>2 DEF KillCleanup, Does
  <2>2. /\ clean[c] \in Locked /\ Unlocks(c) /\ signals' = signals + 1
        /\ UNCHANGED <<dir, listed, rows, plan, fork, signalled, cleaned, stranded, agreed,
                       meddling, hit>>
    BY <1>8 DEF KillCleanup, Signal, git, forks, ends
  <2>3. NoneReturns
    BY <2>2 DEF NoneReturns
  <2>4. QED
    BY <2>1, <2>2, <2>3, EndingMoves
<1>9. CASE OrphanEnds(c)
  <2>1. /\ clean[c] \in Orphaned /\ clean' = [clean EXCEPT ![c] = "ended"]
        /\ UNCHANGED <<rows, lock, plan, fork, signalled, cleaned, stranded, agreed, signals,
                       meddling>>
    BY <1>9 DEF OrphanEnds, Does, Orphan, Orphaned, forks, ends, bounds
  <2>2. lock # c
    BY <2>1, CleanerIs DEF Orphaned, Locked, Destroying
  <2>3. NoneReturns /\ hit \subseteq hit'
    BY <1>9, StoppedGitTakes DEF OrphanEnds
  <2>4. QED
    BY <2>1, <2>2, <2>3, EndingMoves DEF Unlocks
<1>10. QED
  BY <1>1, <1>2, <1>3, <1>4, <1>5, <1>6, <1>7, <1>8, <1>9 DEF Cleans

-----------------------------------------------------------------------------
(* The invariant.                                                           *)
LEMMA InitForkInv == Init => ForkInv
<1> SUFFICES ASSUME Init PROVE ForkInv
  OBVIOUS
<1>1. /\ \A p \in Path : dir[p] = Nothing /\ listed[p] = Nothing
      /\ \A b \in Branch : ref[b] = Nothing
      /\ \A x \in Maker : fork[x] = "start"
      /\ \A c \in Cleaner : clean[c] = "start" /\ plan[c] = NoPlan
      /\ rows = {} /\ lock = Nothing /\ hit = {} /\ cleaned = {} /\ stranded = {}
  BY DEF Init, GitInit
<1>2. TypeOK
  <2>1. GitTyped
    BY DEF Init, GitInit, GitTyped
  <2>2. ForksTyped
    BY DEF Init, ForksTyped, ForkStage
  <2>3. NoPlan \in Plans
    BY DEF NoPlan, Plans
  <2>4. CleansTyped
    BY <2>3 DEF Init, CleansTyped, CleanStage
  <2>5. QED
    BY <2>1, <2>2, <2>4 DEF TypeOK
<1>3. GitInv
  <2>1. PlacesInv
    BY <1>1, PairsAre DEF PlacesInv
  <2>2. \A x \in Maker : OwnAt(x)
    BY <1>1 DEF OwnAt, Branched, Standing, Handled
  <2>3. \A p \in Path : ListedAt(p)
    BY <1>1, PairsAre DEF ListedAt
  <2>4. QED
    BY <1>2, <2>1, <2>2, <2>3 DEF GitInv, TypeOK
<1>4. RowsInv
  BY <1>1 DEF RowsInv, RollsBack, Settled, Undoing
<1>5. \A c \in Cleaner : PlanAt(c)
  BY <1>1 DEF PlanAt, NoPlan
<1>6. QED
  BY <1>1, <1>2, <1>3, <1>4, <1>5, PairsAre DEF ForkInv, LockInv, PruneInv

\* Every step of the system keeps the invariant.
LEMMA NextForkInv == ForkInv /\ [Next]_vars => ForkInv'
<1> SUFFICES ASSUME ForkInv, [Next]_vars PROVE ForkInv'
  OBVIOUS
<1>1. GitInv'
  BY NextKeepsGit
<1>2. ASSUME NEW x \in Maker,
             Guard(x) \/ Forks(x) \/ Interrupt(x) \/ InterruptOutside(x) \/ Die(x)
      PROVE  Rest'
  <2>1. CASE AddEntry(x)
    BY <2>1, AddEntryKeepsRest
  <2>2. CASE Compensate(x)
    BY <2>2, CompensateKeepsRest
  <2>3. CASE ~AddEntry(x) /\ ~Compensate(x)
    <3>1. PlainMove(x)
      BY <1>2, <2>3, PlainForkSteps DEF Forks
    <3>2. QED
      BY <3>1, PlainMoveKeepsRest
  <2>4. QED
    BY <2>1, <2>2, <2>3
<1>3. ASSUME NEW c \in Cleaner,
             \/ ResolveOwned(c) \/ ResolveForced(c) \/ Consent(c) \/ Decline(c) \/ Cleans(c)
             \/ KillCleanup(c)
      PROVE  Rest'
  BY <1>3, CleanersKeepRest, CleanMoveKeepsRest
<1>4. ASSUME NEW q \in Pruner, PlanPrune(q) \/ LockPrune(q) \/ ApplyPrune(q) \/ EndPrune(q)
      PROVE  Rest'
  BY <1>4, PrunersKeepRest
<1>5. ASSUME Meddle PROVE Rest'
  BY <1>5, MeddleKeepsRest
<1>6. ASSUME UNCHANGED vars PROVE Rest'
  <2>1. UNCHANGED <<dir, listed, ref, rows, lock, fork, signalled, cleaned, clean, plan, agreed,
                    signals, meddling, hit, stranded>>
    BY <1>6 DEF vars
  <2>2. ForksTyped' /\ CleansTyped'
    BY <2>1 DEF ForkInv, TypeOK, ForksTyped, CleansTyped
  <2>3. LockInv' /\ PruneInv'
    BY <2>1, PruningStands DEF ForkInv, LockInv
  <2>4. RowsInv'
    <3>1. Receding
      BY <2>1 DEF Receding, RollsBack
    <3>2. QED
      BY <3>1, RecedingKeepsRows DEF ForkInv
  <2>5. ASSUME NEW c \in Cleaner PROVE PlanAt(c)'
    <3>1. Spared(c)
      BY <2>1 DEF Spared, NoneReturns
    <3>2. QED
      BY <3>1, SparedKeepsPlan DEF ForkInv
  <2>6. QED
    BY <2>2, <2>3, <2>4, <2>5 DEF Rest
<1>7. Rest'
  BY <1>2, <1>3, <1>4, <1>5, <1>6 DEF Next
<1>8. QED
  BY <1>1, <1>7 DEF Rest, ForkInv, TypeOK, GitInv

\* What stands at a path, on a branch and in the registry is its maker's until
\* somebody lays hands on it; a cleanup goes by a row under the lock.
THEOREM ForkInvariant == Spec => []ForkInv
<1>1. Init => ForkInv
  BY InitForkInv
<1>2. ForkInv /\ [Next]_vars => ForkInv'
  BY NextForkInv
<1>3. QED
  BY <1>1, <1>2, PTL DEF Spec

\* A fork that reported success is whole, or it, or a fork of its path or
\* branch, was disturbed.
THEOREM HarmStaysConfined == Spec => []HarmIsConfined
<1>1. ForkInv => HarmIsConfined
  <2> SUFFICES ASSUME ForkInv, NEW x \in Maker, fork[x] = "done"
               PROVE  Intact(x) \/ Disturbed(x)
    BY DEF HarmIsConfined
  <2>1. ref[Pair[x].branch] = x \/ BranchHit(Pair[x].branch)
    BY DEF ForkInv, GitInv, OwnAt, Branched, Standing
  <2>2. \/ dir[Pair[x].path] = x /\ listed[Pair[x].path] = x
        \/ PathHit(Pair[x].path)
    BY DEF ForkInv, GitInv, OwnAt, Standing
  <2>3. RowOf(x) \in rows \/ Disturbed(x)
    BY DEF ForkInv, RowsInv, Settled
  <2>4. QED
    BY <2>1, <2>2, <2>3, DisturbedIs DEF Intact
<1>2. QED
  BY <1>1, ForkInvariant, PTL

\* An undisturbed fork that rolled back to the end has left no directory, no
\* entry and no branch, and a row only when it is stranded.
THEOREM RollbackIsComplete == Spec => []FailedForksLeaveNothing
<1>1. ForkInv => FailedForksLeaveNothing
  <2> SUFFICES ASSUME ForkInv, NEW x \in cleaned, ~Disturbed(x)
               PROVE  Absent(x) /\ (RowOf(x) \in rows => x \in stranded)
    BY DEF FailedForksLeaveNothing
  <2>1. x \in Maker
    BY DEF ForkInv, TypeOK, ForksTyped
  <2>2. UndoneTree(x) /\ UndoneBranch(x)
    BY <2>1 DEF ForkInv, GitInv, OwnAt
  <2>3. Absent(x)
    BY <2>1, <2>2 DEF ForkInv, GitInv, PlacesInv, UndoneTree, UndoneBranch, Absent
  <2>4. QED
    BY <2>1, <2>3 DEF ForkInv, RowsInv, RollsBack
<1>2. QED
  BY <1>1, ForkInvariant, PTL

\* A fork moves by steps of its own only.
LEMMA ForksMoveAlone ==
    ASSUME ForkInv, [Next]_vars, NEW x \in Maker, fork[x] \in Undoing, fork'[x] # fork[x]
    PROVE  UndoTree(x) \/ UndoBranch(x) \/ UndoPrune(x) \/ UndoFails(x) \/ InterruptOutside(x)
           \/ Die(x)
<1>1. ASSUME NEW y \in Maker,
             Guard(y) \/ Forks(y) \/ Interrupt(y) \/ InterruptOutside(y) \/ Die(y)
      PROVE  y = x
  <2>1. \E s \in ForkStage : fork' = [fork EXCEPT ![y] = s]
    <3>1. CASE AddEntry(y)
      BY <3>1 DEF AddEntry, Goes, ForkStage, Handled
    <3>2. CASE Compensate(y)
      BY <3>2 DEF Compensate, Goes, ForkStage, Undoing
    <3>3. CASE ~AddEntry(y) /\ ~Compensate(y)
      <4>1. PlainMove(y)
        BY <1>1, <3>3, PlainForkSteps DEF Forks
      <4>2. QED
        BY <4>1 DEF PlainMove
    <3>4. QED
      BY <3>1, <3>2, <3>3
  <2>2. QED
    BY <2>1 DEF ForkInv, TypeOK, ForksTyped
<1>2. ASSUME NEW c \in Cleaner,
             \/ ResolveOwned(c) \/ ResolveForced(c) \/ Consent(c) \/ Decline(c) \/ Cleans(c)
             \/ KillCleanup(c)
      PROVE  FALSE
  <2>1. CleanMove(c)
    BY <1>2, CleanersKeepRest
  <2>2. QED
    BY <2>1 DEF CleanMove
<1>3. fork' # fork
  OBVIOUS
<1>4. ~Meddle /\ ~UNCHANGED vars /\ \A q \in Pruner : ~(PlanPrune(q) \/ LockPrune(q) \/ ApplyPrune(q) \/ EndPrune(q))
  BY <1>3 DEF Meddle, vars, PlanPrune, LockPrune, ApplyPrune, EndPrune, forks
<1>5. Guard(x) \/ Forks(x) \/ Interrupt(x) \/ InterruptOutside(x) \/ Die(x)
  BY <1>1, <1>2, <1>4 DEF Next
<1>6. QED
  BY <1>5 DEF Guard, Forks, Interrupt, CreateBranch, CreateTree, Collide, EnterHandlers, Work,
       Fail, AddEntry, RefuseEntry, Return, FailLineage, Compensate, Succeed, Undoing, Handled

\* rollback_worktree takes nothing but its own call's worktree and branch.
THEOREM RollbackTakesItsOwn == Spec => RollbackTakesOnlyItsOwn
<1>1. ASSUME ForkInv, [Next]_vars, NEW x \in Maker,
             fork[x] \in Undoing, fork'[x] # fork[x], ~Disturbed(x)
      PROVE  /\ \A p \in Path : dir'[p] # dir[p] => dir[p] = x
             /\ \A b \in Branch : ref'[b] # ref[b] => ref[b] = x
  <2>1. UndoTree(x) \/ UndoBranch(x) \/ UndoPrune(x) \/ UndoFails(x) \/ InterruptOutside(x)
        \/ Die(x)
    BY <1>1, ForksMoveAlone
  <2>2. /\ dir \in [Path -> Maker \cup {Alien, Nothing}]
        /\ ref \in [Branch -> Maker \cup {Nothing}]
    BY <1>1 DEF ForkInv, TypeOK, GitTyped
  <2>3. CASE fork[x] = "undo_tree" /\ (RemoveTree(Pair[x].path) \/ RemoveTreePartly(Pair[x].path))
    <3>1. dir[Pair[x].path] = x
      BY <1>1, <2>3, DisturbedIs DEF ForkInv, GitInv, OwnAt, Standing
    <3>2. QED
      BY <2>2, <2>3, <3>1 DEF RemoveTree, RemoveTreePartly
  <2>4. CASE fork[x] = "undo_branch" /\ DeleteBranch(Pair[x].branch)
    <3>1. ref[Pair[x].branch] = x
      BY <1>1, <2>4, DisturbedIs DEF ForkInv, GitInv, OwnAt, Branched
    <3>2. QED
      BY <2>2, <2>4, <3>1 DEF DeleteBranch
  <2>5. CASE UNCHANGED <<dir, ref>>
    BY <2>5
  <2>6. QED
    BY <1>1, <2>1, <2>3, <2>4, <2>5
       DEF UndoTree, UndoBranch, UndoPrune, UndoFails, UndoesSome, InterruptOutside, Die,
           PruneTrees, git, Undoing
<1>2. ForkInv /\ [Next]_vars =>
        [\A f \in Maker : fork[f] \in Undoing /\ fork'[f] # fork[f] /\ ~Disturbed(f) =>
            /\ \A p \in Path : dir'[p] # dir[p] => dir[p] = f
            /\ \A b \in Branch : ref'[b] # ref[b] => ref[b] = f]_vars
  BY <1>1
<1>3. QED
  BY <1>2, ForkInvariant, PTL DEF Spec, RollbackTakesOnlyItsOwn, Disturbed

\* So does a cleanup.
LEMMA CleanupsMoveAlone ==
    ASSUME ForkInv, [Next]_vars, NEW c \in Cleaner, clean'[c] # clean[c]
    PROVE  \/ ResolveOwned(c) \/ ResolveForced(c) \/ Consent(c) \/ Decline(c) \/ Cleans(c)
           \/ KillCleanup(c)
<1>1. ASSUME NEW d \in Cleaner,
             \/ ResolveOwned(d) \/ ResolveForced(d) \/ Consent(d) \/ Decline(d) \/ Cleans(d)
             \/ KillCleanup(d)
      PROVE  d = c
  <2>1. CleanMove(d)
    BY <1>1, CleanersKeepRest
  <2>2. QED
    BY <2>1, CleanerIs DEF CleanMove
<1>2. ASSUME NEW y \in Maker,
             Guard(y) \/ Forks(y) \/ Interrupt(y) \/ InterruptOutside(y) \/ Die(y)
      PROVE  FALSE
  <2>1. CASE AddEntry(y) \/ Compensate(y)
    BY <2>1 DEF AddEntry, Compensate, cleans
  <2>2. CASE ~AddEntry(y) /\ ~Compensate(y)
    <3>1. PlainMove(y)
      BY <1>2, <2>2, PlainForkSteps DEF Forks
    <3>2. QED
      BY <3>1 DEF PlainMove
  <2>3. QED
    BY <2>1, <2>2
<1>3. ~Meddle /\ ~UNCHANGED vars /\ \A q \in Pruner : ~(PlanPrune(q) \/ LockPrune(q) \/ ApplyPrune(q) \/ EndPrune(q))
  BY DEF Meddle, vars, PlanPrune, LockPrune, ApplyPrune, EndPrune, cleans
<1>4. QED
  BY <1>1, <1>2, <1>3 DEF Next

\* A cleanup of a registered fork destroys no worktree that another row was
\* written for, but for a row of another name for the same path and branch.
THEOREM CleanupSparesOthers == Spec => CleanupSparesOtherForks
<1>1. ASSUME ForkInv, [Next]_vars, NEW c \in Cleaner, clean[c] = "destroy", plan[c].owned,
             NEW p \in Path, dir'[p] # dir[p], clean'[c] # clean[c]
      PROVE  /\ plan[c].row \in rows
             /\ \A r \in rows : r.by = dir[p] /\ r # plan[c].row =>
                   r.branch = plan[c].branch /\ r.name # plan[c].row.name
  <2>1. OwnedAt(c) /\ plan[c].row \in rows
    BY <1>1, CleanerIs DEF PlanAt, OwnedAt, Destroying
  <2>2. DestroyTree(c) \/ DestroyFails(c)
    BY <1>1, CleanupsMoveAlone DEF ResolveOwned, ResolveForced, Resolves, Consent, Decline, Cleans,
         Lock, Confirm, DestroyPrune, DestroyBranch, KeepBranch, RemoveRow, KillCleanup,
         OrphanEnds, Orphan, git
  <2>3. p = plan[c].path
    BY <1>1, <2>2 DEF DestroyTree, DestroyFails, CleanupGitStops, CleanupGit, RemoveTree,
         RemoveTreePartly, git, ForkInv, TypeOK, GitTyped
  <2>4. \A r \in rows : r.by = dir[p] => r.branch = plan[c].branch
    BY <1>1, <2>1, <2>3 DEF OwnedAt
  <2>5. \A r \in rows : r.name = plan[c].row.name => r = plan[c].row
    BY <1>1, <2>1 DEF ForkInv, RowsInv
  <2>6. QED
    BY <2>1, <2>4, <2>5
<1>2. ForkInv /\ [Next]_vars =>
        [\A c \in Cleaner : clean[c] = "destroy" /\ plan[c].owned =>
            \A p \in Path : dir'[p] # dir[p] /\ clean'[c] # clean[c] =>
               /\ plan[c].row \in rows
               /\ \A r \in rows : r.by = dir[p] /\ r # plan[c].row =>
                     r.branch = plan[c].branch /\ r.name # plan[c].row.name]_vars
  BY <1>1
<1>3. QED
  BY <1>2, ForkInvariant, PTL DEF Spec, CleanupSparesOtherForks

\* A cleanup of a registered fork has its row from the confirmation on, leaves
\* it when it ends early, and nothing of it or of its fork when it succeeds.
THEOREM CleanupsAreWhole == Spec => CleanupIsWhole
<1>1. ASSUME ForkInv, [Next]_vars, NEW c \in Cleaner, plan[c].owned, clean[c] \in Destroying,
             clean'[c] # clean[c], NEW r, r = plan[c].row
      PROVE  /\ r \in rows
             /\ clean'[c] # "cleaned" => r \in rows'
             /\ clean'[c] = "cleaned" =>
                   /\ {z \in rows' : z.path = r.path /\ z.name = r.name} = {}
                   /\ \A p \in Path : dir'[p] # r.by /\ listed'[p] # r.by
  <2>1. OwnedAt(c) /\ r \in rows
    BY <1>1, CleanerIs DEF PlanAt, OwnedAt
  <2>2. /\ clean \in [Cleaner -> CleanStage]
        /\ \/ DestroyTree(c) \/ DestroyPrune(c) \/ DestroyBranch(c) \/ KeepBranch(c)
           \/ DestroyFails(c) \/ KillCleanup(c) \/ RemoveRow(c)
    BY <1>1, CleanupsMoveAlone, CleanerIs DEF ResolveOwned, ResolveForced, Resolves, Consent,
         Decline, Cleans, Lock, Confirm, OrphanEnds, Orphan, Destroying
  <2>3. CASE RemoveRow(c)
    <3>1. /\ clean[c] = "row" /\ clean'[c] = "cleaned" /\ rows' = rows \ {r}
          /\ UNCHANGED <<dir, listed>>
      BY <1>1, <2>2, <2>3 DEF RemoveRow, Does, git
    <3>2. \A z \in rows : z.name = r.name => z = r
      BY <1>1, <2>1 DEF ForkInv, RowsInv
    <3>3. ASSUME NEW p \in Path PROVE dir[p] # r.by /\ listed[p] # r.by
      <4>1. r.by \in Maker /\ r.path = Pair[r.by].path /\ plan[c].path = r.path
        BY <1>1, <2>1, RowOfIs DEF OwnedAt, WrittenRow, Row
      <4>2. dir[r.path] # r.by /\ listed[r.path] # r.by
        BY <1>1, <2>1, <3>1, <4>1 DEF OwnedAt
      <4>3. QED
        BY <1>1, <4>1, <4>2 DEF ForkInv, GitInv, PlacesInv
    <3>4. QED
      BY <2>1, <3>1, <3>2, <3>3
  <2>4. CASE ~RemoveRow(c)
    <3>1. rows' = rows /\ clean'[c] # "cleaned"
      BY <1>1, <2>2, <2>4 DEF DestroyTree, DestroyPrune, DestroyBranch, KeepBranch, DestroyFails,
           KillCleanup, Destroyed, Does, Orphan
    <3>2. QED
      BY <2>1, <3>1
  <2>5. QED
    BY <2>3, <2>4
<1>2. ForkInv /\ [Next]_vars =>
        [\A c \in Cleaner : plan[c].owned /\ clean[c] \in Destroying /\ clean'[c] # clean[c] =>
            LET r == plan[c].row IN
            /\ r \in rows
            /\ clean'[c] # "cleaned" => r \in rows'
            /\ clean'[c] = "cleaned" =>
                  /\ {s \in rows' : s.path = r.path /\ s.name = r.name} = {}
                  /\ \A p \in Path : dir'[p] # r.by /\ listed'[p] # r.by]_vars
  BY <1>1
<1>3. QED
  BY <1>2, ForkInvariant, PTL DEF Spec, CleanupIsWhole
-----------------------------------------------------------------------------
(***************************************************************************)
(* SetupHook: the setup hook of one fork, for any number of children it    *)
(* starts and of signals.                                                  *)
(*                                                                         *)
(* All three properties are about what the ladder knows of a process group *)
(* that goes on changing under it.  They rest on two stable predicates of  *)
(* the kernel's state: an empty group whose leader is reaped stays empty   *)
(* (Quiet), and a group every process of which has been sent SIGKILL can   *)
(* neither grow nor start anything (Doomed).  The inductive invariant says *)
(* which of them the latch, the rungs and the result stand for.            *)
(***************************************************************************)

\* The leader is reaped and the group has no member: nothing can start in it.
Quiet == leader = "gone" /\ Members = {}

\* SIGKILL has reached everything in the group: nothing can start in it.
Doomed == Members \subseteq killed /\ (leader = "alive" => "leader" \in killed)

Children == [Child -> {"none", "in", "out", "gone"}]

HookTyped ==
    /\ leader \in {"none", "alive", "zombie", "gone"}
    /\ child \in Children
    /\ pipes \subseteq Child
    /\ killed \subseteq Child \cup {"leader"}
    /\ stranger \in BOOLEAN /\ struck \in BOOLEAN
    /\ at \in Places /\ ladder \in Rungs
    /\ handler \in BOOLEAN /\ jammed \in BOOLEAN /\ received \in 0..MaxHookSignals
    /\ registered \in BOOLEAN /\ emptied \in BOOLEAN /\ drained \in BOOLEAN
    /\ timed \in BOOLEAN /\ leftover \in BOOLEAN /\ cleared \in BOOLEAN

\* The hook is registered exactly while the command is inside its step, and a
\* ladder stands exactly where a handler, the deadline or the unwinding put it.
ControlInv ==
    /\ registered <=> at \in Inside
    /\ handler => registered
    /\ ladder # "none" <=> handler \/ at \in {"reap", "unwind"}
    /\ at \in {"check", "spawn"} => ~emptied
    /\ registered => leader # "none"

\* The latch is only set on a group that can no longer hold anything.
LatchInv == emptied => Quiet

\* A ladder about to signal has not seen the group empty; one that has sent
\* SIGKILL has reached all of it, and what came after it cannot undo that.
RungInv ==
    /\ ladder \in {"term", "kill"} => ~emptied
    /\ ladder = "grace_kill" => Doomed

\* The result that claims a cleared group was taken from a quiet one.
ResultInv == at \in {"returned", "done"} /\ status = "ran" /\ cleared => Quiet

HookInv == HookTyped /\ ControlInv /\ LatchInv /\ RungInv /\ ResultInv

-----------------------------------------------------------------------------
USE SignalsAssumption DEF SignalsAssumption

HookOrKernel ==
    \/ LeaderExits \/ Recycle
    \/ \E c \in Child : Starts(c) \/ Leaves(c) \/ Exits(c)

\* Whatever the hook and the kernel do, a quiet group stays quiet: with no
\* member and no leader nobody is left to start a process in it.
LEMMA QuietIsStable ==
    ASSUME HookTyped, HookOrKernel, Quiet
    PROVE  Quiet'
<1> USE DEF HookTyped, Children, Quiet, Members
<1>1. CASE LeaderExits
  BY <1>1 DEF LeaderExits
<1>2. CASE Recycle
  BY <1>2 DEF Recycle
<1>3. ASSUME NEW c \in Child, Starts(c) PROVE Quiet'
  BY <1>3 DEF Starts
<1>4. ASSUME NEW c \in Child, Leaves(c) \/ Exits(c) PROVE Quiet'
  BY <1>4 DEF Leaves, Exits
<1>5. QED
  BY <1>1, <1>2, <1>3, <1>4 DEF HookOrKernel

\* A doomed group stays doomed: a process that SIGKILL has reached starts no
\* other, and one that is gone leaves the group smaller.
LEMMA DoomedIsStable ==
    ASSUME HookTyped, HookOrKernel, Doomed
    PROVE  Doomed'
<1> USE DEF HookTyped, Children, Doomed, Members
<1>1. CASE LeaderExits
  BY <1>1 DEF LeaderExits
<1>2. CASE Recycle
  BY <1>2 DEF Recycle
<1>3. ASSUME NEW c \in Child, Starts(c) PROVE Doomed'
  BY <1>3 DEF Starts
<1>4. ASSUME NEW c \in Child, Leaves(c) \/ Exits(c) PROVE Doomed'
  BY <1>4 DEF Leaves, Exits
<1>5. QED
  BY <1>1, <1>2, <1>3, <1>4 DEF HookOrKernel

\* The hook and the kernel keep the invariant: they touch neither the command
\* nor its latch, and the two predicates it stands on are stable.
LEMMA HookOrKernelKeepsInv ==
    ASSUME HookInv, HookOrKernel
    PROVE  HookInv'
<1> USE DEF HookInv
<1>1. Hooked
  BY DEF HookOrKernel, LeaderExits, Recycle, Starts, Leaves, Exits
<1>2. HookTyped'
  <2> USE DEF HookTyped, Children, Hooked, asked, frame, result
  <2>1. CASE LeaderExits \/ Recycle
    BY <1>1, <2>1 DEF LeaderExits, Recycle
  <2>2. ASSUME NEW c \in Child, Starts(c) PROVE HookTyped'
    BY <1>1, <2>2 DEF Starts
  <2>3. ASSUME NEW c \in Child, Leaves(c) \/ Exits(c) PROVE HookTyped'
    BY <1>1, <2>3 DEF Leaves, Exits, Members
  <2>4. QED
    BY <2>1, <2>2, <2>3 DEF HookOrKernel
<1>3. ControlInv'
  <2>1. leader' # leader => leader = "alive" /\ leader' = "zombie"
    BY DEF HookOrKernel, LeaderExits, Recycle, Starts, Leaves, Exits
  <2>2. QED
    BY <1>1, <2>1 DEF ControlInv, Hooked, frame
<1>4. LatchInv'
  BY <1>1, QuietIsStable DEF LatchInv, Hooked
<1>5. RungInv'
  BY <1>1, DoomedIsStable DEF RungInv, Hooked
<1>6. ResultInv'
  BY <1>1, QuietIsStable DEF ResultInv, Hooked, result
<1>7. QED
  BY <1>2, <1>3, <1>4, <1>5, <1>6

-----------------------------------------------------------------------------
\* A probe that reaps the leader leaves the rest of the kernel's state alone,
\* answers empty only for a quiet group, and keeps the latch honest; one that
\* answers occupied has not found the latch set, and leaves it open.
LEMMA ProbeIsHonest ==
    ASSUME HookTyped, LatchInv, NEW empty \in BOOLEAN, Probe(empty), UNCHANGED child
    PROVE  /\ LatchInv' /\ emptied' \in BOOLEAN
           /\ leader' \in {leader, Reaped}
           /\ empty => Quiet' /\ leader # "alive" /\ Members = {}
           /\ ~empty => ~emptied'
           /\ Quiet => Quiet'
           /\ UNCHANGED killed /\ Doomed => Doomed'
BY DEF HookTyped, LatchInv, Probe, Latch, Reaped, Quiet, Doomed, Members

-----------------------------------------------------------------------------
\* The initial state: nothing has been started and nothing is claimed.
LEMMA InitHook == HookInit => HookInv
<1> SUFFICES ASSUME HookInit PROVE HookInv
  OBVIOUS
<1>1. received \in 0..MaxHookSignals
  BY DEF HookInit
<1>2. child \in Children
  BY DEF HookInit, Children
<1>3. killed \subseteq Child \cup {"leader"} /\ pipes \subseteq Child
  BY DEF HookInit
<1>4. at \in Places /\ ladder \in Rungs
  BY DEF HookInit, Places, Rungs
<1>5. HookTyped
  BY <1>1, <1>2, <1>3, <1>4 DEF HookInit, HookTyped
<1>6. ControlInv
  BY DEF HookInit, ControlInv, Inside
<1>7. LatchInv /\ RungInv /\ ResultInv
  BY DEF HookInit, LatchInv, RungInv, ResultInv
<1>8. QED
  BY <1>5, <1>6, <1>7 DEF HookInv

\* The step of run_setup_hook itself, up to its report: the hook is started,
\* its output read, its deadline met or missed.
HookStep ==
    \/ Check \/ Spawn \/ SpawnFails \/ Completes \/ SeesExit \/ TimesOut
    \/ GivesUpOnLeader \/ Detaches \/ Finish

\* These steps never run a ladder; they can only reap a leader that has
\* exited, which takes nothing from a quiet group.
LEMMA HookStepKeepsInv ==
    ASSUME HookInv, HookStep
    PROVE  HookInv'
<1> USE DEF HookInv, HookTyped, ControlInv, LatchInv, RungInv, ResultInv, Children, Quiet,
            Doomed, Members, Places, Inside, Rungs, asked, kernel, frame, result, HookGoes, Closes
<1>1. CASE Check
  BY <1>1 DEF Check, Refusal
<1>2. CASE Spawn
  BY <1>2 DEF Spawn
<1>3. CASE SpawnFails
  BY <1>3 DEF SpawnFails
<1>4. CASE Completes
  BY <1>4 DEF Completes, Eof
<1>5. CASE SeesExit
  BY <1>5 DEF SeesExit
<1>6. CASE TimesOut
  BY <1>6 DEF TimesOut
<1>7. CASE GivesUpOnLeader
  BY <1>7 DEF GivesUpOnLeader
<1>8. CASE Detaches
  BY <1>8 DEF Detaches
<1>9. CASE Finish
  BY <1>9 DEF Finish
<1>10. QED
  BY <1>1, <1>2, <1>3, <1>4, <1>5, <1>6, <1>7, <1>8, <1>9 DEF HookStep

\* A signal stands a new ladder at its first rung, or leaves by the exception
\* when no group is registered; neither touches the group.
LEMMA InterruptKeepsInv ==
    ASSUME HookInv, InterruptHook
    PROVE  HookInv'
<1> USE DEF HookInv, InterruptHook, asked, kernel, result
<1>1. UNCHANGED <<Quiet, Doomed>>
  BY DEF Quiet, Doomed, Members
<1>2. jammed' \in BOOLEAN /\ received' \in 0..MaxHookSignals
  <2>1. jammed' \in BOOLEAN
    BY Zenon DEF HookTyped
  <2>2. received' \in 0..MaxHookSignals
    BY DEF HookTyped
  <2>3. QED
    BY <2>1, <2>2
<1>3. CASE registered
  <2>1. HookTyped'
    BY <1>3, <1>2 DEF HookTyped, Places, Rungs
  <2>2. ControlInv'
    BY <1>3 DEF ControlInv, Inside
  <2>3. LatchInv' /\ RungInv' /\ ResultInv'
    BY <1>1, <1>3 DEF LatchInv, RungInv, ResultInv
  <2>4. QED
    BY <2>1, <2>2, <2>3
<1>4. CASE ~registered
  <2>1. at' = "raised" /\ ladder' = "none" /\ registered' = FALSE /\ UNCHANGED handler
    BY <1>4 DEF Unwinds, HookGoes, ControlInv, Inside
  <2>2. HookTyped'
    BY <1>2, <2>1 DEF HookTyped, Places, Rungs
  <2>3. ControlInv'
    BY <1>4, <2>1 DEF ControlInv, Inside
  <2>4. LatchInv' /\ RungInv' /\ ResultInv'
    BY <1>1, <2>1 DEF LatchInv, RungInv, ResultInv
  <2>5. QED
    BY <2>2, <2>3, <2>4
<1>5. QED
  BY <1>3, <1>4

\* The report's own probe decides what it claims.
LEMMA ReportKeepsInv ==
    ASSUME HookInv, Report
    PROVE  HookInv'
<1> USE DEF HookInv, Report, HookGoes, asked, frame
<1>1. UNCHANGED child
  OBVIOUS
<1>2. CASE cleared
  <2>1. PICK empty \in BOOLEAN : Probe(empty) /\ cleared' = empty
    BY <1>2
  <2>2. LatchInv' /\ emptied' \in BOOLEAN /\ leader' \in {leader, Reaped} /\ (empty => Quiet')
    BY <1>1, <2>1, ProbeIsHonest
  <2> HIDE DEF Probe
  <2>3. HookTyped'
    BY <2>1, <2>2 DEF HookTyped, Reaped, Places
  <2>4. ControlInv' /\ RungInv'
    BY <2>1, <2>2 DEF ControlInv, RungInv, Inside, HookTyped, Reaped
  <2>5. QED
    BY <2>1, <2>2, <2>3, <2>4 DEF ResultInv
<1>3. CASE ~cleared
  BY <1>3 DEF HookTyped, ControlInv, LatchInv, RungInv, ResultInv, Inside, Places, Quiet, Members
<1>4. QED
  BY <1>2, <1>3

-----------------------------------------------------------------------------
\* Where a ladder that ends may leave the command: a handler's, or the one of
\* the unwinding, raises or unwinds, and only the deadline's own goes on to
\* drain.  In each case the control invariant holds again.
LEMMA StepsKeepsControl ==
    ASSUME HookTyped, ControlInv, ladder # "none", NEW left \in BOOLEAN, Steps(left)
    PROVE  /\ at' \in {"unwind", "drain", "raised"} /\ ladder' \in {"probe_term", "none"}
           /\ handler' \in BOOLEAN /\ jammed' \in BOOLEAN /\ leftover' \in BOOLEAN
           /\ registered' \in BOOLEAN
           /\ registered' <=> at' \in Inside
           /\ handler' => registered'
           /\ ladder' # "none" <=> handler' \/ at' \in {"reap", "unwind"}
<1> USE DEF HookTyped, ControlInv, Steps, Unwinds, HookGoes, Inside, Places
<1>1. CASE handler
  BY <1>1
<1>2. CASE ~handler /\ at = "reap"
  BY <1>2
<1>3. CASE ~handler /\ at = "unwind"
  BY <1>3
<1>4. QED
  BY <1>1, <1>2, <1>3

\* A ladder runs inside the step, so the group was started.
LEMMA LadderIsInside ==
    ASSUME HookTyped, ControlInv, ladder # "none"
    PROVE  registered /\ at \in Inside /\ leader \in {"alive", "zombie", "gone"}
BY DEF HookTyped, ControlInv, Inside

\* A rung that ends its ladder on what its probe said.
LEMMA EndsKeepsInv ==
    ASSUME HookInv, ladder # "none", NEW empty \in BOOLEAN, NEW left \in BOOLEAN,
           Probe(empty), Steps(left), UNCHANGED <<killed, struck>>, Reaping
    PROVE  HookInv'
<1> USE DEF HookInv, Reaping, asked
<1>1. /\ LatchInv' /\ emptied' \in BOOLEAN /\ leader' \in {leader, Reaped}
  BY ProbeIsHonest
<1>2. leader' \in {"alive", "zombie", "gone"}
  BY <1>1, LadderIsInside DEF Reaped
<1>3. at' \in {"unwind", "drain", "raised"} /\ ladder' \in {"probe_term", "none"}
  BY StepsKeepsControl
<1>4. HookTyped'
  BY <1>1, <1>2, StepsKeepsControl DEF HookTyped, Places, Rungs, Inside
<1>5. ControlInv'
  BY <1>2, <1>3, StepsKeepsControl DEF ControlInv
<1>6. RungInv' /\ ResultInv'
  BY <1>3 DEF RungInv, ResultInv
<1>7. QED
  BY <1>1, <1>4, <1>5, <1>6

\* A rung that climbs on an occupied group: the latch is still open.
LEMMA ClimbsKeepsInv ==
    ASSUME HookInv, ladder # "none", Probe(FALSE),
           ladder' \in {"term", "probe_kill", "kill"},
           UNCHANGED <<killed, struck, at, handler, jammed, registered, leftover>>, Reaping
    PROVE  HookInv'
<1> USE DEF HookInv, Reaping, asked
<1>1. LatchInv' /\ ~emptied' /\ emptied' \in BOOLEAN /\ leader' \in {leader, Reaped}
  BY ProbeIsHonest
<1>2. at \in Inside /\ leader' \in {"alive", "zombie", "gone"}
  BY <1>1, LadderIsInside DEF Reaped
<1>3. HookTyped'
  BY <1>1, <1>2 DEF HookTyped, Rungs
<1>4. ControlInv'
  BY <1>1, <1>2 DEF ControlInv
<1>5. RungInv' /\ ResultInv'
  BY <1>1, <1>2 DEF RungInv, ResultInv, Inside
<1>6. QED
  BY <1>1, <1>3, <1>4, <1>5

\* killpg: SIGKILL leaves nothing in the group it has not reached, and ESRCH
\* closes the latch on an empty group only.
LEMMA KillpgKeepsInv ==
    ASSUME HookInv, NEW from \in {"term", "kill"}, NEW to \in {"grace_term", "grace_kill"},
           NEW lethal \in BOOLEAN, to = "grace_kill" => lethal, Killpg(from, to, lethal)
    PROVE  HookInv'
<1> USE DEF HookInv, Reaping, asked, Killpg, Climbs
<1>1. ladder # "none" /\ at \in Inside /\ leader \in {"alive", "zombie", "gone"}
  BY LadderIsInside
<1>2. LatchInv' /\ emptied' \in BOOLEAN
  BY <1>1 DEF LatchInv, Latch, HoldsNumber, Quiet, Members, HookTyped
<1>3. Members \subseteq Child /\ killed' \subseteq Child \cup {"leader"}
  BY DEF Members, HookTyped
<1>4. HookTyped'
  BY <1>2, <1>3 DEF HookTyped, Rungs
<1>5. ControlInv'
  BY <1>1 DEF ControlInv, Inside
<1>6. lethal => Doomed'
  BY DEF Doomed, HoldsNumber, Members
<1>7. RungInv' /\ ResultInv'
  BY <1>1, <1>6 DEF RungInv, ResultInv, Inside
<1>8. QED
  BY <1>2, <1>4, <1>5, <1>7

\* Every rung of the ladder keeps the invariant, whoever runs it.
LEMMA ReapKeepsInv ==
    ASSUME HookInv, Reap
    PROVE  HookInv'
<1>1. ASSUME NEW from \in {"probe_term", "probe_kill"}, NEW to \in {"term", "kill"},
             BeforeSignal(from, to)
      PROVE  HookInv'
  BY <1>1, ClimbsKeepsInv, EndsKeepsInv DEF BeforeSignal
<1>2. CASE Killpg("term", "grace_term", FALSE)
  BY <1>2, KillpgKeepsInv
<1>3. CASE Killpg("kill", "grace_kill", TRUE)
  BY <1>3, KillpgKeepsInv
<1>4. CASE GroupEnds
  BY <1>4, EndsKeepsInv DEF GroupEnds
<1>5. CASE GraceEnds
  BY <1>5, ClimbsKeepsInv, EndsKeepsInv DEF GraceEnds
<1>6. QED
  BY <1>1, <1>2, <1>3, <1>4, <1>5 DEF Reap

-----------------------------------------------------------------------------
\* Every step keeps the invariant: signals may stack, children may start, leave
\* and exit between any two of the command's own steps.
LEMMA NextHook == HookInv /\ [HookNext]_hookVars => HookInv'
<1> SUFFICES ASSUME HookInv, [HookNext]_hookVars PROVE HookInv'
  OBVIOUS
<1>1. CASE HookOrKernel
  BY <1>1, HookOrKernelKeepsInv
<1>2. CASE HookStep
  BY <1>2, HookStepKeepsInv
<1>3. CASE Report
  BY <1>3, ReportKeepsInv
<1>4. CASE Reap
  BY <1>4, ReapKeepsInv
<1>5. CASE InterruptHook
  BY <1>5, InterruptKeepsInv
<1>6. CASE UNCHANGED hookVars
  BY <1>6 DEF HookInv, HookTyped, ControlInv, LatchInv, RungInv, ResultInv, Children,
              Quiet, Doomed, Members, hookVars
<1>7. QED
  BY <1>1, <1>2, <1>3, <1>4, <1>5, <1>6 DEF HookNext, Command, HookStep, HookOrKernel

\* Type correctness and the inductive invariant, for any hook and any number
\* of signals.
THEOREM HookInvariant == HookSpec => []HookInv
BY InitHook, NextHook, PTL DEF HookSpec

\* A result that claims descendants_cleared is true when the hook step returns
\* and stays true until the fork is done.
THEOREM ClearedIsTrue == HookSpec => []ClearedMeansCleared
<1>1. HookInv => ClearedMeansCleared
  BY DEF HookInv, ResultInv, Quiet, ClearedMeansCleared
<1>2. QED
  BY <1>1, HookInvariant, PTL

\* Only killpg changes whom a signal strikes, and no ladder stands before one
\* once the latch is closed: a retired number is never signalled.
THEOREM RetiredNumberIsSafe == HookSpec => RetiredNumberIsNeverSignalled
<1>1. HookInv /\ [HookNext]_hookVars => [emptied => struck' = struck]_hookVars
  <2> SUFFICES ASSUME HookInv, HookNext, emptied PROVE struck' = struck
    BY DEF hookVars
  <2>1. ladder \notin {"term", "kill"}
    BY DEF HookInv, RungInv
  <2>2. CASE HookOrKernel
    BY <2>2 DEF HookOrKernel, LeaderExits, Recycle, Starts, Leaves, Exits
  <2>3. CASE HookStep
    BY <2>3 DEF HookStep, Check, Spawn, SpawnFails, Completes, SeesExit, TimesOut,
                GivesUpOnLeader, Detaches, Finish, kernel
  <2>4. CASE Report
    BY <2>4 DEF Report
  <2>5. CASE Reap
    BY <2>1, <2>5 DEF Reap, BeforeSignal, Killpg, Climbs, GroupEnds, GraceEnds
  <2>6. CASE InterruptHook
    BY <2>6 DEF InterruptHook, kernel
  <2>7. QED
    BY <2>2, <2>3, <2>4, <2>5, <2>6 DEF HookNext, Command, HookStep, HookOrKernel
<1>2. QED
  BY <1>1, HookInvariant, PTL DEF HookSpec, RetiredNumberIsNeverSignalled

\* The unwinding ends only at the end of a ladder, and a ladder ends on a quiet
\* group or after SIGKILL: when the rollback takes over, nothing that was left
\* in the hook's group has been missed.
THEOREM InterruptedHookIsDead == HookSpec => InterruptedHookIsKilled
<1> DEFINE Raises == at = "unwind" /\ at' = "raised"
<1>1. HookInv /\ [HookNext]_hookVars => [Raises => Doomed]_hookVars
  <2> SUFFICES ASSUME HookInv, HookNext, Raises PROVE Doomed
    BY DEF hookVars
  <2>1. registered
    BY DEF HookInv, ControlInv, Inside
  <2>2. ~HookOrKernel /\ ~HookStep /\ ~Report /\ ~InterruptHook
    BY <2>1 DEF HookOrKernel, LeaderExits, Recycle, Starts, Leaves, Exits, Hooked,
             HookStep, Check, Spawn, SpawnFails, Completes, SeesExit, TimesOut,
             GivesUpOnLeader, Detaches, Finish, Report, InterruptHook, HookGoes, Closes
  <2>3. Reap
    BY <2>2 DEF HookNext, Command, HookStep, HookOrKernel
  <2>4. ASSUME Probe(TRUE), UNCHANGED child PROVE Doomed
    <3>1. leader # "alive" /\ Members = {}
      BY <2>4, ProbeIsHonest DEF HookInv
    <3>2. QED
      BY <3>1 DEF Doomed
  <2>5. CASE Probe(TRUE)
    BY <2>3, <2>4, <2>5 DEF Reap, BeforeSignal, GroupEnds, GraceEnds, Killpg, Reaping
  <2>6. CASE GraceEnds
    BY <2>6 DEF GraceEnds, HookInv, RungInv
  <2>7. QED
    BY <2>3, <2>5, <2>6 DEF Reap, BeforeSignal, GroupEnds, Killpg
<1>2. QED
  BY <1>1, HookInvariant, PTL DEF HookSpec, InterruptedHookIsKilled, Doomed
=============================================================================
