------------------------------ MODULE WorkTree ------------------------------
(***************************************************************************)
(* What agent-fork reads from one working tree: the inventory of carried   *)
(* paths (content.collect_inventory), the snapshot of their state          *)
(* (content.capture_state) and git's short status.                         *)
(*                                                                         *)
(* A tree is a record of what each path is in the commit, in the index and *)
(* on disk, with the paths no lstat can reach.  Content, mode and symlink  *)
(* target are one value.  Submodules are in no tree.                       *)
(***************************************************************************)
CONSTANTS
    Path, Content,
    Blank,      \* the content of an empty file
    Ignored,    \* the paths .gitignore matches
    Absent,     \* nothing at the path
    Ita,        \* an index entry of git add --intent-to-add
    Locked,     \* a file that cannot be opened
    Nested      \* an entry that is neither file nor symlink: an untracked repository

Object == Content \cup {Absent, Locked, Nested}

Tree == [head : [Path -> Content \cup {Absent}],
         index : [Path -> Content \cup {Absent, Ita}],
         work : [Path -> Object],
         hidden : SUBSET Path]

ASSUME TreeAssumption ==
    /\ Blank \in Content
    /\ Ignored \subseteq Path
    /\ {Absent, Ita, Locked, Nested} \cap Content = {}
    /\ Absent \notin {Ita, Locked, Nested} /\ Ita \notin {Locked, Nested} /\ Locked # Nested

-----------------------------------------------------------------------------
\* git diff --cached takes an intent-to-add entry for no entry.
Visible(t, p) == IF t.index[p] = Ita THEN Absent ELSE t.index[p]

Staged(t) == {p \in Path : t.head[p] # Visible(t, p)}
Unstaged(t) == {p \in Path : t.index[p] # Absent /\ t.index[p] # t.work[p]}
Others(t) == {p \in Path : t.index[p] = Absent /\ t.work[p] # Absent}

\* Listed when intent-to-add entries are shown and not when they are hidden:
\* an entry over a path of the commit is listed both ways.
IntentToAdd(t) == {p \in Path : t.index[p] = Ita /\ t.head[p] = Absent}

\* Mutant: deletions inferred from what is missing on disk.
DeletionsOnDisk(t) == {p \in Path : t.index[p] # Absent /\ t.work[p] = Absent}

Deletions(t) == {p \in Path : \/ t.head[p] # Absent /\ Visible(t, p) = Absent
                              \/ t.index[p] # Absent /\ t.work[p] = Absent}

NoInventory == [staged |-> {}, unstaged |-> {}, ita |-> {},
                untracked |-> {}, ignored |-> {}, deletions |-> {}]

CollectInventory(t, withState, withIgnored) ==
    IF withState
    THEN [staged |-> Staged(t), unstaged |-> Unstaged(t), ita |-> IntentToAdd(t),
          untracked |-> Others(t) \ Ignored,
          ignored |-> IF withIgnored THEN Others(t) \cap Ignored ELSE {},
          deletions |-> Deletions(t)]
    ELSE NoInventory

CarriedPaths(inv) == inv.staged \cup inv.unstaged \cup inv.ita
                        \cup inv.untracked \cup inv.ignored

-----------------------------------------------------------------------------
\* Only an untracked file that cannot be read may be left out, and only when
\* nothing is deleted: it could be the new name of a deleted file.
MaySkip(t, inv, p) == /\ p \in inv.untracked \cup inv.ignored
                      /\ t.index[p] = Absent
                      /\ inv.deletions = {}

Unreadable(t, inv, known) ==
    {p \in CarriedPaths(inv) \ known : p \notin t.hidden /\ t.work[p] = Locked}

CaptureRaises(t, inv, known) ==
    \/ (CarriedPaths(inv) \ known) \cap t.hidden # {}
    \/ \E p \in Unreadable(t, inv, known) : ~MaySkip(t, inv, p)

\* The mode and object of ls-files --stage: an intent-to-add entry has those of
\* an empty file.
IndexRecord(t, p) == IF t.index[p] = Ita THEN Blank ELSE t.index[p]

\* Index and manifest say Absent for the paths they do not hold.
CaptureState(t, inv, known) ==
    LET held == CarriedPaths(inv) \ (known \cup Unreadable(t, inv, known))
    IN  [paths |-> held,
         index |-> [p \in Path |-> IF p \in CarriedPaths(inv)
                                   THEN IndexRecord(t, p) ELSE Absent],
         manifest |-> [p \in Path |-> IF p \in held THEN t.work[p] ELSE Absent]]

CarriedState == [paths : SUBSET Path,
                 index : [Path -> Content \cup {Absent}],
                 manifest : [Path -> Object]]

NoState == [paths |-> {}, index |-> [p \in Path |-> Absent],
            manifest |-> [p \in Path |-> Absent]]

\* Mutant: files are compared by name only.
SameNames(expected, actual) ==
    /\ expected.paths = actual.paths
    /\ expected.index = actual.index

\* compare_states finds no difference.
Same(expected, actual) ==
    /\ expected.paths = actual.paths
    /\ expected.index = actual.index
    /\ expected.manifest = actual.manifest

-----------------------------------------------------------------------------
\* The two letters git status prints for a path.
IndexLetter(t, p) ==
    CASE t.head[p] = Visible(t, p) -> " "
      [] t.head[p] = Absent /\ Visible(t, p) # Absent -> "A"
      [] t.head[p] # Absent /\ Visible(t, p) = Absent -> "D"
      [] OTHER -> "M"

WorkLetter(t, p, showIgnored) ==
    CASE p \in Others(t) \ Ignored -> "?"
      [] p \in Others(t) \cap Ignored -> IF showIgnored THEN "!" ELSE " "
      [] p \notin Others(t) \cup Unstaged(t) -> " "
      [] p \in Unstaged(t) /\ t.work[p] = Absent -> "D"
      [] OTHER -> IF t.index[p] = Ita THEN "A" ELSE "M"

Status(t, showIgnored, excluded) ==
    [p \in Path \ excluded |-> <<IndexLetter(t, p), WorkLetter(t, p, showIgnored)>>]

Clean == <<" ", " ">>
=============================================================================
