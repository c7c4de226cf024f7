-------------------------- MODULE StateCarryProofs --------------------------
(***************************************************************************)
(* That a fork which succeeds is what it says it is, for any paths and     *)
(* contents, any parent, any flags and any number of edits at any moment.  *)
(*                                                                         *)
(* Transport reads a parent that moves, so nothing can be said of the      *)
(* child while it is filled.  The argument starts where the child is       *)
(* compared with the capture (ExactInv) and shows that nothing after that  *)
(* undoes it; what the copies leave out is followed path by path           *)
(* (CopiesInv), and a skip record by the metadata it was made with         *)
(* (SkipsInv).                                                             *)
(***************************************************************************)
EXTENDS StateCarry, TLAPS

Options == [withState : BOOLEAN, withIgnored : BOOLEAN, verify : BOOLEAN, strict : BOOLEAN,
            included : SUBSET Path, limit : Nat]

Inventories == [staged : SUBSET Path, unstaged : SUBSET Path, ita : SUBSET Path,
                untracked : SUBSET Path, ignored : SUBSET Path, deletions : SUBSET Path]

TypeOK ==
    /\ parent \in Tree /\ child \in Tree
    /\ stamp \in [Path -> Nat] /\ edits \in Nat
    /\ opts \in Options /\ (opts.withIgnored => opts.withState)
    /\ pc \in Steps
    /\ inventory \in Inventories /\ recheck \in Inventories
    /\ captured \in CarriedState
    /\ todo \subseteq Path /\ skipped \subseteq [path : Path, stamp : Nat]
    /\ agrees \in BOOLEAN

\* What the copy loop of the carry goes over.
Listed == inventory.untracked \cup inventory.ignored

\* The steps at which everything listed was copied or skipped; at which the
\* child was compared with the capture; after which nobody looks again; at
\* which includes may be in the child.
Verified == {"untouched", "include", "copyIncludes", "strict", "hook", "finish", "done"}
Copied == Verified \cup {"compare", "collect", "recapture"}
Trusted == Verified \ {"untouched"}
Including == Trusted \ {"include"}
Filled == (Copied \ Including) \cup {"staged", "ita", "unstaged", "copy"}

ListsInv ==
    /\ inventory.untracked \cap Ignored = {} /\ inventory.ignored \subseteq Ignored
    /\ inventory.ita \cap Listed = {}
    /\ ~opts.withIgnored => inventory.ignored = {}
    /\ ~opts.withState => Listed = {}
    /\ pc \in {"staged", "ita", "unstaged", "copy", "collect", "recapture"} => opts.withState
    /\ pc \in {"compare", "collect", "recapture"} => opts.verify

\* What the capture leaves out of the lists is skipped and was untracked.
CaptureInv ==
    /\ ~Bracketed => captured.paths = {}
    /\ Bracketed /\ pc \notin {"status", "inventory", "capture", "failed"} =>
          \A p \in Listed \ captured.paths : p \in Skipped /\ captured.index[p] = Absent

TodoInv ==
    /\ pc = "copy" => todo \subseteq Listed \ Skipped
    /\ pc = "copyIncludes" => todo \subseteq (Ignored \cap opts.included) \ Skipped

\* A sentinel that still matches is one of an entry that cannot be copied.
SkipsInv ==
    /\ pc \in {"status", "inventory", "capture"} => skipped = {}
    /\ skipped # {} => inventory.deletions = {}
    /\ pc \notin Including \cup {"failed"} => Skipped \subseteq Listed
    /\ \A r \in skipped :
          /\ r.stamp <= stamp[r.path]
          /\ r.stamp = stamp[r.path] => parent.work[r.path] \in {Locked, Nested}
    /\ pc = "done" => \A r \in skipped : r.stamp = stamp[r.path]

CopiesInv ==
    /\ pc = "copy" => \A p \in Listed : p \in todo \/ child.work[p] # Absent \/ p \in Skipped
    /\ pc \in Copied => \A p \in Listed : child.work[p] # Absent \/ p \in Skipped

\* The child can be read, and is pristine when no state is carried.
ChildInv ==
    /\ child.hidden = {} /\ \A p \in Path : child.work[p] # Locked
    /\ ~opts.withState /\ pc \in {"compare", "untouched", "include"} =>
          \A p \in Path : child.index[p] = child.head[p] /\ child.work[p] = child.head[p]

\* A path all of whose skip records still match.
Still(p) == \A r \in skipped : r.path = p => r.stamp = stamp[p]

\* A file skipped by the capture and not touched since is outside every patch
\* but a deletion, so the child has it as in the commit or has no such path.
LeftInv ==
    Bracketed /\ pc \notin Including \cup {"failed"} =>
        \A p \in Skipped : p \notin captured.paths /\ Still(p) =>
            /\ parent.work[p] = Locked /\ parent.index[p] = Absent
            /\ pc \in Filled =>
                  \/ child.index[p] = Absent /\ child.work[p] = Absent
                  \/ child.index[p] = child.head[p] /\ child.work[p] = child.head[p]

\* What the fork promises of a path.
IndexOf(p) == IF p \in captured.paths THEN captured.index[p] ELSE child.head[p]
WorkOf(p) == IF p \in captured.paths THEN captured.manifest[p] ELSE child.head[p]

EntryOf(p) == IF p \in captured.paths THEN IndexRecord(child, p) ELSE child.index[p]

Exact(p) ==
    \/ /\ EntryOf(p) = IndexOf(p)
       /\ \/ child.work[p] = WorkOf(p)
          \/ /\ WorkOf(p) = Absent /\ p \in Ignored \ Skipped
             /\ p \in opts.included \/ (Bracketed /\ ~opts.withIgnored)
    \/ p \in Listed \ captured.paths /\ child.index[p] = Absent /\ child.work[p] = Absent

ExactInv ==
    /\ pc \in Trusted /\ opts.verify => agrees
    /\ pc \in Verified /\ opts.verify /\ agrees => \A p \in Path : Still(p) => Exact(p)

CarryInv == /\ TypeOK /\ ListsInv /\ CaptureInv /\ TodoInv /\ SkipsInv /\ CopiesInv
            /\ ChildInv /\ LeftInv /\ ExactInv

-----------------------------------------------------------------------------
(* A parent nobody touches: every thing read is a function of the parent,   *)
(* and the child is filled facet by facet.                                  *)

\* Where the child is while it is filled.
Anchored == child.head = parent.head

\* In the index the child has an intent-to-add entry for those of the
\* inventory only; on disk, the parent's file where a patch or a copy brought it.
IndexCarried(p) ==
    child.index[p] = IF p \in inventory.ita THEN Ita ELSE Visible(parent, p)

WorkCarried(p) ==
    IF parent.index[p] # Absent THEN child.work[p] = parent.work[p]
    ELSE child.work[p] = IF p \in Listed \ Skipped /\ (pc = "copy" => p \notin todo)
                         THEN parent.work[p] ELSE Absent

ReadInv ==
    /\ \A p \in Path : stamp[p] = 0
    /\ pc # "status" => before = Status(parent, FALSE, {})
    /\ pc \notin {"status", "inventory"} =>
          inventory = CollectInventory(parent, opts.withState, opts.withIgnored)
    /\ pc = "recapture" => recheck = inventory
    /\ Bracketed /\ pc \in Filled \cup {"create"} =>
          /\ captured = CaptureState(parent, inventory, {})
          /\ Skipped = Unreadable(parent, inventory, {})

FillInv ==
    /\ pc \in {"staged", "ita", "unstaged", "copy", "compare", "collect", "recapture"} => Anchored
    /\ pc = "staged" => \A p \in Path : /\ child.index[p] = parent.head[p]
                                        /\ child.work[p] = parent.head[p]
    /\ pc = "ita" => \A p \in Path : /\ child.index[p] = Visible(parent, p)
                                     /\ child.work[p] = Visible(parent, p)
    /\ pc = "unstaged" =>
          \A p \in Path : /\ IndexCarried(p)
                          /\ child.work[p] = IF p \in inventory.ita THEN parent.work[p]
                                             ELSE Visible(parent, p)
    /\ pc = "copy" \/ (pc \in {"compare", "collect", "recapture"} /\ Bracketed) =>
          \A p \in Path : IndexCarried(p) /\ WorkCarried(p)

EndInv ==
    /\ agrees
    /\ pc = "copyIncludes" => todo \subseteq Others(parent)
    /\ pc = "failed" => opts.strict /\ skipped # {}

QuietInv == edits = 0 /\ ~Uncarryable => ReadInv /\ FillInv /\ EndInv

-----------------------------------------------------------------------------
(* A parent edited once: what was missing from the first status is missing  *)
(* from the last one, unless the capture saw nothing missing.               *)

\* Nothing of the commit is missing from what was captured of a path.
CapturedWhole(p) ==
    /\ p \in captured.paths => captured.index[p] # Absent /\ captured.manifest[p] # Absent
    /\ p \in Listed => p \in captured.paths

\* Nothing is missing from a status.
Unbroken(status) == \A p \in Path : status[p][1] # "D" /\ status[p][2] # "D"

\* The status the fork ends with cannot be the one it began with.
Doomed == edits = 1 /\ before # Status(parent, FALSE, {})

WholeInv ==
    Bracketed /\ edits <= 1 =>
        /\ edits = 0 /\ pc # "status" => before = Status(parent, FALSE, {})
        /\ edits = 0 /\ pc \notin {"status", "inventory"} =>
              inventory = CollectInventory(parent, opts.withState, opts.withIgnored)
        /\ inventory.deletions = {} /\ pc = "capture" =>
              \/ inventory = CollectInventory(parent, opts.withState, opts.withIgnored)
              \/ Unbroken(before)
        /\ inventory.deletions = {} /\ pc = "create" =>
              /\ Doomed \/ \A p \in Path : parent.head[p] # Absent => CapturedWhole(p)
              /\ edits = 0 => \A p \in Path : parent.index[p] # Absent => CapturedWhole(p)
        /\ inventory.deletions = {} /\ pc \in Filled \ {"include"} =>
              Doomed \/ \A p \in Path : child.head[p] # Absent => CapturedWhole(p)
        /\ inventory.deletions = {} /\ pc \in Trusted =>
              \A p \in Path : child.head[p] # Absent => CapturedWhole(p)

-----------------------------------------------------------------------------
\* The values a path can have are told apart.
LEMMA ValuesAre ==
    /\ Blank \in Content
    /\ Absent \notin Content /\ Ita \notin Content /\ Locked \notin Content
    /\ Nested \notin Content
    /\ Absent # Ita /\ Absent # Locked /\ Absent # Nested /\ Ita # Locked /\ Ita # Nested
    /\ Locked # Nested
    /\ Ignored \subseteq Path
BY TreeAssumption DEF TreeAssumption

\* A tree is made of its four parts.
LEMMA TreeIs ==
    ASSUME NEW t \in Tree
    PROVE  /\ t.head \in [Path -> Content \cup {Absent}]
           /\ t.index \in [Path -> Content \cup {Absent, Ita}]
           /\ t.work \in [Path -> Object]
           /\ t.hidden \subseteq Path
BY DEF Tree

\* An inventory lists paths, a capture holds states of paths.
LEMMA InventoryTyped ==
    ASSUME NEW t \in Tree, NEW s \in BOOLEAN, NEW i \in BOOLEAN
    PROVE  /\ CollectInventory(t, s, i) \in Inventories
           /\ NoInventory \in Inventories
BY DEF CollectInventory, NoInventory, Inventories, Staged, Unstaged, IntentToAdd, Others, Deletions

\* A capture of a tree is a typed one, and so is the empty one.
LEMMA CaptureTyped ==
    ASSUME NEW t \in Tree, NEW inv \in Inventories, NEW known
    PROVE  /\ CaptureState(t, inv, known) \in CarriedState
           /\ NoState \in CarriedState
<1>1. CarriedPaths(inv) \subseteq Path
  BY DEF CarriedPaths, Inventories
<1>2. [p \in Path |-> IF p \in CarriedPaths(inv) THEN IndexRecord(t, p) ELSE Absent]
         \in [Path -> Content \cup {Absent}]
  BY TreeIs, ValuesAre DEF IndexRecord
<1>3. [p \in Path |-> IF p \in CarriedPaths(inv) \ (known \cup Unreadable(t, inv, known))
                      THEN t.work[p] ELSE Absent] \in [Path -> Object]
  BY TreeIs DEF Object
<1>4. CaptureState(t, inv, known) \in CarriedState
  BY <1>1, <1>2, <1>3 DEF CaptureState, CarriedState
<1>5. NoState \in CarriedState
  BY DEF NoState, CarriedState, Object
<1>6. QED
  BY <1>4, <1>5

\* An edit makes a tree of a tree; metadata move with the disk only, and what
\* the disk holds with the metadata only.
LEMMA EditIs ==
    ASSUME parent \in Tree, stamp \in [Path -> Nat], edits \in Nat, Edit
    PROVE  /\ parent' \in Tree /\ stamp' \in [Path -> Nat] /\ edits' = edits + 1
           /\ \A p \in Path : /\ stamp[p] <= stamp'[p]
                              /\ parent'.work[p] = parent.work[p] \/ stamp[p] < stamp'[p]
                              /\ \/ parent'.index[p] \in {parent.index[p], Absent}
                                 \/ parent.work[p] \in Content \/ parent.index[p] # Absent
           /\ pc \notin {"status", "done", "failed"}
           /\ UNCHANGED <<opts, pc, before, inventory, captured, child, todo, skipped, recheck,
                          agrees>>
<1>1. /\ pc \notin {"status", "done", "failed"} /\ edits' = edits + 1
      /\ UNCHANGED <<opts, pc, before, inventory, captured, child, todo, skipped, recheck, agrees>>
  BY DEF Edit, run
<1>2. /\ parent.head \in [Path -> Content \cup {Absent}]
      /\ parent.index \in [Path -> Content \cup {Absent, Ita}]
      /\ parent.work \in [Path -> Object]
      /\ parent.hidden \subseteq Path
  BY TreeIs
<1>3. CASE Commit
  <2>1. [p \in Path |-> Visible(parent, p)] \in [Path -> Content \cup {Absent}]
    BY <1>2 DEF Visible
  <2>2. parent' \in Tree /\ parent'.work = parent.work /\ parent'.index = parent.index
    BY <1>3, <2>1 DEF Commit, Tree
  <2>3. QED
    BY <1>1, <1>3, <2>2 DEF Commit
<1>4. ASSUME NEW p \in Path, Rewrite(p)
      PROVE  /\ parent' \in Tree /\ stamp' \in [Path -> Nat] /\ parent'.index = parent.index
             /\ \A q \in Path : /\ stamp[q] <= stamp'[q]
                                /\ parent'.work[q] = parent.work[q] \/ stamp[q] < stamp'[q]
  <2>1. PICK w \in Object : parent' = [parent EXCEPT !.work[p] = w]
    BY <1>4 DEF Rewrite, Object
  <2>2. [parent.work EXCEPT ![p] = w] \in [Path -> Object]
    BY <1>2
  <2>3. parent' \in Tree /\ parent'.index = parent.index
    BY <2>1, <2>2 DEF Tree
  <2>4. \A q \in Path : q # p => parent'.work[q] = parent.work[q]
    BY <1>2, <2>1 DEF Tree
  <2>5. stamp' = [stamp EXCEPT ![p] = @ + 1]
    BY <1>4 DEF Rewrite
  <2>6. stamp' \in [Path -> Nat] /\ stamp'[p] = stamp[p] + 1
        /\ \A q \in Path : q # p => stamp'[q] = stamp[q]
    BY <2>5
  <2>7. stamp[p] < stamp'[p] /\ \A q \in Path : stamp[q] <= stamp'[q]
    BY <2>6
  <2>8. QED
    BY <2>3, <2>4, <2>6, <2>7
<1>5. ASSUME NEW p \in Path, Index(p) \/ Hide(p)
      PROVE  /\ parent' \in Tree /\ stamp' = stamp /\ parent'.work = parent.work
             /\ \A q \in Path : \/ parent'.index[q] \in {parent.index[q], Absent}
                               \/ parent.work[q] \in Content \/ parent.index[q] # Absent
  <2>1. CASE Index(p)
    <3>1. PICK i \in Content \cup {Absent, Ita} :
             /\ parent' = [parent EXCEPT !.index[p] = i]
             /\ i = Absent \/ parent.work[p] \in Content \/ parent.index[p] # Absent
      BY <2>1 DEF Index
    <3>2. \A q \in Path : parent'.index[q] = IF q = p THEN i ELSE parent.index[q]
      BY <1>2, <3>1 DEF Tree
    <3>3. parent' \in Tree /\ stamp' = stamp /\ parent'.work = parent.work
      BY <1>2, <2>1, <3>1 DEF Tree, Index
    <3>4. QED
      BY <3>1, <3>2, <3>3
  <2>2. CASE Hide(p)
    BY <1>2, <2>2 DEF Hide, Tree
  <2>3. QED
    BY <1>5, <2>1, <2>2
<1>6. QED
  BY <1>1, <1>3, <1>4, <1>5 DEF Edit

\* What the copy loops do with one path.
LEMMA CopyEntryIs ==
    ASSUME TypeOK, NEW p \in todo, CopyEntry(p)
    PROVE  \/ pc' = "failed" /\ UNCHANGED run
           \/ /\ UNCHANGED <<pc, before, inventory, captured, child, recheck, agrees>>
              /\ parent.work[p] \in {Locked, Nested} /\ inventory.deletions = {}
              /\ skipped' = skipped \cup {Record(p)} /\ Skipped' = Skipped \cup {p}
              /\ todo' = todo \ {p}
           \/ /\ UNCHANGED <<pc, before, inventory, captured, skipped, recheck, agrees>>
              /\ parent.work[p] \in Content
              /\ child' = [child EXCEPT !.work[p] = parent.work[p]]
              /\ todo' = todo \ {p}
<1>1. CASE skipped' = skipped \cup {Record(p)}
  <2>1. Record(p).path = p
    BY DEF Record
  <2>2. Skipped' = {r.path : r \in skipped \cup {Record(p)}}
    BY <1>1 DEF Skipped
  <2>3. {r.path : r \in skipped \cup {Record(p)}} = {r.path : r \in skipped} \cup {Record(p).path}
    OBVIOUS
  <2>4. QED
    BY <1>1, <2>1, <2>2, <2>3 DEF CopyEntry, Fails, run, Skipped
<1>2. CASE skipped' # skipped \cup {Record(p)}
  BY <1>2 DEF CopyEntry, Fails, run
<1>3. QED
  BY <1>1, <1>2

\* Copying an entry keeps the child a tree and the records records.
LEMMA CopyEntryTyped ==
    ASSUME TypeOK, NEW p \in todo, CopyEntry(p)
    PROVE  /\ child' \in Tree /\ todo' \subseteq Path
           /\ skipped' \subseteq [path : Path, stamp : Nat]
<1>1. p \in Path /\ Record(p) \in [path : Path, stamp : Nat]
  BY DEF TypeOK, Record
<1>2. parent.work[p] \in Content => [child EXCEPT !.work[p] = parent.work[p]] \in Tree
  BY <1>1 DEF TypeOK, Tree, Object
<1>3. QED
  BY <1>1, <1>2, CopyEntryIs DEF TypeOK, run

\* What the patches leave in the child.
LEMMA PatchesTyped ==
    ASSUME TypeOK, NEW patch, NEW S \in SUBSET Path
    PROVE  /\ [child EXCEPT
                  !.index = [p \in Path |-> IF p \in S THEN Visible(parent, p) ELSE @[p]],
                  !.work = [p \in Path |-> IF p \in S THEN Visible(parent, p) ELSE @[p]]] \in Tree
           /\ Patched(patch) \in [Path -> Object]
           /\ [child EXCEPT !.work = Patched(patch)] \in Tree
           /\ [child EXCEPT !.work = Patched(patch),
                            !.index = [p \in Path |-> IF p \in S /\ @[p] = Absent
                                                      THEN Ita ELSE @[p]]] \in Tree
<1>1. /\ child.head \in [Path -> Content \cup {Absent}]
      /\ child.index \in [Path -> Content \cup {Absent, Ita}]
      /\ child.work \in [Path -> Object] /\ parent.work \in [Path -> Object]
      /\ child.hidden \subseteq Path /\ child \in Tree
  BY TreeIs DEF TypeOK
<1>2. \A p \in Path : Visible(parent, p) \in Content \cup {Absent}
  BY TreeIs DEF Visible, TypeOK
<1>3. /\ [p \in Path |-> IF p \in S THEN Visible(parent, p) ELSE child.index[p]]
            \in [Path -> Content \cup {Absent, Ita}]
      /\ [p \in Path |-> IF p \in S THEN Visible(parent, p) ELSE child.work[p]]
            \in [Path -> Object]
  BY <1>1, <1>2 DEF Object
<1>4. Patched(patch) \in [Path -> Object]
  BY <1>1 DEF Patched
<1>5. [p \in Path |-> IF p \in S /\ child.index[p] = Absent THEN Ita ELSE child.index[p]]
         \in [Path -> Content \cup {Absent, Ita}]
  BY <1>1
<1>6. QED
  BY <1>1, <1>3, <1>4, <1>5 DEF Tree

-----------------------------------------------------------------------------
\* Every step keeps the types.
LEMMA TypeStep ==
    ASSUME TypeOK, [Next]_vars
    PROVE  TypeOK'
<1> USE DEF TypeOK
<1>1. CASE UNCHANGED vars
  BY <1>1 DEF vars, run
<1>2. CASE Edit
  BY <1>2, EditIs
<1> DEFINE ParentTyped == /\ parent' \in Tree /\ stamp' \in [Path -> Nat] /\ edits' \in Nat
                          /\ opts' \in Options /\ (opts'.withIgnored => opts'.withState)
<1>3. Parent => ParentTyped
  BY DEF Parent
<1>4. opts \in Options /\ opts.withState \in BOOLEAN /\ opts.withIgnored \in BOOLEAN
  BY DEF Options
<1>5. CASE ReadStatus
  BY <1>3, <1>5 DEF ReadStatus, Goes, Steps
<1>6. CASE ReadInventory
  <2>1. inventory' \in Inventories
    BY <1>4, <1>6, InventoryTyped DEF ReadInventory
  <2>2. QED
    BY <1>3, <1>6, <2>1 DEF ReadInventory, Goes, Steps
<1>7. CASE Capture
  <2>1. captured' \in CarriedState
    BY <1>7, CaptureTyped DEF Capture, Fails, run
  <2>2. \A p \in Path : Record(p) \in [path : Path, stamp : Nat]
    BY DEF Record
  <2>3. skipped' \subseteq [path : Path, stamp : Nat]
    <3>1. Unreadable(parent, inventory, {}) \subseteq Path
      BY DEF Unreadable, CarriedPaths, Inventories
    <3>2. {Record(p) : p \in Unreadable(parent, inventory, {})} \subseteq [path : Path, stamp : Nat]
      BY <2>2, <3>1
    <3>3. QED
      BY <1>7, <3>2 DEF Capture, Fails, run
  <2>4. QED
    BY <1>3, <1>7, <2>1, <2>3 DEF Capture, Fails, run, Goes, Steps
<1>8. CASE Create
  <2>1. child' \in Tree
    BY <1>8, TreeIs DEF Create, Tree, Object
  <2>2. QED
    BY <1>3, <1>8, <2>1 DEF Create, Goes, Steps
<1>9. CASE ApplyStaged
  <2>1. Staged(parent) \in SUBSET Path
    BY DEF Staged
  <2>2. child' \in Tree
    BY <1>9, <2>1, PatchesTyped DEF ApplyStaged, Fails, run
  <2>3. QED
    BY <1>3, <1>9, <2>2 DEF ApplyStaged, Fails, run, Goes, Steps
<1>10. CASE ApplyIntentToAdd
  <2>1. inventory.ita \in SUBSET Path
    BY DEF Inventories
  <2>2. child' \in Tree
    <3> DEFINE patch == Unstaged(parent) \cap inventory.ita
               After == [child EXCEPT
                  !.work = Patched(patch),
                  !.index = [p \in Path |-> IF p \in inventory.ita /\ @[p] = Absent
                                            THEN Ita ELSE @[p]]]
    <3>1. After \in Tree
      BY <2>1, PatchesTyped
    <3>2. child' \in {child, After}
      BY <1>10 DEF ApplyIntentToAdd, Fails, run
    <3> HIDE DEF After
    <3>3. QED
      BY <3>1, <3>2
  <2>3. QED
    BY <1>3, <1>10, <2>2 DEF ApplyIntentToAdd, Fails, run, Goes, Steps
<1>11. CASE ApplyUnstaged
  <2>1. child' \in Tree
    BY <1>11, PatchesTyped DEF ApplyUnstaged, Fails, run
  <2>2. ToCopy \subseteq Path
    BY DEF ToCopy, Inventories
  <2>3. QED
    BY <1>3, <1>11, <2>1, <2>2 DEF ApplyUnstaged, Fails, run, Goes, Steps
<1>12. ASSUME Parent, NEW p \in todo, CopyEntry(p)
       PROVE  TypeOK'
  <2>1. child' \in Tree /\ todo' \subseteq Path /\ skipped' \subseteq [path : Path, stamp : Nat]
    BY <1>12, CopyEntryTyped
  <2>2. UNCHANGED <<inventory, captured, recheck, agrees>> /\ pc' \in {pc, "failed"}
    BY <1>12, CopyEntryIs DEF run
  <2>3. QED
    BY <1>3, <1>12, <2>1, <2>2 DEF Steps
<1>13. CASE Copy
  BY <1>3, <1>12, <1>13 DEF Copy, Goes, run, Steps
<1>14. CASE CompareStatus
  BY <1>3, <1>14 DEF CompareStatus, Goes, Steps
<1>15. CASE CollectAgain
  <2>1. recheck' \in Inventories
    BY <1>4, <1>15, InventoryTyped DEF CollectAgain
  <2>2. QED
    BY <1>3, <1>15, <2>1 DEF CollectAgain, Goes, Steps
<1>16. CASE Recapture
  <2>1. agrees' \in BOOLEAN
    BY <1>16 DEF Recapture, Fails, run, Same
  <2>2. QED
    BY <1>3, <1>16, <2>1 DEF Recapture, Fails, run, Goes, Steps
<1>17. CASE ParentUntouched
  BY <1>3, <1>17 DEF ParentUntouched, Goes, run, Steps
<1>18. CASE ListIncludes
  <2>1. todo' \subseteq Path
    BY <1>18 DEF ListIncludes, Others
  <2>2. QED
    BY <1>3, <1>18, <2>1 DEF ListIncludes, Goes, Steps
<1>19. CASE CopyIncludes
  BY <1>3, <1>12, <1>19 DEF CopyIncludes, Goes, run, Steps
<1>20. CASE RefuseStrict \/ Hook \/ Finish
  BY <1>3, <1>20 DEF RefuseStrict, Hook, Finish, Goes, run, Steps
<1>21. QED
  BY <1>1, <1>2, <1>5, <1>6, <1>7, <1>8, <1>9, <1>10, <1>11, <1>13, <1>14, <1>15, <1>16, <1>17,
     <1>18, <1>19, <1>20 DEF Next

-----------------------------------------------------------------------------
\* The order of the steps, and which of them the flags leave out.
LEMMA ControlIs ==
    ASSUME TypeOK, [Next]_vars
    PROVE  /\ opts' = opts
           /\ \/ pc' \in {pc, "failed"}
              \/ pc = "status" /\ pc' = "inventory"
              \/ pc = "inventory" /\ pc' = "capture"
              \/ pc = "capture" /\ pc' = "create"
              \/ pc = "create" /\ pc' = "staged" /\ opts.withState
              \/ pc = "create" /\ pc' = "compare" /\ ~opts.withState /\ opts.verify
              \/ pc = "create" /\ pc' = "include" /\ ~opts.withState /\ ~opts.verify
              \/ pc = "staged" /\ pc' = "ita"
              \/ pc = "ita" /\ pc' = "unstaged"
              \/ pc = "unstaged" /\ pc' = "copy"
              \/ pc = "copy" /\ pc' = "compare" /\ opts.verify
              \/ pc = "copy" /\ pc' = "include" /\ ~opts.verify
              \/ pc = "compare" /\ pc' = "collect" /\ opts.withState
              \/ pc = "compare" /\ pc' = "untouched" /\ ~opts.withState
              \/ pc = "collect" /\ pc' = "recapture"
              \/ pc = "recapture" /\ pc' = "untouched"
              \/ pc = "untouched" /\ pc' = "include" /\ agrees
              \/ pc = "include" /\ pc' = "copyIncludes"
              \/ pc = "copyIncludes" /\ pc' = "strict"
              \/ pc = "strict" /\ pc' = "hook"
              \/ pc = "hook" /\ pc' = "finish"
              \/ pc = "finish" /\ pc' = "done" /\ \A r \in skipped : HeldStill(r)
<1>1. CASE UNCHANGED vars
  BY <1>1 DEF vars
<1>2. CASE Edit
  BY <1>2 DEF Edit
<1>3. opts.withState \in BOOLEAN /\ opts.verify \in BOOLEAN
  BY DEF TypeOK, Options
<1>4. ASSUME NEW p \in todo, CopyEntry(p)
      PROVE  pc' \in {pc, "failed"}
  BY <1>4, CopyEntryIs
<1>5. CASE Copy
  BY <1>3, <1>4, <1>5 DEF Copy, Parent, Goes
<1>6. CASE CopyIncludes
  BY <1>4, <1>6 DEF CopyIncludes, Parent, Goes
<1>7. CASE Create
  BY <1>3, <1>7 DEF Create, Parent, Goes
<1>8. CASE ReadStatus \/ ReadInventory \/ Capture
  BY <1>8 DEF ReadStatus, ReadInventory, Capture, Fails, Parent, Goes
<1>9. CASE ApplyStaged \/ ApplyIntentToAdd \/ ApplyUnstaged
  BY <1>9 DEF ApplyStaged, ApplyIntentToAdd, ApplyUnstaged, Fails, Parent, Goes
<1>10. CASE CompareStatus \/ CollectAgain \/ Recapture \/ ParentUntouched
  BY <1>3, <1>10 DEF CompareStatus, CollectAgain, Recapture, ParentUntouched, Fails, Parent, Goes
<1>11. CASE ListIncludes \/ RefuseStrict \/ Hook \/ Finish
  BY <1>11 DEF ListIncludes, RefuseStrict, Hook, Finish, Parent, Goes
<1>12. QED
  BY <1>1, <1>2, <1>5, <1>6, <1>7, <1>8, <1>9, <1>10, <1>11 DEF Next

\* The parent moves in edits alone, each thing that was read is read once.
LEMMA ReadOnce ==
    ASSUME TypeOK, [Next]_vars
    PROVE  /\ Edit \/ UNCHANGED <<parent, stamp, edits>>
           /\ ReadStatus \/ UNCHANGED before
           /\ CollectAgain \/ UNCHANGED recheck
           /\ ReadInventory \/ UNCHANGED inventory
           /\ Capture \/ UNCHANGED captured
           /\ CompareStatus \/ Recapture \/ UNCHANGED agrees
           /\ Capture \/ Copy \/ CopyIncludes \/ UNCHANGED skipped
           /\ \/ Create \/ ApplyStaged \/ ApplyIntentToAdd \/ ApplyUnstaged \/ Copy
              \/ CopyIncludes \/ UNCHANGED child
<1>1. CASE UNCHANGED vars
  BY <1>1 DEF vars, run
<1>2. CASE Edit
  BY <1>2, EditIs DEF TypeOK
<1>3. ASSUME NEW p \in todo, CopyEntry(p)
      PROVE  UNCHANGED <<before, inventory, captured, recheck, agrees>>
  BY <1>3, CopyEntryIs DEF run
<1>4. CASE Copy \/ CopyIncludes
  BY <1>3, <1>4 DEF Copy, CopyIncludes, Parent, run
<1>5. CASE ReadStatus \/ ReadInventory \/ Capture \/ Create
  BY <1>5 DEF ReadStatus, ReadInventory, Capture, Create, Fails, Parent, run
<1>6. CASE ApplyStaged \/ ApplyIntentToAdd \/ ApplyUnstaged
  BY <1>6 DEF ApplyStaged, ApplyIntentToAdd, ApplyUnstaged, Fails, Parent, run
<1>7. CASE CompareStatus \/ CollectAgain \/ Recapture \/ ParentUntouched
  BY <1>7 DEF CompareStatus, CollectAgain, Recapture, ParentUntouched, Fails, Parent, run
<1>8. CASE ListIncludes \/ RefuseStrict \/ Hook \/ Finish
  BY <1>8 DEF ListIncludes, RefuseStrict, Hook, Finish, Parent, run
<1>9. QED
  BY <1>1, <1>2, <1>4, <1>5, <1>6, <1>7, <1>8 DEF Next

\* The lists are told apart by what they are read from.
LEMMA ListsStep ==
    ASSUME TypeOK, ListsInv, [Next]_vars
    PROVE  ListsInv'
<1>1. opts' = opts
  BY ControlIs
<1>2. /\ pc' \in {"staged", "ita", "unstaged", "copy", "collect", "recapture"} => opts'.withState
      /\ pc' \in {"compare", "collect", "recapture"} => opts'.verify
  BY ControlIs DEF ListsInv
<1>3. CASE inventory' = inventory
  BY <1>1, <1>2, <1>3 DEF ListsInv, Listed
<1>4. CASE ReadInventory
  <2>1. inventory' = CollectInventory(parent, opts.withState, opts.withIgnored)
    BY <1>4 DEF ReadInventory
  <2>2. /\ inventory'.untracked \cap Ignored = {} /\ inventory'.ignored \subseteq Ignored
        /\ ~opts.withIgnored => inventory'.ignored = {}
        /\ ~opts.withState => Listed' = {}
    BY <2>1 DEF CollectInventory, NoInventory, Listed
  <2>3. inventory'.ita \cap Listed' = {}
    BY <2>1, ValuesAre DEF CollectInventory, NoInventory, Listed, IntentToAdd, Others
  <2>4. QED
    BY <1>1, <1>2, <2>2, <2>3 DEF ListsInv
<1>5. QED
  BY <1>3, <1>4, ReadOnce

\* A step of the fork is the one its program counter names.
LEMMA StepIs ==
    ASSUME TypeOK, [Next]_vars, pc' # pc
    PROVE  /\ ~Edit
           /\ pc = "status" => ReadStatus
           /\ pc = "inventory" => ReadInventory
           /\ pc = "capture" => Capture
           /\ pc = "create" => Create
           /\ pc = "staged" => ApplyStaged
           /\ pc = "ita" => ApplyIntentToAdd
           /\ pc = "unstaged" => ApplyUnstaged
           /\ pc = "copy" => Copy
           /\ pc = "collect" => CollectAgain
           /\ pc = "recapture" => Recapture
           /\ pc = "untouched" => ParentUntouched
           /\ pc = "include" => ListIncludes
           /\ pc = "copyIncludes" => CopyIncludes
           /\ pc = "strict" => RefuseStrict
           /\ pc = "finish" => Finish
           /\ pc \in {"status", "inventory", "create", "compare", "collect", "include", "hook"} =>
                 pc' # "failed"
           /\ pc # "failed" /\ pc # "done"
<1>1. ~Edit /\ vars' # vars
  BY DEF vars, Edit
<1>2. QED
  BY <1>1 DEF Next, ReadStatus, ReadInventory, Capture, Create, ApplyStaged, ApplyIntentToAdd,
              ApplyUnstaged, Copy, CompareStatus, CollectAgain, Recapture, ParentUntouched,
              ListIncludes, CopyIncludes, RefuseStrict, Hook, Finish, Goes

\* A copy loop takes one path of its list and does one of three things with it.
LeavesOut(p) ==
    /\ UNCHANGED <<pc, child>> /\ todo' = todo \ {p}
    /\ parent.work[p] \in {Locked, Nested} /\ inventory.deletions = {}
    /\ skipped' = skipped \cup {Record(p)} /\ Skipped' = Skipped \cup {p}

Takes(p) ==
    /\ UNCHANGED <<pc, skipped>> /\ todo' = todo \ {p}
    /\ parent.work[p] \in Content
    /\ child' = [child EXCEPT !.work[p] = parent.work[p]]

\* A turn of a copy loop ends it, meets an include that is there, or takes or leaves out one path.
LEMMA LoopIs ==
    ASSUME TypeOK, Copy \/ CopyIncludes, pc' # "failed"
    PROVE  /\ UNCHANGED <<parent, stamp, edits, opts, inventory, captured, agrees>>
           /\ \/ todo = {} /\ pc' # pc /\ UNCHANGED <<todo, child, skipped>>
              \/ /\ pc = "copyIncludes" /\ UNCHANGED <<pc, child, skipped>>
                 /\ todo' \subseteq todo
              \/ \E p \in todo :
                    /\ LeavesOut(p) \/ Takes(p)
                    /\ pc = "copyIncludes" => child.work[p] = Absent
<1>1. UNCHANGED <<parent, stamp, edits, opts>> /\ pc \in {"copy", "copyIncludes"}
  BY DEF Copy, CopyIncludes, Parent
<1>2. \A p \in todo : CopyEntry(p) => /\ LeavesOut(p) \/ Takes(p)
                                      /\ UNCHANGED <<inventory, captured, agrees>>
  BY CopyEntryIs DEF LeavesOut, Takes
<1>3. QED
  BY <1>1, <1>2 DEF Copy, CopyIncludes, Goes, run

\* Records are kept; new ones are of paths of the capture or of a copy loop.
LEMMA SkipsGrow ==
    ASSUME TypeOK, [Next]_vars, ~Capture
    PROVE  /\ skipped \subseteq skipped' /\ Skipped \subseteq Skipped'
           /\ \/ skipped' = skipped /\ Skipped' = Skipped
              \/ (Copy \/ CopyIncludes) /\ pc' # "failed"
<1>1. skipped' = skipped => Skipped' = Skipped
  BY DEF Skipped
<1>2. CASE skipped' = skipped
  BY <1>1, <1>2
<1>3. CASE skipped' # skipped
  <2>1. Copy \/ CopyIncludes
    BY <1>3, ReadOnce
  <2>2. pc' # "failed"
    BY <1>3, <2>1, CopyEntryIs DEF Copy, CopyIncludes, Goes, run
  <2>3. PICK p \in todo : skipped' = skipped \cup {Record(p)} /\ Skipped' = Skipped \cup {p}
    BY <1>3, <2>1, <2>2, LoopIs DEF LeavesOut, Takes
  <2>4. QED
    BY <2>1, <2>2, <2>3
<1>4. QED
  BY <1>2, <1>3

\* The capture skips untracked files it cannot read, and takes the rest.
LEMMA CaptureIs ==
    ASSUME TypeOK, Capture, pc' # "failed", Bracketed
    PROVE  LET left == Unreadable(parent, inventory, {})
           IN  /\ left = {p \in CarriedPaths(inventory) : p \notin parent.hidden /\ parent.work[p] = Locked}
               /\ left \subseteq Listed /\ left \subseteq Path
               /\ left # {} => inventory.deletions = {}
               /\ \A p \in left : parent.index[p] = Absent /\ parent.work[p] = Locked
               /\ CarriedPaths(inventory) \subseteq Path
               /\ captured'.paths = CarriedPaths(inventory) \ left
               /\ \A p \in captured'.paths : captured'.manifest[p] = parent.work[p]
               /\ \A p \in CarriedPaths(inventory) : captured'.index[p] = IndexRecord(parent, p)
               /\ skipped' = {Record(p) : p \in left} /\ Skipped' = left
               /\ UNCHANGED <<parent, stamp, opts, inventory, child, todo, agrees>>
<1> DEFINE left == Unreadable(parent, inventory, {})
<1>1. /\ ~CaptureRaises(parent, inventory, {})
      /\ captured' = CaptureState(parent, inventory, {})
      /\ skipped' = {Record(p) : p \in left}
      /\ UNCHANGED <<parent, stamp, opts, inventory, child, todo, agrees>>
  BY DEF Capture, Fails, Parent
<1>2. CarriedPaths(inventory) \subseteq Path
  BY DEF TypeOK, Inventories, CarriedPaths
<1>3. left = {p \in CarriedPaths(inventory) : p \notin parent.hidden /\ parent.work[p] = Locked}
  BY DEF Unreadable
<1>4. \A p \in left : p \in Listed /\ parent.index[p] = Absent /\ inventory.deletions = {}
  BY <1>1 DEF CaptureRaises, MaySkip, Listed
<1>5. /\ captured'.paths = CarriedPaths(inventory) \ left
      /\ \A p \in captured'.paths : captured'.manifest[p] = parent.work[p]
  BY <1>1, <1>2 DEF CaptureState
<1>6. \A p \in CarriedPaths(inventory) : captured'.index[p] = IndexRecord(parent, p)
  BY <1>1, <1>2 DEF CaptureState
<1>7. Skipped' = left
  <2>1. \A p \in left : Record(p).path = p
    BY DEF Record
  <2> HIDE DEF left
  <2>2. {r.path : r \in {Record(p) : p \in left}} = left
    BY <2>1
  <2>3. Skipped' = {r.path : r \in {Record(p) : p \in left}}
    BY <1>1 DEF Skipped
  <2>4. QED
    BY <2>2, <2>3
<1>8. QED
  BY <1>1, <1>2, <1>3, <1>4, <1>5, <1>6, <1>7

\* What the capture leaves out stays skipped.
LEMMA CaptureStep ==
    ASSUME TypeOK, CaptureInv, [Next]_vars
    PROVE  CaptureInv'
<1>1. opts' = opts /\ Bracketed' = Bracketed
  BY ControlIs DEF Bracketed
<1>2. CASE ~Bracketed
  <2>1. captured' = captured
    BY <1>2, ReadOnce DEF Capture, run
  <2>2. QED
    BY <1>1, <1>2, <2>1 DEF CaptureInv
<1>3. ASSUME Bracketed, pc' \notin {"status", "inventory", "capture", "failed"},
             NEW p \in Listed', p \notin captured'.paths
      PROVE  p \in Skipped' /\ captured'.index[p] = Absent
  <2>1. CASE Capture
    <3>1. p \in CarriedPaths(inventory)
      BY <1>3, <2>1, CaptureIs DEF Listed, CarriedPaths
    <3>2. QED
      BY <1>3, <2>1, <3>1, CaptureIs, ValuesAre DEF IndexRecord
  <2>2. CASE ~Capture
    <3>1. pc \notin {"status", "inventory", "capture", "failed"}
      <4>1. CASE pc' = pc
        BY <1>3, <4>1
      <4>2. CASE pc' # pc
        BY <1>3, <2>2, <4>2, ControlIs, StepIs
      <4>3. QED
        BY <4>1, <4>2
    <3>2. ~ReadInventory
      BY <3>1 DEF ReadInventory
    <3>3. Skipped \subseteq Skipped' /\ captured' = captured /\ inventory' = inventory
      BY <2>2, <3>2, SkipsGrow, ReadOnce
    <3>4. QED
      BY <1>3, <3>1, <3>3 DEF CaptureInv, Listed
  <2>3. QED
    BY <2>1, <2>2
<1>4. QED
  BY <1>1, <1>2, <1>3 DEF CaptureInv

\* The copy loops go over what the lists have and no skip has taken.
LEMMA TodoStep ==
    ASSUME TypeOK, TodoInv, [Next]_vars
    PROVE  TodoInv'
<1>1. opts' = opts
  BY ControlIs
<1>2. CASE Copy \/ CopyIncludes
  <2>1. pc \in {"copy", "copyIncludes"} /\ ~Capture /\ ~ReadInventory
    BY <1>2 DEF Copy, CopyIncludes, Capture, ReadInventory
  <2>2. inventory' = inventory
    BY <2>1, ReadOnce
  <2>3. CASE pc' = pc
    <3>1. todo' \subseteq todo /\ todo' \cap Skipped' \subseteq todo \cap Skipped
      <4>1. CASE UNCHANGED <<todo, skipped>> \/ (todo' \subseteq todo /\ UNCHANGED skipped)
        BY <4>1 DEF Skipped
      <4>2. CASE \E p \in todo : todo' = todo \ {p} /\ Skipped' = Skipped \cup {p}
        BY <4>2
      <4>3. CASE \E p \in todo : todo' = todo \ {p} /\ UNCHANGED skipped
        BY <4>3 DEF Skipped
      <4>4. QED
        BY <1>2, <2>1, <2>3, <4>1, <4>2, <4>3, LoopIs DEF LeavesOut, Takes
    <3>2. QED
      BY <1>1, <2>1, <2>2, <2>3, <3>1 DEF TodoInv, Listed
  <2>4. CASE pc' # pc
    BY <2>1, <2>4, ControlIs DEF TodoInv
  <2>5. QED
    BY <2>3, <2>4
<1>3. CASE ApplyUnstaged /\ pc' = "copy"
  <2>1. todo' = ToCopy /\ UNCHANGED <<inventory, skipped>>
    BY <1>3 DEF ApplyUnstaged, Fails
  <2>2. QED
    BY <1>3, <2>1 DEF TodoInv, ToCopy, Listed, Skipped
<1>4. CASE ListIncludes
  <2>1. todo' \subseteq (Ignored \cap opts.included) \ Skipped /\ skipped' = skipped
    BY <1>4 DEF ListIncludes
  <2>2. QED
    BY <1>1, <1>4, <2>1 DEF TodoInv, Skipped, ListIncludes, Goes
<1>5. CASE pc' = pc /\ ~Copy /\ ~CopyIncludes /\ pc \in {"copy", "copyIncludes"}
  <2>1. UNCHANGED <<todo, skipped, inventory>>
    <3>1. CASE UNCHANGED vars
      BY <3>1 DEF vars, run
    <3>2. CASE Edit
      BY <3>2, EditIs DEF TypeOK
    <3>3. CASE ~Edit /\ ~UNCHANGED vars
      BY <1>5, <3>3 DEF Next, ReadStatus, ReadInventory, Capture, Create, ApplyStaged,
         ApplyIntentToAdd, ApplyUnstaged, CompareStatus, CollectAgain, Recapture, ParentUntouched,
         ListIncludes, RefuseStrict, Hook, Finish
    <3>4. QED
      BY <3>1, <3>2, <3>3
  <2>2. QED
    BY <1>1, <1>5, <2>1 DEF TodoInv, Listed, Skipped
<1>6. CASE pc' \notin {"copy", "copyIncludes"}
  BY <1>6 DEF TodoInv
<1>7. QED
  BY <1>2, <1>3, <1>4, <1>5, <1>6, ControlIs, StepIs

\* Only what is listed is skipped before the includes; a record matches only
\* while the entry is as it was when it could not be copied.
LEMMA SkipsStep ==
    ASSUME TypeOK, TodoInv, SkipsInv, [Next]_vars
    PROVE  SkipsInv'
<1> DEFINE Sound(r) == /\ r.stamp <= stamp[r.path]
                       /\ r.stamp = stamp[r.path] => parent.work[r.path] \in {Locked, Nested}
<1>1. stamp \in [Path -> Nat] /\ skipped \subseteq [path : Path, stamp : Nat] /\ todo \subseteq Path
  BY DEF TypeOK
<1>2. \A p \in Path : parent.work[p] \in {Locked, Nested} => Sound(Record(p))
  BY <1>1 DEF Record
<1>3. \A r \in skipped : Sound(r)
  BY DEF SkipsInv
<1>4. CASE Edit
  <2>1. UNCHANGED <<opts, pc, inventory, skipped>> /\ pc # "done"
    BY <1>4, EditIs DEF TypeOK
  <2>2. \A p \in Path : /\ stamp[p] <= stamp'[p] /\ stamp'[p] \in Nat
                        /\ parent'.work[p] = parent.work[p] \/ stamp[p] < stamp'[p]
    BY <1>4, EditIs DEF TypeOK
  <2>3. ASSUME NEW r \in skipped
        PROVE  Sound(r)'
    <3>1. r.path \in Path /\ r.stamp \in Nat /\ stamp[r.path] \in Nat
      BY <1>1
    <3>2. r.stamp <= stamp'[r.path]
      BY <1>3, <2>2, <3>1
    <3>3. r.stamp = stamp'[r.path] => stamp[r.path] = r.stamp /\ ~(stamp[r.path] < stamp'[r.path])
      BY <1>3, <2>2, <3>1
    <3>4. QED
      BY <1>3, <2>2, <3>1, <3>2, <3>3
  <2>4. QED
    BY <2>1, <2>3 DEF SkipsInv, Skipped, Listed
<1>5. CASE ~Edit
  <2>1. UNCHANGED <<parent, stamp>>
    BY <1>5, ReadOnce
  <2>2. \A r \in skipped' : r \in skipped \/ \E p \in Path : r = Record(p) /\ parent.work[p] \in {Locked, Nested}
    <3>1. CASE Capture /\ skipped' # skipped
      <4>1. Bracketed /\ pc' # "failed"
        BY <3>1 DEF Capture, Fails, run, Goes
      <4>2. QED
        BY <3>1, <4>1, CaptureIs
    <3>2. CASE (Copy \/ CopyIncludes) /\ pc' # "failed"
      BY <1>1, <3>2, LoopIs DEF LeavesOut, Takes
    <3>3. QED
      BY <3>1, <3>2, SkipsGrow
  <2>3. \A r \in skipped' : Sound(r)'
    BY <1>2, <1>3, <2>1, <2>2
  <2>4. pc' \in {"status", "inventory", "capture"} => skipped' = {}
    <3>1. CASE pc' \in {"status", "inventory", "capture"}
      <4>1. pc \in {"status", "inventory", "capture"} /\ ~Copy /\ ~CopyIncludes
        BY <3>1, ControlIs DEF Copy, CopyIncludes
      <4>2. CASE Capture
        BY <1>1, <3>1, <4>2 DEF Capture, Fails, Goes
      <4>3. QED
        BY <4>1, <4>2, SkipsGrow DEF SkipsInv
    <3>2. QED
      BY <3>1
  <2>5. pc' = "done" => \A r \in skipped' : r.stamp = stamp'[r.path]
    <3>1. CASE pc = "done" /\ pc' = "done"
      <4>1. ~Capture /\ ~Copy /\ ~CopyIncludes
        BY <3>1 DEF Capture, Copy, CopyIncludes
      <4>2. QED
        BY <2>1, <3>1, <4>1, SkipsGrow DEF SkipsInv
    <3>2. CASE pc # "done" /\ pc' = "done"
      <4>1. Finish
        BY <3>2, ControlIs, StepIs
      <4>2. QED
        BY <2>1, <3>2, <4>1, ControlIs DEF Finish, run, HeldStill
    <3>3. QED
      BY <3>1, <3>2
  <2>6. pc' \notin Including \cup {"failed"} => Skipped' \subseteq Listed'
    <3>1. CASE pc' \notin Including \cup {"failed"}
      <4>1. pc \notin Including \cup {"failed"}
        BY <3>1, <1>5, ControlIs, StepIs DEF Including, Trusted, Verified
      <4>2. CASE ReadInventory
        <5>1. pc' = "capture"
          BY <4>2 DEF ReadInventory, Goes
        <5>2. QED
          BY <2>4, <5>1 DEF Skipped
      <4>3. CASE Capture
        <5>1. pc' # "failed"
          BY <3>1
        <5>2. CASE Bracketed
          BY <4>3, <5>1, <5>2, CaptureIs DEF Listed
        <5>3. CASE ~Bracketed
          BY <4>1, <4>3, <5>3 DEF Capture, run, SkipsInv, Skipped, Listed
        <5>4. QED
          BY <5>2, <5>3
      <4>4. CASE ~ReadInventory /\ ~Capture
        <5>1. inventory' = inventory /\ Skipped \subseteq Listed
          BY <4>1, <4>4, ReadOnce DEF SkipsInv
        <5>2. CASE Skipped' = Skipped
          BY <5>1, <5>2 DEF Listed
        <5>3. CASE (Copy \/ CopyIncludes) /\ pc' # "failed" /\ Skipped' # Skipped
          <6>1. pc = "copy"
            BY <4>1, <5>3 DEF Copy, CopyIncludes, Including, Trusted, Verified
          <6>2. PICK p \in todo : Skipped' = Skipped \cup {p}
            BY <5>3, <6>1, LoopIs DEF LeavesOut, Takes, Skipped
          <6>3. QED
            BY <5>1, <6>1, <6>2 DEF TodoInv, Listed
        <5>4. QED
          BY <4>4, <5>2, <5>3, SkipsGrow
      <4>5. QED
        BY <4>2, <4>3, <4>4
    <3>2. QED
      BY <3>1
  <2>7. skipped' # {} => inventory'.deletions = {}
    <3>1. CASE ReadInventory
      <4>1. pc' = "capture"
        BY <3>1 DEF ReadInventory, Goes
      <4>2. QED
        BY <2>4, <4>1
    <3>2. CASE Capture /\ skipped' # skipped
      <4>1. Bracketed /\ pc' # "failed"
        BY <3>2 DEF Capture, Fails, run, Goes
      <4>2. QED
        BY <3>2, <4>1, CaptureIs
    <3>3. CASE (Copy \/ CopyIncludes) /\ pc' # "failed" /\ skipped' # skipped
      BY <3>3, LoopIs DEF LeavesOut, Takes
    <3>4. CASE ~ReadInventory /\ skipped' = skipped
      BY <3>4, ReadOnce DEF SkipsInv
    <3>5. QED
      BY <3>1, <3>2, <3>3, <3>4, SkipsGrow
  <2>8. QED
    BY <2>3, <2>4, <2>5, <2>6, <2>7 DEF SkipsInv
<1>6. QED
  BY <1>4, <1>5

\* A file in the child, once there, is replaced by files only.
LEMMA CopiesStep ==
    ASSUME TypeOK, ListsInv, CopiesInv, [Next]_vars
    PROVE  CopiesInv'
<1>1. child \in Tree /\ todo \subseteq Path /\ Listed \subseteq Path
  BY DEF TypeOK, Listed, Inventories
<1>2. CASE pc \in Copied \cup {"copy"} /\ pc' \in Copied \cup {"copy"}
  <2>1. ~Capture /\ ~ReadInventory /\ ~Create /\ ~ApplyStaged /\ ~ApplyIntentToAdd /\ ~ApplyUnstaged
    BY <1>2 DEF Copied, Verified, Capture, ReadInventory, Create, ApplyStaged, ApplyIntentToAdd,
                ApplyUnstaged
  <2>2. inventory' = inventory /\ Listed' = Listed /\ Skipped \subseteq Skipped'
    BY <2>1, ReadOnce, SkipsGrow DEF Listed
  <2>3. CASE Copy \/ CopyIncludes
    <3>1. pc' # "failed"
      BY <1>2 DEF Copied, Verified
    <3>2. ASSUME NEW q \in todo, Takes(q)
          PROVE  \A p \in Path : child.work[p] # Absent \/ p = q => child'.work[p] # Absent
      <4>1. child'.work = [child.work EXCEPT ![q] = parent.work[q]]
        BY <1>1, <3>2 DEF Takes, Tree
      <4>2. parent.work[q] # Absent
        BY <3>2, ValuesAre DEF Takes
      <4>3. QED
        BY <1>1, <4>1, <4>2, TreeIs
    <3>3. \A p \in Path : child.work[p] # Absent => child'.work[p] # Absent
      BY <2>3, <3>1, <3>2, LoopIs DEF LeavesOut
    <3>4. CASE pc \in Copied
      <4>1. pc' \in Copied
        BY <2>3, <3>4, <1>2, ControlIs DEF Copied, Verified, Copy, CopyIncludes
      <4>2. QED
        BY <1>1, <2>2, <3>3, <3>4, <4>1 DEF CopiesInv, Copied, Verified
    <3>5. CASE pc = "copy" /\ pc' = "copy"
      <4>1. PICK q \in todo : todo' = todo \ {q} /\ (Takes(q) \/ q \in Skipped')
        BY <2>3, <3>1, <3>5, LoopIs DEF LeavesOut, Takes
      <4>2. ASSUME NEW p \in Listed
            PROVE  p \in todo' \/ child'.work[p] # Absent \/ p \in Skipped'
        <5>1. CASE p = q
          BY <1>1, <3>2, <4>1, <5>1
        <5>2. CASE p # q
          BY <1>1, <2>2, <3>3, <3>5, <4>1, <5>2 DEF CopiesInv
        <5>3. QED
          BY <5>1, <5>2
      <4>3. QED
        BY <2>2, <3>5, <4>2 DEF CopiesInv, Copied, Verified
    <3>6. CASE pc = "copy" /\ pc' # "copy"
      <4>1. todo = {} /\ child' = child
        BY <2>3, <3>1, <3>6, LoopIs DEF LeavesOut, Takes
      <4>2. QED
        BY <2>2, <3>6, <4>1 DEF CopiesInv
    <3>7. QED
      BY <1>2, <3>4, <3>5, <3>6
  <2>4. CASE ~Copy /\ ~CopyIncludes
    <3>1. child' = child
      BY <2>1, <2>4, ReadOnce
    <3>2. CASE pc = "copy"
      <4>1. pc' = "copy" /\ todo' = todo
        <5>1. pc' = "copy"
          BY <2>4, <3>2, StepIs
        <5>2. CASE UNCHANGED vars
          BY <5>1, <5>2 DEF vars, run
        <5>3. CASE Edit
          BY <5>1, <5>3, EditIs DEF TypeOK
        <5>4. CASE ListIncludes
          BY <5>1, <3>2, <5>4 DEF ListIncludes
        <5>5. QED
          BY <2>1, <2>4, <3>2, <5>1, <5>2, <5>3, <5>4 DEF Next, ReadStatus, CompareStatus,
             CollectAgain, Recapture, ParentUntouched, RefuseStrict, Hook, Finish
      <4>2. QED
        BY <2>2, <3>1, <3>2, <4>1 DEF CopiesInv, Copied, Verified
    <3>3. CASE pc # "copy"
      <4>1. pc' # "copy"
        BY <1>2, <3>3, ControlIs DEF Copied, Verified
      <4>2. QED
        BY <1>2, <2>2, <3>1, <3>3, <4>1 DEF CopiesInv
    <3>4. QED
      BY <3>2, <3>3
  <2>5. QED
    BY <2>3, <2>4
<1>3. CASE pc = "unstaged" /\ pc' = "copy"
  <2>1. todo' = Listed \ Skipped /\ UNCHANGED <<inventory, skipped>>
    BY <1>3, StepIs DEF ApplyUnstaged, Fails, ToCopy, Listed
  <2>2. QED
    BY <1>3, <2>1 DEF CopiesInv, Copied, Verified, Listed, Skipped
<1>4. CASE pc = "create" /\ pc' \in {"compare", "include"}
  <2>1. ~opts.withState /\ Create
    BY <1>4, ControlIs, StepIs
  <2>2. Listed' = {}
    BY <2>1 DEF Create, ListsInv, Listed
  <2>3. QED
    BY <1>4, <2>2 DEF CopiesInv
<1>5. CASE pc' \notin Copied \cup {"copy"}
  BY <1>5 DEF CopiesInv
<1>6. QED
  BY <1>2, <1>3, <1>4, <1>5, ControlIs DEF Copied, Verified

\* Whatever comes into the child is content, and without state nothing does.
LEMMA ChildStep ==
    ASSUME TypeOK, ListsInv, ChildInv, [Next]_vars
    PROVE  ChildInv'
<1>1. /\ child \in Tree /\ parent \in Tree /\ todo \subseteq Path
      /\ parent.work \in [Path -> Object] /\ parent.head \in [Path -> Content \cup {Absent}]
      /\ child.work \in [Path -> Object]
  BY TreeIs DEF TypeOK
<1>2. child.hidden = {} /\ \A p \in Path : child.work[p] # Locked
  BY DEF ChildInv
<1>3. child'.hidden = {} /\ \A p \in Path : child'.work[p] # Locked
  <2>1. CASE Create
    BY <1>1, <2>1, ValuesAre DEF Create
  <2>2. CASE ApplyStaged
    <3>1. \A p \in Path : Visible(parent, p) # Locked
      BY <1>1, ValuesAre, TreeIs DEF Visible
    <3>2. child' = child \/ /\ child'.hidden = child.hidden
                            /\ child'.work = [p \in Path |-> IF p \in Staged(parent)
                                                             THEN Visible(parent, p) ELSE child.work[p]]
      BY <1>1, <2>2 DEF ApplyStaged, Fails, run, Tree
    <3>3. QED
      BY <1>2, <3>1, <3>2
  <2>3. ASSUME NEW patch, Fits(patch)
        PROVE  \A p \in Path : Patched(patch)[p] # Locked
    BY <1>2, <2>3 DEF Fits, Patched
  <2>4. CASE ApplyIntentToAdd
    <3> DEFINE patch == Unstaged(parent) \cap inventory.ita
    <3>1. \/ child' = child
          \/ child'.hidden = child.hidden /\ child'.work = Patched(patch) /\ Fits(patch)
      BY <1>1, <2>4 DEF ApplyIntentToAdd, Fails, run, Tree
    <3> HIDE DEF patch
    <3>2. QED
      BY <1>2, <2>3, <3>1
  <2>5. CASE ApplyUnstaged
    <3> DEFINE patch == Unstaged(parent) \ inventory.ita
    <3>1. \/ child' = child
          \/ child'.hidden = child.hidden /\ child'.work = Patched(patch) /\ Fits(patch)
      BY <1>1, <2>5 DEF ApplyUnstaged, Fails, run, Tree
    <3> HIDE DEF patch
    <3>2. QED
      BY <1>2, <2>3, <3>1
  <2>6. CASE (Copy \/ CopyIncludes) /\ pc' # "failed"
    <3>1. ASSUME NEW q \in todo, Takes(q)
          PROVE  child'.hidden = {} /\ \A p \in Path : child'.work[p] # Locked
      <4>1. child'.work = [child.work EXCEPT ![q] = parent.work[q]] /\ child'.hidden = child.hidden
        BY <1>1, <3>1 DEF Takes, Tree
      <4>2. parent.work[q] # Locked
        BY <3>1, ValuesAre DEF Takes
      <4>3. QED
        BY <1>1, <1>2, <4>1, <4>2
    <3>2. QED
      BY <1>2, <2>6, <3>1, LoopIs DEF LeavesOut
  <2>7. CASE (Copy \/ CopyIncludes) /\ pc' = "failed"
    <3>1. child' = child
      BY <2>7, CopyEntryIs DEF Copy, CopyIncludes, Goes, run
    <3>2. QED
      BY <1>2, <3>1
  <2>8. QED
    BY <1>2, <2>1, <2>2, <2>4, <2>5, <2>6, <2>7, ReadOnce
<1>4. ASSUME ~opts'.withState, pc' \in {"compare", "untouched", "include"}
      PROVE  \A p \in Path : child'.index[p] = child'.head[p] /\ child'.work[p] = child'.head[p]
  <2>1. ~opts.withState
    BY <1>4, ControlIs
  <2>2. CASE pc = "create"
    <3>1. Create
      BY <1>4, <2>2, StepIs
    <3>2. QED
      BY <1>1, <3>1 DEF Create
  <2>3. CASE pc # "create"
    <3>1. pc \in {"compare", "untouched", "include"}
      BY <1>4, <2>1, <2>3, ControlIs DEF ListsInv
    <3>2. child' = child
      BY <3>1, ReadOnce DEF Create, ApplyStaged, ApplyIntentToAdd, ApplyUnstaged, Copy, CopyIncludes
    <3>3. QED
      BY <2>1, <3>1, <3>2 DEF ChildInv
  <2>4. QED
    BY <2>2, <2>3
<1>5. QED
  BY <1>3, <1>4 DEF ChildInv

\* A record that matches now has matched ever since it was made.
LEMMA StillBefore ==
    ASSUME TypeOK, SkipsInv, [Next]_vars, ~Capture, NEW p \in Path, Still(p)'
    PROVE  /\ Still(p)
           /\ p \in Skipped => stamp'[p] = stamp[p]
<1>1. /\ stamp \in [Path -> Nat] /\ skipped \subseteq [path : Path, stamp : Nat]
      /\ skipped \subseteq skipped'
  BY SkipsGrow DEF TypeOK
<1>2. \A r \in skipped : r.path = p => r.stamp = stamp'[p] /\ r.stamp <= stamp[p]
  BY <1>1 DEF Still, SkipsInv
<1>3. stamp[p] \in Nat /\ stamp'[p] \in Nat /\ stamp[p] <= stamp'[p]
  BY <1>1, EditIs, ReadOnce DEF TypeOK
<1>4. \A r \in skipped : r.path = p => r.stamp \in Nat
  BY <1>1
<1>5. \A r \in skipped : r.path = p => r.stamp = stamp[p] /\ stamp'[p] = stamp[p]
  BY <1>2, <1>3, <1>4
<1>6. QED
  BY <1>5 DEF Still, Skipped

\* No patch but a deletion reaches what the capture could not read.
LEMMA LeftStep ==
    ASSUME TypeOK, ListsInv, CaptureInv, TodoInv, SkipsInv, LeftInv, [Next]_vars
    PROVE  LeftInv'
<1> SUFFICES ASSUME Bracketed', pc' \notin Including \cup {"failed"}, NEW p \in Skipped',
                    p \notin captured'.paths, Still(p)'
             PROVE  /\ parent'.work[p] = Locked /\ parent'.index[p] = Absent
                    /\ pc' \in Filled =>
                         \/ child'.index[p] = Absent /\ child'.work[p] = Absent
                         \/ child'.index[p] = child'.head[p] /\ child'.work[p] = child'.head[p]
  BY DEF LeftInv
<1>1. Bracketed /\ pc \notin Including \cup {"failed"}
  <2>1. CASE pc' = pc
    BY <2>1, ControlIs DEF Bracketed
  <2>2. CASE pc' # pc
    BY <2>2, ControlIs DEF Bracketed, Including, Trusted, Verified
  <2>3. QED
    BY <2>1, <2>2
<1>2. CASE Capture
  BY <1>1, <1>2, CaptureIs DEF Filled, Copied, Verified, Including, Trusted, Capture, Goes, Fails
<1>3. CASE ~Capture
  <2>1. captured' = captured /\ pc # "capture"
    <3>1. pc # "capture"
      <4>1. CASE pc = "capture"
        BY <1>3, <4>1, SkipsGrow, StepIs DEF SkipsInv, Skipped, Copy, CopyIncludes
      <4>2. QED
        BY <4>1
    <3>2. QED
      BY <1>3, <3>1, ReadOnce
  <2>2. p \in Skipped
    <3>1. CASE Copy \/ CopyIncludes
      <4>1. pc = "copy"
        BY <1>1, <3>1 DEF Copy, CopyIncludes, Including, Trusted, Verified
      <4>2. \A q \in todo : q \in captured.paths
        BY <1>1, <4>1 DEF TodoInv, CaptureInv
      <4>3. QED
        BY <1>1, <2>1, <3>1, <4>1, <4>2, LoopIs DEF LeavesOut, Takes, Skipped
    <3>2. QED
      BY <1>3, <3>1, SkipsGrow
  <2>3. p \in Path /\ p \in Listed
    BY <1>1, <2>2 DEF TypeOK, Skipped, SkipsInv
  <2>4. Still(p) /\ stamp'[p] = stamp[p]
    BY <1>3, <2>2, <2>3, StillBefore
  <2>5. /\ parent.work[p] = Locked /\ parent.index[p] = Absent
        /\ pc \in Filled => \/ child.index[p] = Absent /\ child.work[p] = Absent
                            \/ child.index[p] = child.head[p] /\ child.work[p] = child.head[p]
    BY <1>1, <2>1, <2>2, <2>4 DEF LeftInv
  <2>6. parent'.work[p] = Locked /\ parent'.index[p] = Absent
    <3>1. CASE Edit
      <4>1. ~(stamp[p] < stamp'[p]) /\ Locked \notin Content
        BY <2>3, <2>4, ValuesAre DEF TypeOK
      <4>2. QED
        BY <2>3, <2>5, <3>1, <4>1, EditIs DEF TypeOK
    <3>2. QED
      BY <2>5, <3>1, ReadOnce
  <2>7. child \in Tree /\ p \notin Unstaged(parent) /\ Visible(parent, p) = Absent /\ p \notin inventory.ita
    BY <2>3, <2>5, ValuesAre DEF TypeOK, Unstaged, Visible, ListsInv
  <2> DEFINE Sound == \/ child'.index[p] = Absent /\ child'.work[p] = Absent
                      \/ child'.index[p] = child'.head[p] /\ child'.work[p] = child'.head[p]
  <2>8. pc' \in Filled => Sound
    <3>1. CASE Create
      BY <2>3, <3>1 DEF Create
    <3>2. CASE ApplyStaged
      <4>1. pc \in Filled /\ pc' # "failed"
        BY <3>2 DEF ApplyStaged, Filled
      <4>2. /\ child'.head = child.head
            /\ child'.index[p] = IF p \in Staged(parent) THEN Absent ELSE child.index[p]
            /\ child'.work[p] = IF p \in Staged(parent) THEN Absent ELSE child.work[p]
        <5> DEFINE S == Staged(parent)
                   After == [child EXCEPT
                      !.index = [x \in Path |-> IF x \in S THEN Visible(parent, x) ELSE @[x]],
                      !.work = [x \in Path |-> IF x \in S THEN Visible(parent, x) ELSE @[x]]]
        <5>1. child' = After
          BY <3>2, <4>1 DEF ApplyStaged, Fails
        <5> HIDE DEF S
        <5>2. /\ After.head = child.head
              /\ After.index = [x \in Path |-> IF x \in S THEN Visible(parent, x) ELSE child.index[x]]
              /\ After.work = [x \in Path |-> IF x \in S THEN Visible(parent, x) ELSE child.work[x]]
          BY <2>7 DEF Tree
        <5>3. QED
          BY <2>3, <2>7, <5>1, <5>2 DEF S
      <4>3. QED
        BY <2>5, <4>1, <4>2
    <3>3. CASE ApplyIntentToAdd
      <4>1. pc \in Filled /\ pc' # "failed"
        BY <3>3 DEF ApplyIntentToAdd, Filled
      <4>2. UNCHANGED <<child.head, child.index[p], child.work[p]>>
        <5> DEFINE S == Unstaged(parent) \cap inventory.ita
                   I == inventory.ita
                   After == [child EXCEPT
                      !.work = Patched(S),
                      !.index = [x \in Path |-> IF x \in I /\ @[x] = Absent THEN Ita ELSE @[x]]]
        <5>1. child' = After
          BY <3>3, <4>1 DEF ApplyIntentToAdd, Fails
        <5>2. p \notin S /\ p \notin I
          BY <2>7
        <5> HIDE DEF S, I
        <5>3. /\ After.head = child.head /\ After.work = Patched(S)
              /\ After.index = [x \in Path |-> IF x \in I /\ child.index[x] = Absent
                                               THEN Ita ELSE child.index[x]]
          BY <2>7 DEF Tree
        <5>4. QED
          BY <2>3, <5>1, <5>2, <5>3 DEF Patched
      <4>3. QED
        BY <2>5, <4>1, <4>2
    <3>4. CASE ApplyUnstaged
      <4>1. pc \in Filled /\ pc' # "failed"
        BY <3>4 DEF ApplyUnstaged, Filled
      <4>2. UNCHANGED <<child.head, child.index[p], child.work[p]>>
        BY <2>3, <2>7, <3>4, <4>1 DEF ApplyUnstaged, Fails, Tree, Patched
      <4>3. QED
        BY <2>5, <4>1, <4>2
    <3>5. CASE Copy \/ CopyIncludes
      <4>1. pc = "copy" /\ pc \in Filled
        BY <1>1, <3>5 DEF Copy, CopyIncludes, Including, Trusted, Verified, Filled
      <4>2. ASSUME NEW q \in todo, Takes(q)
            PROVE  UNCHANGED <<child.head, child.index[p], child.work[p]>>
        <5>1. q # p
          BY <2>2, <4>1 DEF TodoInv
        <5>2. QED
          BY <2>3, <2>7, <4>2, <5>1 DEF Takes, Tree
      <4>3. UNCHANGED <<child.head, child.index[p], child.work[p]>>
        BY <3>5, <4>2, LoopIs DEF LeavesOut
      <4>4. QED
        BY <2>5, <4>1, <4>3
    <3>6. CASE child' = child /\ ~Create
      <4>1. pc' \in Filled => pc \in Filled
        BY <3>6, ControlIs, StepIs DEF Filled, Copied, Verified, Including, Trusted
      <4>2. QED
        BY <2>5, <3>6, <4>1
    <3>7. QED
      BY <3>1, <3>2, <3>3, <3>4, <3>5, <3>6, ReadOnce
  <2>9. QED
    BY <2>6, <2>8
<1>4. QED
  BY <1>2, <1>3

\* A child that shows what was captured is exact: what its own inventory does
\* not list is as in the commit, or is an ignored file nobody asked about.
LEMMA RecaptureIsExact ==
    ASSUME TypeOK, ListsInv, CaptureInv, SkipsInv, ChildInv, LeftInv,
           pc = "recapture", NEW p \in Path, Still(p),
           Same(captured, CaptureState(child,
                    CollectInventory(child, opts.withState, opts.withIgnored), Skipped))
    PROVE  Exact(p)
<1> DEFINE inv == CollectInventory(child, opts.withState, opts.withIgnored)
           C == CarriedPaths(inv)
<1>1. opts.withState /\ Bracketed /\ pc \notin Including \cup {"failed"} /\ pc \in Filled
  BY DEF ListsInv, Bracketed, Including, Trusted, Verified, Filled, Copied
<1>2. /\ inv.staged = Staged(child) /\ inv.unstaged = Unstaged(child)
      /\ inv.ita = IntentToAdd(child) /\ inv.untracked = Others(child) \ Ignored
      /\ inv.ignored = IF opts.withIgnored THEN Others(child) \cap Ignored ELSE {}
  BY <1>1 DEF CollectInventory
<1>3. C \subseteq Path
  BY <1>2 DEF CarriedPaths, Staged, Unstaged, IntentToAdd, Others
<1>4. Unreadable(child, inv, Skipped) = {}
  BY <1>3 DEF Unreadable, ChildInv
<1>5. /\ captured.paths = C \ Skipped
      /\ captured.index[p] = IF p \in C THEN IndexRecord(child, p) ELSE Absent
      /\ captured.manifest[p] = IF p \in C \ Skipped THEN child.work[p] ELSE Absent
  BY <1>4 DEF CaptureState, Same
<1> HIDE DEF inv
<1>6. CASE p \in Skipped
  <2>1. p \notin captured.paths
    BY <1>5, <1>6
  <2>2. \/ child.index[p] = Absent /\ child.work[p] = Absent
        \/ child.index[p] = child.head[p] /\ child.work[p] = child.head[p]
    BY <1>1, <1>6, <2>1 DEF LeftInv
  <2>3. p \in Listed
    BY <1>1, <1>6 DEF SkipsInv
  <2>4. QED
    BY <2>1, <2>2, <2>3 DEF Exact, EntryOf, IndexOf, WorkOf, IndexRecord
<1>7. CASE p \in C \ Skipped
  BY <1>5, <1>7 DEF Exact, EntryOf, IndexOf, WorkOf, IndexRecord
<1>8. CASE p \notin C /\ p \notin Skipped
  <2>1. p \notin captured.paths
    BY <1>5, <1>8
  <2>2. p \notin Staged(child) /\ p \notin Unstaged(child) /\ p \notin IntentToAdd(child)
    BY <1>2, <1>8 DEF CarriedPaths
  <2>3. child.index[p] = child.head[p]
    BY <2>2 DEF Staged, IntentToAdd, Visible
  <2>4. CASE child.index[p] # Absent
    BY <2>1, <2>2, <2>3, <2>4 DEF Unstaged, Exact, EntryOf, IndexOf, WorkOf, IndexRecord
  <2>5. CASE child.index[p] = Absent /\ child.work[p] = Absent
    BY <2>1, <2>3, <2>5 DEF Exact, EntryOf, IndexOf, WorkOf, IndexRecord
  <2>6. CASE child.index[p] = Absent /\ child.work[p] # Absent
    <3>1. p \in Ignored /\ ~opts.withIgnored
      BY <1>2, <1>8, <2>6 DEF CarriedPaths, Others
    <3>2. QED
      BY <1>1, <1>8, <2>1, <2>3, <2>6, <3>1 DEF Exact, EntryOf, IndexOf, WorkOf, IndexRecord
  <2>7. QED
    BY <2>4, <2>5, <2>6
<1>9. QED
  BY <1>6, <1>7, <1>8

\* Nothing after the comparison undoes it: an include comes where nothing is.
LEMMA ExactStep ==
    ASSUME TypeOK, ListsInv, CaptureInv, TodoInv, SkipsInv, ChildInv, LeftInv, ExactInv, [Next]_vars
    PROVE  ExactInv'
<1>1. pc' \in Trusted /\ opts'.verify => agrees'
  <2>1. CASE pc' \in Trusted /\ opts'.verify
    <3>1. opts.verify /\ pc \in Verified /\ (pc = "untouched" => agrees)
      BY <2>1, ControlIs DEF Trusted, Verified
    <3>2. agrees' = agrees
      BY <3>1, ReadOnce DEF Verified, CompareStatus, Recapture
    <3>3. QED
      BY <3>1, <3>2 DEF ExactInv, Trusted
  <2>2. QED
    BY <2>1
<1>2. SUFFICES ASSUME pc' \in Verified, opts'.verify, agrees', NEW p \in Path, Still(p)'
               PROVE  Exact(p)'
  BY <1>1 DEF ExactInv
<1>3. opts' = opts /\ opts.verify /\ opts \in Options
  BY <1>2, ControlIs DEF TypeOK
<1>4. pc \in Verified \/ pc = "recapture" \/ (pc = "compare" /\ ~opts.withState)
  BY <1>2, <1>3, ControlIs DEF Verified
<1>5. ~Capture
  BY <1>4 DEF Verified, Capture
<1>6. captured' = captured /\ inventory' = inventory /\ Listed' = Listed /\ Still(p)
  <2>1. ~ReadInventory
    BY <1>4 DEF Verified, ReadInventory
  <2>2. QED
    BY <1>2, <1>5, <2>1, ReadOnce, StillBefore DEF Listed
<1>7. ASSUME child' = child, skipped' = skipped, Exact(p)
      PROVE  Exact(p)'
  BY <1>3, <1>6, <1>7 DEF Exact, EntryOf, IndexOf, WorkOf, IndexRecord, Skipped, Bracketed
<1>8. CASE pc = "recapture"
  <2>1. Recapture
    BY <1>2, <1>8, StepIs DEF Verified
  <2>2. child' = child /\ skipped' = skipped
    BY <2>1 DEF Recapture, Fails, run
  <2>3. Same(captured, CaptureState(child,
                    CollectInventory(child, opts.withState, opts.withIgnored), Skipped))
    BY <1>2, <2>1 DEF Recapture, Fails, Goes, Verified
  <2>4. QED
    BY <1>6, <1>7, <1>8, <2>2, <2>3, RecaptureIsExact
<1>9. CASE pc = "compare" /\ ~opts.withState
  <2>1. child' = child /\ skipped' = skipped
    BY <1>5, <1>9, ReadOnce DEF Create, ApplyStaged, ApplyIntentToAdd, ApplyUnstaged, Copy,
       CopyIncludes
  <2>2. Exact(p)
    <3>1. p \notin captured.paths
      BY <1>9 DEF CaptureInv, Bracketed
    <3>2. QED
      BY <1>9, <3>1 DEF ChildInv, Exact, EntryOf, IndexOf, WorkOf, IndexRecord
  <2>3. QED
    BY <1>7, <2>1, <2>2
<1>10. CASE pc \in Verified
  <2>1. agrees
    BY <1>2, <1>10, ReadOnce DEF Verified, CompareStatus, Recapture
  <2>2. Exact(p)
    BY <1>2, <1>3, <1>6, <1>10, <2>1 DEF ExactInv
  <2>3. CASE CopyIncludes
    <3>1. pc = "copyIncludes" /\ pc' # "failed"
      BY <1>2, <2>3 DEF CopyIncludes, Verified
    <3>2. CASE UNCHANGED <<child, skipped>>
      BY <1>7, <2>2, <3>2
    <3>3. ASSUME NEW q \in todo, child.work[q] = Absent
          PROVE  /\ q \in (Ignored \cap opts.included) \ Skipped /\ q \in Path
                 /\ p = q => EntryOf(p) = IndexOf(p) /\ WorkOf(p) = Absent
      <4>1. q \in (Ignored \cap opts.included) \ Skipped /\ q \in Path
        BY <3>1 DEF TodoInv, TypeOK
      <4>2. Listed # {} => Bracketed
        BY <1>3 DEF ListsInv, Bracketed
      <4>3. q \notin Listed \ captured.paths
        BY <3>1, <4>1, <4>2 DEF CaptureInv
      <4>4. QED
        BY <2>2, <3>3, <4>1, <4>3 DEF Exact
    <3>4. ASSUME NEW q \in todo, child.work[q] = Absent, LeavesOut(q)
          PROVE  Exact(p)'
      <4>1. child' = child /\ Skipped' = Skipped \cup {q}
        BY <3>4 DEF LeavesOut
      <4>2. CASE p = q
        BY <1>6, <3>3, <3>4, <4>1, <4>2 DEF Exact, EntryOf, IndexOf, WorkOf, IndexRecord
      <4>3. CASE p # q
        BY <1>3, <1>6, <2>2, <4>1, <4>3 DEF Exact, EntryOf, IndexOf, WorkOf, IndexRecord, Bracketed
      <4>4. QED
        BY <4>2, <4>3
    <3>5. ASSUME NEW q \in todo, child.work[q] = Absent, Takes(q)
          PROVE  Exact(p)'
      <4>1. /\ child'.head = child.head /\ child'.index = child.index
            /\ p # q => child'.work[p] = child.work[p]
        BY <3>5 DEF Takes, TypeOK, Tree
      <4>2. Skipped' = Skipped
        BY <3>5 DEF Takes, Skipped
      <4>3. CASE p = q
        BY <1>3, <1>6, <3>3, <3>5, <4>1, <4>2, <4>3 DEF Exact, EntryOf, IndexOf, WorkOf, IndexRecord
      <4>4. CASE p # q
        BY <1>3, <1>6, <2>2, <4>1, <4>2, <4>4 DEF Exact, EntryOf, IndexOf, WorkOf, IndexRecord, Bracketed
      <4>5. QED
        BY <4>3, <4>4
    <3>6. QED
      BY <2>3, <3>1, <3>2, <3>4, <3>5, LoopIs
  <2>4. CASE ~CopyIncludes
    <3>1. ~Copy /\ ~Create /\ ~ApplyStaged /\ ~ApplyIntentToAdd /\ ~ApplyUnstaged
      BY <1>10 DEF Verified, Copy, Create, ApplyStaged, ApplyIntentToAdd, ApplyUnstaged
    <3>2. child' = child /\ skipped' = skipped
      BY <1>5, <2>4, <3>1, ReadOnce
    <3>3. QED
      BY <1>7, <2>2, <3>2
  <2>5. QED
    BY <2>3, <2>4
<1>11. QED
  BY <1>4, <1>8, <1>9, <1>10

-----------------------------------------------------------------------------
\* The invariant holds of every fork of any parent, however the parent moves.
LEMMA CarryInit == Init => CarryInv
<1> SUFFICES ASSUME Init PROVE CarryInv
  OBVIOUS
<1>1. PICK s \in Starts, f \in Flags :
         /\ parent = s.parent
         /\ opts = [withState |-> f.withState, withIgnored |-> f.withIgnored,
                    verify |-> f.verify, strict |-> f.strict,
                    included |-> s.included, limit |-> s.limit]
  BY DEF Init
<1>2. parent \in Tree /\ opts \in Options /\ (opts.withIgnored => opts.withState)
  BY <1>1, CarryAssumption DEF CarryAssumption, Flags, Options
<1>3. /\ edits = 0 /\ stamp = [p \in Path |-> 0] /\ pc = "status"
      /\ inventory = NoInventory /\ recheck = NoInventory /\ captured = NoState
      /\ child = NoTree /\ todo = {} /\ skipped = {} /\ agrees = TRUE
  BY DEF Init
<1>4. NoInventory \in Inventories /\ NoState \in CarriedState
  BY <1>2, InventoryTyped, CaptureTyped
<1>5. child \in Tree
  BY <1>3 DEF NoTree, Tree, Object
<1>6. TypeOK
  BY <1>2, <1>3, <1>4, <1>5 DEF TypeOK, Steps
<1>7. Listed = {} /\ Skipped = {} /\ captured.paths = {} /\ inventory.untracked = {}
      /\ inventory.ignored = {} /\ inventory.ita = {}
  BY <1>3 DEF Listed, Skipped, NoInventory, NoState
<1>8. ListsInv /\ CaptureInv /\ TodoInv /\ SkipsInv /\ CopiesInv /\ LeftInv /\ ExactInv
  BY <1>3, <1>7 DEF ListsInv, CaptureInv, TodoInv, SkipsInv, CopiesInv, LeftInv, ExactInv, Copied,
     Verified, Trusted
<1>9. ChildInv
  BY <1>3, ValuesAre DEF ChildInv, NoTree
<1>10. QED
  BY <1>6, <1>8, <1>9 DEF CarryInv

\* The inductive invariant holds at every moment of every fork.
THEOREM CarryInvariant == Spec => []CarryInv
<1>1. CarryInv /\ [Next]_vars => CarryInv'
  BY TypeStep, ListsStep, CaptureStep, TodoStep, SkipsStep, CopiesStep, ChildStep, LeftStep,
     ExactStep DEF CarryInv
<1>2. QED
  BY CarryInit, <1>1, PTL DEF Spec

\* A fork that was verified is its parent as captured, index record by record and
\* path by path, but for the two kinds of path the property names.
THEOREM VerifiedForksAreExact == Spec => []VerifiedForkIsExact
<1>1. CarryInv => VerifiedForkIsExact
  <2> SUFFICES ASSUME CarryInv, pc = "done", opts.verify, NEW p \in Path
               PROVE  \/ /\ EntryOf(p) = IndexOf(p)
                         /\ \/ child.work[p] = WorkOf(p)
                            \/ /\ WorkOf(p) = Absent /\ p \in Ignored \ Skipped
                               /\ p \in opts.included \/ (Bracketed /\ ~opts.withIgnored)
                      \/ p \in Skipped /\ child.index[p] = Absent /\ child.work[p] = Absent
    BY DEF VerifiedForkIsExact, EntryOf, IndexOf, WorkOf
  <2>1. agrees /\ \A r \in skipped : r.stamp = stamp[r.path]
    BY DEF CarryInv, ExactInv, SkipsInv, Trusted, Verified
  <2>2. Listed # {} => Bracketed
    BY DEF CarryInv, ListsInv, Bracketed
  <2>3. \A q \in Listed \ captured.paths : q \in Skipped
    BY <2>2 DEF CarryInv, CaptureInv
  <2>4. Exact(p)
    BY <2>1 DEF CarryInv, ExactInv, Still, Verified
  <2>5. QED
    BY <2>3, <2>4 DEF Exact
<1>2. QED
  BY <1>1, CarryInvariant, PTL

\* Every untracked or ignored entry listed at the start is in the fork or is
\* named as skipped, verified or not.
THEOREM OmissionsAreNamed == Spec => []NothingIsOmittedSilently
<1>1. CarryInv => NothingIsOmittedSilently
  BY DEF CarryInv, CopiesInv, Copied, Verified, Listed, NothingIsOmittedSilently
<1>2. QED
  BY <1>1, CarryInvariant, PTL

\* What a finished fork names as skipped still cannot be copied.
THEOREM SkipsAreStillNeeded == Spec => []SkippedEntriesStayUncopyable
<1>1. CarryInv => SkippedEntriesStayUncopyable
  BY DEF CarryInv, SkipsInv, Skipped, SkippedEntriesStayUncopyable
<1>2. QED
  BY <1>1, CarryInvariant, PTL

-----------------------------------------------------------------------------
\* Nothing moves in a parent nobody touches.
LEMMA Steady ==
    ASSUME TypeOK, [Next]_vars, edits' = 0, ~Uncarryable'
    PROVE  /\ edits = 0 /\ ~Uncarryable /\ ~Edit
           /\ UNCHANGED <<parent, stamp, edits, opts, Bracketed>>
<1>1. ~Edit
  BY EditIs DEF TypeOK
<1>2. UNCHANGED <<parent, stamp, edits, opts>>
  BY <1>1, ReadOnce, ControlIs
<1>3. Bracketed' = Bracketed /\ Deletions(parent)' = Deletions(parent)
      /\ Others(parent)' = Others(parent) /\ Staged(parent)' = Staged(parent)
  BY <1>2 DEF Bracketed, Deletions, Others, Staged, Visible
<1>4. Uncarryable' = Uncarryable
  BY <1>2, <1>3 DEF Uncarryable
<1>5. QED
  BY <1>1, <1>2, <1>3, <1>4

\* What can be carried, path by path.
LEMMA CarryableIs ==
    ASSUME ~Uncarryable, NEW p \in Path
    PROVE  /\ p \notin parent.hidden
           /\ parent.index[p] # Absent => parent.work[p] # Locked
           /\ parent.work[p] \in {Locked, Nested} => Deletions(parent) = {}
           /\ Bracketed => parent.work[p] # Nested
           /\ parent.index[p] = Ita => parent.work[p] # Absent
           /\ parent.index[p] = Ita /\ opts.verify => parent.head[p] = Absent
           /\ p \in Others(parent) \cap Ignored \cap Staged(parent) /\ Bracketed => opts.withIgnored
BY DEF Uncarryable

\* What an inventory of the parent lists.
LEMMA ListedAre ==
    ASSUME inventory = CollectInventory(parent, opts.withState, opts.withIgnored), opts.withState
    PROVE  /\ inventory.staged = Staged(parent) /\ inventory.unstaged = Unstaged(parent)
           /\ inventory.ita = IntentToAdd(parent) /\ inventory.deletions = Deletions(parent)
           /\ inventory.untracked = Others(parent) \ Ignored
           /\ inventory.ignored = IF opts.withIgnored THEN Others(parent) \cap Ignored ELSE {}
           /\ Listed \subseteq Others(parent)
BY DEF CollectInventory, Listed

\* Everything that cannot be read may be skipped.
LEMMA QuietCapture ==
    ASSUME TypeOK, ~Uncarryable, opts.withState,
           inventory = CollectInventory(parent, opts.withState, opts.withIgnored)
    PROVE  LET left == Unreadable(parent, inventory, {})
           IN  /\ ~CaptureRaises(parent, inventory, {})
               /\ ~CaptureRaises(parent, inventory, left)
               /\ left = {p \in CarriedPaths(inventory) : parent.work[p] = Locked}
               /\ \A p \in left : p \in Listed /\ parent.index[p] = Absent
               /\ CaptureState(parent, inventory, left) = CaptureState(parent, inventory, {})
<1> DEFINE left == Unreadable(parent, inventory, {})
<1>1. CarriedPaths(inventory) \subseteq Path
  BY DEF TypeOK, Inventories, CarriedPaths
<1>2. left = {p \in CarriedPaths(inventory) : parent.work[p] = Locked}
  BY <1>1, CarryableIs DEF Unreadable
<1>3. ASSUME NEW p \in left
      PROVE  p \in Listed /\ parent.index[p] = Absent /\ MaySkip(parent, inventory, p)
  <2>1. p \in Path /\ parent.work[p] = Locked /\ p \in CarriedPaths(inventory)
    BY <1>1, <1>2, <1>3
  <2>2. parent.index[p] = Absent /\ Deletions(parent) = {}
    BY <2>1, CarryableIs
  <2>3. p \notin Unstaged(parent) /\ p \notin IntentToAdd(parent)
    BY <2>2, ValuesAre DEF Unstaged, IntentToAdd
  <2>4. p \notin Staged(parent)
    BY <2>1, <2>2, ValuesAre DEF Staged, Deletions, Visible
  <2>5. p \in Listed
    BY <2>1, <2>3, <2>4, ListedAre DEF CarriedPaths, Listed
  <2>6. QED
    BY <2>2, <2>5, ListedAre DEF MaySkip, Listed
<1>4. ~CaptureRaises(parent, inventory, {})
  BY <1>1, <1>3, CarryableIs DEF CaptureRaises
<1>5. Unreadable(parent, inventory, left) = {}
  BY DEF Unreadable
<1> HIDE DEF left
<1>6. ~CaptureRaises(parent, inventory, left)
  BY <1>1, <1>5, CarryableIs DEF CaptureRaises
<1>7. CaptureState(parent, inventory, left) = CaptureState(parent, inventory, {})
  <2>1. CarriedPaths(inventory) \ (left \cup Unreadable(parent, inventory, left))
           = CarriedPaths(inventory) \ ({} \cup Unreadable(parent, inventory, {}))
    BY <1>5 DEF left
  <2>2. QED
    BY <2>1 DEF CaptureState
<1>8. QED
  BY <1>2, <1>3, <1>4, <1>6, <1>7 DEF left

\* What is read of a parent nobody touches is what it is.
LEMMA ReadStep ==
    ASSUME TypeOK, ListsInv, TodoInv, ReadInv, [Next]_vars, edits' = 0, ~Uncarryable'
    PROVE  ReadInv'
<1>1. ~Edit /\ ~Uncarryable /\ UNCHANGED <<parent, stamp, edits, opts, Bracketed>>
  BY Steady
<1>2. pc' # "status" => before' = Status(parent, FALSE, {})
  <2>1. CASE ReadStatus
    BY <2>1 DEF ReadStatus
  <2>2. CASE ~ReadStatus
    BY <2>2, ReadOnce, StepIs DEF ReadInv
  <2>3. QED
    BY <2>1, <2>2
<1>3. pc' \notin {"status", "inventory"} =>
          inventory' = CollectInventory(parent, opts.withState, opts.withIgnored)
  <2>1. CASE ReadInventory
    BY <2>1 DEF ReadInventory
  <2>2. CASE ~ReadInventory
    <3>1. inventory' = inventory
      BY <2>2, ReadOnce
    <3>2. pc' \notin {"status", "inventory"} => pc \notin {"status", "inventory"}
      BY <2>2, ControlIs, StepIs
    <3>3. QED
      BY <3>1, <3>2 DEF ReadInv
  <2>3. QED
    BY <2>1, <2>2
<1>4. pc' = "recapture" => recheck' = inventory'
  <2>1. CASE CollectAgain
    BY <2>1 DEF CollectAgain, ReadInv
  <2>2. CASE ~CollectAgain /\ pc' = "recapture"
    <3>1. pc = "recapture"
      BY <2>2, ControlIs, StepIs
    <3>2. UNCHANGED <<recheck, inventory>>
      BY <2>2, <3>1, ReadOnce DEF ReadInventory
    <3>3. QED
      BY <3>1, <3>2 DEF ReadInv
  <2>3. QED
    BY <2>1, <2>2
<1>5. ASSUME Bracketed, pc' \in Filled \cup {"create"}
      PROVE  /\ captured' = CaptureState(parent, inventory', {})
             /\ Skipped' = Unreadable(parent, inventory', {})
  <2>1. CASE Capture
    <3>1. pc' # "failed"
      BY <1>5 DEF Filled, Copied, Verified
    <3>2. inventory' = inventory /\ captured' = CaptureState(parent, inventory, {})
      BY <1>5, <2>1, <3>1 DEF Capture, Fails
    <3>3. QED
      BY <1>5, <2>1, <3>1, <3>2, CaptureIs
  <2>2. CASE ~Capture
    <3>1. pc \in Filled \cup {"create"}
      <4>1. pc' = pc \/ pc \in Filled \cup {"create"}
        BY <1>5, <2>2, ControlIs, StepIs DEF Filled, Copied, Verified, Including, Trusted
      <4>2. QED
        BY <1>5, <4>1
    <3>2. ~ReadInventory /\ pc \notin {"status", "inventory"}
      BY <3>1 DEF ReadInventory, Filled, Copied, Verified, Including, Trusted
    <3>3. captured' = captured /\ inventory' = inventory
      BY <2>2, <3>2, ReadOnce
    <3>4. inventory = CollectInventory(parent, opts.withState, opts.withIgnored) /\ opts.withState
      BY <1>5, <3>2 DEF ReadInv, Bracketed
    <3>5. ASSUME NEW q \in todo, LeavesOut(q), pc = "copy"
          PROVE  FALSE
      <4>1. q \in Listed \ Skipped /\ q \in Path
        BY <3>5 DEF TodoInv, TypeOK
      <4>2. parent.work[q] = Locked
        BY <1>1, <1>5, <3>5, <4>1, CarryableIs DEF LeavesOut
      <4>3. q \in CarriedPaths(inventory)
        BY <4>1 DEF Listed, CarriedPaths
      <4>4. q \in Unreadable(parent, inventory, {})
        BY <1>1, <4>1, <4>2, <4>3, CarryableIs DEF Unreadable
      <4>5. QED
        BY <1>5, <3>1, <4>1, <4>4 DEF ReadInv
    <3>6. Skipped' = Skipped
      <4>1. CASE (Copy \/ CopyIncludes) /\ pc' # "failed"
        <5>1. pc = "copy"
          BY <3>1, <4>1 DEF Copy, CopyIncludes, Filled, Copied, Verified, Including, Trusted
        <5>2. skipped' = skipped
          BY <3>5, <4>1, <5>1, LoopIs DEF Takes
        <5>3. QED
          BY <5>2 DEF Skipped
      <4>2. QED
        BY <2>2, <4>1, SkipsGrow
    <3>7. QED
      BY <1>5, <3>1, <3>3, <3>6 DEF ReadInv
  <2>3. QED
    BY <2>1, <2>2
<1>6. CollectInventory(parent, opts.withState, opts.withIgnored)' 
         = CollectInventory(parent, opts.withState, opts.withIgnored)
      /\ Status(parent, FALSE, {})' = Status(parent, FALSE, {})
      /\ CaptureState(parent, inventory, {})' = CaptureState(parent, inventory', {})
      /\ Unreadable(parent, inventory, {})' = Unreadable(parent, inventory', {})
  BY <1>1
<1>7. QED
  BY <1>1, <1>2, <1>3, <1>4, <1>5, <1>6 DEF ReadInv

\* Facet by facet the child becomes the parent, but for what is skipped and
\* what nobody carries.
LEMMA FillStep ==
    ASSUME TypeOK, ListsInv, TodoInv, ReadInv, FillInv, [Next]_vars, edits' = 0, ~Uncarryable',
           pc' \in {"staged", "ita", "unstaged", "copy", "compare", "collect", "recapture"}
    PROVE  FillInv'
<1>1. /\ ~Edit /\ ~Uncarryable /\ UNCHANGED <<parent, stamp, edits, opts, Bracketed>>
      /\ parent \in Tree /\ child \in Tree /\ todo \subseteq Path
  BY Steady DEF TypeOK
<1>2. /\ \A p \in Path : parent.work[p] # Ita /\ Visible(parent, p) # Ita
      /\ \A p \in Path : Visible(parent, p)' = Visible(parent, p)
      /\ \A p \in Path : parent.index[p] = Ita => p \in Unstaged(parent)
  <2>1. \A p \in Path : parent.work[p] # Ita /\ Visible(parent, p) # Ita
    BY <1>1, ValuesAre, TreeIs DEF Object, Visible
  <2>2. QED
    BY <1>1, <2>1, ValuesAre DEF Unstaged, Visible
<1>3. CASE Create
  BY <1>1, <1>3 DEF Create, Goes, FillInv, Anchored, Bracketed
<1>4. CASE ApplyStaged
  <2> DEFINE S == Staged(parent)
             After == [child EXCEPT
                !.index = [x \in Path |-> IF x \in S THEN Visible(parent, x) ELSE @[x]],
                !.work = [x \in Path |-> IF x \in S THEN Visible(parent, x) ELSE @[x]]]
  <2>1. child' = After /\ pc = "staged" /\ pc' = "ita"
    BY <1>4 DEF ApplyStaged, Fails, Goes
  <2>2. \A p \in Path : p \notin S => parent.head[p] = Visible(parent, p)
    BY DEF Staged
  <2> HIDE DEF S
  <2>3. /\ After.head = child.head
        /\ After.index = [x \in Path |-> IF x \in S THEN Visible(parent, x) ELSE child.index[x]]
        /\ After.work = [x \in Path |-> IF x \in S THEN Visible(parent, x) ELSE child.work[x]]
    BY <1>1 DEF Tree
  <2> HIDE DEF After
  <2>4. \A p \in Path : child'.index[p] = Visible(parent, p) /\ child'.work[p] = Visible(parent, p)
    BY <2>1, <2>2, <2>3 DEF FillInv
  <2>5. Anchored'
    BY <1>1, <2>1, <2>3 DEF FillInv, Anchored
  <2>6. QED
    BY <1>2, <2>1, <2>4, <2>5 DEF FillInv
<1>5. CASE ApplyIntentToAdd
  <2> DEFINE I == inventory.ita
             S == Unstaged(parent) \cap I
             After == [child EXCEPT
                !.work = Patched(S),
                !.index = [x \in Path |-> IF x \in I /\ @[x] = Absent THEN Ita ELSE @[x]]]
  <2>1. child' = After /\ pc = "ita" /\ pc' = "unstaged" /\ inventory' = inventory
    BY <1>5 DEF ApplyIntentToAdd, Fails, Goes
  <2>2. I = IntentToAdd(parent)
    BY <2>1, ListedAre DEF ReadInv, ListsInv
  <2>3. \A p \in Path : p \in I => p \in S /\ Visible(parent, p) = Absent
    BY <1>2, <2>2 DEF IntentToAdd, Visible
  <2> HIDE DEF S, I
  <2>4. /\ After.head = child.head /\ After.work = Patched(S)
        /\ After.index = [x \in Path |-> IF x \in I /\ child.index[x] = Absent
                                         THEN Ita ELSE child.index[x]]
    BY <1>1 DEF Tree
  <2> HIDE DEF After
  <2>5. \A p \in Path : p \in S => p \in I
    BY DEF S
  <2>6. \A p \in Path : child'.work[p] = IF p \in I THEN parent.work[p] ELSE Visible(parent, p)
    BY <2>1, <2>3, <2>4, <2>5 DEF FillInv, Patched
  <2>7. \A p \in Path : child'.index[p] = IF p \in I THEN Ita ELSE Visible(parent, p)
    BY <2>1, <2>3, <2>4 DEF FillInv
  <2>8. Anchored'
    BY <1>1, <2>1, <2>4 DEF FillInv, Anchored
  <2>9. QED
    BY <1>1, <1>2, <2>1, <2>6, <2>7, <2>8 DEF FillInv, IndexCarried, I
<1>6. CASE ApplyUnstaged
  <2> DEFINE I == inventory.ita
             S == Unstaged(parent) \ I
             After == [child EXCEPT !.work = Patched(S)]
  <2>1. /\ child' = After /\ todo' = Listed \ Skipped /\ pc = "unstaged" /\ pc' = "copy"
        /\ UNCHANGED <<inventory, skipped>>
    BY <1>6 DEF ApplyUnstaged, Fails, Goes, ToCopy, Listed
  <2>2. I = IntentToAdd(parent)
    BY <2>1, ListedAre DEF ReadInv, ListsInv
  <2>3. ASSUME NEW p \in Path
        PROVE  /\ p \in S => parent.index[p] # Absent
               /\ p \in I => parent.index[p] # Absent
               /\ parent.index[p] = Absent => Visible(parent, p) = Absent
               /\ parent.index[p] # Absent /\ p \notin S /\ p \notin I =>
                     Visible(parent, p) = parent.work[p]
    BY <1>2, <2>2, ValuesAre DEF Unstaged, IntentToAdd, Visible
  <2> HIDE DEF S, I
  <2>4. /\ After.head = child.head /\ After.index = child.index /\ After.work = Patched(S)
    BY <1>1 DEF Tree
  <2> HIDE DEF After
  <2>5. \A p \in Path : IF parent.index[p] # Absent THEN child'.work[p] = parent.work[p]
                        ELSE child'.work[p] = Absent
    BY <2>1, <2>3, <2>4 DEF FillInv, Patched, I
  <2>6. Listed' = Listed /\ Skipped' = Skipped
    BY <2>1 DEF Listed, Skipped
  <2>7. \A p \in Path : WorkCarried(p)'
    BY <1>1, <2>1, <2>5, <2>6 DEF WorkCarried
  <2>8. \A p \in Path : IndexCarried(p)'
    BY <1>1, <1>2, <2>1, <2>4 DEF FillInv, IndexCarried
  <2>9. Anchored'
    BY <1>1, <2>1, <2>4 DEF FillInv, Anchored
  <2>10. QED
    BY <2>1, <2>7, <2>8, <2>9 DEF FillInv
<1>7. CASE Copy
  <2>1. pc = "copy" /\ pc' # "failed" /\ UNCHANGED <<inventory, Listed>> /\ opts.withState
    BY <1>7, LoopIs DEF Copy, Listed, ListsInv
  <2>2. inventory = CollectInventory(parent, opts.withState, opts.withIgnored)
    BY <2>1 DEF ReadInv
  <2>3. \A p \in Path : IndexCarried(p) /\ WorkCarried(p)
    BY <2>1 DEF FillInv
  <2>4. CASE pc' = "copy"
    <3>1. PICK q \in todo : LeavesOut(q) \/ Takes(q)
      BY <1>7, <2>1, <2>4, LoopIs
    <3>2. q \in Listed \ Skipped /\ q \in Path /\ todo' = todo \ {q}
      BY <1>1, <2>1, <3>1 DEF TodoInv, LeavesOut, Takes
    <3>3. parent.index[q] = Absent
      BY <2>1, <2>2, <3>2, ListedAre DEF Others
    <3>4. CASE LeavesOut(q)
      <4>1. child' = child /\ Skipped' = Skipped \cup {q}
        BY <3>4 DEF LeavesOut
      <4>2. ASSUME NEW p \in Path
            PROVE  IndexCarried(p)' /\ WorkCarried(p)'
        BY <1>1, <1>2, <2>1, <2>3, <2>4, <3>1, <3>2, <3>3, <4>1 DEF IndexCarried, WorkCarried
      <4>3. QED
        BY <1>1, <2>1, <2>4, <4>1, <4>2 DEF FillInv, Anchored
    <3>5. CASE Takes(q)
      <4>1. /\ child'.head = child.head /\ child'.index = child.index
            /\ child'.work[q] = parent.work[q]
            /\ \A p \in Path : p # q => child'.work[p] = child.work[p]
        BY <1>1, <3>2, <3>5 DEF Takes, Tree
      <4>2. Skipped' = Skipped
        BY <3>5 DEF Takes, Skipped
      <4>3. ASSUME NEW p \in Path
            PROVE  IndexCarried(p)' /\ WorkCarried(p)'
        BY <1>1, <1>2, <2>1, <2>3, <2>4, <3>2, <3>3, <4>1, <4>2 DEF IndexCarried, WorkCarried
      <4>4. QED
        BY <1>1, <2>1, <2>4, <4>1, <4>3 DEF FillInv, Anchored
    <3>6. QED
      BY <3>1, <3>4, <3>5
  <2>5. CASE pc' # "copy"
    <3>1. todo = {} /\ UNCHANGED <<child, skipped>> /\ pc' = "compare"
      BY <1>7, <2>1, <2>5, LoopIs, ControlIs DEF LeavesOut, Takes
    <3>2. Skipped' = Skipped
      BY <3>1 DEF Skipped
    <3>3. \A p \in Path : IndexCarried(p)' /\ WorkCarried(p)'
      BY <1>1, <1>2, <2>1, <2>3, <3>1, <3>2 DEF IndexCarried, WorkCarried
    <3>4. QED
      BY <1>1, <2>1, <3>1, <3>3 DEF FillInv, Anchored
  <2>6. QED
    BY <2>4, <2>5
<1>8. CASE ~Create /\ ~ApplyStaged /\ ~ApplyIntentToAdd /\ ~ApplyUnstaged /\ ~Copy
  <2>1. /\ pc' = pc \/ (pc = "compare" /\ pc' = "collect" /\ opts.withState)
                    \/ (pc = "collect" /\ pc' = "recapture")
    BY <1>8, ControlIs, StepIs
  <2>2. ~CopyIncludes /\ ~ReadInventory /\ ~Capture
    BY <2>1 DEF CopyIncludes, ReadInventory, Capture
  <2>3. UNCHANGED <<child, skipped, inventory>>
    BY <1>8, <2>2, ReadOnce, SkipsGrow
  <2>4. pc = "copy" => todo' = todo
    <3>1. UNCHANGED vars => todo' = todo
      BY DEF vars, run
    <3>2. QED
      BY <1>1, <1>8, <2>1, <2>2, <3>1 DEF Next, ReadStatus, CompareStatus, CollectAgain,
         Recapture, ParentUntouched, ListIncludes, RefuseStrict, Hook, Finish
  <2>5. Listed' = Listed /\ Skipped' = Skipped
    BY <2>3 DEF Listed, Skipped
  <2>6. \A p \in Path : /\ IndexCarried(p) => IndexCarried(p)'
                        /\ WorkCarried(p) => WorkCarried(p)'
    BY <1>1, <1>2, <2>1, <2>3, <2>4, <2>5 DEF IndexCarried, WorkCarried
  <2>7. QED
    BY <1>1, <1>2, <2>1, <2>3, <2>6 DEF FillInv, Anchored
<1>9. QED
  BY <1>3, <1>4, <1>5, <1>6, <1>7, <1>8

\* Where the child stands when it is compared with an untouched parent: a path
\* that was not skipped is the same in both, or is an ignored file of the
\* parent alone, which nobody asked for.
LEMMA Alike ==
    ASSUME TypeOK, ListsInv, SkipsInv, ReadInv, FillInv, ~Uncarryable, Bracketed,
           pc \in {"compare", "collect", "recapture"}, NEW p \in Path
    PROVE  /\ child.head[p] = parent.head[p] /\ child.index[p] = parent.index[p]
           /\ \/ child.work[p] = parent.work[p]
              \/ /\ parent.index[p] = Absent /\ child.work[p] = Absent /\ parent.work[p] # Absent
                 /\ \/ p \in Skipped
                    \/ parent.head[p] = Absent /\ p \in Ignored /\ ~opts.withIgnored
           /\ p \in Skipped => parent.index[p] = Absent /\ p \in Listed
<1>1. /\ inventory = CollectInventory(parent, opts.withState, opts.withIgnored)
      /\ opts.withState /\ opts.verify
  BY DEF ReadInv, Bracketed
<1>2. IndexCarried(p) /\ WorkCarried(p) /\ child.head = parent.head
  BY DEF FillInv, Anchored
<1>3. child.index[p] = parent.index[p]
  <2>1. p \in inventory.ita <=> parent.index[p] = Ita
    BY <1>1, ListedAre, CarryableIs DEF IntentToAdd
  <2>2. QED
    BY <1>2, <2>1 DEF IndexCarried, Visible
<1>4. p \in Skipped => parent.index[p] = Absent /\ p \in Listed
  <2>1. pc \in Filled
    BY DEF Filled, Copied, Verified, Including, Trusted
  <2>2. QED
    BY <1>1, <2>1, QuietCapture DEF ReadInv
<1>5. CASE parent.index[p] # Absent
  BY <1>2, <1>3, <1>4, <1>5 DEF WorkCarried
<1>6. CASE parent.index[p] = Absent /\ p \in Listed \ Skipped
  BY <1>2, <1>3, <1>4, <1>6 DEF WorkCarried
<1>7. CASE parent.index[p] = Absent /\ p \notin Listed \ Skipped
  <2>1. child.work[p] = Absent
    BY <1>2, <1>7 DEF WorkCarried
  <2>2. CASE p \in Skipped \/ parent.work[p] = Absent
    BY <1>2, <1>3, <1>4, <1>7, <2>1, <2>2
  <2>3. CASE p \notin Skipped /\ parent.work[p] # Absent
    <3>1. p \in Others(parent) /\ p \notin Listed
      BY <1>7, <2>3 DEF Others
    <3>2. p \in Ignored /\ ~opts.withIgnored
      BY <1>1, <3>1, ListedAre DEF Listed
    <3>3. p \notin Staged(parent)
      BY <3>1, <3>2, CarryableIs
    <3>4. parent.head[p] = Absent
      BY <1>7, <3>3, ValuesAre DEF Staged, Visible
    <3>5. QED
      BY <1>2, <1>3, <1>4, <1>7, <2>1, <2>3, <3>2, <3>4
  <2>4. QED
    BY <2>2, <2>3
<1>8. QED
  BY <1>5, <1>6, <1>7

\* The status of both is the same, skipped paths aside.
LEMMA AlikeStatus ==
    ASSUME TypeOK, ListsInv, SkipsInv, ReadInv, FillInv, ~Uncarryable, Bracketed, pc = "compare"
    PROVE  Status(child, opts.withIgnored, Skipped) = Status(parent, opts.withIgnored, Skipped)
<1>1. ASSUME NEW p \in Path \ Skipped
      PROVE  /\ IndexLetter(child, p) = IndexLetter(parent, p)
             /\ WorkLetter(child, p, opts.withIgnored) = WorkLetter(parent, p, opts.withIgnored)
  <2>1. /\ child.head[p] = parent.head[p] /\ child.index[p] = parent.index[p]
        /\ \/ child.work[p] = parent.work[p]
           \/ /\ parent.index[p] = Absent /\ child.work[p] = Absent
              /\ p \in Ignored /\ ~opts.withIgnored /\ parent.work[p] # Absent
    BY Alike
  <2>2. Visible(child, p) = Visible(parent, p)
    BY <2>1 DEF Visible
  <2>3. IndexLetter(child, p) = IndexLetter(parent, p)
    BY <2>1, <2>2 DEF IndexLetter
  <2>4. CASE child.work[p] = parent.work[p]
    <3>1. /\ p \in Others(child) <=> p \in Others(parent)
          /\ p \in Unstaged(child) <=> p \in Unstaged(parent)
          /\ ~(p \in Others(parent) /\ p \in Unstaged(parent))
      BY <2>1, <2>4 DEF Others, Unstaged
    <3>2. CASE p \in Others(parent) \ Ignored
      BY <2>3, <3>1, <3>2 DEF WorkLetter
    <3>3. CASE p \in Others(parent) \cap Ignored
      BY <2>3, <3>1, <3>3 DEF WorkLetter
    <3>4. CASE p \notin Others(parent) \cup Unstaged(parent)
      BY <2>3, <3>1, <3>4 DEF WorkLetter
    <3>5. CASE p \in Unstaged(parent) \ Others(parent)
      BY <2>1, <2>3, <2>4, <3>1, <3>5 DEF WorkLetter
    <3>6. QED
      BY <3>2, <3>3, <3>4, <3>5
  <2>5. CASE child.work[p] # parent.work[p]
    <3>1. p \notin Others(child) /\ p \notin Unstaged(child)
      BY <2>1, <2>5 DEF Others, Unstaged
    <3>2. p \in Others(parent) \cap Ignored
      BY <2>1, <2>5 DEF Others
    <3>3. WorkLetter(child, p, opts.withIgnored) = " "
      BY <3>1 DEF WorkLetter
    <3>4. WorkLetter(parent, p, opts.withIgnored) = " "
      BY <2>1, <2>5, <3>2 DEF WorkLetter
    <3>5. QED
      BY <2>3, <3>3, <3>4
  <2>6. QED
    BY <2>4, <2>5
<1>2. QED
  BY <1>1 DEF Status

\* A child of the commit alone has a clean status.
LEMMA PristineStatus ==
    ASSUME TypeOK, ChildInv, ~opts.withState, pc = "compare", NEW p \in Path
    PROVE  <<IndexLetter(child, p), WorkLetter(child, p, opts.withIgnored)>> = Clean
<1>1. child.index[p] = child.head[p] /\ child.work[p] = child.head[p] /\ child.head[p] # Ita
  <2>1. child.head[p] # Ita
    BY ValuesAre, TreeIs DEF TypeOK
  <2>2. QED
    BY <2>1 DEF ChildInv
<1>2. p \notin Others(child) /\ p \notin Unstaged(child) /\ Visible(child, p) = child.head[p]
  BY <1>1 DEF Others, Unstaged, Visible
<1>3. IndexLetter(child, p) = " "
  BY <1>2 DEF IndexLetter
<1>4. WorkLetter(child, p, opts.withIgnored) = " "
  <2>1. /\ ~(p \in Others(child) \ Ignored) /\ ~(p \in Others(child) \cap Ignored)
        /\ p \notin Others(child) \cup Unstaged(child)
    BY <1>2
  <2>2. QED
    BY <1>2, <2>1 DEF WorkLetter
<1>5. QED
  BY <1>3, <1>4 DEF Clean

\* The child shows what was captured.
LEMMA AlikeState ==
    ASSUME TypeOK, ListsInv, SkipsInv, ChildInv, ReadInv, FillInv, ~Uncarryable, Bracketed,
           pc = "recapture"
    PROVE  LET inv == CollectInventory(child, opts.withState, opts.withIgnored)
           IN  /\ captured = CaptureState(parent, recheck, Skipped)
               /\ captured = CaptureState(child, inv, Skipped)
               /\ ~CaptureRaises(parent, recheck, Skipped)
<1> DEFINE inv == CollectInventory(child, opts.withState, opts.withIgnored)
           C == CarriedPaths(inv)
           P == CarriedPaths(inventory)
<1>1. /\ inventory = CollectInventory(parent, opts.withState, opts.withIgnored)
      /\ recheck = inventory /\ opts.withState
      /\ captured = CaptureState(parent, inventory, {})
      /\ Skipped = Unreadable(parent, inventory, {})
  BY DEF ReadInv, Bracketed, Filled, Copied, Verified, Including, Trusted
<1>2. /\ ~CaptureRaises(parent, recheck, Skipped)
      /\ captured = CaptureState(parent, recheck, Skipped)
  BY <1>1, QuietCapture
<1>3. /\ inventory.staged = Staged(parent) /\ inventory.unstaged = Unstaged(parent)
      /\ inventory.ita = IntentToAdd(parent) /\ inventory.untracked = Others(parent) \ Ignored
      /\ inventory.ignored = IF opts.withIgnored THEN Others(parent) \cap Ignored ELSE {}
  BY <1>1, ListedAre
<1>4. /\ inv.staged = Staged(child) /\ inv.unstaged = Unstaged(child)
      /\ inv.ita = IntentToAdd(child) /\ inv.untracked = Others(child) \ Ignored
      /\ inv.ignored = IF opts.withIgnored THEN Others(child) \cap Ignored ELSE {}
  BY <1>1 DEF CollectInventory
<1>5. C \subseteq Path /\ P \subseteq Path
  BY <1>3, <1>4 DEF CarriedPaths, Staged, Unstaged, IntentToAdd, Others
<1>6. Unreadable(child, inv, Skipped) = {}
  BY <1>5 DEF Unreadable, ChildInv
<1> HIDE DEF inv
<1>7. ASSUME NEW p \in Path, p \notin Skipped
      PROVE  p \in C <=> p \in P
  <2>1. /\ child.head[p] = parent.head[p] /\ child.index[p] = parent.index[p]
        /\ \/ child.work[p] = parent.work[p]
           \/ /\ parent.index[p] = Absent /\ child.work[p] = Absent /\ parent.work[p] # Absent
              /\ parent.head[p] = Absent /\ p \in Ignored /\ ~opts.withIgnored
    BY <1>7, Alike
  <2>2. /\ p \in Staged(child) <=> p \in Staged(parent)
        /\ p \in IntentToAdd(child) <=> p \in IntentToAdd(parent)
    BY <2>1 DEF Staged, IntentToAdd, Visible
  <2>3. CASE child.work[p] = parent.work[p]
    <3>1. /\ p \in Unstaged(child) <=> p \in Unstaged(parent)
          /\ p \in Others(child) <=> p \in Others(parent)
      BY <2>1, <2>3 DEF Unstaged, Others
    <3>2. QED
      BY <1>3, <1>4, <2>2, <3>1 DEF CarriedPaths
  <2>4. CASE child.work[p] # parent.work[p]
    <3>1. /\ p \notin Unstaged(child) /\ p \notin Unstaged(parent) /\ p \notin Others(child)
          /\ p \in Ignored /\ ~opts.withIgnored
      BY <2>1, <2>4 DEF Unstaged, Others
    <3>2. QED
      BY <1>3, <1>4, <2>2, <3>1 DEF CarriedPaths
  <2>5. QED
    BY <2>3, <2>4
<1>8. Unreadable(parent, inventory, {}) \subseteq P
  BY DEF Unreadable
<1>9. captured.paths = P \ Skipped
  BY <1>1 DEF CaptureState
<1>10. C \ (Skipped \cup Unreadable(child, inv, Skipped)) = P \ Skipped
  BY <1>5, <1>6, <1>7
<1>11. ASSUME NEW p \in Path
       PROVE  /\ (IF p \in C THEN IndexRecord(child, p) ELSE Absent)
                    = (IF p \in P THEN IndexRecord(parent, p) ELSE Absent)
              /\ (IF p \in P \ Skipped THEN child.work[p] ELSE Absent)
                    = (IF p \in P \ Skipped THEN parent.work[p] ELSE Absent)
  <2>1. CASE p \in Skipped
    <3>1. child.index[p] = Absent /\ parent.index[p] = Absent
      BY <2>1, Alike
    <3>2. IndexRecord(child, p) = Absent /\ IndexRecord(parent, p) = Absent
      BY <3>1, ValuesAre DEF IndexRecord
    <3>3. QED
      BY <2>1, <3>2
  <2>2. CASE p \notin Skipped
    <3>1. child.index[p] = parent.index[p]
      BY Alike
    <3>2. p \in P => child.work[p] = parent.work[p]
      <4>1. CASE child.work[p] # parent.work[p]
        <5>1. /\ parent.index[p] = Absent /\ parent.head[p] = Absent /\ p \in Ignored
              /\ ~opts.withIgnored
          BY <2>2, <4>1, Alike
        <5>2. p \notin P
          BY <1>3, <5>1, ValuesAre DEF CarriedPaths, Staged, Unstaged, IntentToAdd, Visible
        <5>3. QED
          BY <5>2
      <4>2. QED
        BY <4>1
    <3>3. QED
      BY <1>7, <2>2, <3>1, <3>2 DEF IndexRecord
  <2>3. QED
    BY <2>1, <2>2
<1>12. captured = CaptureState(child, inv, Skipped)
  <2> HIDE DEF C, P
  <2>1. CaptureState(parent, inventory, {}) =
           [paths |-> P \ Skipped,
            index |-> [p \in Path |-> IF p \in P THEN IndexRecord(parent, p) ELSE Absent],
            manifest |-> [p \in Path |-> IF p \in P \ Skipped THEN parent.work[p] ELSE Absent]]
    BY <1>1 DEF CaptureState, P
  <2>2. CaptureState(child, inv, Skipped) =
           [paths |-> P \ Skipped,
            index |-> [p \in Path |-> IF p \in C THEN IndexRecord(child, p) ELSE Absent],
            manifest |-> [p \in Path |-> IF p \in P \ Skipped THEN child.work[p] ELSE Absent]]
    BY <1>10 DEF CaptureState, C
  <2>3. QED
    BY <1>1, <1>11, <2>1, <2>2
<1>13. QED
  BY <1>2, <1>12 DEF inv

\* A listed entry of an untouched parent is there and is copied or skipped.
LEMMA QuietCopy ==
    ASSUME TypeOK, ~Uncarryable, NEW p \in todo, p \in Others(parent), CopyEntry(p), pc # "failed",
           inventory = CollectInventory(parent, opts.withState, opts.withIgnored)
    PROVE  pc' # "failed"
<1>1. p \in Path /\ p \notin parent.hidden /\ parent.work[p] # Absent
  BY CarryableIs DEF TypeOK, Others
<1>2. parent.work[p] \in {Locked, Nested} => inventory.deletions = {}
  BY <1>1, CarryableIs DEF CollectInventory, NoInventory
<1>3. QED
  BY <1>1, <1>2 DEF CopyEntry

\* Each patch fits the child an untouched parent has filled so far.
LEMMA QuietPatches ==
    ASSUME TypeOK, ListsInv, ReadInv, FillInv, ~Uncarryable,
           ApplyStaged \/ ApplyIntentToAdd \/ ApplyUnstaged
    PROVE  pc' # "failed"
<1>1. /\ pc \in {"staged", "ita", "unstaged"} /\ opts.withState
      /\ inventory = CollectInventory(parent, opts.withState, opts.withIgnored)
      /\ inventory.ita = IntentToAdd(parent)
  BY ListedAre DEF ApplyStaged, ApplyIntentToAdd, ApplyUnstaged, ListsInv, ReadInv
<1>2. \A p \in Path : parent.work[p] # Ita
  BY ValuesAre, TreeIs DEF TypeOK, Object
<1>3. ASSUME NEW p \in Unstaged(parent)
      PROVE  /\ p \in Path /\ parent.work[p] # Locked
             /\ OldSide(p) = Visible(parent, p)
             /\ p \in inventory.ita => Visible(parent, p) = Absent /\ parent.work[p] # Absent
  <2>1. p \in Path /\ parent.index[p] # Absent
    BY <1>3 DEF Unstaged
  <2>2. parent.work[p] # Locked /\ (parent.index[p] = Ita => parent.work[p] # Absent)
    BY <2>1, CarryableIs
  <2>3. QED
    BY <1>1, <2>1, <2>2 DEF OldSide, Visible, IntentToAdd, IndexRecord
<1>4. CASE ApplyStaged
  <2>1. \A p \in Staged(parent) : child.index[p] = parent.head[p] /\ child.work[p] = parent.head[p]
    BY <1>4 DEF ApplyStaged, FillInv, Staged
  <2>2. QED
    BY <1>4, <2>1 DEF ApplyStaged, Goes
<1>5. CASE ApplyIntentToAdd
  <2> DEFINE S == Unstaged(parent) \cap inventory.ita
  <2>1. Fits(S)
    BY <1>3, <1>5 DEF ApplyIntentToAdd, FillInv, Fits
  <2>2. \A p \in inventory.ita : p \in S /\ p \in Path
    BY <1>1, <1>2, ValuesAre DEF IntentToAdd, Unstaged
  <2>3. \A p \in inventory.ita : Patched(S)[p] # Absent
    BY <1>3, <2>2 DEF Patched
  <2>4. QED
    BY <1>5, <2>1, <2>3 DEF ApplyIntentToAdd, Goes
<1>6. CASE ApplyUnstaged
  <2> DEFINE S == Unstaged(parent) \ inventory.ita
  <2>1. Fits(S)
    BY <1>3, <1>6 DEF ApplyUnstaged, FillInv, Fits
  <2>2. QED
    BY <1>6, <2>1 DEF ApplyUnstaged, Goes
<1>7. QED
  BY <1>4, <1>5, <1>6

\* No rung disagrees over an untouched parent, and nothing fails but for
\* --strict.
LEMMA EndStep ==
    ASSUME CarryInv, ReadInv, FillInv, EndInv, [Next]_vars, edits' = 0, ~Uncarryable'
    PROVE  EndInv'
<1> USE DEF CarryInv
<1>1. /\ ~Edit /\ ~Uncarryable /\ UNCHANGED <<parent, stamp, edits, opts, Bracketed>>
      /\ (pc \notin {"status", "inventory"} =>
            inventory = CollectInventory(parent, opts.withState, opts.withIgnored))
  BY Steady DEF ReadInv
<1>2. Recapture => /\ ~CaptureRaises(parent, recheck, Skipped)
                   /\ Same(captured, CaptureState(parent, recheck, Skipped))
                   /\ Same(captured, CaptureState(child,
                            CollectInventory(child, opts.withState, opts.withIgnored), Skipped))
  <2>1. Recapture => pc = "recapture" /\ Bracketed
    BY DEF Recapture, ListsInv, Bracketed
  <2>2. QED
    BY <1>1, <2>1, AlikeState DEF Same
<1>3. agrees'
  <2>1. CASE CompareStatus
    <3>1. pc = "compare" /\ opts.verify
      BY <2>1 DEF CompareStatus, ListsInv
    <3>2. opts.withState => Status(child, opts.withIgnored, Skipped)
                              = Status(parent, opts.withIgnored, Skipped)
      BY <1>1, <3>1, AlikeStatus DEF Bracketed
    <3>3. ~opts.withState => \A p \in DOMAIN Status(child, opts.withIgnored, Skipped) :
                                Status(child, opts.withIgnored, Skipped)[p] = Clean
      BY <3>1, PristineStatus DEF Status
    <3>4. QED
      BY <2>1, <3>2, <3>3 DEF CompareStatus, StatusExclusions, EndInv
  <2>2. CASE Recapture
    BY <1>2, <2>2 DEF Recapture, EndInv
  <2>3. CASE ~CompareStatus /\ ~Recapture
    BY <2>3, ReadOnce DEF EndInv
  <2>4. QED
    BY <2>1, <2>2, <2>3
<1>4. pc' = "copyIncludes" => todo' \subseteq Others(parent)
  <2>1. CASE ListIncludes
    BY <2>1 DEF ListIncludes
  <2>2. CASE CopyIncludes /\ pc' = "copyIncludes"
    <3>1. pc = "copyIncludes" /\ pc' # "failed"
      BY <2>2 DEF CopyIncludes
    <3>2. todo' \subseteq todo
      BY <2>2, <3>1, LoopIs DEF LeavesOut, Takes
    <3>3. QED
      BY <3>1, <3>2 DEF EndInv
  <2>3. CASE ~ListIncludes /\ ~CopyIncludes /\ pc' = "copyIncludes"
    <3>1. pc = "copyIncludes"
      BY <2>3, ControlIs, StepIs
    <3>2. UNCHANGED vars => todo' = todo
      BY DEF vars, run
    <3>3. todo' = todo
      BY <1>1, <2>3, <3>1, <3>2 DEF Next, ReadStatus, ReadInventory, Capture, Create, ApplyStaged,
         ApplyIntentToAdd, ApplyUnstaged, Copy, CompareStatus, CollectAgain, Recapture,
         ParentUntouched, RefuseStrict, Hook, Finish
    <3>4. QED
      BY <3>1, <3>3 DEF EndInv
  <2>4. QED
    BY <2>1, <2>2, <2>3
<1>5. ASSUME pc' = "failed"
      PROVE  opts.strict /\ skipped' # {}
  <2>1. CASE pc = "failed"
    <3>1. ~Capture /\ ~Copy /\ ~CopyIncludes
      BY <2>1 DEF Capture, Copy, CopyIncludes
    <3>2. QED
      BY <2>1, <3>1, SkipsGrow DEF EndInv
  <2>2. CASE pc = "capture"
    <3>1. Capture /\ inventory = CollectInventory(parent, opts.withState, opts.withIgnored)
      BY <1>1, <1>5, <2>2, StepIs
    <3>2. Bracketed => ~CaptureRaises(parent, inventory, {})
      BY <1>1, <3>1, QuietCapture DEF Bracketed
    <3>3. QED
      BY <1>5, <3>1, <3>2 DEF Capture, Goes
  <2>3. CASE pc \in {"staged", "ita", "unstaged"}
    BY <1>1, <1>5, <2>3, StepIs, QuietPatches
  <2>4. CASE pc = "copy"
    <3>1. Copy /\ opts.withState /\ todo \subseteq Others(parent)
      BY <1>1, <1>5, <2>4, StepIs, ListedAre DEF ListsInv, TodoInv
    <3>2. \A p \in todo : ~CopyEntry(p)
      BY <1>1, <1>5, <2>4, <3>1, QuietCopy
    <3>3. QED
      BY <1>5, <3>1, <3>2 DEF Copy, Goes
  <2>5. CASE pc = "recapture"
    BY <1>2, <1>5, <2>5, StepIs DEF Recapture, Goes
  <2>6. CASE pc = "untouched"
    <3>1. ParentUntouched /\ before = Status(parent, FALSE, {}) /\ agrees
      BY <1>5, <2>6, StepIs DEF ReadInv, EndInv
    <3>2. QED
      BY <1>5, <3>1 DEF ParentUntouched, Goes
  <2>7. CASE pc = "copyIncludes"
    <3>1. CopyIncludes /\ todo \subseteq Others(parent)
      BY <1>5, <2>7, StepIs DEF EndInv
    <3>2. \A p \in todo : ~CopyEntry(p)
      BY <1>1, <1>5, <2>7, <3>1, QuietCopy
    <3>3. QED
      BY <1>5, <2>7, <3>1, <3>2 DEF CopyIncludes, Goes
  <2>8. CASE pc = "strict"
    BY <1>5, <2>8, StepIs DEF RefuseStrict, Goes, run
  <2>9. CASE pc = "finish"
    <3>1. ASSUME NEW r \in skipped
          PROVE  HeldStill(r)
      <4>1. r.path \in Path /\ r.stamp \in Nat /\ stamp[r.path] = 0 /\ r.stamp <= stamp[r.path]
        BY DEF TypeOK, ReadInv, SkipsInv
      <4>2. r.stamp = stamp[r.path]
        BY <4>1
      <4>3. parent.work[r.path] \in {Locked, Nested}
        BY <4>2 DEF SkipsInv
      <4>4. QED
        BY <1>1, <4>1, <4>2, <4>3, CarryableIs, ValuesAre DEF HeldStill
    <3>2. QED
      BY <1>5, <2>9, <3>1, StepIs DEF Finish, Goes
  <2>10. QED
    BY <1>5, <2>1, <2>2, <2>3, <2>4, <2>5, <2>6, <2>7, <2>8, <2>9, StepIs DEF TypeOK, Steps
<1>6. Others(parent)' = Others(parent)
  BY <1>1
<1>7. QED
  BY <1>1, <1>3, <1>4, <1>5, <1>6 DEF EndInv

\* A parent nobody touches is carried as it is, and its fork fails only for
\* --strict or for what the parent holds.
THEOREM QuietInvariant == Spec => []QuietInv
<1>1. Init => QuietInv
  <2> SUFFICES ASSUME Init PROVE ReadInv /\ FillInv /\ EndInv
    BY DEF QuietInv
  <2>1. pc = "status" /\ agrees /\ stamp = [p \in Path |-> 0]
    BY DEF Init
  <2>2. QED
    BY <2>1 DEF ReadInv, FillInv, EndInv, Filled, Copied, Verified
<1>2. CarryInv /\ QuietInv /\ [Next]_vars => QuietInv'
  <2> SUFFICES ASSUME CarryInv, QuietInv, [Next]_vars, edits' = 0, ~Uncarryable'
               PROVE  ReadInv' /\ FillInv' /\ EndInv'
    BY DEF QuietInv
  <2>1. TypeOK /\ ListsInv /\ TodoInv /\ edits = 0 /\ ~Uncarryable
    BY Steady DEF CarryInv
  <2>2. ReadInv /\ FillInv /\ EndInv
    BY <2>1 DEF QuietInv
  <2>3. ReadInv' /\ EndInv'
    BY <2>1, <2>2, ReadStep, EndStep
  <2>4. FillInv'
    <3>1. CASE pc' \in {"staged", "ita", "unstaged", "copy", "compare", "collect", "recapture"}
      BY <2>1, <2>2, <3>1, FillStep
    <3>2. CASE pc' \notin {"staged", "ita", "unstaged", "copy", "compare", "collect", "recapture"}
      BY <3>2 DEF FillInv
    <3>3. QED
      BY <3>1, <3>2
  <2>5. QED
    BY <2>3, <2>4
<1>3. QED
  BY <1>1, <1>2, CarryInvariant, PTL DEF Spec

\* A fork of a parent nobody touched fails only for --strict or for one of the
\* named reasons: no rung raises a false alarm.
THEOREM QuietForksFailForReasons == Spec => []QuietFailuresAreExplained
<1>1. QuietInv => QuietFailuresAreExplained
  BY DEF QuietInv, EndInv, QuietFailuresAreExplained
<1>2. QED
  BY <1>1, QuietInvariant, PTL

-----------------------------------------------------------------------------
\* A status shows a D for what is missing and for nothing else.
LEMMA UnbrokenIs ==
    ASSUME NEW t \in Tree
    PROVE  Unbroken(Status(t, FALSE, {})) <=> Deletions(t) = {}
<1>1. ASSUME NEW p \in Path
      PROVE  p \in Deletions(t) <=> IndexLetter(t, p) = "D" \/ WorkLetter(t, p, FALSE) = "D"
  <2>1. IndexLetter(t, p) = "D" <=> t.head[p] # Absent /\ Visible(t, p) = Absent
    BY DEF IndexLetter
  <2>2. t.index[p] # Absent /\ t.work[p] = Absent <=> p \in Unstaged(t) /\ t.work[p] = Absent
    BY DEF Unstaged
  <2>3. ~(p \in Others(t) /\ p \in Unstaged(t))
    BY DEF Others, Unstaged
  <2>4. WorkLetter(t, p, FALSE) = "D" <=> p \in Unstaged(t) /\ t.work[p] = Absent
    <3>1. CASE p \in Others(t) \ Ignored
      BY <2>3, <3>1 DEF WorkLetter
    <3>2. CASE p \in Others(t) \cap Ignored
      BY <2>3, <3>2 DEF WorkLetter
    <3>3. CASE p \notin Others(t) \cup Unstaged(t)
      BY <3>3 DEF WorkLetter
    <3>4. CASE p \in Unstaged(t) /\ t.work[p] = Absent
      BY <2>3, <3>4 DEF WorkLetter
    <3>5. CASE p \in Unstaged(t) /\ t.work[p] # Absent
      BY <2>3, <3>5 DEF WorkLetter
    <3>6. QED
      BY <3>1, <3>2, <3>3, <3>4, <3>5
  <2>5. QED
    BY <2>1, <2>2, <2>4 DEF Deletions
<1>2. \A p \in Path : /\ Status(t, FALSE, {})[p][1] = IndexLetter(t, p)
                      /\ Status(t, FALSE, {})[p][2] = WorkLetter(t, p, FALSE)
  BY DEF Status
<1>3. Deletions(t) \subseteq Path
  BY DEF Deletions
<1>4. QED
  BY <1>1, <1>2, <1>3 DEF Unbroken

\* What a parent that misses nothing has in its commit it has in its index and
\* on disk, and had there before a commit.
LEMMA NothingMissing ==
    ASSUME TypeOK, Deletions(parent) = {}, NEW p \in Path
    PROVE  /\ parent.head[p] # Absent => parent.index[p] # Absent
           /\ parent.index[p] # Absent => parent.work[p] # Absent
           /\ Edit /\ parent'.head[p] # Absent => parent.index[p] # Absent
<1>1. p \notin Deletions(parent)
  OBVIOUS
<1>2. /\ parent.head[p] # Absent => parent.index[p] # Absent
      /\ parent.index[p] # Absent => parent.work[p] # Absent
  BY <1>1 DEF Deletions, Visible
<1>3. CASE Edit
  <2>1. parent \in Tree
    BY DEF TypeOK
  <2>2. parent'.head[p] = parent.head[p] \/ parent'.head[p] = Visible(parent, p)
    <3>1. CASE Commit
      BY <2>1, <3>1 DEF Commit, Tree
    <3>2. ASSUME NEW q \in Path, Rewrite(q) \/ Index(q) \/ Hide(q)
          PROVE  parent'.head = parent.head
      BY <2>1, <3>2 DEF Rewrite, Index, Hide, Tree
    <3>3. QED
      BY <1>3, <3>1, <3>2 DEF Edit
  <2>3. QED
    BY <1>2, <2>2 DEF Visible
<1>4. QED
  BY <1>2, <1>3

\* The anchor of the child is made once.
LEMMA HeadStays ==
    ASSUME TypeOK, [Next]_vars
    PROVE  Create \/ child'.head = child.head
<1>1. child \in Tree
  BY DEF TypeOK
<1>2. CASE ApplyStaged \/ ApplyIntentToAdd \/ ApplyUnstaged
  BY <1>1, <1>2 DEF ApplyStaged, ApplyIntentToAdd, ApplyUnstaged, Fails, run, Tree
<1>3. CASE (Copy \/ CopyIncludes) /\ pc' # "failed"
  BY <1>1, <1>3, LoopIs DEF LeavesOut, Takes, Tree
<1>4. CASE (Copy \/ CopyIncludes) /\ pc' = "failed"
  BY <1>4, CopyEntryIs DEF Copy, CopyIncludes, Goes, run
<1>5. QED
  BY <1>2, <1>3, <1>4, ReadOnce

\* A capture of a parent that misses nothing misses nothing of the commit.
LEMMA CaptureIsWhole ==
    ASSUME TypeOK, Capture, pc' # "failed", Bracketed, Deletions(parent) = {}, NEW p \in Path,
           parent.index[p] # Absent
    PROVE  CapturedWhole(p)'
<1>1. parent.work[p] # Absent
  BY NothingMissing
<1>2. p \in captured'.paths => captured'.index[p] # Absent /\ captured'.manifest[p] # Absent
  BY <1>1, CaptureIs, ValuesAre DEF IndexRecord
<1>3. p \in Listed' => p \in captured'.paths
  BY CaptureIs DEF Listed, CarriedPaths
<1>4. QED
  BY <1>2, <1>3 DEF CapturedWhole

\* Every step of a fork whose parent is edited once at most leaves nothing of
\* the commit out of the capture, or dooms the fork to fail its last check.
LEMMA WholeStep ==
    ASSUME CarryInv, WholeInv, [Next]_vars
    PROVE  WholeInv'
<1> SUFFICES ASSUME Bracketed', edits' <= 1 PROVE WholeInv'
  BY DEF WholeInv
<1> DEFINE Gone == Deletions(parent)
<1>1. /\ opts' = opts /\ Bracketed /\ opts.withState /\ opts.verify /\ TypeOK /\ parent \in Tree
      /\ edits \in Nat
  BY ControlIs DEF Bracketed, CarryInv, TypeOK
<1>2. inventory = CollectInventory(parent, opts.withState, opts.withIgnored) =>
         inventory.deletions = Gone
  BY <1>1, ListedAre
<1>3. CASE Edit
  <2>1. /\ edits = 0 /\ edits' = 1 /\ pc # "status"
        /\ UNCHANGED <<pc, before, inventory, captured, child, skipped>>
    BY <1>1, <1>3, EditIs DEF TypeOK
  <2>2. /\ before = Status(parent, FALSE, {})
        /\ pc # "inventory" => inventory.deletions = Gone
        /\ ~Doomed
    <3>1. before = Status(parent, FALSE, {})
      BY <1>1, <2>1 DEF WholeInv
    <3>2. pc # "inventory" => inventory = CollectInventory(parent, opts.withState, opts.withIgnored)
      <4>1. SUFFICES ASSUME pc # "inventory"
                     PROVE  inventory = CollectInventory(parent, opts.withState, opts.withIgnored)
        OBVIOUS
      <4>2. pc \notin {"status", "inventory"} /\ edits <= 1
        BY <2>1, <4>1
      <4>3. QED
        BY <1>1, <2>1, <4>2 DEF WholeInv
    <3>3. pc # "inventory" => inventory.deletions = Gone
      BY <1>2, <3>2
    <3>4. ~Doomed
      BY <3>1 DEF Doomed
    <3>5. QED
      BY <3>1, <3>3, <3>4
  <2>3. \A p \in Path : CapturedWhole(p)' <=> CapturedWhole(p)
    BY <2>1 DEF CapturedWhole, Listed
  <2>4. inventory.deletions = {} /\ pc = "capture" => Unbroken(before)
    BY <1>1, <2>2, UnbrokenIs
  <2>5. inventory.deletions = {} /\ pc = "create" =>
           \A p \in Path : parent'.head[p] # Absent => CapturedWhole(p)
    BY <1>1, <1>3, <2>1, <2>2, NothingMissing DEF WholeInv
  <2>6. /\ inventory.deletions = {} /\ pc \in Filled \ {"include"} =>
              \A p \in Path : child.head[p] # Absent => CapturedWhole(p)
        /\ inventory.deletions = {} /\ pc \in Trusted =>
              \A p \in Path : child.head[p] # Absent => CapturedWhole(p)
    BY <1>1, <2>1, <2>2 DEF WholeInv
  <2>7. Unbroken(before)' <=> Unbroken(before)
    BY <2>1 DEF Unbroken
  <2>8. QED
    BY <2>1, <2>3, <2>4, <2>5, <2>6, <2>7 DEF WholeInv
<1>4. CASE ~Edit
  <2>1. UNCHANGED <<parent, edits, opts>> /\ Status(parent, FALSE, {})' = Status(parent, FALSE, {})
    BY <1>1, <1>4, ReadOnce
  <2> DEFINE Fresh == inventory = CollectInventory(parent, opts.withState, opts.withIgnored)
             AllWhole == \A p \in Path : child.head[p] # Absent => CapturedWhole(p)
  <2>2. edits' = 0 /\ pc' # "status" => before' = Status(parent, FALSE, {})
    <3>1. CASE ReadStatus
      BY <3>1 DEF ReadStatus
    <3>2. CASE ~ReadStatus
      BY <1>1, <2>1, <3>2, ReadOnce, StepIs DEF WholeInv
    <3>3. QED
      BY <3>1, <3>2
  <2>3. edits' = 0 /\ pc' \notin {"status", "inventory"} => Fresh'
    <3>1. CASE ReadInventory
      BY <2>1, <3>1 DEF ReadInventory
    <3>2. CASE ~ReadInventory
      <4>1. pc' \notin {"status", "inventory"} => pc \notin {"status", "inventory"}
        BY <1>1, <3>2, ControlIs, StepIs
      <4>2. QED
        BY <1>1, <2>1, <3>2, <4>1, ReadOnce DEF WholeInv
    <3>3. QED
      BY <3>1, <3>2
  <2>4. ASSUME inventory'.deletions = {}, pc' = "capture"
        PROVE  Fresh' \/ Unbroken(before')
    <3>1. CASE ReadInventory
      BY <2>1, <3>1 DEF ReadInventory
    <3>2. CASE ~ReadInventory
      <4>1. pc = "capture"
        BY <1>1, <2>4, <3>2, ControlIs, StepIs
      <4>2. before' = before /\ inventory' = inventory
        BY <1>1, <3>2, <4>1, ReadOnce DEF ReadStatus
      <4>3. QED
        BY <1>1, <2>1, <2>4, <4>1, <4>2 DEF WholeInv
    <3>3. QED
      BY <3>1, <3>2
  <2>5. ASSUME pc' = "create", inventory'.deletions = {}
        PROVE  /\ Doomed' \/ \A p \in Path : parent.head[p] # Absent => CapturedWhole(p)'
               /\ edits' = 0 => \A p \in Path : parent.index[p] # Absent => CapturedWhole(p)'
    <3>1. pc \in {"capture", "create"}
      BY <1>1, <2>5, ControlIs
    <3>2. before' = before /\ inventory' = inventory
      BY <1>1, <3>1, ReadOnce DEF ReadStatus, ReadInventory
    <3>3. CASE pc = "capture"
      <4>1. Capture /\ pc' # "failed"
        BY <1>1, <2>5, <3>3, StepIs
      <4>2. CASE Gone = {}
        BY <1>1, <4>1, <4>2, CaptureIsWhole, NothingMissing
      <4>3. CASE Gone # {}
        <5>1. edits = 1 /\ Unbroken(before)
          <6>1. inventory.deletions = {} /\ edits <= 1
            BY <2>1, <2>5, <3>2
          <6>2. ~Fresh
            BY <1>2, <4>3, <6>1
          <6>3. edits # 0
            BY <1>1, <3>3, <6>1, <6>2 DEF WholeInv
          <6>4. Unbroken(before)
            BY <1>1, <3>3, <6>1, <6>2 DEF WholeInv
          <6>5. QED
            BY <1>1, <6>1, <6>3, <6>4
        <5>2. before # Status(parent, FALSE, {})
          BY <1>1, <4>3, <5>1, UnbrokenIs
        <5>3. QED
          <6>1. edits' = 1 /\ before' # Status(parent, FALSE, {})'
            BY <2>1, <3>2, <5>1, <5>2
          <6>2. Doomed'
            BY <6>1 DEF Doomed
          <6>3. QED
            BY <6>1, <6>2
      <4>4. QED
        BY <4>2, <4>3
    <3>4. CASE pc = "create"
      <4>1. captured' = captured /\ (\A p \in Path : CapturedWhole(p)' <=> CapturedWhole(p))
        <5>1. captured' = captured
          BY <1>1, <3>4, ReadOnce DEF Capture
        <5>2. QED
          BY <3>2, <5>1 DEF CapturedWhole, Listed
      <4>2. Doomed' <=> Doomed
        BY <2>1, <3>2 DEF Doomed
      <4>3. QED
        BY <1>1, <2>1, <2>5, <3>2, <3>4, <4>1, <4>2 DEF WholeInv
    <3>5. QED
      BY <3>1, <3>3, <3>4
  <2>6. ASSUME pc' \in (Filled \ {"include"}) \cup Trusted, inventory'.deletions = {}
        PROVE  /\ pc' \in Filled \ {"include"} => Doomed' \/ AllWhole'
               /\ pc' \in Trusted => AllWhole'
    <3>1. /\ pc \in (Filled \ {"include"}) \cup Trusted \cup {"create"}
          /\ pc = "create" => pc' = "staged" \/ pc' = "create"
      BY <1>1, <2>6, ControlIs DEF Filled, Copied, Verified, Including, Trusted
    <3>2. UNCHANGED <<before, inventory, captured>>
      BY <1>1, <3>1, ReadOnce DEF ReadStatus, ReadInventory, Capture, Filled, Copied, Verified,
         Including, Trusted
    <3>3. /\ \A p \in Path : CapturedWhole(p)' <=> CapturedWhole(p)
          /\ Doomed' <=> Doomed
      BY <2>1, <3>2 DEF CapturedWhole, Listed, Doomed
    <3>4. CASE pc = "create"
      <4>1. pc' = "staged" /\ Create
        BY <1>1, <2>6, <3>1, <3>4, StepIs DEF Filled, Copied, Verified, Including, Trusted
      <4>2. child'.head = parent.head
        BY <4>1 DEF Create
      <4>3. Doomed' \/ AllWhole'
        BY <1>1, <2>1, <2>6, <3>2, <3>3, <3>4, <4>2 DEF WholeInv
      <4>4. QED
        BY <4>1, <4>3 DEF Trusted, Verified
    <3>5. CASE pc # "create"
      <4>1. child'.head = child.head
        BY <1>1, <3>5, HeadStays DEF Create
      <4>2. AllWhole => AllWhole'
        BY <3>3, <4>1
      <4>3. pc \in Trusted => AllWhole
        BY <1>1, <2>1, <2>6, <3>2 DEF WholeInv
      <4>4. pc \in Filled \ {"include"} => Doomed \/ AllWhole
        BY <1>1, <2>1, <2>6, <3>2 DEF WholeInv
      <4>5. CASE pc \in Trusted
        BY <4>2, <4>3, <4>5
      <4>6. CASE pc \notin Trusted /\ pc' \in Trusted
        <5>1. pc = "untouched" /\ pc' = "include"
          BY <1>1, <3>1, <3>5, <4>6, ControlIs DEF Filled, Copied, Verified, Including, Trusted
        <5>2. before = Status(parent, FALSE, {})
          BY <1>1, <5>1, StepIs DEF ParentUntouched, Goes
        <5>3. AllWhole
          BY <4>4, <5>1, <5>2 DEF Doomed, Filled, Copied, Verified, Including, Trusted
        <5>4. QED
          BY <4>2, <5>3
      <4>7. CASE pc \notin Trusted /\ pc' \notin Trusted
        BY <2>6, <3>1, <3>3, <3>5, <4>2, <4>4, <4>7
      <4>8. QED
        BY <4>5, <4>6, <4>7
    <3>6. QED
      BY <3>4, <3>5
  <2>7. QED
    BY <2>1, <2>2, <2>3, <2>4, <2>5, <2>6 DEF WholeInv
<1>5. QED
  BY <1>3, <1>4

\* A fork that passes its checks while its parent is edited once at most, and
\* saw nothing missing, captured everything its commit has.
THEOREM WholeInvariant == Spec => []WholeInv
<1>1. Init => WholeInv
  BY DEF Init, WholeInv, Filled, Copied, Verified, Including, Trusted
<1>2. CarryInv /\ WholeInv /\ [Next]_vars => WholeInv'
  BY WholeStep
<1>3. QED
  BY <1>1, <1>2, CarryInvariant, PTL DEF Spec

\* With no more than one edit meanwhile, a verified fork that skips an entry
\* has every file of its commit: no rename is torn.
THEOREM OneEditTearsNoRename == Spec => []OneEditKeepsRenamesWhole
<1>1. CarryInv /\ WholeInv => OneEditKeepsRenamesWhole
  <2> SUFFICES ASSUME CarryInv, WholeInv, edits <= 1, pc = "done", Bracketed, skipped # {},
                      NEW p \in Path, child.head[p] # Absent
               PROVE  child.work[p] # Absent /\ child.index[p] # Absent
    BY DEF OneEditKeepsRenamesWhole, RenamesStayWhole, Whole
  <2>1. Exact(p)
    BY DEF CarryInv, ExactInv, SkipsInv, Still, Trusted, Verified, Bracketed
  <2>2. inventory.deletions = {}
    BY DEF CarryInv, SkipsInv
  <2>3. CapturedWhole(p)
    BY <2>2 DEF WholeInv, Trusted, Verified
  <2>4. QED
    BY <2>1, <2>3, ValuesAre DEF Exact, EntryOf, IndexOf, WorkOf, IndexRecord, CapturedWhole
<1>2. QED
  BY <1>1, CarryInvariant, WholeInvariant, PTL
=============================================================================
