----------------------------- MODULE StateCarry -----------------------------
(***************************************************************************)
(* One fork as it carries the parent's uncommitted state into the child    *)
(* and judges the result: pipeline.fork from its first git status to the   *)
(* registry entry, with content.py, materialize.py, verify.py and the      *)
(* .worktreeinclude copy of include.py.                                    *)
(*                                                                         *)
(* The parent is in use while it is forked.  Between any two steps its     *)
(* files, index and commit may change; the code reads them live and more   *)
(* than once, so what it verifies need not be what it copied.  The steps   *)
(* are the git commands and the per-file copies, each seeing one state of  *)
(* the parent.  A failure ends the run: what rollback does is ForkSystem.  *)
(***************************************************************************)
EXTENDS WorkTree, Naturals

CONSTANT
    Starts      \* the parents to fork, each with the paths .worktreeinclude
                \* matches and a limit on the edits meanwhile

ASSUME CarryAssumption ==
    \A s \in Starts : s.parent \in Tree /\ s.included \subseteq Path /\ s.limit \in Nat

VARIABLES
    parent,     \* the parent's tree
    stamp,      \* per path, the lstat metadata a sentinel compares
    edits,      \* edits made to the parent since the fork began
    opts,       \* the flags of the fork, what it includes, the limit on edits
    pc,         \* the next step of the fork
    before,     \* parent_status
    inventory, captured,        \* read before the worktree exists
    child,      \* the child's tree; its head is the anchor
    todo,       \* paths the current copy loop has not reached
    skipped,    \* the skip records: [path, stamp]
    recheck,    \* the inventory verification resolves again
    agrees      \* no rung of the ladder has failed

run == <<before, inventory, captured, child, todo, skipped, recheck, agrees>>
vars == <<parent, stamp, edits, opts, pc, run>>

Skipped == {r.path : r \in skipped}
Record(p) == [path |-> p, stamp |-> stamp[p]]
Bracketed == opts.verify /\ opts.withState

Flags == {f \in [withState : BOOLEAN, withIgnored : BOOLEAN,
                 verify : BOOLEAN, strict : BOOLEAN] : f.withIgnored => f.withState}

Steps == {"status", "inventory", "capture", "create", "staged", "ita",
          "unstaged", "copy", "compare", "collect", "recapture", "untouched",
          "include", "copyIncludes", "strict", "hook", "finish", "done", "failed"}

NoTree == [head |-> [p \in Path |-> Absent], index |-> [p \in Path |-> Absent],
           work |-> [p \in Path |-> Absent], hidden |-> {}]

Init ==
    /\ \E s \in Starts, f \in Flags :
          /\ parent = s.parent
          /\ opts = [withState |-> f.withState, withIgnored |-> f.withIgnored,
                     verify |-> f.verify, strict |-> f.strict,
                     included |-> s.included, limit |-> s.limit]
    /\ edits = 0
    /\ stamp = [p \in Path |-> 0]
    /\ pc = "status"
    /\ before = Status(NoTree, FALSE, {})
    /\ inventory = NoInventory /\ recheck = NoInventory
    /\ captured = NoState
    /\ child = NoTree
    /\ todo = {} /\ skipped = {}
    /\ agrees = TRUE

-----------------------------------------------------------------------------
(* The user, an agent, and during "hook" the setup hook, at work in the     *)
(* parent.                                                                  *)

\* Any write, chmod or removal on disk changes the metadata; a tracked path
\* stays a file, and an untracked repository appears only where nothing is.
Rewrite(p) ==
    /\ p \notin parent.hidden
    /\ \E w \in IF parent.index[p] = Absent THEN Object
                ELSE Content \cup {Absent, Locked} :
          parent' = [parent EXCEPT !.work[p] = w]
    /\ stamp' = [stamp EXCEPT ![p] = @ + 1]

\* git add, git add -N, git reset -N and git rm --cached.
Index(p) ==
    /\ p \notin parent.hidden
    /\ \E i \in Content \cup {Absent, Ita} :
          /\ i # parent.index[p]
          /\ i \in Content => i = parent.work[p]
          /\ i = Ita => IF parent.index[p] = Absent THEN parent.work[p] \in Content
                                                    ELSE parent.head[p] = Absent
          /\ parent' = [parent EXCEPT !.index[p] = i]
    /\ UNCHANGED stamp

Commit ==
    /\ Staged(parent) # {}
    /\ parent' = [parent EXCEPT !.head = [p \in Path |-> Visible(parent, p)]]
    /\ UNCHANGED stamp

\* chmod of the directory an untracked file is in: lstat fails or works again.
Hide(p) ==
    /\ p \in Others(parent)
    /\ parent' = [parent EXCEPT !.hidden =
                    IF p \in @ THEN @ \ {p} ELSE @ \cup {p}]
    /\ UNCHANGED stamp

Edit ==
    /\ pc \notin {"status", "done", "failed"}
    /\ edits < opts.limit
    /\ edits' = edits + 1
    /\ \/ Commit
       \/ \E p \in Path : Rewrite(p) \/ Index(p) \/ Hide(p)
    /\ UNCHANGED <<opts, pc, run>>

-----------------------------------------------------------------------------
Parent == UNCHANGED <<parent, stamp, edits, opts>>

Goes(to) == pc' = to
Fails == pc' = "failed" /\ UNCHANGED run

\* The short status of the whole parent.
ReadStatus ==
    /\ pc = "status"
    /\ before' = Status(parent, FALSE, {})
    /\ Goes("inventory")
    /\ Parent
    /\ UNCHANGED <<inventory, captured, child, todo, skipped, recheck, agrees>>

ReadInventory ==
    /\ pc = "inventory"
    /\ inventory' = CollectInventory(parent, opts.withState, opts.withIgnored)
    /\ Goes("capture")
    /\ Parent
    /\ UNCHANGED <<before, captured, child, todo, skipped, recheck, agrees>>

\* capture_state with nothing known to be skipped; not called without --verify.
Capture ==
    /\ pc = "capture" /\ Parent
    /\ \/ /\ Bracketed /\ CaptureRaises(parent, inventory, {}) /\ Fails
       \/ /\ Bracketed /\ ~CaptureRaises(parent, inventory, {})
          /\ captured' = CaptureState(parent, inventory, {})
          /\ skipped' = {Record(p) : p \in Unreadable(parent, inventory, {})}
          /\ Goes("create")
          /\ UNCHANGED <<before, inventory, child, todo, recheck, agrees>>
       \/ ~Bracketed /\ Goes("create") /\ UNCHANGED run

\* git worktree add at the parent's HEAD.
Create ==
    /\ pc = "create" /\ Parent
    /\ child' = [head |-> parent.head, index |-> parent.head,
                 work |-> parent.head, hidden |-> {}]
    /\ Goes(IF opts.withState THEN "staged"
            ELSE IF opts.verify THEN "compare" ELSE "include")
    /\ UNCHANGED <<before, inventory, captured, todo, skipped, recheck, agrees>>

-----------------------------------------------------------------------------
(* materialize: the tracked facets travel in patches made from the parent   *)
(* as it is now, the others by copying the paths of the inventory.          *)

\* git apply --index wants the patch's old side in the child's index and tree.
ApplyStaged ==
    LET patch == Staged(parent)
        fits == \A p \in patch : /\ child.index[p] = parent.head[p]
                                 /\ child.work[p] = parent.head[p]
    IN  /\ pc = "staged" /\ Parent
        /\ \/ ~fits /\ Fails
           \/ /\ fits
              /\ child' = [child EXCEPT
                    !.index = [p \in Path |-> IF p \in patch
                                   THEN Visible(parent, p) ELSE @[p]],
                    !.work = [p \in Path |-> IF p \in patch
                                   THEN Visible(parent, p) ELSE @[p]]]
              /\ Goes("ita")
              /\ UNCHANGED <<before, inventory, captured, todo, skipped, recheck, agrees>>

\* The old side of an unstaged patch.  An intent-to-add entry is nothing when
\* the file is there and an empty file to delete when it is not.
OldSide(p) == IF parent.index[p] = Ita /\ parent.work[p] # Absent
              THEN Absent ELSE IndexRecord(parent, p)

Fits(patch) == \A p \in patch : parent.work[p] # Locked /\ child.work[p] = OldSide(p)

Patched(patch) ==
    [p \in Path |-> IF p \in patch THEN parent.work[p] ELSE child.work[p]]

\* git add --intent-to-add in the child refuses a path that is not there.
ApplyIntentToAdd ==
    LET patch == Unstaged(parent) \cap inventory.ita
        fits == /\ Fits(patch)
                /\ \A p \in inventory.ita : Patched(patch)[p] # Absent
    IN  /\ pc = "ita" /\ Parent
        /\ \/ ~fits /\ Fails
           \/ /\ fits
              /\ child' = [child EXCEPT
                    !.work = Patched(patch),
                    !.index = [p \in Path |-> IF p \in inventory.ita /\ @[p] = Absent
                                              THEN Ita ELSE @[p]]]
              /\ Goes("unstaged")
              /\ UNCHANGED <<before, inventory, captured, todo, skipped, recheck, agrees>>

\* Mutant of ToCopy: the loop lists what is there now.
ToCopyNow == ((inventory.untracked \cup inventory.ignored) \ Skipped) \cap Others(parent)

ToCopy == (inventory.untracked \cup inventory.ignored) \ Skipped

ApplyUnstaged ==
    LET patch == Unstaged(parent) \ inventory.ita
    IN  /\ pc = "unstaged" /\ Parent
        /\ \/ ~Fits(patch) /\ Fails
           \/ /\ Fits(patch)
              /\ child' = [child EXCEPT !.work = Patched(patch)]
              /\ todo' = ToCopy
              /\ Goes("copy")
              /\ UNCHANGED <<before, inventory, captured, skipped, recheck, agrees>>

\* What both copy loops do with one path of the parent.
CopyEntry(p) ==
    /\ \/ /\ \/ p \in parent.hidden
             \/ parent.work[p] = Absent
             \/ parent.work[p] \in {Locked, Nested} /\ inventory.deletions # {}
          /\ Fails
       \/ /\ p \notin parent.hidden
          /\ parent.work[p] \in {Locked, Nested} /\ inventory.deletions = {}
          /\ skipped' = skipped \cup {Record(p)}
          /\ todo' = todo \ {p}
          /\ UNCHANGED <<pc, before, inventory, captured, child, recheck, agrees>>
       \/ /\ p \notin parent.hidden
          /\ parent.work[p] \in Content
          /\ child' = [child EXCEPT !.work[p] = parent.work[p]]
          /\ todo' = todo \ {p}
          /\ UNCHANGED <<pc, before, inventory, captured, skipped, recheck, agrees>>

Copy ==
    /\ pc = "copy" /\ Parent
    /\ \/ \E p \in todo : CopyEntry(p)
       \/ /\ todo = {}
          /\ Goes(IF opts.verify THEN "compare" ELSE "include")
          /\ UNCHANGED run

-----------------------------------------------------------------------------
(* verify_fork.  A rung that disagrees is remembered and the rest still     *)
(* runs, so a later read of the parent may raise instead.                   *)

\* Mutant: the skipped entries stay in the comparison.
ExcludeNothing == {}

\* A skipped entry is in the parent and not in the child by design.
StatusExclusions == Skipped

CompareStatus ==
    LET status(t) == Status(t, opts.withIgnored, StatusExclusions)
        same == IF opts.withState THEN status(child) = status(parent)
                ELSE \A p \in DOMAIN status(child) : status(child)[p] = Clean
    IN  /\ pc = "compare" /\ Parent
        /\ agrees' = (agrees /\ same)
        /\ Goes(IF opts.withState THEN "collect" ELSE "untouched")
        /\ UNCHANGED <<before, inventory, captured, child, todo, skipped, recheck>>

CollectAgain ==
    /\ pc = "collect" /\ Parent
    /\ recheck' = CollectInventory(parent, opts.withState, opts.withIgnored)
    /\ Goes("recapture")
    /\ UNCHANGED <<before, inventory, captured, child, todo, skipped, agrees>>

\* The parent read again and the child, both against the first snapshot.
\* Nobody else works in the child yet.
Recapture ==
    LET childInventory == CollectInventory(child, opts.withState, opts.withIgnored)
    IN  /\ pc = "recapture" /\ Parent
        /\ \/ CaptureRaises(parent, recheck, Skipped) /\ Fails
           \/ /\ ~CaptureRaises(parent, recheck, Skipped)
              /\ agrees' = /\ agrees
                           /\ Same(captured, CaptureState(parent, recheck, Skipped))
                           /\ Same(captured, CaptureState(child, childInventory, Skipped))
              /\ Goes("untouched")
              /\ UNCHANGED <<before, inventory, captured, child, todo, skipped, recheck>>

ParentUntouched ==
    /\ pc = "untouched" /\ Parent
    /\ Goes(IF agrees /\ before = Status(parent, FALSE, {})
            THEN "include" ELSE "failed")
    /\ UNCHANGED run

-----------------------------------------------------------------------------
\* copy_worktree_includes lists the ignored files once, then copies the ones
\* that match, were not skipped before and are not in the child.
ListIncludes ==
    /\ pc = "include" /\ Parent
    /\ todo' = (Others(parent) \cap Ignored \cap opts.included) \ Skipped
    /\ Goes("copyIncludes")
    /\ UNCHANGED <<before, inventory, captured, child, skipped, recheck, agrees>>

CopyIncludes ==
    /\ pc = "copyIncludes" /\ Parent
    /\ \/ \E p \in todo :
             \/ child.work[p] = Absent /\ CopyEntry(p)
             \/ /\ child.work[p] # Absent
                /\ todo' = todo \ {p}
                /\ UNCHANGED <<pc, before, inventory, captured, child, skipped,
                               recheck, agrees>>
       \/ todo = {} /\ Goes("strict") /\ UNCHANGED run

RefuseStrict ==
    /\ pc = "strict" /\ Parent
    /\ Goes(IF opts.strict /\ skipped # {} THEN "failed" ELSE "hook")
    /\ UNCHANGED run

\* run_setup_hook (SetupHook); what it does to the parent is Edit.
Hook == pc = "hook" /\ Parent /\ Goes("finish") /\ UNCHANGED run

\* Mutant: a sentinel of presence alone.
StillThere(r) == r.path \notin parent.hidden /\ parent.work[r.path] # Absent

\* _recheck_skips, then the registry entry.
HeldStill(r) == /\ r.path \notin parent.hidden
                /\ parent.work[r.path] # Absent
                /\ stamp[r.path] = r.stamp

Finish ==
    /\ pc = "finish" /\ Parent
    /\ Goes(IF \A r \in skipped : HeldStill(r) THEN "done" ELSE "failed")
    /\ UNCHANGED run

Next ==
    \/ Edit
    \/ ReadStatus \/ ReadInventory \/ Capture \/ Create
    \/ ApplyStaged \/ ApplyIntentToAdd \/ ApplyUnstaged \/ Copy
    \/ CompareStatus \/ CollectAgain \/ Recapture \/ ParentUntouched
    \/ ListIncludes \/ CopyIncludes \/ RefuseStrict \/ Hook \/ Finish

Spec == Init /\ [][Next]_vars

-----------------------------------------------------------------------------
(* Properties.                                                              *)

\* A verified fork is the parent as it was captured, whatever was edited
\* meanwhile: every carried path has the captured content and index record,
\* every other one is as in the commit.  Three things are excepted.  A record
\* does not tell an intent-to-add entry from an empty file that is staged: git
\* status does, in the two moments it is read, and the fork may have the one
\* where the parent had the other.  An ignored path may hold a file where none
\* was: an include put it there or, when ignored paths are not carried and so are
\* looked at by nobody, a patch made while it was intent-to-add in the parent.  A
\* skipped one may be absent although the commit has it: no rung looks at it, and
\* a patch deletes it when it was committed, untracked and closed between the
\* inventory and the capture.
VerifiedForkIsExact ==
    pc = "done" /\ opts.verify =>
        \A p \in Path :
            LET carried == p \in captured.paths
                index == IF carried THEN captured.index[p] ELSE child.head[p]
                work == IF carried THEN captured.manifest[p] ELSE child.head[p]
            IN  \/ /\ (IF carried THEN IndexRecord(child, p) ELSE child.index[p]) = index
                   /\ \/ child.work[p] = work
                      \/ /\ work = Absent /\ p \in Ignored \ Skipped
                         /\ p \in opts.included \/ (Bracketed /\ ~opts.withIgnored)
                \/ p \in Skipped /\ child.index[p] = Absent /\ child.work[p] = Absent

\* With or without verification, every untracked or ignored entry listed at
\* the start is in the fork or is named as skipped.
NothingIsOmittedSilently ==
    pc = "done" => \A p \in inventory.untracked \cup inventory.ignored :
                        child.work[p] # Absent \/ p \in Skipped

\* What a finished fork names as skipped still cannot be copied: nothing that
\* became readable during the fork, the setup hook included, was left out.
SkippedEntriesStayUncopyable ==
    pc = "done" => \A p \in Skipped : parent.work[p] \in {Locked, Nested}

\* A fork that skips an entry has every file of its commit: the skipped entry
\* is never the new half of a rename whose old half is gone.  content.py:66
\* wants no skip while a deletion is carried, but looks for deletions in the
\* inventory only, and the snapshot is taken later.
Whole(p) == child.head[p] # Absent => /\ child.work[p] # Absent
                                      /\ child.index[p] # Absent
RenamesStayWhole ==
    pc = "done" /\ Bracketed /\ skipped # {} => \A p \in Path : Whole(p)

\* What does hold: no single edit breaks it.  It takes a file that is missing
\* in the first status, back in the inventory, and missing again.
OneEditKeepsRenamesWhole == edits <= 1 => RenamesStayWhole

\* A parent nobody touched fails to fork only for these reasons.  Two of them
\* need not be: an untracked repository under verification is no more than an
\* entry that cannot be copied, for which README.md:510 promises no failure; and
\* an ignored file that git rm --cached took out of the index is in the snapshot
\* as staged while nothing carries it without --with-ignored, although
\* content.py:284 wants one domain for transport and verification.
Uncarryable ==
    \E p \in Path :
        \/ p \in parent.hidden
        \/ parent.index[p] # Absent /\ parent.work[p] = Locked
        \/ parent.work[p] \in {Locked, Nested} /\ Deletions(parent) # {}
        \/ parent.work[p] = Nested /\ Bracketed
        \/ parent.index[p] = Ita /\ parent.work[p] = Absent
        \/ parent.index[p] = Ita /\ parent.head[p] # Absent /\ opts.verify
        \/ /\ p \in Others(parent) \cap Ignored \cap Staged(parent)
           /\ Bracketed /\ ~opts.withIgnored
QuietFailuresAreExplained ==
    pc = "failed" /\ edits = 0 =>
        \/ opts.strict /\ skipped # {}
        \/ Uncarryable
=============================================================================
