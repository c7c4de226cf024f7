--------------------------- MODULE SubmoduleCarry ---------------------------
(***************************************************************************)
(* How a fork carries a chain of submodules, each inside the one before:   *)
(* submodules.py with what pipeline.fork, repository.validate_fork_guards  *)
(* and verify.verify_fork do around it.                                    *)
(*                                                                         *)
(* Every checkout is frozen into a plan before the worktree exists; the    *)
(* child's are cloned from the parent's, and both are compared with the    *)
(* plan.  The repository above sees of a submodule only its gitlink: that  *)
(* it is dirty or moved.  Names are keys of .gitmodules: "absent" has no   *)
(* entry there, "equals" is one git's -c option cannot express, and for    *)
(* "rewritten" url.*.insteadOf turns the parent's checkout into another    *)
(* address.                                                                *)
(***************************************************************************)
EXTENDS WorkTree, Naturals

CONSTANTS
    Depth,      \* the length of the chain; level 1 is in the parent's own tree
    Source,     \* the tracked path of every submodule
    Recorded,   \* its content in the commit every gitlink records
    Starts      \* the parents to fork: checkouts, names, and a limit on edits

Level == 1..Depth
Name == {"plain", "equals", "absent", "rewritten"}
Urls == {"none", "own", "other"}

\* "local" is the origin a clone of the parent's checkout is left with.
Checkout == [init : BOOLEAN, urls : Urls \cup {"local"}, tree : Tree]

Committed(c) == [p \in Path |-> IF p = Source THEN c ELSE Absent]
Pristine(head) == [head |-> head, index |-> head, work |-> head, hidden |-> {}]
Nothing == [p \in Path |-> Absent]
Cold == [init |-> FALSE, urls |-> "none", tree |-> Pristine(Nothing)]

\* In a submodule only Source is tracked, and never with --intent-to-add.
Plain(t) == /\ t.hidden = {} /\ t.index[Source] # Ita /\ t.work[Source] # Nested
            /\ \A p \in Path \ {Source} : t.head[p] = Absent /\ t.index[p] = Absent

\* A checkout lies in one that is there, and has the urls it was given.
ASSUME SubmoduleAssumption ==
    /\ Depth \in Nat \ {0} /\ Source \in Path \ Ignored /\ Recorded \in Content
    /\ \A s \in Starts : /\ s.checkouts \in [Level -> Checkout]
                         /\ s.names \in [Level -> Name] /\ s.limit \in Nat
                         /\ \A d \in Level :
                               LET c == s.checkouts[d]
                               IN  /\ Plain(c.tree) /\ c.urls # "local"
                                   /\ c.init => \A e \in 1..d : s.checkouts[e].init

VARIABLES
    parent, child,  \* the checkouts of the chain
    names,          \* their names in .gitmodules
    stamp,          \* per level, the lstat metadata of what is untracked there
    edits, opts,    \* edits to the parent so far; flags and the limit on edits
    pc, at,         \* the next step and the level it is about
    before,         \* what the parent's own tree showed of the gitlink
    plans,          \* the frozen snapshot
    carried, skipped, reasoned,     \* CarryResult
    entrySkips,     \* skip records of single entries: level, path, stamp
    recheck,        \* what verification last listed in the parent
    agrees          \* no rung has failed

run == <<child, at, before, plans, carried, skipped, reasoned, entrySkips,
         recheck, agrees>>
vars == <<parent, names, stamp, edits, opts, pc, run>>

Plan == [init : BOOLEAN, head : [Path -> Content \cup {Absent}], urls : Urls,
         content : CarriedState]
ColdPlan == [init |-> FALSE, head |-> Nothing, urls |-> "none",
             inventory |-> NoInventory, link |-> FALSE, content |-> NoState,
             skips |-> {}]

Steps == {"preflight", "status", "top", "identity", "inventory", "content",
          "create", "carry", "tracked", "untracked", "compareStatus",
          "compareTop", "checkChild", "parentHead", "listAgain",
          "parentContent", "untouched", "finish", "done", "failed"}

Init ==
    /\ \E s \in Starts, verify, strict \in BOOLEAN :
          /\ parent = s.checkouts /\ names = s.names
          /\ opts = [verify |-> verify, strict |-> strict, limit |-> s.limit]
    /\ child = [d \in Level |-> Cold]
    /\ stamp = [d \in Level |-> [p \in Path |-> 0]]
    /\ edits = 0 /\ pc = "preflight" /\ at = 1
    /\ before = [status |-> FALSE, link |-> FALSE]
    /\ plans = [d \in Level |-> ColdPlan]
    /\ carried = {} /\ skipped = {} /\ reasoned = {} /\ entrySkips = {}
    /\ recheck = [inventory |-> NoInventory, link |-> FALSE]
    /\ agrees = TRUE

-----------------------------------------------------------------------------
(* Reading a chain of checkouts.                                            *)

Touched(t) == Staged(t) \cup Unstaged(t) \cup (Others(t) \ Ignored) # {}

\* git reports the gitlink of level d when its checkout left the recorded
\* commit or it, or one below it, holds changes.
LinkShows(chain, d) ==
    \E e \in Level : /\ e >= d /\ chain[e].init
                     /\ \/ chain[e].tree.head # Committed(Recorded)
                        \/ Touched(chain[e].tree)

\* What collect_inventory lists at level d, the gitlink below included.
Listed(chain, d) ==
    [inventory |-> CollectInventory(chain[d].tree, TRUE, FALSE),
     link |-> LinkShows(chain, d + 1)]

Raises(chain, d, listed) == CaptureRaises(chain[d].tree, listed.inventory, {})
Captured(chain, d, listed) == CaptureState(chain[d].tree, listed.inventory, {})

-----------------------------------------------------------------------------
(* The user or an agent in the parent's submodules.  No checkout is removed  *)
(* and no gitlink is staged meanwhile.                                      *)

Becomes(d, tree) == parent' = [parent EXCEPT ![d].tree = tree]

\* In a cold checkout only untracked content can appear.
Write(d) ==
    /\ d > 1 => parent[d - 1].init
    /\ \E p \in Path, w \in Object :
          /\ p = Source => parent[d].init /\ w # Nested
          /\ w # parent[d].tree.work[p]
          /\ Becomes(d, [parent[d].tree EXCEPT !.work[p] = w])
          /\ stamp' = [stamp EXCEPT ![d][p] = @ + 1]

\* git commit --all of the tracked file, or a checkout of another commit.
Move(d) ==
    /\ parent[d].init
    /\ LET t == parent[d].tree
           moves(c) == [t EXCEPT !.head[Source] = c, !.index[Source] = c,
                                 !.work[Source] = c]
       IN  /\ \E c \in Content \ {t.head[Source]} :
                 /\ t.work[Source] = c \/ Unstaged(t) \cup Staged(t) = {}
                 /\ Becomes(d, moves(c))
           /\ UNCHANGED stamp

Stage(d) ==
    /\ parent[d].init /\ parent[d].tree.work[Source] \in Content
    /\ Unstaged(parent[d].tree) # {}
    /\ Becomes(d, [parent[d].tree EXCEPT !.index[Source] =
                        parent[d].tree.work[Source]])
    /\ UNCHANGED stamp

Initialize(d) ==
    /\ ~parent[d].init /\ parent[d].tree.work = Nothing
    /\ d > 1 => parent[d - 1].init
    /\ parent' = [parent EXCEPT ![d] = [init |-> TRUE, urls |-> "own",
                                        tree |-> Pristine(Committed(Recorded))]]
    /\ UNCHANGED stamp

SetUrl(d) ==
    /\ parent[d].init
    /\ \E u \in Urls \ {parent[d].urls} : parent' = [parent EXCEPT ![d].urls = u]
    /\ UNCHANGED stamp

Edit ==
    /\ pc \notin {"done", "failed"} /\ edits < opts.limit
    /\ edits' = edits + 1
    /\ \E d \in Level : Write(d) \/ Move(d) \/ Stage(d) \/ Initialize(d) \/ SetUrl(d)
    /\ UNCHANGED <<names, opts, pc, run>>

-----------------------------------------------------------------------------
Parent == UNCHANGED <<parent, names, stamp, edits, opts>>
Goes(to) == pc' = to
Fails == pc' = "failed" /\ UNCHANGED run

ColdContent(d) == /\ ~parent[d].init /\ parent[d].tree.work # Nothing
                  /\ d > 1 => parent[d - 1].init
Untransportable(d) == parent[d].init /\ names[d] \in {"absent", "rewritten"}

\* inspect_submodule_preflight, before anything is made.
Preflight ==
    /\ pc = "preflight" /\ Parent
    /\ IF \E d \in Level : ColdContent(d) \/ Untransportable(d)
       THEN Fails ELSE Goes("status") /\ UNCHANGED run

ReadStatus ==
    /\ pc = "status" /\ Parent /\ Goes("top")
    /\ before' = [before EXCEPT !.status = LinkShows(parent, 1)]
    /\ UNCHANGED <<child, at, plans, carried, skipped, reasoned, entrySkips,
                   recheck, agrees>>

\* The parent's own inventory and capture, as far as the gitlink goes.
ReadTop ==
    /\ pc = "top" /\ Parent /\ Goes("identity")
    /\ before' = [before EXCEPT !.link = LinkShows(parent, 1)]
    /\ UNCHANGED <<child, at, plans, carried, skipped, reasoned, entrySkips,
                   recheck, agrees>>

-----------------------------------------------------------------------------
(* snapshot_submodules: whether the checkout is there, its commit and urls;  *)
(* then its inventory; then its content; then the next level.                *)

SnapshotIdentity ==
    /\ pc = "identity" /\ Parent
    /\ IF parent[at].init
       THEN /\ plans' = [plans EXCEPT ![at].init = TRUE,
                                      ![at].head = parent[at].tree.head,
                                      ![at].urls = parent[at].urls]
            /\ Goes("inventory")
       ELSE Goes("create") /\ UNCHANGED plans
    /\ UNCHANGED <<child, at, before, carried, skipped, reasoned, entrySkips,
                   recheck, agrees>>

SnapshotInventory ==
    /\ pc = "inventory" /\ Parent /\ Goes("content")
    /\ LET listed == Listed(parent, at)
       IN  plans' = [plans EXCEPT ![at].inventory = listed.inventory,
                                  ![at].link = listed.link]
    /\ UNCHANGED <<child, at, before, carried, skipped, reasoned, entrySkips,
                   recheck, agrees>>

\* Entries left out, with their sentinels.
SkipRecords(paths) ==
    {[level |-> at, path |-> p, stamp |-> stamp[at][p]] : p \in paths}

\* Unlike the parent's own, this capture is made without --verify too.
SnapshotContent ==
    /\ pc = "content" /\ Parent
    /\ \/ Raises(parent, at, plans[at]) /\ Fails
       \/ /\ ~Raises(parent, at, plans[at])
          /\ plans' = [plans EXCEPT
                ![at].content = Captured(parent, at, plans[at]),
                ![at].skips = SkipRecords(
                    Unreadable(parent[at].tree, plans[at].inventory, {}))]
          /\ IF at < Depth THEN Goes("identity") /\ at' = at + 1
                           ELSE Goes("create") /\ UNCHANGED at
          /\ UNCHANGED <<child, before, carried, skipped, reasoned, entrySkips,
                         recheck, agrees>>

\* git worktree add: every submodule of the child is cold.
Create ==
    /\ pc = "create" /\ Parent /\ Goes("carry") /\ at' = 1
    /\ UNCHANGED <<child, before, plans, carried, skipped, reasoned, entrySkips,
                   recheck, agrees>>

-----------------------------------------------------------------------------
(* _carry_one.                                                              *)

AfterCarry == IF opts.verify THEN "compareStatus" ELSE "finish"

\* A cold plan, and one whose name cannot be overridden, end the descent.
LeaveCold ==
    /\ pc = "carry" /\ Parent
    /\ ~plans[at].init \/ names[at] = "equals"
    /\ skipped' = skipped \cup {at}
    /\ reasoned' = IF plans[at].init THEN reasoned \cup {at} ELSE reasoned
    /\ Goes(AfterCarry) /\ at' = 1
    /\ UNCHANGED <<child, before, plans, carried, entrySkips, recheck, agrees>>

\* Mutants: an origin the parent has not is kept; the recorded commit is left.
KeptUrls(plan) == IF plan.urls = "none" THEN "local" ELSE plan.urls
RecordedHead(plan) == Committed(Recorded)

RestoredUrls(plan) == plan.urls
DetachedHead(plan) == plan.head

\* git submodule update --init from the parent's checkout, the urls, the
\* commit: all of it from the plan, in a tree nobody else is in yet.
Populate ==
    /\ pc = "carry" /\ Parent
    /\ plans[at].init /\ names[at] # "equals"
    /\ \/ names[at] # "plain" /\ Fails
       \/ /\ names[at] = "plain"
          /\ child' = [child EXCEPT ![at] =
                [init |-> TRUE, urls |-> RestoredUrls(plans[at]),
                 tree |-> Pristine(DetachedHead(plans[at]))]]
          /\ Goes("tracked")
          /\ UNCHANGED <<at, before, plans, carried, skipped, reasoned,
                         entrySkips, recheck, agrees>>

\* materialize: the patches are made from the parent as it is now.
Indexed(from, to) ==
    [to EXCEPT !.index = [p \in Path |-> IF p \in Staged(from)
                                         THEN from.index[p] ELSE @[p]],
               !.work = [p \in Path |-> IF p \in Staged(from)
                                        THEN from.index[p] ELSE @[p]]]
Worked(from, to) ==
    [to EXCEPT !.work = [p \in Path |-> IF p \in Unstaged(from)
                                        THEN from.work[p] ELSE @[p]]]
StagedFits(from, to) ==
    \A p \in Staged(from) : to.index[p] = from.head[p] /\ to.work[p] = from.head[p]
UnstagedFits(from, to) ==
    \A p \in Unstaged(from) : from.work[p] # Locked /\ to.work[p] = from.index[p]

TransportTracked ==
    LET from == parent[at].tree
        to == child[at].tree
        fits == StagedFits(from, to) /\ UnstagedFits(from, Indexed(from, to))
    IN  /\ pc = "tracked" /\ Parent
        /\ \/ ~fits /\ Fails
           \/ /\ fits
              /\ child' = [child EXCEPT ![at].tree = Worked(from, Indexed(from, to))]
              /\ Goes("untracked")
              /\ UNCHANGED <<at, before, plans, carried, skipped, reasoned,
                             entrySkips, recheck, agrees>>

\* The untracked entries of the plan but those its capture skipped; then the
\* nested plan, if there is one.
ToCopy == plans[at].inventory.untracked \ {r.path : r \in plans[at].skips}
Uncopyable == {p \in ToCopy : parent[at].tree.work[p] \in {Locked, Nested}}

Descend == IF at < Depth THEN "carry" ELSE AfterCarry

CopyUntracked ==
    /\ pc = "untracked" /\ Parent
    /\ \/ /\ \/ \E p \in ToCopy : parent[at].tree.work[p] = Absent
             \/ Uncopyable # {} /\ plans[at].inventory.deletions # {}
          /\ Fails
       \/ /\ \A p \in ToCopy : parent[at].tree.work[p] # Absent
          /\ Uncopyable = {} \/ plans[at].inventory.deletions = {}
          /\ child' = [child EXCEPT ![at].tree.work =
                [p \in Path |-> IF p \in ToCopy \ Uncopyable
                                THEN parent[at].tree.work[p] ELSE @[p]]]
          /\ entrySkips' = entrySkips \cup plans[at].skips \cup SkipRecords(Uncopyable)
          /\ carried' = carried \cup {at}
          /\ Goes(Descend)
          /\ at' = IF Descend = "carry" THEN at + 1 ELSE 1
          /\ UNCHANGED <<before, plans, skipped, reasoned, recheck, agrees>>

-----------------------------------------------------------------------------
(* verify_fork about the gitlink, then verify_submodules level by level.    *)
(* A gitlink with a skipped entry anywhere below is left to the latter.     *)

Delegated == entrySkips # {}

CompareStatus ==
    /\ pc = "compareStatus" /\ Parent /\ Goes("compareTop")
    /\ agrees' = (agrees /\ (Delegated \/ LinkShows(child, 1) = LinkShows(parent, 1)))
    /\ UNCHANGED <<child, at, before, plans, carried, skipped, reasoned,
                   entrySkips, recheck>>

CompareTop ==
    /\ pc = "compareTop" /\ Parent /\ Goes("checkChild")
    /\ agrees' = /\ agrees
                 /\ \/ Delegated
                    \/ before.link = LinkShows(parent, 1) /\ before.link = LinkShows(child, 1)
    /\ UNCHANGED <<child, at, before, plans, carried, skipped, reasoned,
                   entrySkips, recheck>>

\* Mutant: the child is not compared.
ChildTaken(d) == TRUE

Agree(plan, listed, state) == plan.link = listed.link /\ Same(plan.content, state)

\* Rungs 2, 4 and 5 of a child that is there, and its urls.
ChildAgrees(d) ==
    LET listed == Listed(child, d)
    IN  /\ child[d].tree.head = plans[d].head
        /\ child[d].urls = plans[d].urls
        /\ Agree(plans[d], listed, Captured(child, d, listed))

\* Rungs 1 and 6 first: a plan that was left cold ends the descent, and the
\* child must be cold there too.
CheckChild ==
    /\ pc = "checkChild" /\ Parent
    /\ LET excused == at \in reasoned \/ ~plans[at].init
           there == at \notin skipped /\ child[at].init
       IN  /\ agrees' = (agrees /\ IF excused THEN ~child[at].init
                                  ELSE there /\ ChildAgrees(at))
           /\ Goes(IF ~excused /\ there THEN "parentHead" ELSE "untouched")
    /\ UNCHANGED <<child, at, before, plans, carried, skipped, reasoned,
                   entrySkips, recheck>>

\* Rung 7, three reads of the parent's checkout.
CheckParentHead ==
    /\ pc = "parentHead" /\ Parent /\ Goes("listAgain")
    /\ agrees' = (agrees /\ parent[at].tree.head = plans[at].head)
    /\ UNCHANGED <<child, at, before, plans, carried, skipped, reasoned,
                   entrySkips, recheck>>

ListAgain ==
    /\ pc = "listAgain" /\ Parent /\ Goes("parentContent")
    /\ recheck' = Listed(parent, at)
    /\ UNCHANGED <<child, at, before, plans, carried, skipped, reasoned,
                   entrySkips, agrees>>

ParentAgrees == Agree(plans[at], recheck, Captured(parent, at, recheck))

CheckParentContent ==
    /\ pc = "parentContent" /\ Parent
    /\ \/ Raises(parent, at, recheck) /\ Fails
       \/ /\ ~Raises(parent, at, recheck)
          /\ agrees' = (agrees /\ ParentAgrees)
          /\ IF at < Depth THEN Goes("checkChild") /\ at' = at + 1
                           ELSE Goes("untouched") /\ UNCHANGED at
          /\ UNCHANGED <<child, before, plans, carried, skipped, reasoned,
                         entrySkips, recheck>>

ParentUntouched ==
    /\ pc = "untouched" /\ Parent /\ UNCHANGED run
    /\ Goes(IF agrees /\ before.status = LinkShows(parent, 1)
            THEN "finish" ELSE "failed")

\* --strict, then _recheck_skips after the setup hook, on qualified paths.
HeldStill(r) == /\ parent[r.level].tree.work[r.path] # Absent
                /\ stamp[r.level][r.path] = r.stamp

Finish ==
    /\ pc = "finish" /\ Parent /\ UNCHANGED run
    /\ Goes(IF /\ opts.strict => entrySkips = {}
               /\ \A r \in entrySkips : HeldStill(r)
            THEN "done" ELSE "failed")

Next ==
    \/ Edit
    \/ Preflight \/ ReadStatus \/ ReadTop
    \/ SnapshotIdentity \/ SnapshotInventory \/ SnapshotContent \/ Create
    \/ LeaveCold \/ Populate \/ TransportTracked \/ CopyUntracked
    \/ CompareStatus \/ CompareTop \/ CheckChild
    \/ CheckParentHead \/ ListAgain \/ CheckParentContent
    \/ ParentUntouched \/ Finish

Spec == Init /\ [][Next]_vars

-----------------------------------------------------------------------------
(* Properties.                                                              *)

\* A verified fork has every carried submodule at the commit, with the urls
\* and with the contents that were frozen, whatever the parent's checkouts
\* went through meanwhile; what was skipped in it is as in its commit.
VerifiedSubmodulesAreExact ==
    pc = "done" /\ opts.verify => \A d \in carried :
        LET plan == plans[d]
            held == plan.content.paths
            tree == child[d].tree
        IN  /\ tree.head = plan.head /\ child[d].urls = plan.urls
            /\ tree.index = [p \in Path |-> IF p \in held THEN plan.content.index[p]
                                            ELSE plan.head[p]]
            /\ tree.work = [p \in Path |-> IF p \in held THEN plan.content.manifest[p]
                                           ELSE plan.head[p]]

\* Verified or not, every submodule that was in use is in the fork or is
\* named, or lies inside one that is named; none is in the fork that was not
\* in use; none keeps the origin that points into this machine; and what lay
\* in a cold checkout of a parent nobody touched was not lost.
SubmodulesAreAccountedFor ==
    pc = "done" =>
        /\ \A d \in Level :
              /\ child[d].init <=> d \in carried
              /\ plans[d].init => d \in carried \/ \E e \in skipped : e <= d
              /\ child[d].urls # "local"
        /\ edits = 0 => \A d \in Level : /\ plans[d].init <=> parent[d].init
                                         /\ ~ColdContent(d)

\* Submodules nobody touched fail to be carried only for these reasons: what
\* preflight refuses, what cannot be read, an untracked repository, changes
\* in or under a submodule whose name rules it out, and, one level down, an
\* entry that was skipped: verify_submodules compares the gitlinks between
\* two submodules, although the skip is what makes them differ and
\* README.md:782 promises the carry "at every nesting depth".
LocallyUncarryable(d) ==
    LET t == parent[d].tree
    IN  \/ t.work[Source] = Locked
        \/ \E p \in Path : t.work[p] \in {Locked, Nested} /\ Deletions(t) # {}
        \/ \E p \in Path : t.work[p] = Nested /\ opts.verify
SkipBelowTheFirst == opts.verify /\ \E r \in entrySkips : r.level > 1
ChangedUnderEquals == /\ opts.verify
                      /\ \E d \in Level : names[d] = "equals" /\ LinkShows(parent, d)
QuietFailuresAreExplained ==
    pc = "failed" /\ edits = 0 =>
        \/ \E d \in Level : ColdContent(d) \/ Untransportable(d) \/ LocallyUncarryable(d)
        \/ opts.strict /\ entrySkips # {}
        \/ ChangedUnderEquals
        \/ SkipBelowTheFirst
=============================================================================
