------------------------ MODULE SubmoduleCarryProofs ------------------------
(***************************************************************************)
(* That the submodules of a fork are what they were when they were frozen, *)
(* and that none is lost without a word, for a chain of any depth, any     *)
(* paths and contents, and any number of edits to the parent's checkouts.  *)
(*                                                                         *)
(* As in StateCarryProofs, nothing can be said of a child's checkout while *)
(* it is filled from a parent that moves: the argument starts where it is  *)
(* compared with the plan (ExactInv).  The levels that are carried come    *)
(* first, and one that is skipped ends them (ProgressInv).  In a parent    *)
(* nobody touches the plan is what the parent is (FrozenInv), and the      *)
(* child becomes what the plan says, level by level (QuietInv).            *)
(***************************************************************************)
EXTENDS SubmoduleCarry, TLAPS

Inventories == [staged : SUBSET Path, unstaged : SUBSET Path, ita : SUBSET Path,
                untracked : SUBSET Path, ignored : SUBSET Path, deletions : SUBSET Path]

SkipRecord == [level : Level, path : Path, stamp : Nat]

PlanRecord == [init : BOOLEAN, head : [Path -> Content \cup {Absent}], urls : Urls,
               inventory : Inventories, link : BOOLEAN, content : CarriedState,
               skips : SUBSET SkipRecord]

TypeOK ==
    /\ parent \in [Level -> Checkout] /\ child \in [Level -> Checkout]
    /\ names \in [Level -> Name] /\ stamp \in [Level -> [Path -> Nat]]
    /\ edits \in Nat /\ opts \in [verify : BOOLEAN, strict : BOOLEAN, limit : Nat]
    /\ pc \in Steps /\ at \in Level
    /\ before \in [status : BOOLEAN, link : BOOLEAN]
    /\ plans \in [Level -> PlanRecord]
    /\ carried \subseteq Level /\ skipped \subseteq Level /\ reasoned \subseteq skipped
    /\ entrySkips \subseteq SkipRecord
    /\ recheck \in [inventory : Inventories, link : BOOLEAN]
    /\ agrees \in BOOLEAN

\* The fork before it has a worktree, while it fills it, and while it verifies it.
Snapshot == {"preflight", "status", "top", "identity", "inventory", "content", "create"}
Carrying == {"carry", "tracked", "untracked"}
Verifying == {"compareStatus", "compareTop", "checkChild", "parentHead", "listAgain",
              "parentContent", "untouched"}
Over == {"finish", "done"}

\* Checkouts stay plain, and only one that lies in another that is there is made.
ParentInv ==
    \A d \in Level : /\ Plain(parent[d].tree) /\ parent[d].urls # "local"
                     /\ parent[d].init => \A e \in 1..d : parent[e].init

\* The child's checkouts can be read, and point to no other on this machine.
ChildInv ==
    \A d \in Level : /\ Plain(child[d].tree) /\ child[d].urls # "local"
                     /\ \A p \in Path : child[d].tree.work[p] # Locked
                     /\ \A p \in Ignored : child[d].tree.work[p] = Absent

\* Plans hold nothing that is tracked but Source, and nothing that is ignored.
PlansInv ==
    \A d \in Level : /\ \A p \in Path \ {Source} : plans[d].head[p] = Absent
                     /\ plans[d].inventory.untracked \cap Ignored = {}

\* Levels are carried one after the other until one is skipped.
ProgressInv ==
    /\ pc \in {"preflight", "status", "top", "compareStatus", "compareTop"} => at = 1
    /\ pc \in Verifying => opts.verify
    /\ pc \in Snapshot => /\ carried = {} /\ skipped = {} /\ entrySkips = {}
                          /\ \A d \in Level : ~child[d].init
    /\ pc \in Carrying => /\ skipped = {} /\ carried = {d \in Level : d < at}
                          /\ \A d \in Level : child[d].init <=>
                                d \in carried \/ (d = at /\ pc # "carry")
    /\ pc \in {"tracked", "untracked"} => plans[at].init /\ names[at] # "equals"
    /\ pc = "checkChild" => \A d \in Level : d < at => d \in carried
    /\ pc \in {"parentHead", "listAgain", "parentContent"} =>
          \A d \in Level : d <= at => d \in carried
    /\ pc \in Verifying \cup Over =>
          /\ carried = {d \in Level : \A e \in skipped : d < e}
          /\ \A d \in Level : child[d].init <=> d \in carried
    /\ \A d \in carried : plans[d].init
    /\ \A e \in skipped : e \in reasoned \/ ~plans[e].init
    /\ \A e \in reasoned : names[e] = "equals"
    /\ pc \in Over /\ opts.verify => agrees

\* What the child was found to be when it was compared.
Exact(d) ==
    LET plan == plans[d]
        held == plan.content.paths
        tree == child[d].tree
    IN  /\ tree.head = plan.head /\ child[d].urls = plan.urls
        /\ tree.index = [p \in Path |-> IF p \in held THEN plan.content.index[p]
                                        ELSE plan.head[p]]
        /\ tree.work = [p \in Path |-> IF p \in held THEN plan.content.manifest[p]
                                       ELSE plan.head[p]]

Checked(d) ==
    \/ pc = "checkChild" /\ d < at
    \/ pc \in {"parentHead", "listAgain", "parentContent"} /\ d <= at
    \/ pc \in {"untouched"} \cup Over

ExactInv == opts.verify /\ agrees => \A d \in carried : Checked(d) => Exact(d)

CarryInv == /\ TypeOK /\ ParentInv /\ ChildInv /\ PlansInv /\ ProgressInv /\ ExactInv

-----------------------------------------------------------------------------
(* A parent nobody touches.                                                 *)

\* The plan of level d says what the checkout of the chain is, with its metadata.
ReadIdentity(plan, c) == /\ plan.init /\ c.init
                         /\ plan.head = c.tree.head /\ plan.urls = c.urls
ReadLists(plan, chain, d) == /\ plan.inventory = Listed(chain, d).inventory
                             /\ plan.link = Listed(chain, d).link
ReadContent(plan, chain, d, metadata) ==
    LET inv == Listed(chain, d).inventory
    IN  /\ plan.content = CaptureState(chain[d].tree, inv, {})
        /\ plan.skips = {[level |-> d, path |-> p, stamp |-> metadata[p]] :
                            p \in Unreadable(chain[d].tree, inv, {})}
Frozen(plan, chain, d, metadata) == /\ ReadIdentity(plan, chain[d]) /\ ReadLists(plan, chain, d)
                                    /\ ReadContent(plan, chain, d, metadata)

FrozenInv ==
    edits = 0 /\ pc # "failed" =>
        /\ pc # "preflight" => \A d \in Level : ~ColdContent(d)
        /\ pc \in Snapshot \ {"create"} =>
              /\ \A d \in Level : d < at => Frozen(plans[d], parent, d, stamp[d])
              /\ \A d \in Level : d > at => ~plans[d].init
        /\ pc \in {"preflight", "status", "top", "identity"} => ~plans[at].init
        /\ pc \in {"inventory", "content"} => ReadIdentity(plans[at], parent[at])
        /\ pc = "content" => ReadLists(plans[at], parent, at)
        /\ pc \notin Snapshot \ {"create"} =>
              \A d \in Level : IF parent[d].init THEN Frozen(plans[d], parent, d, stamp[d])
                                                 ELSE ~plans[d].init

Uncarryable == \E d \in Level : ColdContent(d) \/ Untransportable(d) \/ LocallyUncarryable(d)

\* Nothing is in the way of the carry.
Undisturbed == edits = 0 /\ ~Uncarryable /\ ~ChangedUnderEquals /\ ~SkipBelowTheFirst

\* What is left out of a tree: it is there and cannot be copied.
LeftOut(t) == {p \in Others(t) \ Ignored : t.work[p] \in {Locked, Nested}}

\* A child's checkout c, made from one of the parent: as in the commit; with the
\* tracked changes; with what is untracked.
Made(c, from) == c.tree.head = from.tree.head /\ c.urls = from.urls
AtCommit(c, from) ==
    /\ Made(c, from)
    /\ \A p \in Path : c.tree.index[p] = from.tree.head[p] /\ c.tree.work[p] = from.tree.head[p]
Brings(c, from, untracked) ==
    /\ Made(c, from)
    /\ \A p \in Path :
          /\ c.tree.index[p] = from.tree.index[p]
          /\ c.tree.work[p] = IF from.tree.index[p] # Absent \/ p \in untracked
                              THEN from.tree.work[p] ELSE Absent
HasTracked(c, from) == Brings(c, from, {})
HasAll(c, from) == Brings(c, from, (Others(from.tree) \ Ignored) \ LeftOut(from.tree))

FilledInv ==
    /\ pc = "tracked" => AtCommit(child[at], parent[at])
    /\ pc = "untracked" => HasTracked(child[at], parent[at])
    /\ \A d \in carried :
          /\ HasAll(child[d], parent[d])
          /\ \A p \in LeftOut(parent[d].tree) : \E r \in entrySkips : r.level = d /\ r.path = p
    /\ \A r \in entrySkips : /\ r.path \in LeftOut(parent[r.level].tree)
                             /\ r.stamp = stamp[r.level][r.path]

VerdictInv ==
    /\ agrees
    /\ pc \notin {"preflight", "status"} => before.status = LinkShows(parent, 1)
    /\ pc \notin {"preflight", "status", "top"} => before.link = LinkShows(parent, 1)
    /\ pc = "parentContent" => recheck = Listed(parent, at)
    /\ pc = "failed" => opts.strict /\ entrySkips # {}

QuietInv == Undisturbed => FilledInv /\ VerdictInv

-----------------------------------------------------------------------------
(* The operators.                                                           *)

\* The values a path can have are told apart, and Source is not ignored.
LEMMA ValuesAre ==
    /\ Blank \in Content
    /\ Absent \notin Content /\ Ita \notin Content /\ Locked \notin Content
    /\ Nested \notin Content
    /\ Absent # Ita /\ Absent # Locked /\ Absent # Nested /\ Ita # Locked /\ Ita # Nested
    /\ Locked # Nested
    /\ Ignored \subseteq Path /\ Source \in Path /\ Source \notin Ignored /\ Recorded \in Content
BY TreeAssumption, SubmoduleAssumption DEF TreeAssumption, SubmoduleAssumption

\* The levels are the numbers from 1 to Depth.
LEMMA LevelsAre ==
    /\ Depth \in Nat /\ 1 <= Depth /\ 1 \in Level /\ Depth \in Level
    /\ \A d \in Level : d \in Nat /\ 1 <= d /\ d <= Depth
    /\ \A d \in Nat : 1 <= d /\ d <= Depth => d \in Level
BY SubmoduleAssumption DEF SubmoduleAssumption, Level

\* A tree is made of its four parts, a checkout of its three.
LEMMA TreeIs ==
    ASSUME NEW t \in Tree
    PROVE  /\ t.head \in [Path -> Content \cup {Absent}]
           /\ t.index \in [Path -> Content \cup {Absent, Ita}]
           /\ t.work \in [Path -> Object]
           /\ t.hidden \subseteq Path
BY DEF Tree

\* A checkout of a chain is one.
LEMMA CheckoutIs ==
    ASSUME NEW chain \in [Level -> Checkout], NEW d \in Level
    PROVE  /\ chain[d] \in Checkout /\ chain[d].init \in BOOLEAN
           /\ chain[d].urls \in Urls \cup {"local"} /\ chain[d].tree \in Tree
<1>1. chain[d] \in Checkout
  OBVIOUS
<1>2. QED
  BY <1>1 DEF Checkout

\* A tree whose commit, index and disk change at one path.
LEMMA MovedIs ==
    ASSUME NEW t \in Tree, NEW c \in Content
    PROVE  LET m == [t EXCEPT !.head[Source] = c, !.index[Source] = c, !.work[Source] = c]
           IN  /\ m \in Tree
               /\ m.head = [t.head EXCEPT ![Source] = c]
               /\ m.index = [t.index EXCEPT ![Source] = c]
               /\ m.work = [t.work EXCEPT ![Source] = c] /\ m.hidden = t.hidden
<1>1. PICK h \in [Path -> Content \cup {Absent}], i \in [Path -> Content \cup {Absent, Ita}],
           w \in [Path -> Object], x \in SUBSET Path :
              t = [head |-> h, index |-> i, work |-> w, hidden |-> x]
  BY DEF Tree
<1> DEFINE h1 == [h EXCEPT ![Source] = c]
           i1 == [i EXCEPT ![Source] = c]
           w1 == [w EXCEPT ![Source] = c]
<1>2. h1 \in [Path -> Content \cup {Absent}] /\ i1 \in [Path -> Content \cup {Absent, Ita}]
      /\ w1 \in [Path -> Object]
  BY DEF Object
<1>3. [t EXCEPT !.head[Source] = c, !.index[Source] = c, !.work[Source] = c]
         = [t EXCEPT !.head = h1, !.index = i1, !.work = w1]
  <2>1. /\ h = t.head /\ i = t.index /\ w = t.work
        /\ DOMAIN t = {"head", "index", "work", "hidden"}
    BY <1>1
  <2>2. t.head = t["head"] /\ t.index = t["index"] /\ t.work = t["work"]
    OBVIOUS
  <2>3. QED
    BY <2>1, <2>2
<1> HIDE DEF h1, i1, w1
<1>4. [t EXCEPT !.head = h1, !.index = i1, !.work = w1]
         = [head |-> h1, index |-> i1, work |-> w1, hidden |-> x]
  <2>1. PICK r : r = [t EXCEPT !.head = h1]
    OBVIOUS
  <2>2. r = [head |-> h1, index |-> i, work |-> w, hidden |-> x]
    BY <1>1, <2>1
  <2>3. PICK q : q = [r EXCEPT !.index = i1]
    OBVIOUS
  <2>4. q = [head |-> h1, index |-> i1, work |-> w, hidden |-> x]
    BY <2>2, <2>3
  <2>5. [q EXCEPT !.work = w1] = [head |-> h1, index |-> i1, work |-> w1, hidden |-> x]
    BY <2>4
  <2>6. [t EXCEPT !.head = h1, !.index = i1, !.work = w1] = [q EXCEPT !.work = w1]
    BY <2>1, <2>3
  <2>7. QED
    BY <2>5, <2>6
<1>5. [head |-> h1, index |-> i1, work |-> w1, hidden |-> x] \in Tree
  BY <1>2 DEF Tree
<1>6. QED
  BY <1>1, <1>3, <1>4, <1>5 DEF h1, i1, w1

\* A tree at a commit is a tree.
LEMMA PristineIs ==
    ASSUME NEW head \in [Path -> Content \cup {Absent}]
    PROVE  /\ Pristine(head) \in Tree /\ Pristine(head).head = head
           /\ Pristine(head).index = head /\ Pristine(head).work = head
           /\ Pristine(head).hidden = {}
<1>1. head \in [Path -> Content \cup {Absent, Ita}] /\ head \in [Path -> Object]
  BY DEF Object
<1>2. QED
  BY <1>1 DEF Pristine, Tree

\* The commit every gitlink records, and the one of a cold checkout.
LEMMA CommitsAre ==
    /\ Committed(Recorded) \in [Path -> Content \cup {Absent}]
    /\ Nothing \in [Path -> Content \cup {Absent}]
    /\ Plain(Pristine(Committed(Recorded))) /\ Plain(Pristine(Nothing))
<1>1. Committed(Recorded) \in [Path -> Content \cup {Absent}]
  BY ValuesAre DEF Committed
<1>2. Nothing \in [Path -> Content \cup {Absent}]
  BY DEF Nothing
<1>3. Plain(Pristine(Committed(Recorded)))
  <2>1. \A p \in Path : Committed(Recorded)[p] = IF p = Source THEN Recorded ELSE Absent
    BY DEF Committed
  <2>2. Committed(Recorded)[Source] = Recorded /\ Recorded # Ita /\ Recorded # Nested
    BY <2>1, ValuesAre
  <2>3. QED
    BY <1>1, <2>1, <2>2, PristineIs DEF Plain
<1>4. Plain(Pristine(Nothing))
  BY <1>2, PristineIs, ValuesAre DEF Plain, Nothing
<1>5. QED
  BY <1>1, <1>2, <1>3, <1>4

\* An inventory lists paths, a capture holds states of paths.
LEMMA InventoryTyped ==
    ASSUME NEW t \in Tree, NEW s \in BOOLEAN, NEW i \in BOOLEAN
    PROVE  /\ CollectInventory(t, s, i) \in Inventories
           /\ NoInventory \in Inventories
BY DEF CollectInventory, NoInventory, Inventories, Staged, Unstaged, IntentToAdd, Others, Deletions

\* A capture of a tree is a typed one, and so is the empty one.
LEMMA CaptureTyped ==
    ASSUME NEW t \in Tree, NEW inv \in Inventories, NEW known
    PROVE  /\ CaptureState(t, inv, known) \in CarriedState
           /\ NoState \in CarriedState
<1>1. CarriedPaths(inv) \subseteq Path
  BY DEF CarriedPaths, Inventories
<1>2. [p \in Path |-> IF p \in CarriedPaths(inv) THEN IndexRecord(t, p) ELSE Absent]
         \in [Path -> Content \cup {Absent}]
  BY TreeIs, ValuesAre DEF IndexRecord
<1>3. [p \in Path |-> IF p \in CarriedPaths(inv) \ (known \cup Unreadable(t, inv, known))
                      THEN t.work[p] ELSE Absent] \in [Path -> Object]
  BY TreeIs DEF Object
<1>4. CaptureState(t, inv, known) \in CarriedState
  BY <1>1, <1>2, <1>3 DEF CaptureState, CarriedState
<1>5. NoState \in CarriedState
  BY DEF NoState, CarriedState, Object
<1>6. QED
  BY <1>4, <1>5

\* The gitlink is shown or it is not.
LEMMA LinkTyped ==
    ASSUME NEW chain, NEW d
    PROVE  LinkShows(chain, d) \in BOOLEAN
BY DEF LinkShows

\* What is listed at a level, part by part.
LEMMA ListedIs ==
    ASSUME NEW chain \in [Level -> Checkout], NEW d \in Level
    PROVE  /\ Listed(chain, d).inventory = CollectInventory(chain[d].tree, TRUE, FALSE)
           /\ Listed(chain, d).link = LinkShows(chain, d + 1)
           /\ Listed(chain, d) \in [inventory : Inventories, link : BOOLEAN]
<1>1. CollectInventory(chain[d].tree, TRUE, FALSE) \in Inventories
  BY CheckoutIs, InventoryTyped
<1>2. QED
  BY <1>1, LinkTyped DEF Listed

\* The parts of an inventory with state and without what is ignored.
LEMMA InventoryIs ==
    ASSUME NEW t
    PROVE  LET inv == CollectInventory(t, TRUE, FALSE)
           IN  /\ inv.staged = Staged(t) /\ inv.unstaged = Unstaged(t)
               /\ inv.ita = IntentToAdd(t) /\ inv.untracked = Others(t) \ Ignored
               /\ inv.ignored = {} /\ inv.deletions = Deletions(t)
BY DEF CollectInventory

\* In a plain tree only Source can be staged or changed, and no entry is an
\* intent to add one.
LEMMA PlainIs ==
    ASSUME NEW t \in Tree, Plain(t)
    PROVE  /\ Staged(t) \subseteq {Source} /\ Unstaged(t) \subseteq {Source}
           /\ IntentToAdd(t) = {} /\ t.hidden = {}
           /\ \A p \in Path : t.index[p] # Ita /\ Visible(t, p) = t.index[p]
           /\ \A p \in Path : p \in Staged(t) <=> t.head[p] # t.index[p]
<1>1. \A p \in Path : t.index[p] # Ita
  BY ValuesAre DEF Plain
<1>2. \A p \in Path : Visible(t, p) = t.index[p]
  BY <1>1 DEF Visible
<1>3. QED
  BY <1>1, <1>2 DEF Plain, Staged, Unstaged, IntentToAdd

-----------------------------------------------------------------------------
(* Types, and the parent's checkouts.                                       *)

\* A level whose tree becomes another plain one leaves the chain in order.
LEMMA BecomesIs ==
    ASSUME parent \in [Level -> Checkout], ParentInv, NEW d \in Level,
           NEW tree \in Tree, Plain(tree), Becomes(d, tree)
    PROVE  parent' \in [Level -> Checkout] /\ ParentInv'
<1>1. \A e \in Level : /\ parent'[e].init = parent[e].init /\ parent'[e].urls = parent[e].urls
                       /\ parent'[e].tree = IF e = d THEN tree ELSE parent[e].tree
  BY CheckoutIs DEF Becomes, Checkout
<1>2. parent' \in [Level -> Checkout]
  <2>1. [parent[d] EXCEPT !.tree = tree] \in Checkout
    BY CheckoutIs DEF Checkout
  <2>2. parent' = [parent EXCEPT ![d] = [parent[d] EXCEPT !.tree = tree]]
    BY DEF Becomes
  <2>3. QED
    BY <2>1, <2>2
<1>3. \A e \in 1..Depth : e \in Level
  BY DEF Level
<1>4. ParentInv'
  <2>1. SUFFICES ASSUME NEW e \in Level
                 PROVE  /\ Plain(parent'[e].tree) /\ parent'[e].urls # "local"
                        /\ parent'[e].init => \A f \in 1..e : parent'[f].init
    BY DEF ParentInv
  <2>2. Plain(parent'[e].tree) /\ parent'[e].urls # "local"
    BY <1>1 DEF ParentInv
  <2>3. \A f \in 1..e : f \in Level
    BY LevelsAre
  <2>4. parent'[e].init => \A f \in 1..e : parent'[f].init
    BY <1>1, <2>3 DEF ParentInv
  <2>5. QED
    BY <2>2, <2>4
<1>5. QED
  BY <1>2, <1>4

\* An edit leaves a chain of plain checkouts, and metadata that only grow.
LEMMA EditIs ==
    ASSUME TypeOK, ParentInv, Edit
    PROVE  /\ parent' \in [Level -> Checkout] /\ ParentInv'
           /\ stamp' \in [Level -> [Path -> Nat]]
           /\ edits' = edits + 1 /\ pc \notin {"done", "failed"}
           /\ UNCHANGED <<names, opts, pc, run>>
<1>1. edits' = edits + 1 /\ pc \notin {"done", "failed"} /\ UNCHANGED <<names, opts, pc, run>>
  BY DEF Edit
<1>2. PICK d \in Level : Write(d) \/ Move(d) \/ Stage(d) \/ Initialize(d) \/ SetUrl(d)
  BY DEF Edit
<1>3. /\ parent \in [Level -> Checkout] /\ stamp \in [Level -> [Path -> Nat]]
      /\ parent[d].tree \in Tree /\ Plain(parent[d].tree)
  BY CheckoutIs DEF TypeOK, ParentInv
<1> DEFINE t == parent[d].tree
<1>4. /\ t.head \in [Path -> Content \cup {Absent}] /\ t.index \in [Path -> Content \cup {Absent, Ita}]
      /\ t.work \in [Path -> Object] /\ t.hidden \subseteq Path
  BY <1>3, TreeIs
<1>5. CASE Write(d)
  <2>1. PICK p \in Path, w \in Object :
            /\ p = Source => w # Nested
            /\ Becomes(d, [t EXCEPT !.work[p] = w])
            /\ stamp' = [stamp EXCEPT ![d][p] = @ + 1]
    BY <1>5 DEF Write
  <2>2. [t EXCEPT !.work[p] = w] \in Tree
    BY <1>3, <1>4 DEF Tree
  <2>3. Plain([t EXCEPT !.work[p] = w])
    BY <1>3, <1>4, <2>1, ValuesAre DEF Plain, Tree
  <2>4. parent' \in [Level -> Checkout] /\ ParentInv'
    BY <1>3, <2>1, <2>2, <2>3, BecomesIs
  <2>5. stamp' \in [Level -> [Path -> Nat]]
    <3>1. stamp[d] \in [Path -> Nat]
      BY <1>3
    <3>2. [stamp[d] EXCEPT ![p] = @ + 1] \in [Path -> Nat]
      BY <3>1
    <3>3. QED
      BY <1>3, <2>1, <3>2
  <2>6. QED
    BY <1>1, <2>4, <2>5
<1>6. CASE Move(d)
  <2>1. PICK c \in Content :
            Becomes(d, [t EXCEPT !.head[Source] = c, !.index[Source] = c, !.work[Source] = c])
    BY <1>6 DEF Move
  <2>2. stamp' = stamp
    BY <1>6 DEF Move
  <2> DEFINE m == [t EXCEPT !.head[Source] = c, !.index[Source] = c, !.work[Source] = c]
  <2>3. /\ m \in Tree /\ m.head = [t.head EXCEPT ![Source] = c]
        /\ m.index = [t.index EXCEPT ![Source] = c]
        /\ m.work = [t.work EXCEPT ![Source] = c] /\ m.hidden = t.hidden
    BY <1>3, MovedIs
  <2> HIDE DEF m
  <2>6. Plain(m)
    <3>1. m.index[Source] = c /\ m.work[Source] = c
      BY <1>4, <2>3, ValuesAre
    <3>2. c # Ita /\ c # Nested
      BY ValuesAre
    <3>3. \A p \in Path \ {Source} : m.head[p] = t.head[p] /\ m.index[p] = t.index[p]
      BY <1>4, <2>3
    <3>4. QED
      BY <1>3, <2>3, <3>1, <3>2, <3>3 DEF Plain
  <2>7. parent' \in [Level -> Checkout] /\ ParentInv'
    <3>1. Becomes(d, m)
      BY <2>1 DEF m
    <3>2. QED
      BY <1>3, <2>3, <2>6, <3>1, BecomesIs
  <2>8. QED
    BY <1>1, <1>3, <2>2, <2>7
<1>7. CASE Stage(d)
  <2>1. /\ parent[d].tree.work[Source] \in Content /\ stamp' = stamp
        /\ Becomes(d, [t EXCEPT !.index[Source] = t.work[Source]])
    BY <1>7 DEF Stage
  <2>2. [t EXCEPT !.index[Source] = t.work[Source]] \in Tree
    BY <1>3, <1>4, <2>1 DEF Tree
  <2>3. Plain([t EXCEPT !.index[Source] = t.work[Source]])
    BY <1>3, <1>4, <2>1, ValuesAre DEF Plain, Tree
  <2>4. parent' \in [Level -> Checkout] /\ ParentInv'
    BY <1>3, <2>1, <2>2, <2>3, BecomesIs
  <2>5. QED
    BY <1>1, <1>3, <2>1, <2>4
<1>8. CASE Initialize(d)
  <2> DEFINE c == [init |-> TRUE, urls |-> "own", tree |-> Pristine(Committed(Recorded))]
  <2>1. /\ d > 1 => parent[d - 1].init
        /\ parent' = [parent EXCEPT ![d] = c] /\ stamp' = stamp
    BY <1>8 DEF Initialize
  <2>2. c \in Checkout
    BY CommitsAre, PristineIs DEF Checkout, Urls
  <2>3. parent' \in [Level -> Checkout]
    BY <1>3, <2>1, <2>2
  <2>4. \A e \in Level : parent'[e] = IF e = d THEN c ELSE parent[e]
    BY <1>3, <2>1
  <2>5. \A e \in Level : Plain(parent'[e].tree) /\ parent'[e].urls # "local"
    <3>1. Plain(c.tree) /\ c.urls # "local"
      BY CommitsAre
    <3> HIDE DEF c
    <3>2. QED
      BY <2>4, <3>1 DEF ParentInv
  <2>6. ASSUME NEW e \in Level, parent'[e].init, NEW f \in 1..e
        PROVE  parent'[f].init
    <3>1. f \in Level /\ f \in Nat /\ e \in Nat /\ d \in Nat /\ f <= e /\ 1 <= f
      BY LevelsAre
    <3>2. parent[f].init => parent'[f].init
      BY <2>4, <3>1
    <3>3. CASE e # d
      BY <2>4, <2>6, <3>2, <3>3 DEF ParentInv
    <3>4. CASE e = d /\ f = d
      BY <2>4, <3>4
    <3>5. CASE e = d /\ f # d
      <4>1. d > 1 /\ d - 1 \in Level /\ f \in 1..(d - 1)
        BY <3>1, <3>5, LevelsAre
      <4>2. QED
        BY <2>1, <3>2, <4>1 DEF ParentInv
    <3>6. QED
      BY <3>3, <3>4, <3>5
  <2>7. ParentInv'
    BY <2>5, <2>6 DEF ParentInv
  <2>8. QED
    BY <1>1, <1>3, <2>1, <2>3, <2>7
<1>9. CASE SetUrl(d)
  <2>1. PICK u \in Urls : parent' = [parent EXCEPT ![d].urls = u]
    BY <1>9 DEF SetUrl
  <2>2. stamp' = stamp
    BY <1>9 DEF SetUrl
  <2>3. \A e \in Level : /\ parent'[e].init = parent[e].init /\ parent'[e].tree = parent[e].tree
                         /\ parent'[e].urls = IF e = d THEN u ELSE parent[e].urls
    BY <1>3, <2>1, CheckoutIs DEF Checkout
  <2>4. parent' \in [Level -> Checkout]
    <3>1. [parent[d] EXCEPT !.urls = u] \in Checkout
      BY <1>3, CheckoutIs DEF Checkout
    <3>2. QED
      BY <1>3, <2>1, <3>1
  <2>5. u # "local"
    BY DEF Urls
  <2>6. \A e \in Level : \A f \in 1..e : f \in Level
    BY LevelsAre
  <2>7. ParentInv'
    BY <2>3, <2>5, <2>6 DEF ParentInv
  <2>8. QED
    BY <1>1, <1>3, <2>2, <2>4, <2>7
<1>10. QED
  BY <1>2, <1>5, <1>6, <1>7, <1>8, <1>9

-----------------------------------------------------------------------------
(* The child's checkouts.                                                   *)

\* The patches from one plain tree into another, path by path.
LEMMA PatchedIs ==
    ASSUME NEW from \in Tree, NEW to \in Tree, Plain(from), Plain(to)
    PROVE  LET fit == Indexed(from, to)
               new == Worked(from, fit)
           IN  /\ fit \in Tree /\ new \in Tree /\ new.head = to.head /\ new.hidden = to.hidden
               /\ \A p \in Path :
                     /\ new.index[p] = IF p \in Staged(from) THEN from.index[p] ELSE to.index[p]
                     /\ fit.work[p] = IF p \in Staged(from) THEN from.index[p] ELSE to.work[p]
                     /\ new.work[p] = IF p \in Unstaged(from) THEN from.work[p] ELSE fit.work[p]
<1>1. /\ from.index \in [Path -> Content \cup {Absent, Ita}] /\ from.work \in [Path -> Object]
      /\ \A p \in Path : from.index[p] # Ita
  BY TreeIs, PlainIs
<1>2. PICK h \in [Path -> Content \cup {Absent}], i \in [Path -> Content \cup {Absent, Ita}],
           w \in [Path -> Object], x \in SUBSET Path :
              to = [head |-> h, index |-> i, work |-> w, hidden |-> x]
  BY DEF Tree
<1> DEFINE i1 == [p \in Path |-> IF p \in Staged(from) THEN from.index[p] ELSE i[p]]
           w1 == [p \in Path |-> IF p \in Staged(from) THEN from.index[p] ELSE w[p]]
           w2 == [p \in Path |-> IF p \in Unstaged(from) THEN from.work[p] ELSE w1[p]]
<1>3. i1 \in [Path -> Content \cup {Absent, Ita}]
  BY <1>1
<1>4. w1 \in [Path -> Object]
  BY <1>1 DEF Object
<1>5. w2 \in [Path -> Object]
  BY <1>1, <1>4
<1>6. Indexed(from, to) = [to EXCEPT !.index = i1, !.work = w1]
  <2>1. to.index = i /\ to.work = w
    BY <1>2
  <2>2. QED
    BY <2>1 DEF Indexed
<1>7. Indexed(from, to) = [head |-> h, index |-> i1, work |-> w1, hidden |-> x]
  <2> HIDE DEF i1, w1
  <2>1. PICK r : r = [to EXCEPT !.index = i1]
    OBVIOUS
  <2>2. r = [head |-> h, index |-> i1, work |-> w, hidden |-> x]
    BY <1>2, <2>1
  <2>3. [r EXCEPT !.work = w1] = [head |-> h, index |-> i1, work |-> w1, hidden |-> x]
    BY <2>2
  <2>4. [to EXCEPT !.index = i1, !.work = w1] = [r EXCEPT !.work = w1]
    BY <2>1
  <2>5. QED
    BY <1>6, <2>3, <2>4
<1>8. PICK fit : fit = Indexed(from, to)
  OBVIOUS
<1>9. fit.work = w1 /\ fit = [head |-> h, index |-> i1, work |-> w1, hidden |-> x]
  BY <1>7, <1>8
<1>10. Worked(from, fit) = [fit EXCEPT !.work = w2]
  BY <1>9 DEF Worked
<1>11. Worked(from, fit) = [head |-> h, index |-> i1, work |-> w2, hidden |-> x]
  <2> HIDE DEF i1, w1, w2
  <2>1. QED
    BY <1>9, <1>10
<1>12. fit \in Tree /\ Worked(from, fit) \in Tree
  <2> HIDE DEF i1, w1, w2
  <2>1. QED
    BY <1>3, <1>4, <1>5, <1>9, <1>11 DEF Tree
<1>13. PICK new : new = Worked(from, fit)
  OBVIOUS
<1>14. new.head = to.head /\ new.hidden = to.hidden /\ new.index = i1 /\ new.work = w2
  <2> HIDE DEF i1, w1, w2
  <2>1. QED
    BY <1>2, <1>11, <1>13
<1>15. to.index = i /\ to.work = w
  BY <1>2
<1>16. \A p \in Path :
          /\ new.index[p] = IF p \in Staged(from) THEN from.index[p] ELSE to.index[p]
          /\ fit.work[p] = IF p \in Staged(from) THEN from.index[p] ELSE to.work[p]
          /\ new.work[p] = IF p \in Unstaged(from) THEN from.work[p] ELSE fit.work[p]
  BY <1>9, <1>14, <1>15
<1> HIDE DEF i1, w1, w2
<1>17. QED
  BY <1>8, <1>12, <1>13, <1>14, <1>16

\* A submodule of the child is made at the commit of its plan.
LEMMA PopulateIs ==
    ASSUME TypeOK, Populate, pc' # "failed"
    PROVE  /\ child' \in [Level -> Checkout]
           /\ \A d \in Level \ {at} : child'[d] = child[d]
           /\ child'[at].init /\ child'[at].urls = plans[at].urls
           /\ child'[at].tree = Pristine(plans[at].head) /\ child'[at].tree \in Tree
           /\ child'[at].tree.head = plans[at].head /\ child'[at].tree.index = plans[at].head
           /\ child'[at].tree.work = plans[at].head /\ child'[at].tree.hidden = {}
           /\ pc = "carry" /\ plans[at].init /\ names[at] = "plain" /\ pc' = "tracked"
           /\ UNCHANGED <<parent, names, stamp, edits, opts, at, before, plans, carried, skipped,
                          reasoned, entrySkips, recheck, agrees>>
<1>1. /\ child' = [child EXCEPT ![at] = [init |-> TRUE, urls |-> RestoredUrls(plans[at]),
                                        tree |-> Pristine(DetachedHead(plans[at]))]]
      /\ pc = "carry" /\ plans[at].init /\ names[at] = "plain" /\ pc' = "tracked"
      /\ UNCHANGED <<parent, names, stamp, edits, opts, at, before, plans, carried, skipped,
                     reasoned, entrySkips, recheck, agrees>>
  BY DEF Populate, Fails, Goes, Parent
<1>2. /\ at \in Level /\ child \in [Level -> Checkout] /\ plans[at] \in PlanRecord
  BY DEF TypeOK
<1>3. plans[at].head \in [Path -> Content \cup {Absent}] /\ plans[at].urls \in Urls
  BY <1>2 DEF PlanRecord
<1>4. PICK h : h = plans[at].head
  OBVIOUS
<1>5. /\ Pristine(h) \in Tree /\ Pristine(h).head = h /\ Pristine(h).index = h
      /\ Pristine(h).work = h /\ Pristine(h).hidden = {}
  BY <1>3, <1>4, PristineIs
<1>6. PICK c : c = [init |-> TRUE, urls |-> plans[at].urls, tree |-> Pristine(h)]
  OBVIOUS
<1>7. c \in Checkout /\ c.init /\ c.urls = plans[at].urls /\ c.tree = Pristine(h)
  BY <1>3, <1>5, <1>6 DEF Checkout
<1>8. child' = [child EXCEPT ![at] = c]
  BY <1>1, <1>4, <1>6 DEF RestoredUrls, DetachedHead
<1>9. child' \in [Level -> Checkout] /\ child'[at] = c /\ \A d \in Level \ {at} : child'[d] = child[d]
  BY <1>2, <1>7, <1>8
<1>10. QED
  BY <1>1, <1>4, <1>5, <1>7, <1>9

\* Then the tracked changes of the parent are in it.
LEMMA TransportIs ==
    ASSUME TypeOK, ParentInv, ChildInv, TransportTracked, pc' # "failed"
    PROVE  LET from == parent[at].tree
               to == child[at].tree
           IN  /\ child' \in [Level -> Checkout]
               /\ \A d \in Level \ {at} : child'[d] = child[d]
               /\ child'[at].init = child[at].init /\ child'[at].urls = child[at].urls
               /\ child'[at].tree.head = to.head /\ child'[at].tree.hidden = to.hidden
               /\ \A p \in Path :
                     /\ child'[at].tree.index[p] = IF p \in Staged(from) THEN from.index[p]
                                                   ELSE to.index[p]
                     /\ child'[at].tree.work[p] = IF p \in Unstaged(from) THEN from.work[p]
                                                  ELSE IF p \in Staged(from) THEN from.index[p]
                                                  ELSE to.work[p]
               /\ UnstagedFits(from, Indexed(from, to))
               /\ pc = "tracked" /\ pc' = "untracked"
               /\ UNCHANGED <<parent, names, stamp, edits, opts, at, before, plans, carried,
                              skipped, reasoned, entrySkips, recheck, agrees>>
<1>1. PICK from, to : from = parent[at].tree /\ to = child[at].tree
  OBVIOUS
<1>2. /\ child' = [child EXCEPT ![at].tree = Worked(from, Indexed(from, to))]
      /\ UnstagedFits(from, Indexed(from, to))
      /\ pc = "tracked" /\ pc' = "untracked"
      /\ UNCHANGED <<parent, names, stamp, edits, opts, at, before, plans, carried,
                     skipped, reasoned, entrySkips, recheck, agrees>>
  BY <1>1 DEF TransportTracked, Fails, Goes, Parent
<1>3. /\ at \in Level /\ child \in [Level -> Checkout] /\ parent \in [Level -> Checkout]
      /\ from \in Tree /\ to \in Tree /\ Plain(from) /\ Plain(to)
  BY <1>1, CheckoutIs DEF TypeOK, ParentInv, ChildInv
<1>4. PICK fit, new : fit = Indexed(from, to) /\ new = Worked(from, fit)
  OBVIOUS
<1>5. /\ new \in Tree /\ new.head = to.head /\ new.hidden = to.hidden
      /\ \A p \in Path :
            /\ new.index[p] = IF p \in Staged(from) THEN from.index[p] ELSE to.index[p]
            /\ fit.work[p] = IF p \in Staged(from) THEN from.index[p] ELSE to.work[p]
            /\ new.work[p] = IF p \in Unstaged(from) THEN from.work[p] ELSE fit.work[p]
  BY <1>3, <1>4, PatchedIs
<1>6. child' = [child EXCEPT ![at].tree = new]
  BY <1>2, <1>4
<1>7. [child[at] EXCEPT !.tree = new] \in Checkout
  BY <1>3, <1>5, CheckoutIs DEF Checkout
<1>8. child' = [child EXCEPT ![at] = [child[at] EXCEPT !.tree = new]]
  BY <1>6
<1>9. /\ child' \in [Level -> Checkout] /\ \A d \in Level \ {at} : child'[d] = child[d]
      /\ child'[at] = [child[at] EXCEPT !.tree = new]
  BY <1>3, <1>7, <1>8
<1>10. child'[at].tree = new /\ child'[at].init = child[at].init /\ child'[at].urls = child[at].urls
  BY <1>3, <1>9, CheckoutIs DEF Checkout
<1>11. \A p \in Path : new.work[p] = IF p \in Unstaged(from) THEN from.work[p]
                                     ELSE IF p \in Staged(from) THEN from.index[p]
                                     ELSE to.work[p]
  BY <1>5
<1>12. QED
  BY <1>1, <1>2, <1>5, <1>9, <1>10, <1>11

\* Then what is untracked.
LEMMA CopyIs ==
    ASSUME TypeOK, CopyUntracked, pc' # "failed"
    PROVE  LET from == parent[at].tree
               to == child[at].tree
           IN  /\ child' \in [Level -> Checkout]
               /\ \A d \in Level \ {at} : child'[d] = child[d]
               /\ child'[at].init = child[at].init /\ child'[at].urls = child[at].urls
               /\ child'[at].tree.head = to.head /\ child'[at].tree.index = to.index
               /\ child'[at].tree.hidden = to.hidden
               /\ \A p \in Path : child'[at].tree.work[p] = IF p \in ToCopy \ Uncopyable
                                                           THEN from.work[p] ELSE to.work[p]
               /\ entrySkips' = entrySkips \cup plans[at].skips \cup SkipRecords(Uncopyable)
               /\ carried' = carried \cup {at}
               /\ pc = "untracked" /\ pc' = Descend
               /\ at' = IF Descend = "carry" THEN at + 1 ELSE 1
               /\ \A p \in ToCopy : from.work[p] # Absent
               /\ UNCHANGED <<parent, names, stamp, edits, opts, before, plans, skipped, reasoned,
                              recheck, agrees>>
<1>1. PICK from, to : from = parent[at].tree /\ to = child[at].tree
  OBVIOUS
<1>2. PICK copied : copied = ToCopy \ Uncopyable
  OBVIOUS
<1> DEFINE w == [p \in Path |-> IF p \in copied THEN from.work[p] ELSE to.work[p]]
<1>3. /\ at \in Level /\ child \in [Level -> Checkout] /\ parent \in [Level -> Checkout]
      /\ from \in Tree /\ to \in Tree /\ child[at] \in Checkout
  BY <1>1, CheckoutIs DEF TypeOK
<1>4. w \in [Path -> Object]
  BY <1>3, TreeIs
<1>5. /\ entrySkips' = entrySkips \cup plans[at].skips \cup SkipRecords(Uncopyable)
      /\ carried' = carried \cup {at}
      /\ pc = "untracked" /\ pc' = Descend
      /\ at' = IF Descend = "carry" THEN at + 1 ELSE 1
      /\ \A p \in ToCopy : from.work[p] # Absent
      /\ UNCHANGED <<parent, names, stamp, edits, opts, before, plans, skipped, reasoned,
                     recheck, agrees>>
  BY <1>1 DEF CopyUntracked, Fails, Goes, Parent
<1>6. child' = [child EXCEPT ![at].tree.work = w]
  <2>1. child' = [child EXCEPT ![at].tree.work =
                [p \in Path |-> IF p \in ToCopy \ Uncopyable
                                THEN parent[at].tree.work[p] ELSE @[p]]]
    BY DEF CopyUntracked, Fails
  <2>2. QED
    BY <1>1, <1>2, <2>1
<1>7. PICK new : new = [to EXCEPT !.work = w]
  OBVIOUS
<1>8. /\ new \in Tree /\ new.head = to.head /\ new.index = to.index /\ new.hidden = to.hidden
      /\ new.work = w
  <2> HIDE DEF w
  <2>1. QED
    BY <1>3, <1>4, <1>7 DEF Tree
<1>9. [child[at] EXCEPT !.tree = new] \in Checkout
  BY <1>3, <1>8 DEF Checkout
<1>10. child' = [child EXCEPT ![at] = [child[at] EXCEPT !.tree = new]]
  <2> HIDE DEF w
  <2>1. QED
    BY <1>1, <1>6, <1>7
<1>11. /\ child' \in [Level -> Checkout] /\ \A d \in Level \ {at} : child'[d] = child[d]
       /\ child'[at] = [child[at] EXCEPT !.tree = new]
  BY <1>3, <1>9, <1>10
<1>12. child'[at].tree = new /\ child'[at].init = child[at].init /\ child'[at].urls = child[at].urls
  BY <1>3, <1>11 DEF Checkout
<1>13. \A p \in Path : new.work[p] = IF p \in copied THEN from.work[p] ELSE to.work[p]
  BY <1>8
<1> HIDE DEF w
<1>14. QED
  BY <1>1, <1>2, <1>5, <1>8, <1>11, <1>12, <1>13

-----------------------------------------------------------------------------
(* The plans.                                                               *)

\* A plan is made of its parts.
LEMMA PlanIs ==
    ASSUME NEW plan \in PlanRecord
    PROVE  /\ plan.init \in BOOLEAN /\ plan.head \in [Path -> Content \cup {Absent}]
           /\ plan.urls \in Urls /\ plan.inventory \in Inventories /\ plan.link \in BOOLEAN
           /\ plan.content \in CarriedState /\ plan.skips \subseteq SkipRecord
BY DEF PlanRecord

\* What the snapshot reads first of a level.
LEMMA IdentityIs ==
    ASSUME TypeOK, ParentInv, SnapshotIdentity
    PROVE  /\ plans' \in [Level -> PlanRecord]
           /\ \A d \in Level \ {at} : plans'[d] = plans[d]
           /\ plans'[at].inventory = plans[at].inventory
           /\ \/ /\ parent[at].init /\ pc' = "inventory" /\ plans'[at].init
                 /\ plans'[at].head = parent[at].tree.head /\ plans'[at].urls = parent[at].urls
              \/ ~parent[at].init /\ pc' = "create" /\ plans' = plans
           /\ pc = "identity"
           /\ UNCHANGED <<parent, names, stamp, edits, opts, child, at, before, carried, skipped,
                          reasoned, entrySkips, recheck, agrees>>
<1>1. /\ pc = "identity" /\ at \in Level /\ plans \in [Level -> PlanRecord]
      /\ parent \in [Level -> Checkout] /\ plans[at] \in PlanRecord
      /\ UNCHANGED <<parent, names, stamp, edits, opts, child, at, before, carried, skipped,
                     reasoned, entrySkips, recheck, agrees>>
  BY DEF TypeOK, SnapshotIdentity, Parent
<1>2. CASE ~parent[at].init
  <2>1. plans' = plans /\ pc' = "create"
    BY <1>2 DEF SnapshotIdentity, Goes
  <2>2. QED
    BY <1>1, <1>2, <2>1
<1>3. CASE parent[at].init
  <2>1. PICK h, u : h = parent[at].tree.head /\ u = parent[at].urls
    OBVIOUS
  <2>2. /\ plans' = [plans EXCEPT ![at].init = TRUE, ![at].head = h, ![at].urls = u]
        /\ pc' = "inventory"
    BY <1>3, <2>1 DEF SnapshotIdentity, Goes
  <2>3. parent[at].tree \in Tree /\ u \in Urls \cup {"local"} /\ u # "local"
    BY <1>1, <2>1, CheckoutIs DEF ParentInv
  <2>4. u \in Urls /\ h \in [Path -> Content \cup {Absent}]
    BY <2>1, <2>3, TreeIs
  <2>5. PICK q, q1, q2, q3 : /\ q = plans[at] /\ q1 = [q EXCEPT !.init = TRUE]
                             /\ q2 = [q1 EXCEPT !.head = h] /\ q3 = [q2 EXCEPT !.urls = u]
    OBVIOUS
  <2>6. /\ q1 \in PlanRecord /\ q1.init /\ q1.inventory = q.inventory
    BY <1>1, <2>5 DEF PlanRecord
  <2>7. /\ q2 \in PlanRecord /\ q2.init /\ q2.inventory = q.inventory /\ q2.head = h
    BY <2>4, <2>5, <2>6 DEF PlanRecord
  <2>8. /\ q3 \in PlanRecord /\ q3.init /\ q3.inventory = q.inventory /\ q3.head = h /\ q3.urls = u
    BY <2>4, <2>5, <2>7 DEF PlanRecord
  <2>9. plans' = [plans EXCEPT ![at] = q3]
    <3>1. PICK f1 : f1 = [plans EXCEPT ![at].init = TRUE]
      OBVIOUS
    <3>2. PICK f2 : f2 = [f1 EXCEPT ![at].head = h]
      OBVIOUS
    <3>3. f1 = [plans EXCEPT ![at] = q1]
      BY <2>5, <3>1
    <3>4. f2 = [plans EXCEPT ![at] = q2]
      BY <1>1, <2>5, <3>2, <3>3
    <3>5. plans' = [f2 EXCEPT ![at].urls = u]
      BY <2>2, <3>1, <3>2
    <3>6. QED
      BY <1>1, <2>5, <3>4, <3>5
  <2>10. /\ plans' \in [Level -> PlanRecord] /\ plans'[at] = q3
         /\ \A d \in Level \ {at} : plans'[d] = plans[d]
    BY <1>1, <2>8, <2>9
  <2>11. QED
    BY <1>1, <1>3, <2>1, <2>2, <2>5, <2>8, <2>10
<1>4. QED
  BY <1>2, <1>3

\* What it lists next.
LEMMA ListsAre ==
    ASSUME TypeOK, SnapshotInventory
    PROVE  /\ plans' \in [Level -> PlanRecord]
           /\ \A d \in Level \ {at} : plans'[d] = plans[d]
           /\ plans'[at].init = plans[at].init /\ plans'[at].head = plans[at].head
           /\ plans'[at].urls = plans[at].urls
           /\ plans'[at].inventory = Listed(parent, at).inventory
           /\ plans'[at].link = Listed(parent, at).link
           /\ pc = "inventory" /\ pc' = "content"
           /\ UNCHANGED <<parent, names, stamp, edits, opts, child, at, before, carried, skipped,
                          reasoned, entrySkips, recheck, agrees>>
<1>1. /\ pc = "inventory" /\ pc' = "content" /\ at \in Level /\ plans \in [Level -> PlanRecord]
      /\ parent \in [Level -> Checkout] /\ plans[at] \in PlanRecord
      /\ UNCHANGED <<parent, names, stamp, edits, opts, child, at, before, carried, skipped,
                     reasoned, entrySkips, recheck, agrees>>
  BY DEF TypeOK, SnapshotInventory, Parent, Goes
<1>2. PICK i, l : i = Listed(parent, at).inventory /\ l = Listed(parent, at).link
  OBVIOUS
<1>3. i \in Inventories /\ l \in BOOLEAN
  BY <1>1, <1>2, ListedIs
<1>4. plans' = [plans EXCEPT ![at].inventory = i, ![at].link = l]
  BY <1>2 DEF SnapshotInventory
<1>5. PICK q, q1, q2 : /\ q = plans[at] /\ q1 = [q EXCEPT !.inventory = i]
                       /\ q2 = [q1 EXCEPT !.link = l]
  OBVIOUS
<1>6. /\ q1 \in PlanRecord /\ q1.init = q.init /\ q1.inventory = i /\ q1.head = q.head
      /\ q1.urls = q.urls
  BY <1>1, <1>3, <1>5 DEF PlanRecord
<1>7. /\ q2 \in PlanRecord /\ q2.init = q.init /\ q2.inventory = i /\ q2.head = q.head
      /\ q2.urls = q.urls /\ q2.link = l
  BY <1>3, <1>5, <1>6 DEF PlanRecord
<1>8. plans' = [plans EXCEPT ![at] = q2]
  <2>1. PICK f1 : f1 = [plans EXCEPT ![at].inventory = i]
    OBVIOUS
  <2>2. f1 = [plans EXCEPT ![at] = q1]
    BY <1>5, <2>1
  <2>3. plans' = [f1 EXCEPT ![at].link = l]
    BY <1>4, <2>1
  <2>4. QED
    BY <1>1, <1>5, <2>2, <2>3
<1>9. /\ plans' \in [Level -> PlanRecord] /\ plans'[at] = q2
      /\ \A d \in Level \ {at} : plans'[d] = plans[d]
  BY <1>1, <1>7, <1>8
<1>10. QED
  BY <1>1, <1>2, <1>5, <1>7, <1>9

\* And what it reads last.
LEMMA ContentIs ==
    ASSUME TypeOK, SnapshotContent, pc' # "failed"
    PROVE  LET inv == plans[at].inventory
           IN  /\ plans' \in [Level -> PlanRecord]
               /\ \A d \in Level \ {at} : plans'[d] = plans[d]
               /\ plans'[at].init = plans[at].init /\ plans'[at].head = plans[at].head
               /\ plans'[at].urls = plans[at].urls /\ plans'[at].inventory = inv
               /\ plans'[at].link = plans[at].link
               /\ plans'[at].content = CaptureState(parent[at].tree, inv, {})
               /\ plans'[at].skips = SkipRecords(Unreadable(parent[at].tree, inv, {}))
               /\ pc = "content" /\ at' \in Level
               /\ \/ at < Depth /\ pc' = "identity" /\ at' = at + 1
                  \/ at = Depth /\ pc' = "create" /\ at' = at
               /\ UNCHANGED <<parent, names, stamp, edits, opts, child, before, carried, skipped,
                              reasoned, entrySkips, recheck, agrees>>
<1>1. PICK inv : inv = plans[at].inventory
  OBVIOUS
<1>2. /\ pc = "content" /\ at \in Level /\ plans \in [Level -> PlanRecord]
      /\ parent \in [Level -> Checkout] /\ plans[at] \in PlanRecord
      /\ stamp \in [Level -> [Path -> Nat]] /\ stamp[at] \in [Path -> Nat]
      /\ inv \in Inventories /\ parent[at].tree \in Tree
      /\ UNCHANGED <<parent, names, stamp, edits, opts, child, before, carried, skipped,
                     reasoned, entrySkips, recheck, agrees>>
  BY <1>1, PlanIs, CheckoutIs DEF TypeOK, SnapshotContent, Parent, Fails
<1>3. PICK c, s : /\ c = CaptureState(parent[at].tree, inv, {})
                  /\ s = SkipRecords(Unreadable(parent[at].tree, inv, {}))
  OBVIOUS
<1>4. c \in CarriedState
  BY <1>2, <1>3, CaptureTyped
<1>5. s \subseteq SkipRecord
  <2>1. Unreadable(parent[at].tree, inv, {}) \subseteq Path
    BY <1>2 DEF Unreadable, CarriedPaths, Inventories
  <2>2. QED
    BY <1>2, <1>3, <2>1 DEF SkipRecords, SkipRecord
<1>6. /\ plans' = [plans EXCEPT ![at].content = c, ![at].skips = s]
      /\ IF at < Depth THEN pc' = "identity" /\ at' = at + 1 ELSE pc' = "create" /\ at' = at
  BY <1>1, <1>3 DEF SnapshotContent, Fails, Captured, Goes
<1>7. PICK q, q1, q2 : /\ q = plans[at] /\ q1 = [q EXCEPT !.content = c]
                       /\ q2 = [q1 EXCEPT !.skips = s]
  OBVIOUS
<1>8. /\ q1 \in PlanRecord /\ q1.init = q.init /\ q1.inventory = inv /\ q1.head = q.head
      /\ q1.urls = q.urls /\ q1.link = q.link /\ q1.content = c
  BY <1>1, <1>2, <1>4, <1>7 DEF PlanRecord
<1>9. /\ q2 \in PlanRecord /\ q2.init = q.init /\ q2.inventory = inv /\ q2.head = q.head
      /\ q2.urls = q.urls /\ q2.link = q.link /\ q2.content = c /\ q2.skips = s
  BY <1>5, <1>7, <1>8 DEF PlanRecord
<1>10. plans' = [plans EXCEPT ![at] = q2]
  <2>1. PICK f1 : f1 = [plans EXCEPT ![at].content = c]
    OBVIOUS
  <2>2. f1 = [plans EXCEPT ![at] = q1]
    BY <1>7, <2>1
  <2>3. plans' = [f1 EXCEPT ![at].skips = s]
    BY <1>6, <2>1
  <2>4. QED
    BY <1>2, <1>7, <2>2, <2>3
<1>11. /\ plans' \in [Level -> PlanRecord] /\ plans'[at] = q2
       /\ \A d \in Level \ {at} : plans'[d] = plans[d]
  BY <1>2, <1>9, <1>10
<1>12. /\ at' \in Level
       /\ \/ at < Depth /\ pc' = "identity" /\ at' = at + 1
          \/ at = Depth /\ pc' = "create" /\ at' = at
  <2>1. at \in Nat /\ 1 <= at /\ at <= Depth /\ Depth \in Nat
    BY <1>2, LevelsAre
  <2>2. CASE at < Depth
    <3>1. pc' = "identity" /\ at' = at + 1
      BY <1>6, <2>2
    <3>2. at + 1 \in Level
      BY <2>1, <2>2, LevelsAre
    <3>3. QED
      BY <2>2, <3>1, <3>2
  <2>3. CASE ~(at < Depth)
    <3>1. pc' = "create" /\ at' = at
      BY <1>6, <2>3
    <3>2. at = Depth
      BY <2>1, <2>3
    <3>3. QED
      BY <1>2, <3>1, <3>2
  <2>4. QED
    BY <2>2, <2>3
<1>13. QED
  BY <1>1, <1>2, <1>3, <1>7, <1>9, <1>11, <1>12

-----------------------------------------------------------------------------
(* The invariant, part by part.                                             *)

\* A step that fails changes nothing but the program counter.
LEMMA FailedStep ==
    ASSUME TypeOK, Next, pc' = "failed"
    PROVE  UNCHANGED <<parent, names, stamp, edits, opts, run>>
<1>1. at \in Level /\ Depth \in Nat
  BY LevelsAre DEF TypeOK
<1>2. ~Edit
  BY DEF Edit
<1>3. Preflight \/ ParentUntouched \/ Finish => UNCHANGED <<parent, names, stamp, edits, opts, run>>
  BY DEF Preflight, ParentUntouched, Finish, Parent, Fails, Goes
<1>4. ~ReadStatus /\ ~ReadTop /\ ~SnapshotIdentity /\ ~SnapshotInventory /\ ~Create
  BY DEF ReadStatus, ReadTop, SnapshotIdentity, SnapshotInventory, Create, Goes
<1>5. ~LeaveCold /\ ~CompareStatus /\ ~CompareTop /\ ~CheckChild /\ ~CheckParentHead /\ ~ListAgain
  BY DEF LeaveCold, AfterCarry, CompareStatus, CompareTop, CheckChild, CheckParentHead, ListAgain, Goes
<1>6. SnapshotContent \/ Populate \/ TransportTracked \/ CopyUntracked \/ CheckParentContent =>
         UNCHANGED <<parent, names, stamp, edits, opts, run>>
  BY DEF SnapshotContent, Populate, TransportTracked, CopyUntracked, CheckParentContent, Parent,
         Fails, Goes, Descend, AfterCarry
<1>7. QED
  BY <1>2, <1>3, <1>4, <1>5, <1>6 DEF Next

\* Only an edit changes the parent.
LEMMA ParentIs ==
    ASSUME Next
    PROVE  Edit \/ UNCHANGED <<parent, names, stamp, edits, opts>>
BY DEF Next, Preflight, ReadStatus, ReadTop, SnapshotIdentity, SnapshotInventory, SnapshotContent,
       Create, LeaveCold, Populate, TransportTracked, CopyUntracked, CompareStatus, CompareTop,
       CheckChild, CheckParentHead, ListAgain, CheckParentContent, ParentUntouched, Finish, Parent

\* Every step keeps the parent's chain in order.
LEMMA ParentStep ==
    ASSUME TypeOK, ParentInv, [Next]_vars
    PROVE  ParentInv'
<1>1. CASE Edit
  BY <1>1, EditIs
<1>2. CASE UNCHANGED parent
  BY <1>2 DEF ParentInv
<1>3. QED
  BY <1>1, <1>2, ParentIs DEF vars

\* Every step keeps the types.
LEMMA TypeStep ==
    ASSUME TypeOK, ParentInv, ChildInv, [Next]_vars
    PROVE  TypeOK'
<1> DEFINE Rest == /\ names \in [Level -> Name]
                   /\ opts \in [verify : BOOLEAN, strict : BOOLEAN, limit : Nat]
           Chain == /\ parent \in [Level -> Checkout] /\ stamp \in [Level -> [Path -> Nat]]
                    /\ edits \in Nat
           Control == pc \in Steps /\ at \in Level
           Seen == /\ before \in [status : BOOLEAN, link : BOOLEAN]
                   /\ recheck \in [inventory : Inventories, link : BOOLEAN]
                   /\ agrees \in BOOLEAN
           Result == /\ carried \subseteq Level /\ skipped \subseteq Level /\ reasoned \subseteq skipped
                     /\ entrySkips \subseteq SkipRecord
<1>1. /\ Rest /\ Chain /\ Control /\ Seen /\ Result
      /\ child \in [Level -> Checkout] /\ plans \in [Level -> PlanRecord]
  BY DEF TypeOK
<1>2. SUFFICES /\ Rest' /\ Chain' /\ Control' /\ Seen' /\ Result'
               /\ child' \in [Level -> Checkout] /\ plans' \in [Level -> PlanRecord]
  BY DEF TypeOK
<1>3. CASE UNCHANGED vars
  BY <1>1, <1>3 DEF vars, run
<1>4. CASE Edit
  <2>1. UNCHANGED <<names, opts, pc, run>>
    BY <1>4, EditIs
  <2>2. Chain'
    BY <1>1, <1>4, EditIs
  <2>3. QED
    BY <1>1, <2>1, <2>2 DEF run
<1>5. CASE Next /\ pc' = "failed"
  <2>1. UNCHANGED <<parent, names, stamp, edits, opts, run>>
    BY <1>5, FailedStep
  <2>2. pc' \in Steps
    BY <1>5 DEF Steps
  <2>3. QED
    BY <1>1, <2>1, <2>2 DEF run
<1>6. ASSUME UNCHANGED <<parent, names, stamp, edits, opts>> PROVE Rest' /\ Chain'
  BY <1>1, <1>6
<1>7. ASSUME UNCHANGED <<carried, skipped, reasoned, entrySkips>> PROVE Result'
  BY <1>1, <1>7
<1>8. ASSUME UNCHANGED <<before, recheck, agrees>> PROVE Seen'
  BY <1>1, <1>8
<1>9. CASE pc' # "failed" /\ (ParentUntouched \/ Finish \/ Preflight)
  <2>1. UNCHANGED <<parent, names, stamp, edits, opts, run>>
    BY <1>9 DEF Preflight, ParentUntouched, Finish, Parent, Fails
  <2>2. pc' \in Steps
    BY <1>9 DEF Preflight, ParentUntouched, Finish, Goes, Fails, Steps
  <2>3. QED
    BY <1>1, <2>1, <2>2 DEF run
<1>10. CASE ReadStatus \/ ReadTop
  <2>1. UNCHANGED <<parent, names, stamp, edits, opts, child, at, plans, carried, skipped, reasoned,
                    entrySkips, recheck, agrees>>
    BY <1>10 DEF ReadStatus, ReadTop, Parent
  <2>2. pc' \in Steps
    BY <1>10 DEF ReadStatus, ReadTop, Goes, Steps
  <2>3. before' \in [status : BOOLEAN, link : BOOLEAN]
    BY <1>1, <1>10, LinkTyped DEF ReadStatus, ReadTop
  <2>4. QED
    BY <1>1, <2>1, <2>2, <2>3
<1>11. CASE SnapshotIdentity
  BY <1>1, <1>6, <1>7, <1>8, <1>11, IdentityIs DEF Steps
<1>12. CASE SnapshotInventory
  BY <1>1, <1>6, <1>7, <1>8, <1>12, ListsAre DEF Steps
<1>13. CASE SnapshotContent /\ pc' # "failed"
  BY <1>1, <1>6, <1>7, <1>8, <1>13, ContentIs DEF Steps
<1>14. CASE Create
  <2>1. UNCHANGED <<parent, names, stamp, edits, opts, child, before, plans, carried, skipped,
                    reasoned, entrySkips, recheck, agrees>>
    BY <1>14 DEF Create, Parent
  <2>2. pc' \in Steps /\ at' \in Level
    BY <1>14, LevelsAre DEF Create, Goes, Steps
  <2>3. QED
    BY <1>1, <2>1, <2>2
<1>15. CASE LeaveCold
  <2>1. UNCHANGED <<parent, names, stamp, edits, opts, child, before, plans, carried, entrySkips,
                    recheck, agrees>>
    BY <1>15 DEF LeaveCold, Parent
  <2>2. pc' \in Steps /\ at' \in Level
    BY <1>15, LevelsAre DEF LeaveCold, AfterCarry, Goes, Steps
  <2>3. skipped' \subseteq Level /\ reasoned' \subseteq skipped'
    BY <1>1, <1>15 DEF LeaveCold
  <2>4. QED
    BY <1>1, <2>1, <2>2, <2>3
<1>16. CASE Populate /\ pc' # "failed"
  BY <1>1, <1>6, <1>7, <1>8, <1>16, PopulateIs DEF Steps
<1>17. CASE TransportTracked /\ pc' # "failed"
  BY <1>1, <1>6, <1>7, <1>8, <1>17, TransportIs DEF Steps
<1>18. CASE CopyUntracked /\ pc' # "failed"
  <2>1. /\ child' \in [Level -> Checkout]
        /\ entrySkips' = entrySkips \cup plans[at].skips \cup SkipRecords(Uncopyable)
        /\ carried' = carried \cup {at} /\ pc' = Descend
        /\ at' = IF Descend = "carry" THEN at + 1 ELSE 1
        /\ UNCHANGED <<parent, names, stamp, edits, opts, before, plans, skipped, reasoned,
                       recheck, agrees>>
    BY <1>18, CopyIs
  <2>2. at \in Nat /\ 1 <= at /\ at <= Depth /\ Depth \in Nat
    BY <1>1, LevelsAre
  <2>3. pc' \in Steps
    BY <2>1 DEF Descend, AfterCarry, Steps
  <2>4. at' \in Level
    <3>1. CASE at < Depth
      BY <2>1, <2>2, <3>1, LevelsAre DEF Descend
    <3>2. CASE ~(at < Depth)
      <4>1. Descend # "carry"
        BY <3>2 DEF Descend, AfterCarry
      <4>2. QED
        BY <2>1, <4>1, LevelsAre
    <3>3. QED
      BY <3>1, <3>2
  <2>5. plans[at].skips \subseteq SkipRecord /\ plans[at].inventory \in Inventories
    BY <1>1, PlanIs
  <2>6. Uncopyable \subseteq Path
    BY <2>5 DEF Uncopyable, ToCopy, Inventories
  <2>7. SkipRecords(Uncopyable) \subseteq SkipRecord
    <3>1. stamp[at] \in [Path -> Nat]
      BY <1>1
    <3>2. QED
      BY <1>1, <2>6, <3>1 DEF SkipRecords, SkipRecord
  <2>8. Result'
    BY <1>1, <2>1, <2>5, <2>7
  <2>9. QED
    BY <1>1, <1>6, <1>8, <2>1, <2>3, <2>4, <2>8
<1>19. CASE CompareStatus \/ CompareTop \/ CheckChild \/ CheckParentHead
  <2>1. UNCHANGED <<parent, names, stamp, edits, opts, child, at, before, plans, carried, skipped,
                    reasoned, entrySkips, recheck>>
    BY <1>19 DEF CompareStatus, CompareTop, CheckChild, CheckParentHead, Parent
  <2>2. pc' \in Steps
    BY <1>19 DEF CompareStatus, CompareTop, CheckChild, CheckParentHead, Goes, Steps
  <2>3. agrees' \in BOOLEAN
    BY <1>1, <1>19 DEF CompareStatus, CompareTop, CheckChild, CheckParentHead
  <2>4. QED
    BY <1>1, <2>1, <2>2, <2>3
<1>20. CASE ListAgain
  <2>1. UNCHANGED <<parent, names, stamp, edits, opts, child, at, before, plans, carried, skipped,
                    reasoned, entrySkips, agrees>>
    BY <1>20 DEF ListAgain, Parent
  <2>2. pc' \in Steps /\ recheck' \in [inventory : Inventories, link : BOOLEAN]
    BY <1>1, <1>20, ListedIs DEF ListAgain, Goes, Steps
  <2>3. QED
    BY <1>1, <2>1, <2>2
<1>21. CASE CheckParentContent /\ pc' # "failed"
  <2>1. UNCHANGED <<parent, names, stamp, edits, opts, child, before, plans, carried, skipped,
                    reasoned, entrySkips, recheck>>
    BY <1>21 DEF CheckParentContent, Parent, Fails
  <2>2. agrees' \in BOOLEAN
    BY <1>21 DEF CheckParentContent, ParentAgrees, Fails
  <2>3. IF at < Depth THEN pc' = "checkChild" /\ at' = at + 1 ELSE pc' = "untouched" /\ at' = at
    BY <1>21 DEF CheckParentContent, Fails, Goes
  <2>4. at \in Nat /\ 1 <= at /\ at <= Depth /\ Depth \in Nat
    BY <1>1, LevelsAre
  <2>5. pc' \in Steps
    BY <2>3 DEF Steps
  <2>6. at' \in Level
    BY <1>1, <2>3, <2>4, LevelsAre
  <2>7. QED
    BY <1>1, <2>1, <2>2, <2>5, <2>6
<1>22. CASE Next /\ pc' # "failed"
  <2>1. CASE Edit \/ Preflight \/ ReadStatus \/ ReadTop \/ SnapshotIdentity \/ SnapshotInventory
             \/ SnapshotContent \/ Create
    BY <1>4, <1>9, <1>10, <1>11, <1>12, <1>13, <1>14, <1>22, <2>1, Zenon
  <2>2. CASE LeaveCold \/ Populate \/ TransportTracked \/ CopyUntracked
    BY <1>15, <1>16, <1>17, <1>18, <1>22, <2>2, Zenon
  <2>3. CASE CompareStatus \/ CompareTop \/ CheckChild \/ CheckParentHead \/ ListAgain
             \/ CheckParentContent \/ ParentUntouched \/ Finish
    BY <1>9, <1>19, <1>20, <1>21, <1>22, <2>3, Zenon
  <2>4. QED
    BY <1>22, <2>1, <2>2, <2>3, Zenon DEF Next
<1>23. QED
  BY <1>3, <1>5, <1>22, Zenon

\* Only three steps change the child, and they succeed.
LEMMA ChildIs ==
    ASSUME TypeOK, ParentInv, [Next]_vars
    PROVE  \/ UNCHANGED child
           \/ pc' # "failed" /\ (Populate \/ TransportTracked \/ CopyUntracked)
<1>1. CASE Edit
  BY <1>1, EditIs DEF run
<1>2. CASE Next /\ pc' = "failed"
  BY <1>2, FailedStep DEF run
<1>3. CASE Next /\ pc' # "failed" /\ ~Edit
  BY <1>3 DEF Next, Preflight, ReadStatus, ReadTop, SnapshotIdentity, SnapshotInventory,
       SnapshotContent, Create, LeaveCold, CompareStatus, CompareTop, CheckChild, CheckParentHead,
       ListAgain, CheckParentContent, ParentUntouched, Finish, Fails, run
<1>4. QED
  BY <1>1, <1>2, <1>3 DEF vars, run

\* Only three steps change the plans, and they succeed.
LEMMA PlansAre ==
    ASSUME TypeOK, ParentInv, [Next]_vars
    PROVE  \/ UNCHANGED plans
           \/ pc' # "failed" /\ (SnapshotIdentity \/ SnapshotInventory \/ SnapshotContent)
<1>1. CASE Edit
  BY <1>1, EditIs DEF run
<1>2. CASE Next /\ pc' = "failed"
  BY <1>2, FailedStep DEF run
<1>3. CASE Next /\ pc' # "failed" /\ ~Edit
  BY <1>3 DEF Next, Preflight, ReadStatus, ReadTop, Populate, TransportTracked, CopyUntracked,
       Create, LeaveCold, CompareStatus, CompareTop, CheckChild, CheckParentHead,
       ListAgain, CheckParentContent, ParentUntouched, Finish, Fails, run
<1>4. QED
  BY <1>1, <1>2, <1>3 DEF vars, run

\* Every step keeps what the plans may hold.
LEMMA PlansStep ==
    ASSUME TypeOK, ParentInv, PlansInv, [Next]_vars
    PROVE  PlansInv'
<1>1. CASE UNCHANGED plans
  BY <1>1 DEF PlansInv
<1>2. /\ at \in Level /\ parent \in [Level -> Checkout]
  BY DEF TypeOK
<1>3. CASE SnapshotIdentity
  <2>1. SUFFICES ASSUME NEW d \in Level
                 PROVE  /\ \A p \in Path \ {Source} : plans'[d].head[p] = Absent
                        /\ plans'[d].inventory.untracked \cap Ignored = {}
    BY DEF PlansInv
  <2>2. plans'[d].inventory.untracked \cap Ignored = {}
    BY <1>2, <1>3, IdentityIs DEF PlansInv
  <2>3. CASE d # at \/ plans' = plans
    BY <1>3, <2>2, <2>3, IdentityIs DEF PlansInv
  <2>4. CASE d = at /\ plans' # plans
    <3>1. plans'[d].head = parent[d].tree.head
      BY <1>3, <2>4, IdentityIs
    <3>2. QED
      BY <1>2, <2>2, <2>4, <3>1 DEF ParentInv, Plain
  <2>5. QED
    BY <2>3, <2>4
<1>4. CASE SnapshotInventory
  <2>1. SUFFICES ASSUME NEW d \in Level
                 PROVE  /\ plans'[d].head = plans[d].head
                        /\ plans'[d].inventory.untracked \cap Ignored = {}
    BY DEF PlansInv
  <2>2. plans'[d].head = plans[d].head
    BY <1>2, <1>4, ListsAre
  <2>3. CASE d # at
    BY <1>4, <2>2, <2>3, ListsAre DEF PlansInv
  <2>4. CASE d = at
    <3>1. plans'[d].inventory = CollectInventory(parent[d].tree, TRUE, FALSE)
      BY <1>2, <1>4, <2>4, ListsAre, ListedIs
    <3>2. QED
      BY <2>2, <3>1, InventoryIs
  <2>5. QED
    BY <2>3, <2>4
<1>5. CASE SnapshotContent /\ pc' # "failed"
  <2>1. \A d \in Level : plans'[d].head = plans[d].head /\ plans'[d].inventory = plans[d].inventory
    BY <1>2, <1>5, ContentIs
  <2>2. QED
    BY <2>1 DEF PlansInv
<1>6. QED
  BY <1>1, <1>3, <1>4, <1>5, PlansAre

\* Every step leaves in the child what can be read.
LEMMA ChildStep ==
    ASSUME TypeOK, ParentInv, ChildInv, PlansInv, [Next]_vars
    PROVE  ChildInv'
<1>1. CASE UNCHANGED child
  BY <1>1 DEF ChildInv
<1>2. /\ at \in Level /\ parent \in [Level -> Checkout] /\ child \in [Level -> Checkout]
      /\ plans \in [Level -> PlanRecord] /\ plans[at] \in PlanRecord
      /\ parent[at].tree \in Tree /\ Plain(parent[at].tree) /\ child[at].tree \in Tree
      /\ Plain(child[at].tree) /\ child[at].urls # "local"
      /\ \A p \in Path : child[at].tree.work[p] # Locked
      /\ \A p \in Ignored : child[at].tree.work[p] = Absent
  BY CheckoutIs DEF TypeOK, ParentInv, ChildInv
<1>3. ASSUME \A d \in Level \ {at} : child'[d] = child[d],
             Plain(child'[at].tree), child'[at].urls # "local",
             \A p \in Path : child'[at].tree.work[p] # Locked,
             \A p \in Ignored : child'[at].tree.work[p] = Absent
      PROVE  ChildInv'
  <2>1. SUFFICES ASSUME NEW d \in Level
                 PROVE  /\ Plain(child'[d].tree) /\ child'[d].urls # "local"
                        /\ \A p \in Path : child'[d].tree.work[p] # Locked
                        /\ \A p \in Ignored : child'[d].tree.work[p] = Absent
    BY DEF ChildInv
  <2>2. CASE d = at
    BY <1>3, <2>2
  <2>3. CASE d # at
    BY <1>3, <2>3 DEF ChildInv
  <2>4. QED
    BY <2>2, <2>3
<1>4. CASE Populate /\ pc' # "failed"
  <2>1. PICK h : h = plans[at].head
    OBVIOUS
  <2>2. /\ h \in [Path -> Content \cup {Absent}] /\ plans[at].urls \in Urls
        /\ \A p \in Path \ {Source} : h[p] = Absent
    BY <1>2, <2>1, PlanIs DEF PlansInv
  <2>3. \A p \in Path : h[p] \notin {Ita, Locked, Nested}
    BY <2>2, ValuesAre
  <2>4. /\ child'[at].tree.head = h /\ child'[at].tree.index = h /\ child'[at].tree.work = h
        /\ child'[at].tree.hidden = {} /\ child'[at].urls = plans[at].urls
        /\ \A d \in Level \ {at} : child'[d] = child[d]
    BY <1>4, <2>1, PopulateIs
  <2>5. Plain(child'[at].tree)
    BY <2>2, <2>3, <2>4, ValuesAre DEF Plain
  <2>6. child'[at].urls # "local"
    BY <2>2, <2>4 DEF Urls
  <2>7. \A p \in Ignored : child'[at].tree.work[p] = Absent
    BY <2>2, <2>4, ValuesAre
  <2>8. QED
    BY <1>3, <2>3, <2>4, <2>5, <2>6, <2>7
<1>5. CASE TransportTracked /\ pc' # "failed"
  <2>1. PICK from, to, new : from = parent[at].tree /\ to = child[at].tree /\ new = child'[at].tree
    OBVIOUS
  <2>2. /\ new.head = to.head /\ new.hidden = to.hidden /\ child'[at].urls = child[at].urls
        /\ \A p \in Path :
              /\ new.index[p] = IF p \in Staged(from) THEN from.index[p] ELSE to.index[p]
              /\ new.work[p] = IF p \in Unstaged(from) THEN from.work[p]
                               ELSE IF p \in Staged(from) THEN from.index[p] ELSE to.work[p]
        /\ UnstagedFits(from, Indexed(from, to))
        /\ \A d \in Level \ {at} : child'[d] = child[d]
    BY <1>5, <2>1, TransportIs
  <2>3. /\ Staged(from) \subseteq {Source} /\ Unstaged(from) \subseteq {Source}
        /\ Plain(from) /\ Plain(to) /\ \A p \in Path : from.index[p] # Ita
    BY <1>2, <2>1, PlainIs
  <2>4. /\ from.index \in [Path -> Content \cup {Absent, Ita}]
        /\ to.index \in [Path -> Content \cup {Absent, Ita}]
    BY <1>2, <2>1, TreeIs
  <2>5. from.index[Source] # Nested /\ \A p \in Path : from.index[p] # Locked
    BY <2>4, ValuesAre
  <2>6. \A p \in Unstaged(from) : from.work[p] # Locked
    BY <2>2 DEF UnstagedFits
  <2>7. \A p \in Path : new.work[p] # Locked
    BY <1>2, <2>1, <2>2, <2>5, <2>6
  <2>8. \A p \in Path \ {Source} : /\ new.head[p] = Absent /\ new.index[p] = Absent
                                   /\ new.work[p] = to.work[p]
    BY <2>2, <2>3 DEF Plain
  <2>9. new.index[Source] # Ita /\ new.work[Source] # Nested
    BY <2>2, <2>3, <2>5, ValuesAre DEF Plain
  <2>10. Plain(new)
    BY <2>2, <2>3, <2>8, <2>9 DEF Plain
  <2>11. \A p \in Ignored : new.work[p] = Absent
    BY <1>2, <2>1, <2>8, ValuesAre
  <2>12. child'[at].urls # "local"
    BY <1>2, <2>2
  <2>13. QED
    BY <1>3, <2>1, <2>2, <2>7, <2>10, <2>11, <2>12
<1>6. CASE CopyUntracked /\ pc' # "failed"
  <2>1. PICK from, to, new : from = parent[at].tree /\ to = child[at].tree /\ new = child'[at].tree
    OBVIOUS
  <2>2. /\ new.head = to.head /\ new.index = to.index /\ new.hidden = to.hidden
        /\ child'[at].urls = child[at].urls
        /\ \A p \in Path : new.work[p] = IF p \in ToCopy \ Uncopyable THEN from.work[p]
                                         ELSE to.work[p]
        /\ \A d \in Level \ {at} : child'[d] = child[d]
    BY <1>6, <2>1, CopyIs
  <2>3. \A p \in ToCopy \ Uncopyable : from.work[p] # Locked /\ p \notin Ignored
    BY <1>2, <2>1 DEF ToCopy, Uncopyable, PlansInv
  <2>4. \A p \in Path : new.work[p] # Locked
    BY <1>2, <2>1, <2>2, <2>3
  <2>5. \A p \in Ignored : new.work[p] = Absent
    BY <1>2, <2>1, <2>2, <2>3, ValuesAre
  <2>6. Plain(new)
    BY <1>2, <2>1, <2>2, ValuesAre DEF Plain
  <2>7. child'[at].urls # "local"
    BY <1>2, <2>2
  <2>8. QED
    BY <1>3, <2>1, <2>2, <2>4, <2>5, <2>6, <2>7
<1>7. QED
  BY <1>1, <1>4, <1>5, <1>6, ChildIs

\* The steps between the snapshot and the carry, and those of the verification,
\* with what they leave alone.
LEMMA ReadOnly ==
    ASSUME \/ Preflight \/ ReadStatus \/ ReadTop \/ Create
           \/ CompareStatus \/ CompareTop \/ CheckChild \/ CheckParentHead \/ ListAgain
           \/ CheckParentContent \/ ParentUntouched \/ Finish
    PROVE  UNCHANGED <<names, opts, child, plans, carried, skipped, reasoned, entrySkips>>
BY DEF Preflight, ReadStatus, ReadTop, Create, CompareStatus, CompareTop, CheckChild,
       CheckParentHead, ListAgain, CheckParentContent, ParentUntouched, Finish, Parent, Fails, run

\* Every step keeps the levels in order.
LEMMA ProgressStep ==
    ASSUME TypeOK, ParentInv, ChildInv, ProgressInv, [Next]_vars
    PROVE  ProgressInv'
<1>1. CASE UNCHANGED <<names, opts, pc, run>>
  BY <1>1 DEF ProgressInv, run
<1>2. CASE Next /\ pc' = "failed"
  <2>1. UNCHANGED <<names, opts, run>>
    BY <1>2, FailedStep
  <2>2. QED
    BY <1>2, <2>1 DEF ProgressInv, run, Snapshot, Carrying, Verifying, Over
<1>3. /\ at \in Level /\ at \in Nat /\ Depth \in Nat /\ at <= Depth /\ 1 <= at
      /\ child \in [Level -> Checkout] /\ \A d \in Level : d \in Nat /\ 1 <= d
      /\ carried \subseteq Level /\ skipped \subseteq Level /\ reasoned \subseteq skipped
  BY LevelsAre DEF TypeOK
<1>4. CASE Preflight /\ pc' # "failed"
  <2>1. pc = "preflight" /\ pc' = "status" /\ UNCHANGED <<names, opts, run>>
    BY <1>4 DEF Preflight, Fails, Goes, Parent
  <2>2. QED
    BY <2>1 DEF ProgressInv, run, Snapshot, Carrying, Verifying, Over
<1>5. CASE ReadStatus \/ ReadTop
  <2>1. /\ \/ pc = "status" /\ pc' = "top"
           \/ pc = "top" /\ pc' = "identity"
        /\ UNCHANGED <<names, opts, child, at, plans, carried, skipped, reasoned, entrySkips>>
    BY <1>5 DEF ReadStatus, ReadTop, Goes, Parent
  <2>2. QED
    BY <2>1 DEF ProgressInv, Snapshot, Carrying, Verifying, Over
<1>6. CASE pc' # "failed" /\ (SnapshotIdentity \/ SnapshotInventory \/ SnapshotContent)
  <2>1. /\ pc \in {"identity", "inventory", "content"}
        /\ pc' \in {"identity", "inventory", "content", "create"}
        /\ UNCHANGED <<names, opts, child, carried, skipped, reasoned, entrySkips>>
    BY <1>6, IdentityIs, ListsAre, ContentIs
  <2>2. /\ carried = {} /\ skipped = {} /\ entrySkips = {} /\ \A d \in Level : ~child[d].init
    BY <2>1 DEF ProgressInv, Snapshot
  <2>3. QED
    BY <1>3, <2>1, <2>2 DEF ProgressInv, Snapshot, Carrying, Verifying, Over
<1>7. CASE Create
  <2>1. /\ pc = "create" /\ pc' = "carry" /\ at' = 1
        /\ UNCHANGED <<names, opts, child, plans, carried, skipped, reasoned, entrySkips>>
    BY <1>7, ReadOnly DEF Create, Goes
  <2>2. /\ carried = {} /\ skipped = {} /\ \A d \in Level : ~child[d].init
    BY <2>1 DEF ProgressInv, Snapshot
  <2>3. \A d \in Level : ~(d < 1)
    BY <1>3
  <2>4. QED
    BY <1>3, <2>1, <2>2, <2>3 DEF ProgressInv, Snapshot, Carrying, Verifying, Over
<1>8. CASE LeaveCold
  <2>1. /\ pc = "carry" /\ pc' = AfterCarry /\ at' = 1
        /\ skipped' = skipped \cup {at}
        /\ reasoned' = IF plans[at].init THEN reasoned \cup {at} ELSE reasoned
        /\ ~plans[at].init \/ names[at] = "equals"
        /\ UNCHANGED <<names, opts, child, plans, carried, entrySkips>>
    BY <1>8 DEF LeaveCold, Goes, Parent
  <2>2. /\ skipped = {} /\ carried = {d \in Level : d < at}
        /\ \A d \in Level : child[d].init <=> d \in carried
    BY <2>1 DEF ProgressInv, Carrying
  <2>3. /\ skipped' = {at}
        /\ \A d \in carried : plans[d].init
        /\ \A e \in reasoned : names[e] = "equals"
    BY <2>1, <2>2 DEF ProgressInv
  <2>4. /\ \A e \in skipped' : e \in reasoned' \/ ~plans'[e].init
        /\ \A e \in reasoned' : names'[e] = "equals"
    BY <1>3, <2>1, <2>3
  <2>5. carried' = {d \in Level : \A e \in skipped' : d < e}
    BY <2>1, <2>2, <2>3
  <2>6. /\ pc' \in {"compareStatus", "finish"} /\ (pc' = "compareStatus" <=> opts.verify)
    BY <2>1 DEF AfterCarry, TypeOK
  <2>7. QED
    BY <2>1, <2>2, <2>3, <2>4, <2>5, <2>6 DEF ProgressInv, Snapshot, Carrying, Verifying, Over
<1>9. CASE Populate /\ pc' # "failed"
  <2>1. /\ pc = "carry" /\ pc' = "tracked" /\ plans[at].init /\ names[at] = "plain"
        /\ \A d \in Level \ {at} : child'[d] = child[d]
        /\ child'[at].init
        /\ UNCHANGED <<names, opts, at, plans, carried, skipped, reasoned, entrySkips>>
    BY <1>9, PopulateIs
  <2>2. /\ skipped = {} /\ carried = {d \in Level : d < at}
        /\ \A d \in Level : child[d].init <=> d \in carried
        /\ \A d \in carried : plans[d].init
        /\ \A e \in reasoned : names[e] = "equals"
    BY <2>1 DEF ProgressInv, Carrying
  <2>3. \A d \in Level : child'[d].init <=> d \in carried' \/ d = at
    BY <2>1, <2>2
  <2>4. QED
    BY <2>1, <2>2, <2>3 DEF ProgressInv, Snapshot, Carrying, Verifying, Over
<1>10. CASE TransportTracked /\ pc' # "failed"
  <2>1. /\ pc = "tracked" /\ pc' = "untracked"
        /\ \A d \in Level \ {at} : child'[d] = child[d]
        /\ child'[at].init = child[at].init
        /\ UNCHANGED <<names, opts, at, plans, carried, skipped, reasoned, entrySkips>>
    BY <1>10, TransportIs
  <2>2. /\ skipped = {} /\ carried = {d \in Level : d < at}
        /\ \A d \in Level : child[d].init <=> d \in carried \/ d = at
        /\ \A d \in carried : plans[d].init
        /\ \A e \in reasoned : names[e] = "equals"
        /\ plans[at].init /\ names[at] # "equals"
    BY <2>1 DEF ProgressInv, Carrying
  <2>3. \A d \in Level : child'[d].init <=> d \in carried' \/ d = at
    BY <2>1, <2>2
  <2>4. QED
    BY <2>1, <2>2, <2>3 DEF ProgressInv, Snapshot, Carrying, Verifying, Over
<1>11. CASE CopyUntracked /\ pc' # "failed"
  <2>1. /\ pc = "untracked" /\ pc' = Descend /\ carried' = carried \cup {at}
        /\ at' = IF Descend = "carry" THEN at + 1 ELSE 1
        /\ \A d \in Level \ {at} : child'[d] = child[d]
        /\ child'[at].init = child[at].init
        /\ UNCHANGED <<names, opts, plans, skipped, reasoned>>
    BY <1>11, CopyIs
  <2>2. /\ skipped = {} /\ carried = {d \in Level : d < at}
        /\ \A d \in Level : child[d].init <=> d \in carried \/ d = at
        /\ \A d \in carried : plans[d].init
        /\ \A e \in reasoned : names[e] = "equals"
        /\ plans[at].init
    BY <2>1 DEF ProgressInv, Carrying
  <2>3. /\ \A d \in Level : child'[d].init <=> d \in carried'
        /\ \A d \in carried' : plans[d].init
    BY <1>3, <2>1, <2>2
  <2>4. CASE at < Depth
    <3>1. pc' = "carry" /\ at' = at + 1
      BY <2>1, <2>4 DEF Descend
    <3>2. carried' = {d \in Level : d < at'}
      <4>1. \A d \in Level : d < at + 1 <=> d < at \/ d = at
        BY <1>3
      <4>2. QED
        BY <1>3, <2>1, <2>2, <3>1, <4>1
    <3>3. QED
      BY <2>1, <2>2, <2>3, <3>1, <3>2 DEF ProgressInv, Snapshot, Carrying, Verifying, Over
  <2>5. CASE ~(at < Depth)
    <3>1. pc' \in {"compareStatus", "finish"} /\ (pc' = "compareStatus" <=> opts.verify) /\ at' = 1
      BY <2>1, <2>5 DEF Descend, AfterCarry, TypeOK
    <3>2. \A d \in Level : d < at \/ d = at
      BY <1>3, <2>5, LevelsAre
    <3>3. carried' = {d \in Level : \A e \in skipped' : d < e}
      BY <1>3, <2>1, <2>2, <3>2
    <3>4. QED
      BY <2>1, <2>2, <2>3, <3>1, <3>3 DEF ProgressInv, Snapshot, Carrying, Verifying, Over
  <2>6. QED
    BY <2>4, <2>5
<1>12. CASE CompareStatus \/ CompareTop
  <2>1. /\ \/ pc = "compareStatus" /\ pc' = "compareTop"
           \/ pc = "compareTop" /\ pc' = "checkChild"
        /\ at' = at
        /\ UNCHANGED <<names, opts, child, plans, carried, skipped, reasoned, entrySkips>>
    BY <1>12 DEF CompareStatus, CompareTop, Goes, Parent
  <2>2. at = 1 /\ \A d \in Level : ~(d < at)
    BY <1>3, <2>1 DEF ProgressInv
  <2>3. QED
    BY <2>1, <2>2 DEF ProgressInv, Snapshot, Carrying, Verifying, Over
<1>13. CASE CheckChild
  <2>1. /\ pc = "checkChild" /\ at' = at
        /\ pc' \in {"parentHead", "untouched"}
        /\ pc' = "parentHead" => child[at].init
        /\ UNCHANGED <<names, opts, child, plans, carried, skipped, reasoned, entrySkips>>
    BY <1>13 DEF CheckChild, Goes, Parent
  <2>2. \A d \in Level : d <= at => d < at \/ d = at
    BY <1>3
  <2>3. pc' = "parentHead" => \A d \in Level : d <= at => d \in carried
    BY <1>3, <2>1, <2>2 DEF ProgressInv, Verifying
  <2>4. QED
    BY <2>1, <2>3 DEF ProgressInv, Snapshot, Carrying, Verifying, Over
<1>14. CASE CheckParentHead \/ ListAgain
  <2>1. /\ \/ pc = "parentHead" /\ pc' = "listAgain"
           \/ pc = "listAgain" /\ pc' = "parentContent"
        /\ at' = at
        /\ UNCHANGED <<names, opts, child, plans, carried, skipped, reasoned, entrySkips>>
    BY <1>14 DEF CheckParentHead, ListAgain, Goes, Parent
  <2>2. QED
    BY <2>1 DEF ProgressInv, Snapshot, Carrying, Verifying, Over
<1>15. CASE CheckParentContent /\ pc' # "failed"
  <2>1. /\ pc = "parentContent"
        /\ \/ pc' = "checkChild" /\ at' = at + 1
           \/ pc' = "untouched" /\ at' = at
        /\ UNCHANGED <<names, opts, child, plans, carried, skipped, reasoned, entrySkips>>
    BY <1>15 DEF CheckParentContent, Goes, Parent, Fails
  <2>2. pc' = "checkChild" => \A d \in Level : d < at' => d \in carried
    BY <1>3, <2>1 DEF ProgressInv
  <2>3. QED
    BY <2>1, <2>2 DEF ProgressInv, Snapshot, Carrying, Verifying, Over
<1>16. CASE pc' # "failed" /\ (ParentUntouched \/ Finish)
  <2>1. /\ \/ pc = "untouched" /\ pc' = "finish" /\ agrees
           \/ pc = "finish" /\ pc' = "done"
        /\ UNCHANGED <<names, opts, run>>
    BY <1>16 DEF ParentUntouched, Finish, Goes, Parent
  <2>2. QED
    BY <2>1 DEF ProgressInv, run, Snapshot, Carrying, Verifying, Over
<1>17. CASE Edit
  BY <1>1, <1>17, EditIs
<1>18. CASE Next /\ pc' # "failed"
  BY <1>4, <1>5, <1>6, <1>7, <1>8, <1>9, <1>10, <1>11, <1>12, <1>13, <1>14, <1>15, <1>16, <1>17,
     <1>18, Zenon DEF Next
<1>19. QED
  BY <1>1, <1>2, <1>18 DEF vars

\* A child found to agree with its plan is exactly what the plan says: all of it
\* can be read, and what is on no list is as in the commit.
LEMMA AgreementIsExact ==
    ASSUME TypeOK, ChildInv, NEW d \in Level, ChildAgrees(d)
    PROVE  Exact(d)
<1>1. PICK t, plan, inv : /\ t = child[d].tree /\ plan = plans[d]
                          /\ inv = CollectInventory(t, TRUE, FALSE)
  OBVIOUS
<1>2. /\ child \in [Level -> Checkout] /\ t \in Tree /\ Plain(t)
      /\ \A p \in Path : t.work[p] # Locked
      /\ \A p \in Ignored : t.work[p] = Absent
  BY <1>1, CheckoutIs DEF TypeOK, ChildInv
<1>3. /\ t.index \in [Path -> Content \cup {Absent, Ita}] /\ t.work \in [Path -> Object]
      /\ \A p \in Path : p \in Staged(t) <=> t.head[p] # t.index[p]
      /\ IntentToAdd(t) = {}
  BY <1>2, TreeIs, PlainIs
<1>4. Listed(child, d).inventory = inv
  BY <1>1, <1>2, ListedIs
<1>5. /\ t.head = plan.head /\ child[d].urls = plan.urls
      /\ Same(plan.content, CaptureState(t, inv, {}))
  BY <1>1, <1>4 DEF ChildAgrees, Agree, Captured
<1>6. /\ inv.staged = Staged(t) /\ inv.unstaged = Unstaged(t) /\ inv.ita = {}
      /\ inv.untracked = Others(t) \ Ignored /\ inv.ignored = {}
  BY <1>1, <1>3, InventoryIs
<1>7. CarriedPaths(inv) = Staged(t) \cup Unstaged(t) \cup (Others(t) \ Ignored)
  BY <1>6 DEF CarriedPaths
<1>8. PICK held : held = CarriedPaths(inv)
  OBVIOUS
<1>9. held \subseteq Path
  BY <1>7, <1>8 DEF Staged, Unstaged, Others
<1>10. Unreadable(t, inv, {}) = {}
  BY <1>2, <1>8, <1>9 DEF Unreadable
<1>11. /\ plan.content.paths = held
       /\ plan.content.index = [p \in Path |-> IF p \in held THEN t.index[p] ELSE Absent]
       /\ plan.content.manifest = [p \in Path |-> IF p \in held THEN t.work[p] ELSE Absent]
  <2>1. \A p \in Path : IndexRecord(t, p) = t.index[p]
    BY <1>2, PlainIs DEF IndexRecord
  <2>2. plan.content.index = [p \in Path |-> IF p \in held THEN IndexRecord(t, p) ELSE Absent]
    BY <1>5, <1>8, <1>10 DEF Same, CaptureState
  <2>3. QED
    BY <1>5, <1>8, <1>10, <2>1, <2>2 DEF Same, CaptureState
<1>12. \A p \in Path \ held : t.index[p] = t.head[p] /\ t.work[p] = t.head[p]
  <2>1. SUFFICES ASSUME NEW p \in Path, p \notin held
                 PROVE  t.index[p] = t.head[p] /\ t.work[p] = t.head[p]
    OBVIOUS
  <2>2. p \notin Staged(t) /\ p \notin Unstaged(t) /\ p \notin Others(t) \ Ignored
    BY <1>7, <1>8, <2>1
  <2>3. t.index[p] = t.head[p]
    BY <1>3, <2>2
  <2>4. CASE t.index[p] = Absent
    <3>1. t.work[p] = Absent
      BY <1>2, <2>2, <2>4 DEF Others
    <3>2. QED
      BY <2>3, <2>4, <3>1
  <2>5. CASE t.index[p] # Absent
    BY <2>2, <2>3, <2>5 DEF Unstaged
  <2>6. QED
    BY <2>4, <2>5
<1>13. t.index = [p \in Path |-> IF p \in held THEN plan.content.index[p] ELSE plan.head[p]]
  <2>1. \A p \in Path : t.index[p] = IF p \in held THEN plan.content.index[p] ELSE plan.head[p]
    BY <1>5, <1>11, <1>12
  <2>2. QED
    BY <1>3, <2>1
<1>14. t.work = [p \in Path |-> IF p \in held THEN plan.content.manifest[p] ELSE plan.head[p]]
  <2>1. \A p \in Path : t.work[p] = IF p \in held THEN plan.content.manifest[p] ELSE plan.head[p]
    BY <1>5, <1>11, <1>12
  <2>2. QED
    BY <1>3, <2>1
<1>15. QED
  BY <1>1, <1>5, <1>11, <1>13, <1>14 DEF Exact

\* Every step keeps exact what was compared.
LEMMA ExactStep ==
    ASSUME TypeOK, ParentInv, ChildInv, ProgressInv, ExactInv, [Next]_vars
    PROVE  ExactInv'
<1> DEFINE Comparing == {"checkChild", "parentHead", "listAgain", "parentContent", "untouched"} \cup Over
<1>1. CASE UNCHANGED <<opts, pc, run>>
  BY <1>1 DEF ExactInv, Checked, Exact, run
<1>2. CASE pc' \notin Comparing
  BY <1>2 DEF ExactInv, Checked, Over
<1>3. /\ at \in Level /\ at \in Nat /\ Depth \in Nat /\ at <= Depth /\ 1 <= at
      /\ \A d \in Level : d \in Nat /\ 1 <= d /\ d <= Depth
      /\ carried \subseteq Level /\ skipped \subseteq Level
      /\ opts \in [verify : BOOLEAN, strict : BOOLEAN, limit : Nat]
  BY LevelsAre DEF TypeOK
\* Where nothing but the verdict and the position moves, a level must be found
\* exact only when it is newly among the checked.
<1>4. ASSUME UNCHANGED <<opts, child, plans, carried>>, agrees' => agrees,
             opts.verify /\ agrees' => \A d \in carried : Checked(d)' => Checked(d) \/ Exact(d)
      PROVE  ExactInv'
  <2>1. SUFFICES ASSUME opts'.verify, agrees', NEW d \in Level, d \in carried', Checked(d)'
                 PROVE  Exact(d)'
    BY <1>3, <1>4 DEF ExactInv, Checked, Exact, Over
  <2>2. Exact(d)
    BY <1>4, <2>1 DEF ExactInv, Checked, Over
  <2>3. QED
    BY <1>4, <2>2 DEF Exact
<1>5. CASE Edit
  BY <1>1, <1>5, EditIs
<1>6. CASE CompareTop
  <2>1. /\ pc = "compareTop" /\ pc' = "checkChild" /\ at' = at /\ (agrees' => agrees)
    BY <1>6 DEF CompareTop, Goes
  <2>2. at = 1
    BY <2>1 DEF ProgressInv
  <2>3. ~\E d \in Level : Checked(d)'
    BY <1>3, <2>1, <2>2 DEF Checked, Over
  <2>4. QED
    BY <1>3, <1>4, <1>6, <2>1, <2>3, ReadOnly
<1>7. CASE CheckChild
  <2> DEFINE excused == at \in reasoned \/ ~plans[at].init
             there == at \notin skipped /\ child[at].init
  <2>1. /\ pc = "checkChild" /\ at' = at /\ (agrees' => agrees)
        /\ agrees' => IF excused THEN ~child[at].init ELSE there /\ ChildAgrees(at)
        /\ pc' = IF ~excused /\ there THEN "parentHead" ELSE "untouched"
    BY <1>7 DEF CheckChild, Goes
  <2>2. \A d \in carried : \A e \in skipped : d < e
    BY <2>1 DEF ProgressInv, Verifying
  <2>3. \A d \in Level : child[d].init <=> d \in carried
    BY <2>1 DEF ProgressInv, Verifying
  <2>4. carried = {d \in Level : \A e \in skipped : d < e}
    BY <2>1 DEF ProgressInv, Verifying
  <2>5. ASSUME opts.verify, agrees', NEW d \in carried, Checked(d)'
        PROVE  Checked(d) \/ Exact(d)
    <3>1. \/ pc' = "parentHead" /\ d <= at
          \/ pc' = "untouched"
      BY <2>1, <2>5 DEF Checked, Over
    <3>2. CASE ~excused
      <4>1. there /\ ChildAgrees(at) /\ pc' = "parentHead"
        BY <2>1, <2>5, <3>2
      <4>2. Exact(at)
        BY <1>3, <4>1, AgreementIsExact
      <4>3. d <= at
        BY <3>1, <4>1
      <4>4. d < at \/ d = at
        BY <1>3, <4>3
      <4>5. QED
        BY <2>1, <4>2, <4>4 DEF Checked
    <3>3. CASE excused
      <4>1. at \notin carried
        BY <2>1, <2>3, <2>5, <3>3, <1>3
      <4>2. PICK e \in skipped : ~(at < e)
        BY <1>3, <2>4, <4>1
      <4>3. d < at
        BY <1>3, <2>2, <4>2
      <4>4. QED
        BY <2>1, <4>3 DEF Checked
    <3>4. QED
      BY <3>2, <3>3
  <2>6. UNCHANGED <<opts, child, plans, carried>> /\ (agrees' => agrees)
    BY <1>7, <2>1, ReadOnly
  <2> HIDE DEF excused, there
  <2>7. SUFFICES ASSUME opts'.verify, agrees', NEW d \in Level, d \in carried', Checked(d)'
                 PROVE  Exact(d)'
    BY <1>3, <2>6 DEF ExactInv, Checked, Exact, Over
  <2>8. Checked(d) \/ Exact(d)
    BY <2>5, <2>6, <2>7
  <2>9. Exact(d)
    BY <2>6, <2>7, <2>8 DEF ExactInv
  <2>10. QED
    BY <2>6, <2>9 DEF Exact
<1>8. CASE CheckParentHead \/ ListAgain
  <2>1. /\ pc \in {"parentHead", "listAgain"} /\ pc' \in {"listAgain", "parentContent"}
        /\ at' = at /\ (agrees' => agrees)
    <3>1. CASE CheckParentHead
      BY <3>1 DEF CheckParentHead, Goes
    <3>2. CASE ListAgain
      BY <3>2 DEF ListAgain, Goes
    <3>3. QED
      BY <1>8, <3>1, <3>2
  <2>2. \A d \in carried : Checked(d)' => Checked(d)
    BY <2>1 DEF Checked, Over
  <2>3. QED
    BY <1>4, <1>8, <2>1, <2>2, ReadOnly
<1>9. CASE CheckParentContent /\ pc' # "failed"
  <2>1. /\ pc = "parentContent" /\ (agrees' => agrees)
        /\ \/ pc' = "checkChild" /\ at' = at + 1
           \/ pc' = "untouched" /\ at' = at /\ ~(at < Depth)
    BY <1>9 DEF CheckParentContent, Goes, Fails
  <2>2. ASSUME NEW d \in carried, Checked(d)'
        PROVE  Checked(d)
    <3>1. d <= at
      <4>1. CASE pc' = "checkChild" /\ at' = at + 1
        BY <1>3, <2>2, <4>1 DEF Checked, Over
      <4>2. CASE ~(at < Depth)
        BY <1>3, <4>2
      <4>3. QED
        BY <2>1, <4>1, <4>2
    <3>2. QED
      BY <2>1, <3>1 DEF Checked
  <2>3. QED
    BY <1>4, <1>9, <2>1, <2>2, ReadOnly
<1>10. CASE ParentUntouched \/ Finish
  <2>1. /\ pc \in {"untouched", "finish"} /\ UNCHANGED <<opts, run>>
    BY <1>10 DEF ParentUntouched, Finish, Parent
  <2>2. \A d \in carried : Checked(d)
    BY <2>1 DEF Checked, Over
  <2>3. QED
    BY <1>4, <2>1, <2>2 DEF run
<1>11. CASE Next /\ pc' = "failed"
  BY <1>2, <1>11 DEF Over
<1>12. CASE Preflight \/ ReadStatus \/ ReadTop \/ Create \/ SnapshotIdentity \/ SnapshotInventory
            \/ CompareStatus
  BY <1>2, <1>12 DEF Preflight, ReadStatus, ReadTop, Create, SnapshotIdentity, SnapshotInventory,
                     CompareStatus, Goes, Fails, Over
<1>13. CASE pc' # "failed" /\ (SnapshotContent \/ Populate \/ TransportTracked)
  BY <1>2, <1>13, ContentIs, PopulateIs, TransportIs DEF Over
<1>14. CASE pc' # "failed" /\ (LeaveCold \/ CopyUntracked)
  <2>1. pc' \in {"carry", AfterCarry} /\ opts' = opts
    BY <1>14, CopyIs DEF LeaveCold, Goes, Descend, Parent
  <2>2. CASE opts.verify
    BY <1>2, <2>1, <2>2 DEF AfterCarry, Over
  <2>3. CASE ~opts.verify
    BY <2>1, <2>3 DEF ExactInv
  <2>4. QED
    BY <2>2, <2>3
<1>15. CASE Next /\ pc' # "failed"
  <2> HIDE DEF Comparing
  <2>1. QED
    BY <1>5, <1>6, <1>7, <1>8, <1>9, <1>10, <1>12, <1>13, <1>14, <1>15, Zenon DEF Next
<1>16. QED
  BY <1>1, <1>11, <1>15 DEF vars

-----------------------------------------------------------------------------
\* A fork begins with plain checkouts, none of which it has made.
LEMMA CarryInit == Init => CarryInv
<1>1. SUFFICES ASSUME Init PROVE CarryInv
  OBVIOUS
<1>2. PICK s \in Starts, v \in BOOLEAN, x \in BOOLEAN :
          /\ parent = s.checkouts /\ names = s.names
          /\ opts = [verify |-> v, strict |-> x, limit |-> s.limit]
  BY <1>1 DEF Init
<1>3. /\ parent \in [Level -> Checkout] /\ names \in [Level -> Name] /\ s.limit \in Nat
      /\ \A d \in Level : /\ Plain(parent[d].tree) /\ parent[d].urls # "local"
                          /\ parent[d].init => \A e \in 1..d : parent[e].init
  BY <1>2, SubmoduleAssumption DEF SubmoduleAssumption
<1>4. /\ child = [d \in Level |-> Cold]
      /\ stamp = [d \in Level |-> [p \in Path |-> 0]]
      /\ edits = 0 /\ pc = "preflight" /\ at = 1
      /\ before = [status |-> FALSE, link |-> FALSE]
      /\ plans = [d \in Level |-> ColdPlan]
      /\ carried = {} /\ skipped = {} /\ reasoned = {} /\ entrySkips = {}
      /\ recheck = [inventory |-> NoInventory, link |-> FALSE]
      /\ agrees = TRUE
  BY <1>1 DEF Init
<1>5. Cold \in Checkout /\ Cold.init = FALSE /\ Cold.urls = "none" /\ Cold.tree = Pristine(Nothing)
  BY CommitsAre, PristineIs DEF Cold, Checkout, Urls
<1>6. NoInventory \in Inventories /\ NoInventory.untracked = {}
  BY DEF NoInventory, Inventories
<1>7. NoState \in CarriedState
  BY DEF NoState, CarriedState, Object
<1>8. ColdPlan \in PlanRecord /\ ColdPlan.head = Nothing /\ ColdPlan.inventory = NoInventory
      /\ ColdPlan.init = FALSE
  BY <1>6, <1>7, CommitsAre DEF ColdPlan, PlanRecord, Urls
<1>9. TypeOK
  <2>1. child \in [Level -> Checkout] /\ plans \in [Level -> PlanRecord]
    BY <1>4, <1>5, <1>8
  <2>2. stamp \in [Level -> [Path -> Nat]] /\ edits \in Nat
    BY <1>4
  <2>3. opts \in [verify : BOOLEAN, strict : BOOLEAN, limit : Nat]
    BY <1>2, <1>3
  <2>4. pc \in Steps /\ at \in Level
    BY <1>4, LevelsAre DEF Steps
  <2>5. /\ before \in [status : BOOLEAN, link : BOOLEAN]
        /\ recheck \in [inventory : Inventories, link : BOOLEAN] /\ agrees \in BOOLEAN
    BY <1>4, <1>6
  <2>6. QED
    BY <1>3, <1>4, <2>1, <2>2, <2>3, <2>4, <2>5 DEF TypeOK
<1>10. ParentInv
  BY <1>3 DEF ParentInv
<1>11. ChildInv
  <2>1. \A p \in Path : Cold.tree.work[p] = Absent
    <3>1. Cold.tree.work = Nothing
      BY <1>5, CommitsAre, PristineIs
    <3>2. QED
      BY <3>1 DEF Nothing
  <2>2. Plain(Cold.tree)
    BY <1>5, CommitsAre
  <2>3. Cold.urls # "local"
    BY <1>5
  <2>4. QED
    BY <1>4, <2>1, <2>2, <2>3, ValuesAre DEF ChildInv
<1>12. PlansInv
  BY <1>4, <1>6, <1>8 DEF PlansInv, Nothing
<1>13. ProgressInv
  BY <1>4, <1>5, <1>8 DEF ProgressInv, Snapshot, Carrying, Verifying, Over
<1>14. ExactInv
  BY <1>4 DEF ExactInv
<1>15. QED
  BY <1>9, <1>10, <1>11, <1>12, <1>13, <1>14 DEF CarryInv

\* In every state of a fork the checkouts and the plans are typed, the parent's
\* and the child's are plain, levels are carried in order until one is skipped,
\* and what was compared with its plan is exactly what the plan says.
THEOREM CarryInvariant == Spec => []CarryInv
<1>1. CarryInv /\ [Next]_vars => CarryInv'
  <2>1. SUFFICES ASSUME CarryInv, [Next]_vars PROVE CarryInv'
    OBVIOUS
  <2>2. TypeOK /\ ParentInv /\ ChildInv /\ PlansInv /\ ProgressInv /\ ExactInv
    BY <2>1 DEF CarryInv
  <2>3. TypeOK' /\ ParentInv' /\ ChildInv' /\ PlansInv' /\ ProgressInv' /\ ExactInv'
    BY <2>1, <2>2, TypeStep, ParentStep, ChildStep, PlansStep, ProgressStep, ExactStep
  <2>4. QED
    BY <2>3 DEF CarryInv
<1>2. QED
  BY <1>1, CarryInit, PTL DEF Spec

\* A verified fork has every carried submodule at the commit, with the urls and
\* with the contents that were frozen, whatever the parent's checkouts went
\* through meanwhile (verify_submodules, rungs 2, 4 and 5).
THEOREM VerifiedAreExact == Spec => []VerifiedSubmodulesAreExact
<1>1. CarryInv => VerifiedSubmodulesAreExact
  <2>1. SUFFICES ASSUME CarryInv, pc = "done", opts.verify, NEW d \in carried
                 PROVE  Exact(d)
    BY DEF VerifiedSubmodulesAreExact, Exact
  <2>2. agrees /\ Checked(d)
    BY <2>1 DEF CarryInv, ProgressInv, Over, Checked
  <2>3. QED
    BY <2>1, <2>2 DEF CarryInv, ExactInv
<1>2. QED
  BY <1>1, CarryInvariant, PTL

-----------------------------------------------------------------------------
(* A parent nobody touches.                                                 *)

\* Nothing follows a failure, and nothing was edited before where nothing is after.
LEMMA Steady ==
    ASSUME TypeOK, ParentInv, [Next]_vars, edits' = 0
    PROVE  /\ edits = 0 /\ UNCHANGED <<parent, names, stamp, edits, opts>>
           /\ pc = "failed" => UNCHANGED vars
<1>1. edits \in Nat
  BY DEF TypeOK
<1>2. ~Edit
  <2>1. Edit => edits' = edits + 1
    BY DEF Edit
  <2>2. edits + 1 # 0
    BY <1>1
  <2>3. QED
    BY <2>1, <2>2
<1>3. UNCHANGED <<parent, names, stamp, edits, opts>>
  BY <1>2, ParentIs DEF vars
<1>4. pc = "failed" => UNCHANGED vars
  BY <1>2 DEF Next, Preflight, ReadStatus, ReadTop, SnapshotIdentity, SnapshotInventory,
       SnapshotContent, Create, LeaveCold, Populate, TransportTracked, CopyUntracked, CompareStatus,
       CompareTop, CheckChild, CheckParentHead, ListAgain, CheckParentContent, ParentUntouched, Finish
<1>5. QED
  BY <1>3, <1>4

\* Where nobody touches the parent, every plan is what the parent was, and is.
LEMMA FrozenStep ==
    ASSUME TypeOK, ParentInv, ProgressInv, FrozenInv, [Next]_vars
    PROVE  FrozenInv'
<1>1. SUFFICES ASSUME edits' = 0, pc' # "failed" PROVE FrozenInv'
  BY DEF FrozenInv
<1>2. /\ edits = 0 /\ UNCHANGED <<parent, names, stamp, edits, opts>>
      /\ pc = "failed" => UNCHANGED vars
  BY <1>1, Steady
<1>3. CASE UNCHANGED vars
  BY <1>3 DEF vars, run, FrozenInv, ColdContent
<1>4. /\ at \in Level /\ at \in Nat /\ Depth \in Nat /\ at <= Depth /\ 1 <= at
      /\ \A d \in Level : d \in Nat /\ 1 <= d /\ d <= Depth
      /\ parent \in [Level -> Checkout]
  BY LevelsAre DEF TypeOK
<1> DEFINE Kept(d) == Frozen(plans[d], parent, d, stamp[d])
           Littered(d) == /\ ~parent[d].init /\ parent[d].tree.work # Nothing
                          /\ d > 1 => parent[d - 1].init
\* The invariant, of a plan q for each level, at a step that does not fail.
           Inv(q, step, level) ==
                /\ step # "preflight" => \A d \in Level : ~Littered(d)
                /\ step \in Snapshot \ {"create"} =>
                      /\ \A d \in Level : d < level => Frozen(q[d], parent, d, stamp[d])
                      /\ \A d \in Level : d > level => ~q[d].init
                /\ step \in {"preflight", "status", "top", "identity"} => ~q[level].init
                /\ step \in {"inventory", "content"} => ReadIdentity(q[level], parent[level])
                /\ step = "content" => ReadLists(q[level], parent, level)
                /\ step \notin Snapshot \ {"create"} =>
                      \A d \in Level : IF parent[d].init THEN Frozen(q[d], parent, d, stamp[d])
                                                         ELSE ~q[d].init
<1>5. pc # "failed" => Inv(plans, pc, at)
  BY <1>2 DEF FrozenInv, ColdContent
<1>6. Inv(plans', pc', at') => FrozenInv'
  BY <1>2 DEF FrozenInv, ColdContent
<1>7. CASE Preflight
  <2>1. /\ pc = "preflight" /\ pc' = "status" /\ at' = at /\ plans' = plans
        /\ \A d \in Level : ~Littered(d)
    BY <1>1, <1>7 DEF Preflight, Fails, Goes, run, ColdContent
  <2>2. QED
    BY <1>5, <1>6, <2>1 DEF Snapshot
<1>8. CASE ReadStatus \/ ReadTop
  <2>1. /\ pc \in {"status", "top"} /\ pc' \in {"top", "identity"} /\ at' = at /\ plans' = plans
    BY <1>8 DEF ReadStatus, ReadTop, Goes
  <2>2. QED
    BY <1>5, <1>6, <2>1 DEF Snapshot
<1>9. CASE SnapshotIdentity
  <2>1. /\ pc = "identity" /\ at' = at
        /\ \A d \in Level \ {at} : plans'[d] = plans[d]
        /\ \/ /\ pc' = "inventory" /\ ReadIdentity(plans'[at], parent[at])
           \/ ~parent[at].init /\ pc' = "create" /\ plans' = plans
    BY <1>9, IdentityIs DEF ReadIdentity
  <2>2. /\ \A d \in Level : ~Littered(d) /\ (d < at => Kept(d)) /\ (d >= at => ~plans[d].init)
    BY <1>4, <1>5, <2>1 DEF Snapshot
  <2>3. CASE pc' = "inventory"
    <3>1. /\ \A d \in Level : d < at => Frozen(plans'[d], parent, d, stamp[d])
          /\ \A d \in Level : d > at => ~plans'[d].init
      BY <1>4, <2>1, <2>2
    <3>2. ReadIdentity(plans'[at], parent[at])
      BY <2>1, <2>3
    <3>3. Inv(plans', pc', at')
      BY <2>1, <2>2, <2>3, <3>1, <3>2 DEF Snapshot
    <3>4. QED
      BY <1>6, <3>3
  <2>4. CASE ~parent[at].init /\ pc' = "create" /\ plans' = plans
    <3>1. ASSUME NEW d \in Level
          PROVE  IF parent[d].init THEN Kept(d) ELSE ~plans[d].init
      <4>1. CASE d < at
        BY <2>2, <4>1 DEF Frozen, ReadIdentity
      <4>2. CASE d >= at
        <5>1. at \in 1..d
          BY <1>4, <4>2
        <5>2. ~parent[d].init
          BY <2>4, <5>1 DEF ParentInv
        <5>3. QED
          BY <2>2, <4>2, <5>2
      <4>3. QED
        BY <1>4, <4>1, <4>2
    <3>2. Inv(plans', pc', at')
      BY <2>2, <2>4, <3>1 DEF Snapshot
    <3>3. QED
      BY <1>6, <3>2
  <2>5. QED
    BY <2>1, <2>3, <2>4
<1>10. CASE SnapshotInventory
  <2>1. /\ pc = "inventory" /\ pc' = "content" /\ at' = at
        /\ \A d \in Level \ {at} : plans'[d] = plans[d]
        /\ plans'[at].init = plans[at].init /\ plans'[at].head = plans[at].head
        /\ plans'[at].urls = plans[at].urls
        /\ ReadLists(plans'[at], parent, at)
    BY <1>10, ListsAre DEF ReadLists
  <2>2. /\ \A d \in Level : ~Littered(d) /\ (d < at => Kept(d)) /\ (d > at => ~plans[d].init)
        /\ ReadIdentity(plans[at], parent[at])
    BY <1>5, <2>1 DEF Snapshot
  <2>3. /\ \A d \in Level : d < at => Frozen(plans'[d], parent, d, stamp[d])
        /\ \A d \in Level : d > at => ~plans'[d].init
    BY <1>4, <2>1, <2>2
  <2>4. ReadIdentity(plans'[at], parent[at])
    BY <2>1, <2>2 DEF ReadIdentity
  <2>5. Inv(plans', pc', at')
    BY <2>1, <2>2, <2>3, <2>4 DEF Snapshot
  <2>6. QED
    BY <1>6, <2>5
<1>11. CASE SnapshotContent
  <2>1. /\ pc = "content"
        /\ \A d \in Level \ {at} : plans'[d] = plans[d]
        /\ plans'[at].init = plans[at].init /\ plans'[at].head = plans[at].head
        /\ plans'[at].urls = plans[at].urls /\ plans'[at].inventory = plans[at].inventory
        /\ plans'[at].link = plans[at].link
        /\ plans'[at].content = CaptureState(parent[at].tree, plans[at].inventory, {})
        /\ plans'[at].skips = SkipRecords(Unreadable(parent[at].tree, plans[at].inventory, {}))
        /\ \/ at < Depth /\ pc' = "identity" /\ at' = at + 1
           \/ at = Depth /\ pc' = "create" /\ at' = at
    BY <1>1, <1>11, ContentIs
  <2>2. /\ \A d \in Level : ~Littered(d) /\ (d < at => Kept(d)) /\ (d > at => ~plans[d].init)
        /\ ReadIdentity(plans[at], parent[at]) /\ ReadLists(plans[at], parent, at)
    BY <1>5, <2>1 DEF Snapshot
  <2>3. Frozen(plans'[at], parent, at, stamp[at])
    <3>1. ReadContent(plans'[at], parent, at, stamp[at])
      BY <2>1, <2>2 DEF ReadContent, ReadLists, SkipRecords
    <3>2. QED
      BY <2>1, <2>2, <3>1 DEF Frozen, ReadIdentity, ReadLists
  <2>4. /\ \A d \in Level : d <= at => Frozen(plans'[d], parent, d, stamp[d])
        /\ \A d \in Level : d > at => ~plans'[d].init
    <3>1. \A d \in Level : d <= at => d < at \/ d = at
      BY <1>4
    <3>2. \A d \in Level : d > at => d # at
      BY <1>4
    <3>3. QED
      BY <2>1, <2>2, <2>3, <3>1, <3>2
  <2>5. CASE at < Depth /\ pc' = "identity" /\ at' = at + 1
    <3>1. \A d \in Level : (d < at + 1 <=> d <= at) /\ (d > at + 1 => d > at)
      BY <1>4
    <3>2. at + 1 \in Level /\ at + 1 > at
      BY <1>4, <2>5, LevelsAre
    <3>3. Inv(plans', pc', at')
      BY <2>2, <2>4, <2>5, <3>1, <3>2 DEF Snapshot
    <3>4. QED
      BY <1>6, <3>3
  <2>6. CASE at = Depth /\ pc' = "create" /\ at' = at
    <3>1. \A d \in Level : d <= at
      BY <1>4, <2>6
    <3>2. \A d \in Level : Frozen(plans'[d], parent, d, stamp[d]) /\ parent[d].init
      BY <2>4, <3>1 DEF Frozen, ReadIdentity
    <3>3. Inv(plans', pc', at')
      BY <2>2, <2>6, <3>2 DEF Snapshot
    <3>4. QED
      BY <1>6, <3>3
  <2>7. QED
    BY <2>1, <2>5, <2>6
<1>12. CASE /\ ~Preflight /\ ~ReadStatus /\ ~ReadTop /\ ~SnapshotIdentity /\ ~SnapshotInventory
            /\ ~SnapshotContent /\ Next
  <2>1. ~Edit
    BY <1>2 DEF Edit, TypeOK
  <2>2. plans' = plans /\ pc \notin {"preflight", "status", "top", "identity", "inventory", "content"}
    BY <1>12, <2>1 DEF Next, Create, LeaveCold, Populate, TransportTracked, CopyUntracked,
       CompareStatus, CompareTop, CheckChild, CheckParentHead, ListAgain, CheckParentContent,
       ParentUntouched, Finish, Fails, run
  <2>3. pc' \notin {"preflight", "status", "top", "identity", "inventory", "content"}
    BY <1>12, <2>1 DEF Next, Create, LeaveCold, Populate, TransportTracked, CopyUntracked,
       CompareStatus, CompareTop, CheckChild, CheckParentHead, ListAgain, CheckParentContent,
       ParentUntouched, Finish, Fails, Goes, AfterCarry, Descend
  <2>4. CASE pc = "failed"
    BY <1>2, <1>3, <2>4
  <2>5. CASE pc # "failed"
    BY <1>5, <1>6, <2>2, <2>3, <2>5 DEF Snapshot
  <2>6. QED
    BY <2>4, <2>5
<1>13. QED
  BY <1>3, <1>7, <1>8, <1>9, <1>10, <1>11, <1>12 DEF vars

\* Where nobody touches the parent, every plan is what the parent was, and is,
\* and nothing lies in a cold checkout (inspect_submodule_preflight,
\* snapshot_submodules).
THEOREM FrozenInvariant == Spec => []FrozenInv
<1>1. Init => FrozenInv
  <2>1. ColdPlan.init = FALSE
    BY DEF ColdPlan
  <2>2. Init => /\ pc = "preflight" /\ at = 1 /\ \A d \in Level : ~plans[d].init
    BY <2>1 DEF Init
  <2>3. \A d \in Level : ~(d < 1)
    BY LevelsAre
  <2>4. 1 \in Level
    BY LevelsAre
  <2>5. QED
    BY <2>2, <2>3, <2>4 DEF FrozenInv, Snapshot
<1>2. CarryInv /\ FrozenInv /\ [Next]_vars => FrozenInv'
  BY FrozenStep DEF CarryInv
<1>3. QED
  BY <1>1, <1>2, CarryInvariant, PTL DEF Spec

\* Verified or not, every submodule that was in use is in the fork or is named,
\* or lies inside one that is named; none is in the fork that was not in use;
\* none keeps the origin that points into this machine; and what lay in a cold
\* checkout of a parent nobody touched was not lost (carry_submodules).
THEOREM AllAreAccountedFor == Spec => []SubmodulesAreAccountedFor
<1>1. CarryInv /\ FrozenInv => SubmodulesAreAccountedFor
  <2>1. SUFFICES ASSUME CarryInv, FrozenInv, pc = "done", NEW d \in Level
                 PROVE  /\ child[d].init <=> d \in carried
                        /\ plans[d].init => d \in carried \/ \E e \in skipped : e <= d
                        /\ child[d].urls # "local"
                        /\ edits = 0 => (plans[d].init <=> parent[d].init) /\ ~ColdContent(d)
    BY DEF SubmodulesAreAccountedFor
  <2>2. /\ child[d].init <=> d \in carried
        /\ carried = {e \in Level : \A f \in skipped : e < f}
    BY <2>1 DEF CarryInv, ProgressInv, Over
  <2>3. d \notin carried => \E e \in skipped : e <= d
    <3>1. skipped \subseteq Level /\ \A e \in Level : e \in Nat
      BY <2>1, LevelsAre DEF CarryInv, TypeOK
    <3>2. QED
      BY <2>1, <2>2, <3>1
  <2>4. child[d].urls # "local"
    BY <2>1 DEF CarryInv, ChildInv
  <2>5. edits = 0 => (plans[d].init <=> parent[d].init) /\ ~ColdContent(d)
    BY <2>1 DEF FrozenInv, Snapshot, Frozen, ReadIdentity
  <2>6. QED
    BY <2>2, <2>3, <2>4, <2>5
<1>2. QED
  BY <1>1, CarryInvariant, FrozenInvariant, PTL

\* A tree with nothing in the way of a carry: its tracked file can be read, and
\* nothing is deleted where something cannot be copied.
Carryable(t) == /\ Plain(t) /\ t.work[Source] # Locked
                /\ \A p \in Path : t.work[p] \in {Locked, Nested} => Deletions(t) = {}

\* What is listed of a plain tree.
LEMMA ListsIn ==
    ASSUME NEW t \in Tree, Plain(t)
    PROVE  LET inv == CollectInventory(t, TRUE, FALSE)
           IN  /\ inv.staged = Staged(t) /\ inv.unstaged = Unstaged(t) /\ inv.ita = {}
               /\ inv.untracked = Others(t) \ Ignored /\ inv.ignored = {}
               /\ inv.deletions = Deletions(t)
               /\ CarriedPaths(inv) = Staged(t) \cup Unstaged(t) \cup (Others(t) \ Ignored)
               /\ CarriedPaths(inv) \subseteq Path
<1>1. PICK inv : inv = CollectInventory(t, TRUE, FALSE)
  OBVIOUS
<1>2. /\ inv.staged = Staged(t) /\ inv.unstaged = Unstaged(t) /\ inv.ita = {}
      /\ inv.untracked = Others(t) \ Ignored /\ inv.ignored = {}
      /\ inv.deletions = Deletions(t)
  BY <1>1, InventoryIs, PlainIs
<1>3. CarriedPaths(inv) = Staged(t) \cup Unstaged(t) \cup (Others(t) \ Ignored)
  BY <1>2 DEF CarriedPaths
<1>4. Staged(t) \cup Unstaged(t) \cup (Others(t) \ Ignored) \subseteq Path
  BY DEF Staged, Unstaged, Others
<1>5. QED
  BY <1>1, <1>2, <1>3, <1>4

\* Such a tree can be captured, but for untracked files that cannot be opened.
LEMMA CarryableIs ==
    ASSUME NEW t \in Tree, Carryable(t)
    PROVE  LET inv == CollectInventory(t, TRUE, FALSE)
           IN  /\ ~CaptureRaises(t, inv, {})
               /\ Unreadable(t, inv, {}) = {p \in Others(t) \ Ignored : t.work[p] = Locked}
<1>1. PICK inv : inv = CollectInventory(t, TRUE, FALSE)
  OBVIOUS
<1>2. /\ inv.untracked = Others(t) \ Ignored /\ inv.deletions = Deletions(t)
      /\ CarriedPaths(inv) = Staged(t) \cup Unstaged(t) \cup (Others(t) \ Ignored)
      /\ CarriedPaths(inv) \subseteq Path
      /\ Staged(t) \subseteq {Source} /\ Unstaged(t) \subseteq {Source} /\ t.hidden = {}
  BY <1>1, ListsIn, PlainIs DEF Carryable
<1>3. t.work[Source] # Locked
  BY DEF Carryable
<1>4. Unreadable(t, inv, {}) = {p \in Others(t) \ Ignored : t.work[p] = Locked}
  BY <1>2, <1>3 DEF Unreadable
<1>5. \A p \in Unreadable(t, inv, {}) : MaySkip(t, inv, p)
  <2>1. SUFFICES ASSUME NEW p \in Others(t) \ Ignored, t.work[p] = Locked
                 PROVE  MaySkip(t, inv, p)
    BY <1>4
  <2>2. p \in Path /\ t.index[p] = Absent
    BY DEF Others
  <2>3. Deletions(t) = {}
    BY <2>1, <2>2 DEF Carryable
  <2>4. QED
    BY <1>2, <2>2, <2>3 DEF MaySkip
<1>6. ~CaptureRaises(t, inv, {})
  BY <1>2, <1>5 DEF CaptureRaises
<1>7. QED
  BY <1>1, <1>4, <1>6

\* A checkout with all of another shows the same changes: what is staged, what
\* is changed, and what is untracked and was not left out.
LEMMA ChangesAre ==
    ASSUME NEW c \in Checkout, NEW from \in Checkout, Plain(c.tree), Carryable(from.tree),
           HasAll(c, from)
    PROVE  /\ c.tree.head = from.tree.head
           /\ Staged(c.tree) = Staged(from.tree) /\ Unstaged(c.tree) = Unstaged(from.tree)
           /\ Others(c.tree) \ Ignored = (Others(from.tree) \ Ignored) \ LeftOut(from.tree)
           /\ \A p \in Path : c.tree.index[p] = from.tree.index[p]
           /\ \A p \in Staged(c.tree) \cup Unstaged(c.tree) \cup (Others(c.tree) \ Ignored) :
                 c.tree.work[p] = from.tree.work[p]
<1>1. PICK t, f : t = c.tree /\ f = from.tree
  OBVIOUS
<1>2. t \in Tree /\ f \in Tree /\ Plain(t) /\ Plain(f)
      /\ f.work[Source] # Locked
  BY <1>1 DEF Checkout, Carryable
<1>3. /\ t.head = f.head
      /\ \A p \in Path : /\ t.index[p] = f.index[p]
                         /\ t.work[p] = IF f.index[p] # Absent \/ p \in (Others(f) \ Ignored) \ LeftOut(f)
                                        THEN f.work[p] ELSE Absent
  BY <1>1 DEF HasAll, Brings, Made
<1>4. Staged(t) = Staged(f)
  <2>1. \A p \in Path : p \in Staged(t) <=> t.head[p] # t.index[p]
    BY <1>2, PlainIs
  <2>2. \A p \in Path : p \in Staged(f) <=> f.head[p] # f.index[p]
    BY <1>2, PlainIs
  <2>3. \A p \in Path : p \in Staged(t) <=> p \in Staged(f)
    BY <1>3, <2>1, <2>2
  <2>4. Staged(t) \subseteq Path /\ Staged(f) \subseteq Path
    BY DEF Staged
  <2>5. QED
    BY <2>3, <2>4
<1>5. Unstaged(t) = Unstaged(f)
  BY <1>3 DEF Unstaged
<1>6. Others(t) \ Ignored = (Others(f) \ Ignored) \ LeftOut(f)
  <2>1. ASSUME NEW p \in Path
        PROVE  p \in Others(t) <=> p \in (Others(f) \ Ignored) \ LeftOut(f)
    BY <1>3 DEF Others
  <2>2. Others(t) \subseteq Path /\ Others(f) \subseteq Path
    BY DEF Others
  <2>3. QED
    BY <2>1, <2>2
<1>7. ASSUME NEW p \in Staged(t) \cup Unstaged(t) \cup (Others(t) \ Ignored)
      PROVE  t.work[p] = f.work[p]
  <2>1. CASE p \in Others(t) \ Ignored
    <3>1. p \in Path /\ p \in (Others(f) \ Ignored) \ LeftOut(f)
      BY <1>6, <2>1 DEF Others
    <3>2. QED
      BY <1>3, <3>1
  <2>2. CASE p \in Unstaged(t)
    BY <1>3, <2>2 DEF Unstaged
  <2>3. CASE p \in Staged(t)
    <3>1. p \in Path
      BY <2>3 DEF Staged
    <3>2. CASE f.index[p] # Absent
      BY <1>3, <3>1, <3>2
    <3>3. CASE f.index[p] = Absent /\ f.work[p] # Absent
      <4>1. p = Source
        BY <1>2, <2>3, PlainIs
      <4>2. p \in (Others(f) \ Ignored) \ LeftOut(f)
        BY <1>2, <3>1, <3>3, <4>1, ValuesAre DEF Others, LeftOut, Plain
      <4>3. QED
        BY <1>3, <3>1, <4>2
    <3>4. CASE f.index[p] = Absent /\ f.work[p] = Absent
      BY <1>3, <3>1, <3>4
    <3>5. QED
      BY <3>2, <3>3, <3>4
  <2>4. QED
    BY <1>7, <2>1, <2>2, <2>3
<1>8. QED
  BY <1>1, <1>3, <1>4, <1>5, <1>6, <1>7

\* What is read of such a checkout is what was read of the one it was made from,
\* if that holds no repository of its own.
LEMMA CapturesAgree ==
    ASSUME NEW c \in Checkout, NEW from \in Checkout, Plain(c.tree), Carryable(from.tree),
           HasAll(c, from), \A p \in Path : c.tree.work[p] # Locked,
           \A p \in Path : from.tree.work[p] # Nested
    PROVE  CaptureState(c.tree, CollectInventory(c.tree, TRUE, FALSE), {})
              = CaptureState(from.tree, CollectInventory(from.tree, TRUE, FALSE), {})
<1>1. PICK t, f, i, j : /\ t = c.tree /\ f = from.tree
                        /\ i = CollectInventory(t, TRUE, FALSE) /\ j = CollectInventory(f, TRUE, FALSE)
  OBVIOUS
<1>2. t \in Tree /\ f \in Tree /\ Plain(t) /\ Plain(f) /\ Carryable(f)
  BY <1>1 DEF Checkout, Carryable
<1>3. /\ Staged(t) = Staged(f) /\ Unstaged(t) = Unstaged(f)
      /\ Others(t) \ Ignored = (Others(f) \ Ignored) \ LeftOut(f)
      /\ \A p \in Path : t.index[p] = f.index[p]
      /\ \A p \in Staged(t) \cup Unstaged(t) \cup (Others(t) \ Ignored) : t.work[p] = f.work[p]
  BY <1>1, ChangesAre
<1>4. /\ CarriedPaths(i) = Staged(t) \cup Unstaged(t) \cup (Others(t) \ Ignored)
      /\ CarriedPaths(j) = Staged(f) \cup Unstaged(f) \cup (Others(f) \ Ignored)
      /\ CarriedPaths(i) \subseteq Path /\ CarriedPaths(j) \subseteq Path
  BY <1>1, <1>2, ListsIn
<1>5. Unreadable(t, i, {}) = {}
  BY <1>1, <1>4 DEF Unreadable
<1>6. Unreadable(f, j, {}) = LeftOut(f)
  <2>1. Unreadable(f, j, {}) = {p \in Others(f) \ Ignored : f.work[p] = Locked}
    BY <1>1, <1>2, CarryableIs
  <2>2. LeftOut(f) = {p \in Others(f) \ Ignored : f.work[p] = Locked}
    BY <1>1 DEF LeftOut, Others
  <2>3. QED
    BY <2>1, <2>2
<1>7. \A p \in LeftOut(f) : p \notin Staged(f) /\ p \notin Unstaged(f) /\ f.index[p] = Absent
  <2>1. SUFFICES ASSUME NEW p \in LeftOut(f)
                 PROVE  p \notin Staged(f) /\ p \notin Unstaged(f) /\ f.index[p] = Absent
    OBVIOUS
  <2>2. p \in Path /\ f.index[p] = Absent /\ f.work[p] = Locked
    BY <1>1 DEF LeftOut, Others
  <2>3. p # Source
    BY <1>2, <2>2 DEF Carryable
  <2>4. QED
    BY <1>2, <2>2, <2>3, PlainIs
<1>8. CarriedPaths(i) = CarriedPaths(j) \ LeftOut(f)
  BY <1>3, <1>4, <1>7
<1>9. PICK held : held = CarriedPaths(i)
  OBVIOUS
<1>10. /\ CarriedPaths(i) \ ({} \cup Unreadable(t, i, {})) = held
       /\ CarriedPaths(j) \ ({} \cup Unreadable(f, j, {})) = held
  BY <1>5, <1>6, <1>8, <1>9
<1>11. [p \in Path |-> IF p \in held THEN t.work[p] ELSE Absent]
          = [p \in Path |-> IF p \in held THEN f.work[p] ELSE Absent]
  <2>1. \A p \in held : t.work[p] = f.work[p]
    BY <1>3, <1>4, <1>9
  <2>2. QED
    BY <2>1
<1>12. [p \in Path |-> IF p \in CarriedPaths(i) THEN t.index[p] ELSE Absent]
          = [p \in Path |-> IF p \in CarriedPaths(j) THEN f.index[p] ELSE Absent]
  <2>1. \A p \in Path : (IF p \in CarriedPaths(i) THEN t.index[p] ELSE Absent)
                           = (IF p \in CarriedPaths(j) THEN f.index[p] ELSE Absent)
    BY <1>3, <1>7, <1>8
  <2>2. QED
    BY <2>1
<1>13. /\ CaptureState(t, i, {}) =
             [paths |-> held,
              index |-> [p \in Path |-> IF p \in CarriedPaths(i) THEN t.index[p] ELSE Absent],
              manifest |-> [p \in Path |-> IF p \in held THEN t.work[p] ELSE Absent]]
       /\ CaptureState(f, j, {}) =
             [paths |-> held,
              index |-> [p \in Path |-> IF p \in CarriedPaths(j) THEN f.index[p] ELSE Absent],
              manifest |-> [p \in Path |-> IF p \in held THEN f.work[p] ELSE Absent]]
  <2>1. \A p \in Path : IndexRecord(t, p) = t.index[p] /\ IndexRecord(f, p) = f.index[p]
    BY <1>2, PlainIs DEF IndexRecord
  <2>2. /\ [p \in Path |-> IF p \in CarriedPaths(i) THEN IndexRecord(t, p) ELSE Absent]
              = [p \in Path |-> IF p \in CarriedPaths(i) THEN t.index[p] ELSE Absent]
        /\ [p \in Path |-> IF p \in CarriedPaths(j) THEN IndexRecord(f, p) ELSE Absent]
              = [p \in Path |-> IF p \in CarriedPaths(j) THEN f.index[p] ELSE Absent]
    BY <2>1
  <2>3. QED
    BY <1>10, <2>2 DEF CaptureState
<1>14. QED
  BY <1>1, <1>11, <1>12, <1>13

\* The patches of the parent fit a checkout of its commit.
LEMMA PatchesFit ==
    ASSUME NEW c \in Checkout, NEW from \in Checkout, Plain(c.tree), Carryable(from.tree),
           AtCommit(c, from)
    PROVE  /\ StagedFits(from.tree, c.tree)
           /\ UnstagedFits(from.tree, Indexed(from.tree, c.tree))
<1>1. PICK t, f, fit : t = c.tree /\ f = from.tree /\ fit = Indexed(f, t)
  OBVIOUS
<1>2. t \in Tree /\ f \in Tree /\ Plain(t) /\ Plain(f) /\ f.work[Source] # Locked
  BY <1>1 DEF Checkout, Carryable
<1>3. \A p \in Path : t.index[p] = f.head[p] /\ t.work[p] = f.head[p]
  BY <1>1 DEF AtCommit
<1>4. \A p \in Path : fit.work[p] = IF p \in Staged(f) THEN f.index[p] ELSE t.work[p]
  BY <1>1, <1>2, PatchedIs
<1>5. \A p \in Path : p \in Staged(f) <=> f.head[p] # f.index[p]
  BY <1>2, PlainIs
<1>6. Staged(f) \subseteq Path /\ Unstaged(f) \subseteq Path /\ Unstaged(f) \subseteq {Source}
  BY <1>2, PlainIs DEF Staged, Unstaged
<1>7. StagedFits(f, t)
  BY <1>3, <1>6 DEF StagedFits
<1>8. UnstagedFits(f, fit)
  <2>1. SUFFICES ASSUME NEW p \in Unstaged(f)
                 PROVE  f.work[p] # Locked /\ fit.work[p] = f.index[p]
    BY DEF UnstagedFits
  <2>2. p \in Path /\ p = Source
    BY <1>6
  <2>3. fit.work[p] = f.index[p]
    BY <1>3, <1>4, <1>5, <2>2
  <2>4. QED
    BY <1>2, <2>2, <2>3
<1>9. QED
  BY <1>1, <1>7, <1>8

\* And leave in it what is tracked there.
LEMMA PatchesBring ==
    ASSUME NEW c \in Checkout, NEW from \in Checkout, NEW new \in Checkout, Carryable(from.tree),
           AtCommit(c, from), new.urls = c.urls, new.tree.head = c.tree.head,
           \A p \in Path :
              /\ new.tree.index[p] = IF p \in Staged(from.tree) THEN from.tree.index[p]
                                     ELSE c.tree.index[p]
              /\ new.tree.work[p] = IF p \in Unstaged(from.tree) THEN from.tree.work[p]
                                    ELSE IF p \in Staged(from.tree) THEN from.tree.index[p]
                                    ELSE c.tree.work[p]
    PROVE  HasTracked(new, from)
<1>1. PICK t, f, n : t = c.tree /\ f = from.tree /\ n = new.tree
  OBVIOUS
<1>2. f \in Tree /\ Plain(f)
  BY <1>1 DEF Checkout, Carryable
<1>3. /\ n.head = f.head /\ new.urls = from.urls
      /\ \A p \in Path : t.index[p] = f.head[p] /\ t.work[p] = f.head[p]
  BY <1>1 DEF AtCommit, Made
<1>4. \A p \in Path : p \in Staged(f) <=> f.head[p] # f.index[p]
  BY <1>2, PlainIs
<1>5. \A p \in Path : p \in Unstaged(f) <=> f.index[p] # Absent /\ f.index[p] # f.work[p]
  BY DEF Unstaged
<1>6. ASSUME NEW p \in Path
      PROVE  /\ n.index[p] = f.index[p]
             /\ n.work[p] = IF f.index[p] # Absent THEN f.work[p] ELSE Absent
  <2>1. /\ n.index[p] = IF p \in Staged(f) THEN f.index[p] ELSE t.index[p]
        /\ n.work[p] = IF p \in Unstaged(f) THEN f.work[p]
                       ELSE IF p \in Staged(f) THEN f.index[p] ELSE t.work[p]
    BY <1>1
  <2>2. t.index[p] = f.head[p] /\ t.work[p] = f.head[p]
    BY <1>3
  <2>3. n.index[p] = f.index[p]
    BY <1>4, <2>1, <2>2
  <2>4. n.work[p] = IF p \in Unstaged(f) THEN f.work[p] ELSE f.index[p]
    BY <1>4, <2>1, <2>2
  <2>5. QED
    BY <1>5, <2>3, <2>4
<1>7. QED
  BY <1>1, <1>3, <1>6 DEF HasTracked, Brings, Made

\* What an undisturbed fork reads of the parent.
LEMMA UndisturbedIs ==
    ASSUME TypeOK, ParentInv, Undisturbed, NEW d \in Level
    PROVE  /\ Carryable(parent[d].tree) /\ parent[d] \in Checkout /\ parent[d].tree \in Tree
           /\ opts.verify => \A p \in Path : parent[d].tree.work[p] # Nested
           /\ parent[d].init => names[d] \in {"plain", "equals"}
<1>1. parent[d] \in Checkout /\ parent[d].tree \in Tree /\ names[d] \in Name
  BY CheckoutIs DEF TypeOK
<1>2. ~Untransportable(d) /\ ~LocallyUncarryable(d)
  BY DEF Undisturbed, Uncarryable
<1>3. PICK t : t = parent[d].tree
  OBVIOUS
<1>4. /\ t.work[Source] # Locked
      /\ \A p \in Path : t.work[p] \in {Locked, Nested} => Deletions(t) = {}
      /\ opts.verify => \A p \in Path : t.work[p] # Nested
  BY <1>2, <1>3 DEF LocallyUncarryable
<1>5. Carryable(t)
  BY <1>3, <1>4 DEF Carryable, ParentInv
<1>6. QED
  BY <1>1, <1>2, <1>3, <1>4, <1>5 DEF Untransportable, Name

\* What was skipped stays skipped.
LEMMA SkipsGrow ==
    ASSUME TypeOK, ParentInv, [Next]_vars
    PROVE  entrySkips \subseteq entrySkips'
<1>1. CASE UNCHANGED vars \/ Edit
  BY <1>1, EditIs DEF vars, run
<1>2. CASE Next /\ pc' = "failed"
  BY <1>2, FailedStep DEF run
<1>3. CASE CopyUntracked /\ pc' # "failed"
  BY <1>3, CopyIs
<1>4. CASE Next /\ ~Edit /\ ~CopyUntracked
  BY <1>4 DEF Next, Preflight, ReadStatus, ReadTop, SnapshotIdentity, SnapshotInventory,
       SnapshotContent, Create, LeaveCold, Populate, TransportTracked, CompareStatus, CompareTop,
       CheckChild, CheckParentHead, ListAgain, CheckParentContent, ParentUntouched, Finish, Fails, run
<1>5. QED
  BY <1>1, <1>2, <1>3, <1>4

\* A fork that is undisturbed was.
LEMMA UndisturbedBefore ==
    ASSUME TypeOK, ParentInv, [Next]_vars, Undisturbed'
    PROVE  Undisturbed /\ edits = 0 /\ UNCHANGED <<parent, names, stamp, edits, opts>>
<1>1. edits' = 0
  BY DEF Undisturbed
<1>2. edits = 0 /\ UNCHANGED <<parent, names, stamp, edits, opts>>
  BY <1>1, Steady
<1>3. ~Uncarryable
  BY <1>2 DEF Undisturbed, Uncarryable, ColdContent, Untransportable, LocallyUncarryable
<1>4. ~ChangedUnderEquals
  BY <1>2 DEF Undisturbed, ChangedUnderEquals
<1>5. ~SkipBelowTheFirst
  BY <1>2, SkipsGrow DEF Undisturbed, SkipBelowTheFirst
<1>6. QED
  BY <1>2, <1>3, <1>4, <1>5 DEF Undisturbed

\* Where it is compared, an undisturbed fork shows of a gitlink what the parent
\* shows: below the first level nothing was skipped, and what was not carried is
\* either not there or not changed.
LEMMA LinksAgree ==
    ASSUME CarryInv, FrozenInv, FilledInv, Undisturbed, pc \in Verifying,
           NEW l \in Nat, l >= 2 \/ entrySkips = {}
    PROVE  LinkShows(child, l) = LinkShows(parent, l)
<1>1. /\ TypeOK /\ ParentInv /\ ChildInv /\ ProgressInv
      /\ opts.verify /\ edits = 0 /\ pc # "failed" /\ pc \notin Snapshot
      /\ carried \subseteq Level /\ skipped \subseteq Level /\ entrySkips \subseteq SkipRecord
      /\ parent \in [Level -> Checkout] /\ child \in [Level -> Checkout]
      /\ carried = {d \in Level : \A e \in skipped : d < e}
      /\ \A d \in Level : child[d].init <=> d \in carried
      /\ \A d \in carried : plans[d].init
      /\ \A e \in skipped : e \in reasoned \/ ~plans[e].init
      /\ \A e \in reasoned : names[e] = "equals"
      /\ reasoned \subseteq skipped
  BY DEF CarryInv, TypeOK, ProgressInv, Undisturbed, Verifying, Snapshot
<1>2. \A d \in Level : parent[d].init <=> plans[d].init
  BY <1>1 DEF FrozenInv, Snapshot, Frozen, ReadIdentity
<1>3. \A d \in Level : d \in Nat /\ 1 <= d
  BY LevelsAre
<1> DEFINE Shows(c) == c.init /\ (c.tree.head # Committed(Recorded) \/ Touched(c.tree))
<1>4. ASSUME NEW e \in Level, e >= l, e \in carried
      PROVE  Shows(child[e]) <=> Shows(parent[e])
  <2>1. child[e].init /\ parent[e].init
    BY <1>1, <1>2, <1>4
  <2>2. LeftOut(parent[e].tree) = {}
    <3>1. SUFFICES ASSUME NEW p \in LeftOut(parent[e].tree) PROVE FALSE
      OBVIOUS
    <3>2. PICK r \in entrySkips : r.level = e
      BY <1>4 DEF FilledInv
    <3>3. e > 1
      BY <1>3, <1>4, <3>2
    <3>4. QED
      BY <1>1, <3>2, <3>3 DEF Undisturbed, SkipBelowTheFirst
  <2>3. PICK c, from : c = child[e] /\ from = parent[e]
    OBVIOUS
  <2>4. /\ c \in Checkout /\ from \in Checkout /\ Plain(c.tree) /\ Carryable(from.tree)
        /\ HasAll(c, from)
    BY <1>1, <1>4, <2>3, UndisturbedIs DEF ChildInv, FilledInv
  <2>5. /\ c.tree.head = from.tree.head
        /\ Staged(c.tree) = Staged(from.tree) /\ Unstaged(c.tree) = Unstaged(from.tree)
        /\ Others(c.tree) \ Ignored = (Others(from.tree) \ Ignored) \ LeftOut(from.tree)
    BY <2>4, ChangesAre
  <2>6. Touched(c.tree) <=> Touched(from.tree)
    BY <2>2, <2>3, <2>5 DEF Touched
  <2>7. QED
    BY <2>1, <2>3, <2>5, <2>6
<1>5. ASSUME NEW e \in Level, e >= l, e \notin carried
      PROVE  ~Shows(child[e]) /\ ~Shows(parent[e])
  <2>1. ~child[e].init
    BY <1>1, <1>5
  <2>2. PICK f \in skipped : f \in Level /\ ~(e < f)
    BY <1>1, <1>5
  <2>3. e >= f /\ f \in 1..e
    BY <1>3, <2>2
  <2>4. CASE f \in reasoned
    <3>1. ~LinkShows(parent, f)
      BY <1>1, <2>2, <2>4 DEF Undisturbed, ChangedUnderEquals
    <3>2. QED
      BY <2>1, <2>3, <3>1 DEF LinkShows
  <2>5. CASE ~plans[f].init
    <3>1. ~parent[e].init
      BY <1>1, <1>2, <2>2, <2>3, <2>5 DEF ParentInv
    <3>2. QED
      BY <2>1, <3>1
  <2>6. QED
    BY <1>1, <2>2, <2>4, <2>5
<1>6. \A e \in Level : e >= l => (Shows(child[e]) <=> Shows(parent[e]))
  <2> HIDE DEF Shows
  <2>1. QED
    BY <1>4, <1>5
<1>7. LinkShows(child, l) <=> LinkShows(parent, l)
  BY <1>6 DEF LinkShows
<1>8. QED
  BY <1>7, LinkTyped

\* In an undisturbed fork the plan of a level that is there was read from it.
LEMMA PlanOfLevel ==
    ASSUME CarryInv, FrozenInv, edits = 0, pc # "failed", pc \notin Snapshot, NEW d \in Level,
           plans[d].init
    PROVE  /\ parent[d].init /\ Frozen(plans[d], parent, d, stamp[d])
           /\ plans[d].head = parent[d].tree.head /\ plans[d].urls = parent[d].urls
           /\ plans[d].inventory = CollectInventory(parent[d].tree, TRUE, FALSE)
           /\ plans[d].link = LinkShows(parent, d + 1)
           /\ plans[d].content = CaptureState(parent[d].tree, plans[d].inventory, {})
           /\ plans[d].skips = {[level |-> d, path |-> p, stamp |-> stamp[d][p]] :
                                   p \in Unreadable(parent[d].tree, plans[d].inventory, {})}
<1>1. parent[d].init /\ Frozen(plans[d], parent, d, stamp[d])
  BY DEF FrozenInv, Snapshot
<1>2. parent \in [Level -> Checkout]
  BY DEF CarryInv, TypeOK
<1>3. /\ Listed(parent, d).inventory = CollectInventory(parent[d].tree, TRUE, FALSE)
      /\ Listed(parent, d).link = LinkShows(parent, d + 1)
  BY <1>2, ListedIs
<1>4. QED
  BY <1>1, <1>3 DEF Frozen, ReadIdentity, ReadLists, ReadContent

\* What is copied of a level, and what is not.
LEMMA CopiesAre ==
    ASSUME CarryInv, FrozenInv, Undisturbed, pc = "untracked"
    PROVE  LET t == parent[at].tree
           IN  /\ ToCopy \ Uncopyable = (Others(t) \ Ignored) \ LeftOut(t)
               /\ Unreadable(t, plans[at].inventory, {}) \cup Uncopyable = LeftOut(t)
               /\ \A p \in ToCopy : t.work[p] # Absent
               /\ Uncopyable # {} => plans[at].inventory.deletions = {}
<1>1. PICK t, inv : t = parent[at].tree /\ inv = plans[at].inventory
  OBVIOUS
<1>2. /\ TypeOK /\ ParentInv /\ at \in Level /\ plans[at].init
      /\ edits = 0 /\ pc # "failed" /\ pc \notin Snapshot
  BY DEF CarryInv, TypeOK, ProgressInv, Snapshot, Undisturbed
<1>3. /\ inv = CollectInventory(t, TRUE, FALSE)
      /\ plans[at].skips = {[level |-> at, path |-> p, stamp |-> stamp[at][p]] :
                               p \in Unreadable(t, inv, {})}
  BY <1>1, <1>2, PlanOfLevel
<1>4. t \in Tree /\ Carryable(t)
  BY <1>1, <1>2, UndisturbedIs
<1>5. /\ inv.untracked = Others(t) \ Ignored /\ inv.deletions = Deletions(t)
      /\ Unreadable(t, inv, {}) = {p \in Others(t) \ Ignored : t.work[p] = Locked}
  BY <1>3, <1>4, CarryableIs, ListsIn DEF Carryable
<1>6. {r.path : r \in plans[at].skips} = Unreadable(t, inv, {})
  <2>1. PICK U, S : /\ U = Unreadable(t, inv, {}) /\ S = plans[at].skips
                    /\ S = {[level |-> at, path |-> p, stamp |-> stamp[at][p]] : p \in U}
    BY <1>3
  <2>2. \A r \in S : r.path \in U
    BY <2>1
  <2>3. ASSUME NEW p \in U
        PROVE  \E r \in S : r.path = p
    <3>1. PICK r : r = [level |-> at, path |-> p, stamp |-> stamp[at][p]]
      OBVIOUS
    <3>2. r \in S /\ r.path = p
      BY <2>1, <3>1
    <3>3. QED
      BY <3>2
  <2>4. {r.path : r \in S} = U
    BY <2>2, <2>3
  <2>5. QED
    BY <2>1, <2>4
<1>7. ToCopy = {p \in Others(t) \ Ignored : t.work[p] # Locked}
  BY <1>1, <1>5, <1>6 DEF ToCopy
<1>8. Uncopyable = {p \in Others(t) \ Ignored : t.work[p] = Nested}
  BY <1>1, <1>7, ValuesAre DEF Uncopyable
<1>9. LeftOut(t) = {p \in Others(t) \ Ignored : t.work[p] \in {Locked, Nested}}
  BY DEF LeftOut
<1>10. \A p \in Others(t) \ Ignored : p \in Path /\ t.work[p] # Absent
  BY DEF Others
<1>11. Uncopyable # {} => inv.deletions = {}
  BY <1>4, <1>5, <1>8, <1>10 DEF Carryable
<1>12. ToCopy \ Uncopyable = (Others(t) \ Ignored) \ LeftOut(t)
  BY <1>7, <1>8, <1>9
<1>13. Unreadable(t, inv, {}) \cup Uncopyable = LeftOut(t)
  BY <1>5, <1>8, <1>9
<1>14. \A p \in ToCopy : t.work[p] # Absent
  BY <1>7, <1>10
<1>15. QED
  BY <1>1, <1>11, <1>12, <1>13, <1>14

\* The copies leave in the child all that is not left out.
LEMMA CopiesBring ==
    ASSUME NEW c \in Checkout, NEW from \in Checkout, NEW new \in Checkout, HasTracked(c, from),
           NEW copied, copied = (Others(from.tree) \ Ignored) \ LeftOut(from.tree),
           new.urls = c.urls, new.tree.head = c.tree.head, new.tree.index = c.tree.index,
           \A p \in Path : new.tree.work[p] = IF p \in copied THEN from.tree.work[p]
                                              ELSE c.tree.work[p]
    PROVE  HasAll(new, from)
<1>1. /\ c.tree.head = from.tree.head /\ c.urls = from.urls
      /\ \A p \in Path : /\ c.tree.index[p] = from.tree.index[p]
                         /\ c.tree.work[p] = IF from.tree.index[p] # Absent
                                             THEN from.tree.work[p] ELSE Absent
  BY DEF HasTracked, Brings, Made
<1>2. \A p \in Path : /\ new.tree.index[p] = from.tree.index[p]
                      /\ new.tree.work[p] = IF from.tree.index[p] # Absent \/ p \in copied
                                            THEN from.tree.work[p] ELSE Absent
  BY <1>1
<1>3. QED
  BY <1>1, <1>2 DEF HasAll, Brings, Made

\* Every step fills the child of an undisturbed fork with what the parent is.
LEMMA FilledStep ==
    ASSUME CarryInv, FrozenInv, FilledInv, Undisturbed, edits = 0,
           UNCHANGED <<parent, names, stamp, edits, opts>>, CarryInv', [Next]_vars
    PROVE  FilledInv'
<1>1. /\ TypeOK /\ ParentInv /\ ChildInv /\ ProgressInv /\ TypeOK' /\ at \in Level
      /\ parent \in [Level -> Checkout] /\ child \in [Level -> Checkout]
      /\ child' \in [Level -> Checkout]
      /\ carried \subseteq Level /\ entrySkips \subseteq SkipRecord
      /\ \A d \in Level : d \in Nat
  BY LevelsAre DEF CarryInv, TypeOK
<1>2. CASE UNCHANGED vars
  BY <1>2 DEF vars, run, FilledInv
\* Where only the child of the level being filled moves.
<1>3. ASSUME UNCHANGED <<carried, entrySkips>>, at \notin carried,
             \A d \in Level \ {at} : child'[d] = child[d],
             pc' = "tracked" => AtCommit(child'[at'], parent[at']),
             pc' = "untracked" => HasTracked(child'[at'], parent[at'])
      PROVE  FilledInv'
  <2>1. \A d \in carried : child'[d] = child[d]
    BY <1>1, <1>3
  <2>2. QED
    BY <1>3, <2>1 DEF FilledInv
<1>4. CASE Populate /\ pc' # "failed"
  <2>1. PICK c, h : c = child'[at] /\ h = plans[at].head
    OBVIOUS
  <2>2. /\ pc = "carry" /\ pc' = "tracked" /\ plans[at].init /\ at' = at
        /\ \A d \in Level \ {at} : child'[d] = child[d]
        /\ UNCHANGED <<carried, entrySkips>>
        /\ c.urls = plans[at].urls /\ c.tree.head = h /\ c.tree.index = h /\ c.tree.work = h
    BY <1>1, <1>4, <2>1, PopulateIs
  <2>3. h = parent[at].tree.head /\ c.urls = parent[at].urls
    BY <1>1, <2>1, <2>2, PlanOfLevel DEF Snapshot
  <2>4. AtCommit(c, parent[at])
    BY <2>2, <2>3 DEF AtCommit, Made
  <2>5. at \notin carried
    BY <1>1, <2>2 DEF ProgressInv, Carrying
  <2>6. QED
    BY <1>3, <2>1, <2>2, <2>4, <2>5
<1>5. CASE TransportTracked /\ pc' # "failed"
  <2>1. PICK c, from, new : c = child[at] /\ from = parent[at] /\ new = child'[at]
    OBVIOUS
  <2>2. /\ pc = "tracked" /\ pc' = "untracked" /\ at' = at
        /\ \A d \in Level \ {at} : child'[d] = child[d]
        /\ UNCHANGED <<carried, entrySkips>>
        /\ new.urls = c.urls /\ new.tree.head = c.tree.head
        /\ \A p \in Path :
              /\ new.tree.index[p] = IF p \in Staged(from.tree) THEN from.tree.index[p]
                                     ELSE c.tree.index[p]
              /\ new.tree.work[p] = IF p \in Unstaged(from.tree) THEN from.tree.work[p]
                                    ELSE IF p \in Staged(from.tree) THEN from.tree.index[p]
                                    ELSE c.tree.work[p]
    BY <1>1, <1>5, <2>1, TransportIs
  <2>3. /\ c \in Checkout /\ from \in Checkout /\ new \in Checkout /\ Carryable(from.tree)
        /\ AtCommit(c, from)
    BY <1>1, <2>1, <2>2, UndisturbedIs DEF FilledInv
  <2>4. HasTracked(new, from)
    BY <2>2, <2>3, PatchesBring
  <2>5. at \notin carried
    BY <1>1, <2>2 DEF ProgressInv, Carrying
  <2>6. QED
    BY <1>3, <2>1, <2>2, <2>4, <2>5
<1>6. CASE CopyUntracked /\ pc' # "failed"
  <2>1. PICK c, from, new, copied : /\ c = child[at] /\ from = parent[at] /\ new = child'[at]
                                    /\ copied = ToCopy \ Uncopyable
    OBVIOUS
  <2>2. /\ pc = "untracked" /\ pc' \notin {"tracked", "untracked"}
        /\ \A d \in Level \ {at} : child'[d] = child[d]
        /\ carried' = carried \cup {at}
        /\ entrySkips' = entrySkips \cup plans[at].skips \cup SkipRecords(Uncopyable)
        /\ new.urls = c.urls /\ new.tree.head = c.tree.head /\ new.tree.index = c.tree.index
        /\ \A p \in Path : new.tree.work[p] = IF p \in copied THEN from.tree.work[p]
                                              ELSE c.tree.work[p]
    BY <1>1, <1>6, <2>1, CopyIs DEF Descend, AfterCarry
  <2>3. /\ plans[at].init /\ at \notin carried
    BY <1>1, <2>2 DEF ProgressInv, Carrying
  <2>4. /\ copied = (Others(from.tree) \ Ignored) \ LeftOut(from.tree)
        /\ Unreadable(from.tree, plans[at].inventory, {}) \cup Uncopyable = LeftOut(from.tree)
    BY <2>1, <2>2, CopiesAre
  <2>5. plans[at].skips = {[level |-> at, path |-> p, stamp |-> stamp[at][p]] :
                             p \in Unreadable(from.tree, plans[at].inventory, {})}
    BY <1>1, <2>1, <2>2, <2>3, PlanOfLevel DEF Snapshot
  <2>6. HasAll(new, from)
    <3>1. /\ c \in Checkout /\ from \in Checkout /\ new \in Checkout /\ HasTracked(c, from)
      BY <1>1, <2>1, <2>2 DEF FilledInv
    <3>2. QED
      BY <2>2, <2>4, <3>1, CopiesBring
  <2>7. plans[at].skips \cup SkipRecords(Uncopyable)
           = {[level |-> at, path |-> p, stamp |-> stamp[at][p]] : p \in LeftOut(from.tree)}
    <3>1. SkipRecords(Uncopyable)
             = {[level |-> at, path |-> p, stamp |-> stamp[at][p]] : p \in Uncopyable}
      BY DEF SkipRecords
    <3>2. PICK a, b : a = Unreadable(from.tree, plans[at].inventory, {}) /\ b = Uncopyable
      OBVIOUS
    <3>3. {[level |-> at, path |-> p, stamp |-> stamp[at][p]] : p \in a}
             \cup {[level |-> at, path |-> p, stamp |-> stamp[at][p]] : p \in b}
             = {[level |-> at, path |-> p, stamp |-> stamp[at][p]] : p \in a \cup b}
      OBVIOUS
    <3>4. QED
      BY <2>4, <2>5, <3>1, <3>2, <3>3
  <2>8. ASSUME NEW r \in plans[at].skips \cup SkipRecords(Uncopyable)
        PROVE  /\ r.level = at /\ r.path \in LeftOut(parent[at].tree)
               /\ r.stamp = stamp[at][r.path]
    BY <2>1, <2>7
  <2>9. ASSUME NEW d \in carried'
        PROVE  /\ HasAll(child'[d], parent[d])
               /\ \A p \in LeftOut(parent[d].tree) : \E r \in entrySkips' : r.level = d /\ r.path = p
    <3>1. CASE d = at
      <4>1. HasAll(child'[d], parent[d])
        BY <2>1, <2>6, <3>1
      <4>2. \A p \in LeftOut(parent[d].tree) :
               \E r \in plans[at].skips \cup SkipRecords(Uncopyable) : r.level = d /\ r.path = p
        <5>1. SUFFICES ASSUME NEW p \in LeftOut(from.tree)
                       PROVE  \E r \in plans[at].skips \cup SkipRecords(Uncopyable) :
                                 r.level = at /\ r.path = p
          BY <2>1, <3>1
        <5>2. PICK r : r = [level |-> at, path |-> p, stamp |-> stamp[at][p]]
          OBVIOUS
        <5>3. r \in plans[at].skips \cup SkipRecords(Uncopyable)
          BY <2>7, <5>2
        <5>4. r.level = at /\ r.path = p
          BY <5>2
        <5>5. QED
          BY <5>3, <5>4
      <4>3. QED
        BY <2>2, <4>1, <4>2
    <3>2. CASE d # at
      <4>1. d \in carried /\ child'[d] = child[d]
        BY <1>1, <2>2, <2>9, <3>2
      <4>2. QED
        BY <2>2, <4>1 DEF FilledInv
    <3>3. QED
      BY <3>1, <3>2
  <2>10. ASSUME NEW r \in entrySkips'
         PROVE  r.path \in LeftOut(parent[r.level].tree) /\ r.stamp = stamp[r.level][r.path]
    <3>1. CASE r \in entrySkips
      BY <3>1 DEF FilledInv
    <3>2. CASE r \in plans[at].skips \cup SkipRecords(Uncopyable)
      BY <2>8, <3>2
    <3>3. QED
      BY <2>2, <2>10, <3>1, <3>2
  <2>11. QED
    BY <2>2, <2>9, <2>10 DEF FilledInv
<1>7. CASE Next /\ pc' = "failed"
  <2>1. UNCHANGED run
    BY <1>1, <1>7, FailedStep
  <2>2. QED
    BY <1>7, <2>1 DEF FilledInv, run
<1>8. CASE Next /\ pc' # "failed" /\ ~Populate /\ ~TransportTracked /\ ~CopyUntracked
  <2>1. ~Edit
    BY DEF Edit
  <2>2. UNCHANGED <<child, carried, entrySkips>> /\ pc' \notin {"tracked", "untracked"}
    <3>1. CASE Preflight \/ ReadStatus \/ ReadTop \/ Create \/ CompareStatus \/ CompareTop
               \/ CheckChild \/ CheckParentHead \/ ListAgain \/ CheckParentContent
               \/ ParentUntouched \/ Finish
      <4>1. UNCHANGED <<child, carried, entrySkips>>
        BY <3>1, ReadOnly
      <4>2. pc' \notin {"tracked", "untracked"}
        BY <1>8, <3>1 DEF Preflight, ReadStatus, ReadTop, Create, CompareStatus, CompareTop,
               CheckChild, CheckParentHead, ListAgain, CheckParentContent, ParentUntouched, Finish,
               Goes, Fails
      <4>3. QED
        BY <4>1, <4>2
    <3>2. CASE SnapshotIdentity \/ SnapshotInventory \/ SnapshotContent
      BY <1>1, <1>8, <3>2, IdentityIs, ListsAre, ContentIs
    <3>3. CASE LeaveCold
      BY <3>3 DEF LeaveCold, Goes, AfterCarry
    <3>4. QED
      BY <1>8, <2>1, <3>1, <3>2, <3>3 DEF Next
  <2>3. QED
    BY <2>2 DEF FilledInv
<1>9. QED
  BY <1>2, <1>4, <1>5, <1>6, <1>7, <1>8

\* A level that verification finds in the plan and in no excuse was carried, and
\* one that is excused was not.
LEMMA ExcusedIs ==
    ASSUME CarryInv, pc = "checkChild"
    PROVE  /\ at \in reasoned \/ ~plans[at].init => at \notin carried /\ ~child[at].init
           /\ at \notin reasoned /\ plans[at].init =>
                 at \in carried /\ at \notin skipped /\ child[at].init
<1>1. /\ at \in Level /\ skipped \subseteq Level /\ reasoned \subseteq skipped
      /\ carried = {d \in Level : \A e \in skipped : d < e}
      /\ \A d \in Level : child[d].init <=> d \in carried
      /\ \A d \in Level : d < at => d \in carried
      /\ \A d \in carried : plans[d].init
      /\ \A e \in skipped : e \in reasoned \/ ~plans[e].init
  BY DEF CarryInv, TypeOK, ProgressInv, Verifying
<1>2. \A d \in Level : d \in Nat /\ ~(d < d)
  BY LevelsAre
<1>3. at \in reasoned \/ ~plans[at].init => at \notin carried
  BY <1>1, <1>2
<1>4. ASSUME at \notin reasoned, plans[at].init
      PROVE  at \in carried
  <2>1. SUFFICES ASSUME NEW e \in skipped PROVE at < e
    BY <1>1
  <2>2. e # at
    BY <1>1, <1>4
  <2>3. ~(e < at)
    BY <1>1, <1>2
  <2>4. QED
    BY <1>1, <1>2, <2>2, <2>3
<1>5. at \in carried => at \notin skipped
  BY <1>1, <1>2
<1>6. QED
  BY <1>1, <1>3, <1>4, <1>5

\* The child of an undisturbed fork is found to be what its plan says.
LEMMA ChildIsAgreed ==
    ASSUME CarryInv, FrozenInv, FilledInv, Undisturbed, pc = "checkChild", at \in carried
    PROVE  ChildAgrees(at)
<1>1. /\ TypeOK /\ ParentInv /\ ChildInv /\ at \in Level /\ opts.verify /\ plans[at].init
      /\ edits = 0 /\ pc # "failed" /\ pc \notin Snapshot /\ pc \in Verifying
      /\ child \in [Level -> Checkout] /\ parent \in [Level -> Checkout]
  BY DEF CarryInv, TypeOK, ProgressInv, Verifying, Snapshot, Undisturbed
<1>2. PICK c, from : c = child[at] /\ from = parent[at]
  OBVIOUS
<1>3. /\ c \in Checkout /\ from \in Checkout /\ Plain(c.tree) /\ Carryable(from.tree)
      /\ HasAll(c, from) /\ \A p \in Path : c.tree.work[p] # Locked
      /\ \A p \in Path : from.tree.work[p] # Nested
  BY <1>1, <1>2, UndisturbedIs DEF ChildInv, FilledInv
<1>4. /\ plans[at].head = from.tree.head /\ plans[at].urls = from.urls
      /\ plans[at].inventory = CollectInventory(from.tree, TRUE, FALSE)
      /\ plans[at].link = LinkShows(parent, at + 1)
      /\ plans[at].content = CaptureState(from.tree, plans[at].inventory, {})
  BY <1>1, <1>2, PlanOfLevel
<1>5. PICK listed : listed = Listed(child, at)
  OBVIOUS
<1>6. /\ listed.inventory = CollectInventory(c.tree, TRUE, FALSE)
      /\ listed.link = LinkShows(child, at + 1)
  BY <1>1, <1>2, <1>5, ListedIs
<1>7. LinkShows(child, at + 1) = LinkShows(parent, at + 1)
  <2>1. at + 1 \in Nat /\ at + 1 >= 2
    BY <1>1, LevelsAre
  <2>2. QED
    BY <1>1, <2>1, LinksAgree
<1>8. CaptureState(c.tree, CollectInventory(c.tree, TRUE, FALSE), {})
         = CaptureState(from.tree, CollectInventory(from.tree, TRUE, FALSE), {})
  BY <1>3, CapturesAgree
<1>9. Captured(child, at, listed) = plans[at].content
  BY <1>2, <1>4, <1>6, <1>8 DEF Captured
<1>10. Agree(plans[at], listed, Captured(child, at, listed))
  BY <1>4, <1>6, <1>7, <1>9 DEF Agree, Same
<1>11. c.tree.head = from.tree.head /\ c.urls = from.urls
  BY <1>3 DEF HasAll, Brings, Made
<1>12. QED
  BY <1>2, <1>4, <1>5, <1>10, <1>11 DEF ChildAgrees

\* And so is the parent, when it is read again.
LEMMA ParentIsAgreed ==
    ASSUME CarryInv, FrozenInv, VerdictInv, Undisturbed, pc \in {"parentHead", "parentContent"}
    PROVE  /\ pc = "parentHead" => parent[at].tree.head = plans[at].head
           /\ pc = "parentContent" => ParentAgrees /\ ~Raises(parent, at, recheck)
<1>1. /\ TypeOK /\ ParentInv /\ at \in Level /\ plans[at].init
      /\ edits = 0 /\ pc # "failed" /\ pc \notin Snapshot
      /\ parent \in [Level -> Checkout]
  <2>1. at \in Level /\ \A d \in Level : d <= d
    BY LevelsAre DEF CarryInv, TypeOK
  <2>2. at \in carried
    BY <2>1 DEF CarryInv, ProgressInv
  <2>3. QED
    BY <2>1, <2>2 DEF CarryInv, TypeOK, ProgressInv, Snapshot, Undisturbed
<1>2. PICK from : from = parent[at]
  OBVIOUS
<1>3. /\ plans[at].head = from.tree.head
      /\ plans[at].inventory = CollectInventory(from.tree, TRUE, FALSE)
      /\ plans[at].link = LinkShows(parent, at + 1)
      /\ plans[at].content = CaptureState(from.tree, plans[at].inventory, {})
  BY <1>1, <1>2, PlanOfLevel
<1>4. from.tree \in Tree /\ Carryable(from.tree)
  BY <1>1, <1>2, UndisturbedIs
<1>5. ASSUME pc = "parentContent"
      PROVE  ParentAgrees /\ ~Raises(parent, at, recheck)
  <2>1. PICK again : again = recheck
    OBVIOUS
  <2>2. again = Listed(parent, at)
    BY <1>5, <2>1 DEF VerdictInv
  <2>3. /\ again.inventory = CollectInventory(from.tree, TRUE, FALSE)
        /\ again.link = LinkShows(parent, at + 1)
    BY <1>1, <1>2, <2>2, ListedIs
  <2>4. ~CaptureRaises(from.tree, again.inventory, {})
    BY <1>4, <2>3, CarryableIs
  <2>5. Captured(parent, at, again) = plans[at].content
    BY <1>2, <1>3, <2>3 DEF Captured
  <2>6. QED
    BY <1>2, <1>3, <2>1, <2>3, <2>4, <2>5 DEF ParentAgrees, Agree, Same, Raises
<1>6. QED
  BY <1>2, <1>3, <1>5

\* An undisturbed fork can only fail for --strict.
LEMMA OnlyStrictFails ==
    ASSUME CarryInv, FrozenInv, FilledInv, VerdictInv, Undisturbed, Next, pc # "failed",
           pc' = "failed"
    PROVE  opts.strict /\ entrySkips # {}
<1>1. /\ TypeOK /\ ParentInv /\ ChildInv /\ at \in Level /\ edits = 0
      /\ parent \in [Level -> Checkout] /\ child \in [Level -> Checkout]
      /\ entrySkips \subseteq SkipRecord
      /\ Carryable(parent[at].tree) /\ parent[at] \in Checkout /\ parent[at].tree \in Tree
      /\ parent[at].init => names[at] \in {"plain", "equals"}
  BY UndisturbedIs DEF CarryInv, TypeOK, Undisturbed
<1>2. ~Edit
  BY DEF Edit
<1>3. ~Preflight
  BY DEF Preflight, Goes, Undisturbed, Uncarryable
<1>4. ~ReadStatus /\ ~ReadTop /\ ~SnapshotIdentity /\ ~SnapshotInventory /\ ~Create
  BY DEF ReadStatus, ReadTop, SnapshotIdentity, SnapshotInventory, Create, Goes
<1>5. ~LeaveCold /\ ~CompareStatus /\ ~CompareTop /\ ~CheckChild /\ ~CheckParentHead /\ ~ListAgain
  BY DEF LeaveCold, AfterCarry, CompareStatus, CompareTop, CheckChild, CheckParentHead, ListAgain, Goes
<1>6. ~SnapshotContent
  <2>1. SUFFICES ASSUME SnapshotContent PROVE FALSE
    OBVIOUS
  <2>2. pc = "content" /\ Raises(parent, at, plans[at])
    BY <2>1 DEF SnapshotContent, Goes
  <2>3. plans[at].inventory = CollectInventory(parent[at].tree, TRUE, FALSE)
    BY <1>1, <2>2, ListedIs DEF FrozenInv, ReadLists
  <2>4. ~CaptureRaises(parent[at].tree, plans[at].inventory, {})
    BY <1>1, <2>3, CarryableIs
  <2>5. QED
    BY <2>2, <2>4 DEF Raises
<1>7. ~Populate
  <2>1. SUFFICES ASSUME Populate PROVE FALSE
    OBVIOUS
  <2>2. pc = "carry" /\ plans[at].init /\ names[at] # "equals" /\ names[at] # "plain"
    BY <2>1 DEF Populate, Goes
  <2>3. parent[at].init
    BY <1>1, <2>2, PlanOfLevel DEF Snapshot
  <2>4. QED
    BY <1>1, <2>2, <2>3
<1>8. ~TransportTracked
  <2>1. SUFFICES ASSUME TransportTracked PROVE FALSE
    OBVIOUS
  <2>2. PICK c, from : c = child[at] /\ from = parent[at]
    OBVIOUS
  <2>3. /\ pc = "tracked"
        /\ ~(StagedFits(from.tree, c.tree) /\ UnstagedFits(from.tree, Indexed(from.tree, c.tree)))
    BY <2>1, <2>2 DEF TransportTracked, Goes
  <2>4. /\ c \in Checkout /\ from \in Checkout /\ Plain(c.tree) /\ Carryable(from.tree)
        /\ AtCommit(c, from)
    BY <1>1, <2>2, <2>3 DEF ChildInv, FilledInv
  <2>5. QED
    BY <2>3, <2>4, PatchesFit
<1>9. ~CopyUntracked
  <2>1. SUFFICES ASSUME CopyUntracked PROVE FALSE
    OBVIOUS
  <2>2. /\ pc = "untracked"
        /\ \/ \E p \in ToCopy : parent[at].tree.work[p] = Absent
           \/ Uncopyable # {} /\ plans[at].inventory.deletions # {}
    BY <2>1 DEF CopyUntracked, Goes, Descend, AfterCarry
  <2>3. QED
    BY <2>2, CopiesAre
<1>10. ~CheckParentContent
  BY ParentIsAgreed DEF CheckParentContent, Goes
<1>11. ~ParentUntouched
  BY DEF ParentUntouched, Goes, VerdictInv
<1>12. CASE Finish
  <2>1. \A r \in entrySkips : HeldStill(r)
    <3>1. SUFFICES ASSUME NEW r \in entrySkips PROVE HeldStill(r)
      OBVIOUS
    <3>2. r.path \in LeftOut(parent[r.level].tree) /\ r.stamp = stamp[r.level][r.path]
      BY DEF FilledInv
    <3>3. parent[r.level].tree.work[r.path] # Absent
      BY <3>2 DEF LeftOut, Others
    <3>4. QED
      BY <3>2, <3>3 DEF HeldStill
  <2>2. QED
    BY <1>12, <2>1 DEF Finish, Goes
<1>13. QED
  BY <1>2, <1>3, <1>4, <1>5, <1>6, <1>7, <1>8, <1>9, <1>10, <1>11, <1>12 DEF Next

\* Every comparison of an undisturbed fork agrees.
LEMMA AgreesStep ==
    ASSUME CarryInv, FrozenInv, FilledInv, VerdictInv, Undisturbed, Next, CarryInv'
    PROVE  agrees'
<1>1. agrees /\ agrees' \in BOOLEAN
  BY DEF VerdictInv, CarryInv, TypeOK
<1>2. CASE CompareStatus
  <2>1. pc \in Verifying /\ 1 \in Nat
    BY <1>2 DEF CompareStatus, Verifying
  <2>2. Delegated \/ LinkShows(child, 1) = LinkShows(parent, 1)
    BY <2>1, LinksAgree DEF Delegated
  <2>3. QED
    BY <1>1, <1>2, <2>2 DEF CompareStatus
<1>3. CASE CompareTop
  <2>1. pc = "compareTop" /\ pc \in Verifying /\ 1 \in Nat
    BY <1>3 DEF CompareTop, Verifying
  <2>2. Delegated \/ LinkShows(child, 1) = LinkShows(parent, 1)
    BY <2>1, LinksAgree DEF Delegated
  <2>3. before.link = LinkShows(parent, 1)
    BY <2>1 DEF VerdictInv
  <2>4. Delegated \/ (before.link = LinkShows(parent, 1) /\ before.link = LinkShows(child, 1))
    BY <2>2, <2>3
  <2>5. QED
    BY <1>1, <1>3, <2>4 DEF CompareTop
<1>4. CASE CheckChild
  <2>1. PICK excused, there : /\ excused = (at \in reasoned \/ ~plans[at].init)
                              /\ there = (at \notin skipped /\ child[at].init)
    OBVIOUS
  <2>2. /\ pc = "checkChild"
        /\ agrees' = (agrees /\ IF excused THEN ~child[at].init ELSE there /\ ChildAgrees(at))
    BY <1>4, <2>1 DEF CheckChild
  <2>3. CASE excused
    BY <1>1, <2>1, <2>2, <2>3, ExcusedIs
  <2>4. CASE ~excused
    <3>1. there /\ at \in carried
      BY <2>1, <2>2, <2>4, ExcusedIs
    <3>2. ChildAgrees(at)
      BY <2>2, <3>1, ChildIsAgreed
    <3>3. QED
      BY <1>1, <2>2, <2>4, <3>1, <3>2
  <2>5. QED
    BY <2>1, <2>3, <2>4
<1>5. CASE CheckParentHead
  BY <1>1, <1>5, ParentIsAgreed DEF CheckParentHead
<1>6. CASE CheckParentContent
  BY <1>1, <1>6, ParentIsAgreed DEF CheckParentContent, Fails, run
<1>7. CASE /\ ~CompareStatus /\ ~CompareTop /\ ~CheckChild /\ ~CheckParentHead
           /\ ~CheckParentContent
  BY <1>1, <1>7 DEF Next, Edit, Preflight, ReadStatus, ReadTop, SnapshotIdentity,
     SnapshotInventory, SnapshotContent, Create, LeaveCold, Populate, TransportTracked,
     CopyUntracked, ListAgain, ParentUntouched, Finish, Fails, run
<1>8. QED
  BY <1>2, <1>3, <1>4, <1>5, <1>6, <1>7

\* And what verification keeps of the parent stays what the parent shows.
LEMMA VerdictStep ==
    ASSUME CarryInv, FrozenInv, FilledInv, VerdictInv, Undisturbed, edits = 0,
           UNCHANGED <<parent, names, stamp, edits, opts>>, CarryInv', [Next]_vars
    PROVE  VerdictInv'
<1>1. before \in [status : BOOLEAN, link : BOOLEAN] /\ ~Edit
  BY DEF CarryInv, TypeOK, Edit
<1>2. CASE UNCHANGED vars
  BY <1>2 DEF vars, run, VerdictInv
<1>3. CASE Next /\ pc' = "failed"
  <2>1. UNCHANGED run
    BY <1>3, FailedStep DEF CarryInv
  <2>2. opts.strict /\ entrySkips # {}
    <3>1. CASE pc = "failed"
      BY <3>1 DEF VerdictInv
    <3>2. CASE pc # "failed"
      BY <1>3, <3>2, OnlyStrictFails
    <3>3. QED
      BY <3>1, <3>2
  <2>3. pc \notin {"preflight", "status", "top"}
    BY <2>2 DEF CarryInv, ProgressInv, Snapshot
  <2>4. QED
    BY <1>3, <2>1, <2>2, <2>3 DEF VerdictInv, run
<1>4. CASE Next /\ pc' # "failed"
  <2>1. agrees'
    BY <1>4, AgreesStep
  <2>2. CASE ReadStatus
    <3>1. before'.status = LinkShows(parent, 1) /\ pc' = "top"
      BY <1>1, <2>2 DEF ReadStatus, Goes
    <3>2. QED
      BY <2>1, <3>1 DEF VerdictInv
  <2>3. CASE ReadTop
    <3>1. before'.status = before.status /\ before'.link = LinkShows(parent, 1) /\ pc' = "identity"
      BY <1>1, <2>3 DEF ReadTop, Goes
    <3>2. before.status = LinkShows(parent, 1)
      BY <2>3 DEF ReadTop, VerdictInv
    <3>3. QED
      BY <2>1, <3>1, <3>2 DEF VerdictInv
  <2>4. CASE ListAgain
    <3>1. recheck' = Listed(parent, at) /\ UNCHANGED <<before, at>> /\ pc = "listAgain"
          /\ pc' = "parentContent"
      BY <2>4 DEF ListAgain, Goes
    <3>2. QED
      BY <2>1, <3>1 DEF VerdictInv
  <2>5. CASE Preflight
    <3>1. pc' = "status"
      BY <1>4, <2>5 DEF Preflight, Goes, Fails
    <3>2. QED
      BY <2>1, <3>1 DEF VerdictInv
  <2>6. CASE ~ReadStatus /\ ~ReadTop /\ ~ListAgain /\ ~Preflight
    <3>1. UNCHANGED before
      BY <1>1, <1>4, <2>6 DEF Next, SnapshotIdentity, SnapshotInventory, SnapshotContent, Create,
         LeaveCold, Populate, TransportTracked, CopyUntracked, CompareStatus, CompareTop,
         CheckChild, CheckParentHead, CheckParentContent, ParentUntouched, Finish, Fails, run
    <3>2. pc \notin {"preflight", "status", "top"}
      BY <1>1, <1>4, <2>6 DEF Next, SnapshotIdentity, SnapshotInventory, SnapshotContent, Create,
         LeaveCold, Populate, TransportTracked, CopyUntracked, CompareStatus, CompareTop,
         CheckChild, CheckParentHead, CheckParentContent, ParentUntouched, Finish
    <3>3. pc' # "parentContent"
      BY <1>1, <1>4, <2>6 DEF Next, SnapshotIdentity, SnapshotInventory, SnapshotContent, Create,
         LeaveCold, Populate, TransportTracked, CopyUntracked, CompareStatus, CompareTop,
         CheckChild, CheckParentHead, CheckParentContent, ParentUntouched, Finish, Fails, Goes,
         Descend, AfterCarry
    <3>4. QED
      BY <1>4, <2>1, <3>1, <3>2, <3>3 DEF VerdictInv
  <2>7. QED
    BY <2>2, <2>3, <2>4, <2>5, <2>6
<1>5. QED
  BY <1>2, <1>3, <1>4

\* Where nothing is in the way, the child becomes what its plan says, and
\* verification finds that it did.
THEOREM QuietInvariant == Spec => []QuietInv
<1>1. Init => QuietInv
  <2>1. Init => FilledInv
    BY DEF Init, FilledInv
  <2>2. Init => VerdictInv
    BY DEF Init, VerdictInv
  <2>3. QED
    BY <2>1, <2>2 DEF QuietInv
<1>2. ASSUME CarryInv, CarryInv', FrozenInv, QuietInv, [Next]_vars
      PROVE  QuietInv'
  <2>1. SUFFICES ASSUME Undisturbed' PROVE FilledInv' /\ VerdictInv'
    BY DEF QuietInv
  <2>2. Undisturbed /\ edits = 0 /\ UNCHANGED <<parent, names, stamp, edits, opts>>
    BY <1>2, <2>1, UndisturbedBefore DEF CarryInv
  <2>3. FilledInv /\ VerdictInv
    BY <1>2, <2>2 DEF QuietInv
  <2>4. QED
    BY <1>2, <2>2, <2>3, FilledStep, VerdictStep
<1>3. QED
  BY <1>1, <1>2, CarryInvariant, FrozenInvariant, PTL DEF Spec

\* Submodules nobody touched fail to be carried only for these reasons: what
\* preflight refuses, what cannot be read or copied, changes under a name that
\* rules the submodule out, --strict, and an entry that was skipped below the
\* first level (carry_submodules, verify_submodules).
THEOREM QuietFailures == Spec => []QuietFailuresAreExplained
<1>1. QuietInv => QuietFailuresAreExplained
  <2>1. SUFFICES ASSUME QuietInv, pc = "failed", edits = 0, ~Uncarryable, ~ChangedUnderEquals,
                        ~SkipBelowTheFirst
                 PROVE  opts.strict /\ entrySkips # {}
    BY DEF QuietFailuresAreExplained, Uncarryable
  <2>2. Undisturbed
    BY <2>1 DEF Undisturbed
  <2>3. VerdictInv
    BY <2>1, <2>2 DEF QuietInv
  <2>4. QED
    BY <2>1, <2>3 DEF VerdictInv
<1>2. QED
  BY <1>1, QuietInvariant, PTL
=============================================================================
