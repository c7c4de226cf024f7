-------------------------- MODULE ParentInference --------------------------
(***************************************************************************)
(* How the parent of a Claude session is inferred                          *)
(* (claude_lineage_inference.py, session claude-parent infer): one corpus  *)
(* is listed once and then serves the sessions asked about one after the   *)
(* other, each transcript screened, parsed and compared at most once,      *)
(* while Claude goes on writing the transcripts and other analyses share   *)
(* the cache of screens.                                                   *)
(*                                                                         *)
(* A transcript is its versions, each a set of message nodes: Claude only  *)
(* appends.  The identity the code takes of a file (inode, size, mtime) is *)
(* its version.  A deep parse whose file keeps its identity from open to   *)
(* close is one step, and one whose file does not is an error.  Session ids*)
(* and uuids are numbers, because ties are broken by them.  What is written*)
(* of a result besides its record is LineageStores.                        *)
(***************************************************************************)
EXTENDS Naturals, Sequences, FiniteSets

CONSTANTS
    Session,        \* sessions, each with one transcript file
    Worlds,         \* what the transcripts and the clocks may be
    Requests,       \* the sequences of sessions a command may ask about
    Wild,           \* transcripts the screen is never certain of
    MaxCandidates, MaxWrites, MaxFaults, None

\* The structural threshold of the code.
MinShared == 3

\* A message, known by its uuid: a transcript in which two share one is refused.
Message == [uuid : Nat, parent : Nat \cup {None}, kind : STRING, time : Nat]
IsTranscript(t) == /\ t \subseteq Message /\ IsFiniteSet(t)
                   /\ \A n, m \in t : n.uuid = m.uuid => n = m

\* What comparing two transcripts gives.
Comparison == [shared : Nat, substantive : Nat, boundary : Nat \cup {None}]

\* A platform reports the birth of every file or of none.
ASSUME InferenceAssumption ==
    /\ Session \subseteq Nat /\ IsFiniteSet(Session) /\ Wild \subseteq Session
    /\ \A w \in Worlds : /\ DOMAIN w.versions = Session
                         /\ \A s \in Session :
                               /\ w.versions[s] \in Seq(SUBSET Message) /\ w.versions[s] # <<>>
                               /\ \A v \in DOMAIN w.versions[s] : IsTranscript(w.versions[s][v])
                         /\ w.birth \in [Session -> Nat] \/ w.birth \in [Session -> {None}]
                         /\ w.history \in [Session -> Nat \cup {None}]
    /\ \A r \in Requests : r \in Seq(Session) /\ r # <<>>
    /\ MaxCandidates \in Nat /\ MaxWrites \in Nat /\ MaxFaults \in Nat
    /\ None \notin Nat /\ None \notin Comparison

VARIABLES
    world,      \* versions of every transcript, birth and first prompt of it
    version,    \* of each transcript, how many versions are written; 0: no file
    shard,      \* the screen cache: for each session, a screen or None
    pc,
    listing, known, incomplete,     \* what the corpus found of files and clocks
    screens, parsed, pairs,         \* what it keeps of them
    todo,       \* the sessions still to be analysed, the current one first
    left,       \* the transcripts it is still to be compared with
    candidates,
    scanned,    \* the identity of the file whose scan is under way
    records,    \* the parents recorded, per child
    writes, faults,
    moved       \* the transcripts written to since the corpus was listed

files == <<world, version, writes, moved>>
corpus == <<listing, known, incomplete>>
memo == <<screens, parsed, pairs>>
vars == <<files, shard, pc, corpus, memo, todo, left, candidates, scanned, records, faults>>

At(s, v) == IF v = 0 THEN {} ELSE world.versions[s][v]
Content(s) == At(s, version[s])

-----------------------------------------------------------------------------
(* What two transcripts share: deep_parse and _longest_shared_chain.        *)

Substantive(n) == n.kind \in {"user", "assistant"}

\* A message both hold, in the same place.
Compatible(t, o) == {n \in t : \E m \in o : /\ m.uuid = n.uuid /\ m.kind = n.kind
                                            /\ m.parent = n.parent}

\* n and its ancestors within S, as far as they hang together.
Line(S, n) ==
    LET up[k \in 0..Cardinality(S)] ==
            IF k = 0 THEN {n}
            ELSE LET below == up[k - 1]
                 IN  below \cup {m \in S : \E c \in below : c.parent = m.uuid}
    IN  up[Cardinality(S)]

Cyclic(S) == \E n \in S : \E m \in S : n.parent = m.uuid /\ n \in Line(S, m)

\* The end of the longest line: the deepest message, the latest of those.
Boundary(S) ==
    LET depth == [n \in S |-> Cardinality(Line(S, n))]
    IN  CHOOSE n \in S : \A m \in S \ {n} :
            \/ depth[n] > depth[m]
            \/ depth[n] = depth[m] /\ n.time > m.time
            \/ depth[n] = depth[m] /\ n.time = m.time /\ n.uuid > m.uuid

Nothing == [shared |-> 0, substantive |-> 0, boundary |-> None]
SharedChain(t, o) ==
    LET S == Compatible(t, o)
        chain == Line(S, Boundary(S))
    IN  IF S = {} THEN Nothing
        ELSE [shared |-> Cardinality(chain),
              substantive |-> Cardinality({n \in chain : Substantive(n)}),
              boundary |-> Boundary(S).uuid]

Related(p) == p.shared >= MinShared /\ p.substantive >= 1

\* The clocks that both sessions have, and what they say; one that disagrees
\* refuses the direction.  Mutant of Older: any clock is enough.
Clocks(t, o, first) ==
    {c \in {<<"birth", world.birth[o], world.birth[t]>>, <<"history", first[o], first[t]>>} :
        c[2] # None /\ c[3] # None}
SomeOlder(t, o, first) == \E c \in Clocks(t, o, first) : c[2] < c[3]
Older(t, o, first) == /\ Clocks(t, o, first) # {}
                      /\ \A c \in Clocks(t, o, first) : c[2] < c[3]

-----------------------------------------------------------------------------
Screen(s, v) == [of |-> v, hashes |-> {n.uuid : n \in At(s, v)}, always |-> s \in Wild]

Init ==
    /\ world \in Worlds
    /\ version \in [Session -> {0, 1}] /\ \A r \in Requests : version[r[1]] = 1
    /\ \E c \in SUBSET Session :
          shard = [s \in Session |-> IF s \in c /\ version[s] = 1 THEN Screen(s, 1) ELSE None]
    /\ pc = "discover"
    /\ listing = {} /\ known = [s \in Session |-> None] /\ incomplete = FALSE
    /\ screens = [s \in Session |-> None]
    /\ parsed = [s \in Session |-> None]
    /\ pairs = [p \in {{s, t} : s, t \in Session} |-> None]
    /\ todo \in Requests /\ left = <<>> /\ candidates = {} /\ scanned = 0
    /\ records = [s \in Session |-> None]
    /\ writes = 0 /\ faults = 0 /\ moved = {}

Fault == faults < MaxFaults /\ faults' = faults + 1

Appends(s) ==
    /\ writes < MaxWrites /\ writes' = writes + 1
    /\ version[s] < Len(world.versions[s])
    /\ version' = [version EXCEPT ![s] = @ + 1]
    /\ moved' = moved \cup {s}
    /\ UNCHANGED world

\* Reading s fails: it is written to meanwhile, or cannot be read.
Unavailable(s) == \/ Appends(s) /\ UNCHANGED faults
                  \/ Fault /\ UNCHANGED files

Sorted(S) == CHOOSE q \in [1..Cardinality(S) -> S] :
                \A i, j \in DOMAIN q : i < j => q[i] < q[j]

\* sweep_cache takes the screens of files that are not listed, and others that
\* are old or too many.
Sweeps == \E kept \in {listing', {}} :
    shard' = [s \in Session |-> IF s \in kept THEN shard[s] ELSE None]

\* The transcripts are listed; a directory that cannot be read makes the corpus
\* incomplete.
Discover ==
    /\ pc = "discover"
    /\ \E gone \in SUBSET Session :
          /\ listing' = {s \in Session : version[s] > 0} \ gone
          /\ incomplete' = (gone # {})
          /\ gone # {} => Fault
          /\ gone = {} => UNCHANGED faults
    /\ Sweeps
    /\ moved' = {}
    /\ pc' = "history"
    /\ UNCHANGED <<world, version, writes, known, memo, todo, left, candidates,
                   scanned, records>>

\* The first prompts of the sessions listed; a history that is written to while
\* it is read has none, which is not held against the corpus.
ReadHistory ==
    /\ pc = "history"
    /\ \/ /\ known' = [s \in Session |-> IF s \in listing THEN world.history[s] ELSE None]
          /\ UNCHANGED faults
       \/ Fault /\ UNCHANGED known
    /\ pc' = "target"
    /\ UNCHANGED <<files, shard, listing, incomplete, memo, todo, left, candidates,
                   scanned, records>>

\* This session is done with, recorded or not.
GoOn ==
    /\ todo' = Tail(todo) /\ left' = <<>> /\ candidates' = {}
    /\ pc' = IF Len(todo) = 1 THEN "done" ELSE "target"

\* deep_parse, once per corpus.
Parses(s) ==
    parsed' = [parsed EXCEPT ![s] = IF @ = None THEN version[s] ELSE @]

ParseTarget ==
    LET t == Head(todo)
    IN  /\ pc = "target"
        /\ \/ /\ t \in listing
              /\ Parses(t)
              /\ left' = Sorted(listing \ {t})
              /\ pc' = "screen"
              /\ UNCHANGED <<files, faults, todo, candidates>>
           \/ /\ t \notin listing
              /\ GoOn /\ UNCHANGED <<files, faults, parsed>>
           \/ /\ t \in listing /\ parsed[t] = None
              /\ Unavailable(t)
              /\ GoOn /\ UNCHANGED parsed
        /\ UNCHANGED <<shard, corpus, screens, pairs, scanned, records>>

\* A cached screen serves the file it was made from.  Mutant of Valid: the
\* file's name is enough.
HasShard(s) == shard[s] # None
Valid(s) == shard[s] # None /\ shard[s].of = version[s]

\* What makes a transcript worth parsing: a message of the session's, or a
\* record the screen cannot judge.
Asked == {n.uuid : n \in {m \in At(Head(todo), parsed[Head(todo)]) : Substantive(m)}}
Positive(screen) == screen.always \/ screen.hashes \cap Asked # {}

Skip == left' = Tail(left) /\ pc' = "screen"

Looks(screen, s) ==
    /\ screens' = [screens EXCEPT ![s] = screen]
    /\ IF Positive(screen) THEN pc' = "parse" /\ UNCHANGED left ELSE Skip

\* _screen: from this corpus, from the cache, or by scanning the file -- also
\* when the cache cannot be read, or the file changes while it is.
ScreenNext ==
    LET s == Head(left)
    IN  /\ pc = "screen" /\ left # <<>>
        /\ \/ screens[s] # None /\ Looks(screens[s], s) /\ UNCHANGED scanned
           \/ screens[s] = None /\ Valid(s) /\ Looks(shard[s], s) /\ UNCHANGED scanned
           \/ /\ screens[s] = None
              /\ pc' = "scan" /\ scanned' = version[s]
              /\ UNCHANGED <<screens, left>>
        /\ UNCHANGED <<files, shard, corpus, parsed, pairs, todo, candidates, records,
                       faults>>

\* The file is what it was when the scan began.  Mutant of Same: nobody looks.
AnyFile(s) == TRUE
Same(s) == version[s] = scanned

\* The scan ends; the screen is published for others if that succeeds.
Scan ==
    LET s == Head(left)
        fresh == [Screen(s, version[s]) EXCEPT !.of = scanned]
    IN  /\ pc = "scan"
        /\ \/ /\ Same(s) /\ Looks(fresh, s)
              /\ \/ shard' = [shard EXCEPT ![s] = fresh] /\ UNCHANGED faults
                 \/ Fault /\ UNCHANGED shard
              /\ UNCHANGED incomplete
           \/ /\ (~Same(s) /\ UNCHANGED faults) \/ Fault
              /\ incomplete' = TRUE /\ Skip /\ UNCHANGED <<shard, screens>>
        /\ scanned' = 0
        /\ UNCHANGED <<files, listing, known, parsed, pairs, todo, candidates, records>>

\* A pair is compared once, from the side that comes first.
Key(s) == {Head(todo), s}
Compared(s, v) == SharedChain(At(Head(todo), parsed[Head(todo)]), At(s, v))

Candidate(s, p) ==
    [session |-> s, shared |-> p.shared, substantive |-> p.substantive,
     boundary |-> p.boundary, older |-> Older(Head(todo), s, known),
     clocks |-> Cardinality(Clocks(Head(todo), s, known))]

Examine ==
    LET s == Head(left)
        v == IF parsed[s] = None THEN version[s] ELSE parsed[s]
        tangled == Cyclic(Compatible(At(Head(todo), parsed[Head(todo)]), At(s, v)))
        p == IF pairs[Key(s)] = None THEN Compared(s, v) ELSE pairs[Key(s)]
    IN  /\ pc = "parse"
        /\ \/ /\ Cardinality(candidates) >= MaxCandidates
              /\ GoOn /\ UNCHANGED <<files, faults, incomplete, parsed, pairs>>
           \/ /\ Cardinality(candidates) < MaxCandidates /\ parsed[s] = None
              /\ Unavailable(s) /\ incomplete' = TRUE /\ Skip
              /\ UNCHANGED <<parsed, pairs, todo, candidates>>
           \/ /\ Cardinality(candidates) < MaxCandidates
              /\ Parses(s)
              /\ \/ /\ pairs[Key(s)] = None /\ tangled
                    /\ GoOn /\ UNCHANGED pairs
                 \/ /\ pairs[Key(s)] # None \/ ~tangled
                    /\ pairs' = [pairs EXCEPT ![Key(s)] = p]
                    /\ candidates' = IF Related(p) THEN candidates \cup {Candidate(s, p)}
                                     ELSE candidates
                    /\ Skip /\ UNCHANGED todo
              /\ UNCHANGED <<files, faults, incomplete>>
        /\ UNCHANGED <<shard, listing, known, screens, scanned, records>>

\* The command's time is up before another transcript is looked at.
TimeOut ==
    /\ pc = "screen" /\ left # <<>>
    /\ Fault /\ GoOn
    /\ UNCHANGED <<files, shard, corpus, memo, scanned, records>>

Eligible == {c \in candidates : c.older}
Above(c, d) == \/ c.substantive > d.substantive
               \/ c.substantive = d.substantive /\ c.shared > d.shared
Best == CHOOSE c \in Eligible : \A d \in Eligible \ {c} :
            \/ Above(c, d)
            \/ ~Above(d, c) /\ c.session < d.session

Peers(c) == {d \in Eligible : ~Above(c, d) /\ ~Above(d, c) /\ d.boundary = c.boundary}

Inferred == ~incomplete /\ Eligible # {} /\ Peers(Best) = {Best}

\* No parent is named, or there is one worth recording.
Conclude ==
    /\ pc = "screen" /\ left = <<>>
    /\ \/ Inferred /\ pc' = "stable" /\ UNCHANGED <<todo, left, candidates>>
       \/ ~Inferred /\ GoOn
    /\ UNCHANGED <<files, shard, corpus, memo, scanned, records, faults>>

\* evidence_stable: the same files, and the two of them unchanged since parsed.
EvidenceStable ==
    /\ {s \in Session : version[s] > 0} = listing
    /\ \A s \in {Head(todo), Best.session} : parsed[s] = version[s]

Revalidate ==
    /\ pc = "stable"
    /\ \/ EvidenceStable /\ pc' = "add" /\ UNCHANGED <<todo, left, candidates>>
       \/ ~EvidenceStable /\ GoOn
    /\ UNCHANGED <<files, shard, corpus, memo, scanned, records, faults>>

Add ==
    /\ pc = "add"
    /\ records' = [records EXCEPT ![Head(todo)] = Best.session]
    /\ GoOn
    /\ UNCHANGED <<files, shard, corpus, memo, scanned, faults>>

-----------------------------------------------------------------------------
\* Claude writes a transcript, or a new one.
Write(s) ==
    /\ pc # "done"
    /\ Appends(s)
    /\ UNCHANGED <<shard, pc, corpus, memo, todo, left, candidates, scanned, records,
                   faults>>

\* Another analysis publishes the screen of a file it has just scanned, or
\* sweeps one away.
Share(s) ==
    /\ pc # "done" /\ Fault
    /\ \E v \in 1..version[s] : shard' = [shard EXCEPT ![s] = Screen(s, v)]
       \/ shard' = [shard EXCEPT ![s] = None]
    /\ UNCHANGED <<files, pc, corpus, memo, todo, left, candidates, scanned, records>>

Next ==
    \/ Discover \/ ReadHistory \/ ParseTarget \/ ScreenNext \/ Scan \/ Examine
    \/ TimeOut \/ Conclude \/ Revalidate \/ Add
    \/ \E s \in Session : Write(s) \/ Share(s)

Spec == Init /\ [][Next]_vars

-----------------------------------------------------------------------------
(* Properties.                                                              *)

\* s is what the transcripts, as they are now, have to say for t: related,
\* older by every clock the corpus knows, and no other such session is above it
\* or its equal at the same boundary.
Shared(t, s) == SharedChain(Content(t), Content(s))
May(t, s) == s # t /\ Related(Shared(t, s)) /\ Older(t, s, known)
IsParentOf(t, s) ==
    /\ May(t, s)
    /\ \A r \in Session \ {s} : May(t, r) =>
          /\ ~Above(Shared(t, r), Shared(t, s))
          /\ Above(Shared(t, s), Shared(t, r)) \/ Shared(t, r).boundary # Shared(t, s).boundary

\* Copies of one message that carry different times.
Skewed(t, s) == \E n \in Content(t), m \in Content(s) : n.uuid = m.uuid /\ n.time # m.time

\* A parent is recorded only if comparing every transcript afresh, when the
\* evidence is looked at for the last time, would name it: screens and cached
\* screens miss nothing, what earlier sessions of the corpus left behind is
\* still true, and what could not be read keeps it from being named.  Not so if
\* a third transcript was written to since the corpus was listed, or if copies
\* with other times were compared from the other side.
RecordedParentIsBest ==
    [][pc = "stable" /\ pc' = "add" =>
          \/ IsParentOf(Head(todo), Best.session)
          \/ moved \ {Head(todo), Best.session} # {}
          \/ \E s \in listing \ {Head(todo)} : Skewed(Head(todo), s)]_vars

\* A screen in the cache names the messages of the version it is for, whoever
\* published it and however often the file changed in between.
CachedScreensAreExact ==
    \A s \in Session : shard[s] # None => shard[s] = Screen(s, shard[s].of)

\* Following recorded parents never leads back, so no sessions have their
\* parents among themselves: clocks that disagree give no direction, and both
\* sides of a pair read them alike.  This holds because births are known of all
\* sessions or of none: where some had only a birth and others only a first
\* prompt, four sessions could form a circle that no two of them contradict.
ParentsFormNoCircle ==
    \A C \in SUBSET Session : (\A s \in C : records[s] \in C) => C = {}
=============================================================================
