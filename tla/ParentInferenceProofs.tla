------------------------ MODULE ParentInferenceProofs ------------------------
(***************************************************************************)
(* That inference records nothing it should not, for any number of         *)
(* sessions, transcripts of any length and shape, any requests, writes and *)
(* faults: the cached screens are exact, the recorded parents form no      *)
(* circle, and a recorded parent is the one a fresh comparison would name. *)
(*                                                                         *)
(* The last of these needs to know what the comparison computes: that the  *)
(* longest shared line lies within what two transcripts share (LineWithin),*)
(* that the best candidate and the last message of a line exist            *)
(* (GreatestOf), that every transcript listed is come to (SortedHasAll).   *)
(* Where that takes an induction, it is one over a least counterexample.   *)
(***************************************************************************)
EXTENDS ParentInference, FiniteSetTheorems, SequenceTheorems, WellFoundedInduction, TLAPS

\* What the corpus has parsed of a transcript.
Read(s) == At(s, parsed[s])

TypeOK ==
    /\ world \in Worlds
    /\ version \in [Session -> Nat]
    /\ \A s \in Session : version[s] <= Len(world.versions[s])
    /\ DOMAIN shard = Session /\ DOMAIN screens = Session /\ DOMAIN records = Session
    /\ parsed \in [Session -> Nat \cup {None}]
    /\ DOMAIN pairs = {{s, t} : s, t \in Session}
    /\ pc \in {"discover", "history", "target", "screen", "scan", "parse", "stable", "add",
               "done"}
    /\ listing \subseteq Session /\ known \in [Session -> Nat \cup {None}]
    /\ incomplete \in BOOLEAN
    /\ pc # "done" => todo \in Seq(Session) /\ todo # <<>>

Fresh == pc \in {"discover", "history"}
Analysing == pc \in {"screen", "scan", "parse", "stable", "add"}

\* A transcript that was not written to since the corpus was listed is known
\* as it is: its screen and its parse are of the version it still has.
MemoInv ==
    /\ pc = "discover" => \A s \in Session : screens[s] = None /\ parsed[s] = None
    /\ \A s \in Session :
          /\ screens[s] # None => /\ screens[s] = Screen(s, screens[s].of)
                                  /\ s \notin moved => screens[s].of = version[s]
          /\ parsed[s] # None => /\ parsed[s] <= version[s]
                                 /\ s \notin moved => parsed[s] = version[s]

\* A pair was compared as it was parsed, from one of its sides.
Comparisons(x, y) == {SharedChain(Read(x), Read(y)), SharedChain(Read(y), Read(x))}
PairIs(x, y) == parsed[x] # None /\ parsed[y] # None /\ pairs[{x, y}] \in Comparisons(x, y)
PairsInv == \A x, y \in Session : x # y /\ pairs[{x, y}] # None => PairIs(x, y)

\* What has become of the transcripts the current session is compared with.
Pending(s) == \E i \in DOMAIN left : left[i] = s
Unrelated(s) == \A n \in Read(Head(todo)), m \in Content(s) : Substantive(n) => n.uuid # m.uuid
Named(s) == Candidate(s, pairs[Key(s)])
Examined(s) == /\ PairIs(Head(todo), s)
               /\ Related(pairs[Key(s)]) => Named(s) \in candidates

OthersInv ==
    /\ ~Analysing => candidates = {}
    /\ Analysing => /\ Head(todo) \in listing /\ parsed[Head(todo)] # None
                    /\ left \in Seq(listing \ {Head(todo)})
    /\ pc \in {"scan", "parse"} => left # <<>>
    /\ IsFiniteSet(candidates)
    /\ \A c \in candidates : \E s \in listing \ {Head(todo)} :
          PairIs(Head(todo), s) /\ Related(pairs[Key(s)]) /\ c = Named(s)
    /\ Analysing /\ ~incomplete => \A s \in listing \ {Head(todo)} :
          s \in moved \/ Pending(s) \/ Unrelated(s) \/ Examined(s)
    /\ pc \in {"stable", "add"} => left = <<>> /\ Inferred

\* Every recorded parent is older by every clock there is.
RecordsInv ==
    /\ Fresh => \A s \in Session : records[s] = None
    /\ \A s \in Session : records[s] # None => Older(s, records[s], known)

InferenceInv == /\ TypeOK /\ CachedScreensAreExact /\ MemoInv /\ PairsInv /\ OthersInv
                /\ RecordsInv

-----------------------------------------------------------------------------
(* Least and greatest elements.                                             *)

\* A set of natural numbers that is not empty has a least element.
LEMMA LeastNat ==
    ASSUME NEW T \in SUBSET Nat, T # {}
    PROVE  \E m \in T : \A n \in T : m <= n
<1>1. PICK m \in T : \A n \in T : ~ (<<n, m>> \in OpToRel(<, Nat))
  BY NatLessThanWellFounded, WFMin
<1>2. \A n \in T : ~ (n < m)
  BY <1>1 DEF OpToRel
<1>3. QED
  BY <1>2

\* A collection of subsets of a finite set that is not empty has a minimal one.
LEMMA LeastFinite ==
    ASSUME NEW S, IsFiniteSet(S), NEW T \in SUBSET (SUBSET S), T # {}
    PROVE  \E m \in T : \A n \in T : n \subseteq m => n = m
<1>1. \A x \in SUBSET S : IsFiniteSet(x)
  BY FS_Subset
<1>2. T \subseteq FiniteSubsetsOf(S)
  BY <1>1 DEF FiniteSubsetsOf
<1>3. IsWellFoundedOn(StrictSubsetOrdering(S), FiniteSubsetsOf(S))
  BY FS_StrictSubsetOrderingWellFounded
<1>4. PICK m \in T : \A n \in T : ~ (<<n, m>> \in StrictSubsetOrdering(S))
  BY <1>2, <1>3, WFMin
<1>5. QED
  BY <1>4 DEF StrictSubsetOrdering

\* Every such collection of subsets of S has one.
HasMinimal(S) ==
    \A T \in SUBSET (SUBSET S) : T # {} => \E m \in T : \A n \in T : n \subseteq m => n = m

\* LeastFinite, with the collections behind a name.
LEMMA LeastOfAny ==
    \A S : IsFiniteSet(S) => HasMinimal(S)
<1> SUFFICES ASSUME NEW S, IsFiniteSet(S) PROVE HasMinimal(S)
  OBVIOUS
<1> QED
  BY LeastFinite DEF HasMinimal

\* A relation that is total and transitive on a finite set has a greatest element
\* in it, unless the set is empty.
LEMMA GreatestOf ==
    ASSUME NEW S, IsFiniteSet(S), S # {}, NEW R,
           \A x, y \in S : x # y => <<x, y>> \in R \/ <<y, x>> \in R,
           \A x, y, z \in S : <<x, y>> \in R /\ <<y, z>> \in R => <<x, z>> \in R
    PROVE  \E x \in S : \A y \in S \ {x} : <<x, y>> \in R
<1> DEFINE Has(t) == \E x \in t : \A y \in t \ {x} : <<x, y>> \in R
<1> DEFINE T == {t \in SUBSET S : t # {} /\ ~Has(t)}
<1>1. SUFFICES ASSUME ~Has(S) PROVE FALSE
  OBVIOUS
<1>2. S \in T /\ T \in SUBSET (SUBSET S)
  BY <1>1
<1>3. \A t \in SUBSET S : t \notin T => t = {} \/ Has(t)
  OBVIOUS
<1>4. \A t \in T : t # {} /\ ~Has(t) /\ t \subseteq S
  OBVIOUS
<1> HIDE DEF T
<1>5. PICK m \in T : \A t \in T : t \subseteq m => t = m
  BY <1>2, LeastFinite
<1>6. PICK x \in m : TRUE
  BY <1>4
<1>7. m \ {x} \notin T
  BY <1>5, <1>6
<1>8. m \ {x} # {}
  BY <1>4, <1>6
<1>9. PICK g \in m \ {x} : \A y \in (m \ {x}) \ {g} : <<g, y>> \in R
  BY <1>3, <1>4, <1>7, <1>8
<1>10. x \in S /\ g \in S /\ x # g /\ m \subseteq S
  BY <1>4, <1>6, <1>9
<1>11. CASE <<x, g>> \in R
  <2>1. \A y \in m \ {x} : <<x, y>> \in R
    BY <1>9, <1>10, <1>11
  <2>2. QED
    BY <1>4, <1>6, <2>1
<1>12. CASE <<g, x>> \in R
  <2>1. \A y \in m \ {g} : <<g, y>> \in R
    BY <1>9, <1>12
  <2>2. QED
    BY <1>4, <1>9, <2>1
<1>13. QED
  BY <1>10, <1>11, <1>12

\* A finite set of numbers can be enumerated in increasing order.
LEMMA SortedExists ==
    ASSUME NEW S \in SUBSET Nat, IsFiniteSet(S)
    PROVE  \E q \in [1..Cardinality(S) -> S] :
                \A i, j \in DOMAIN q : i < j => q[i] < q[j]
<1> DEFINE Has(t) == \E q \in [1..Cardinality(t) -> t] :
                        \A i, j \in DOMAIN q : i < j => q[i] < q[j]
<1> DEFINE T == {t \in SUBSET S : ~Has(t)}
<1>1. SUFFICES ASSUME ~Has(S) PROVE FALSE
  OBVIOUS
<1> HIDE DEF Has
<1>2. S \in T /\ T \in SUBSET (SUBSET S)
  BY <1>1
<1>3. \A t \in SUBSET S : t \notin T => Has(t)
  OBVIOUS
<1>4. \A t \in T : ~Has(t) /\ t \subseteq S
  OBVIOUS
<1> HIDE DEF T
<1>5. PICK m \in T : \A t \in T : t \subseteq m => t = m
  <2>1. T # {} /\ T \in SUBSET (SUBSET S)
    BY <1>2
  <2>2. HasMinimal(S)
    BY LeastOfAny
  <2>3. QED
    BY <2>1, <2>2 DEF HasMinimal
<1>6. IsFiniteSet(m) /\ m \subseteq Nat
  BY <1>4, <1>5, FS_Subset
<1>7. m # {}
  <2> SUFFICES ASSUME m = {} PROVE FALSE
    OBVIOUS
  <2>1. Cardinality(m) = 0
    BY FS_EmptySet
  <2> DEFINE q == [i \in 1..Cardinality(m) |-> 0]
  <2>2. q \in [1..Cardinality(m) -> m] /\ \A i, j \in DOMAIN q : i < j => q[i] < q[j]
    BY <2>1
  <2>3. Has(m)
    BY <2>2 DEF Has
  <2>4. QED
    BY <1>4, <1>5, <2>3
<1> DEFINE R == {ab \in m \X m : ab[2] < ab[1]}
<1>8. PICK x \in m : \A y \in m \ {x} : y < x
  <2>1. \A a, b \in m : a # b => <<a, b>> \in R \/ <<b, a>> \in R
    BY <1>6
  <2>2. \A a, b, c \in m : <<a, b>> \in R /\ <<b, c>> \in R => <<a, c>> \in R
    BY <1>6
  <2>3. \A a, b : <<a, b>> \in R => b < a
    OBVIOUS
  <2> HIDE DEF R
  <2>4. \E g \in m : \A y \in m \ {g} : <<g, y>> \in R
    BY <1>6, <1>7, <2>1, <2>2, GreatestOf
  <2>5. QED
    BY <2>3, <2>4
<1> DEFINE less == m \ {x}
<1> DEFINE N == Cardinality(less)
<1>9. IsFiniteSet(less) /\ N \in Nat /\ Cardinality(m) = N + 1
  <2>1. IsFiniteSet(less) /\ N = Cardinality(m) - 1
    BY <1>6, FS_RemoveElement
  <2>2. Cardinality(m) \in Nat /\ N \in Nat
    BY <1>6, <2>1, FS_CardinalityType
  <2>3. QED
    BY <2>1, <2>2
<1>10. Has(less)
  <2>1. less \notin T
    BY <1>4, <1>5, <1>8
  <2>2. less \in SUBSET S
    BY <1>4, <1>5
  <2>3. QED
    BY <1>3, <2>1, <2>2
<1>11. PICK q \in [1..N -> less] : \A i, j \in DOMAIN q : i < j => q[i] < q[j]
  BY <1>10 DEF Has
<1> HIDE DEF N
<1> DEFINE p == [i \in 1..(N + 1) |-> IF i = N + 1 THEN x ELSE q[i]]
<1>12. p \in [1..Cardinality(m) -> m]
  BY <1>8, <1>9, <1>11
<1>13. ASSUME NEW i \in 1..(N + 1), NEW j \in 1..(N + 1), i < j
       PROVE  p[i] < p[j]
  <2>1. i \in 1..N /\ p[i] = q[i] /\ q[i] \in m \ {x}
    BY <1>9, <1>11, <1>13
  <2>2. CASE j = N + 1
    BY <1>8, <2>1, <2>2
  <2>3. CASE j # N + 1
    BY <1>9, <1>11, <1>13, <2>1, <2>3
  <2>4. QED
    BY <2>2, <2>3
<1>14. Has(m)
  <2>1. \A i, j \in DOMAIN p : i < j => p[i] < p[j]
    BY <1>9, <1>13
  <2> HIDE DEF p
  <2>2. QED
    BY <1>12, <2>1 DEF Has
<1>15. QED
  BY <1>4, <1>5, <1>14

\* The order in which transcripts are come to has all of them and no others.
LEMMA SortedHasAll ==
    ASSUME NEW S \in SUBSET Nat, IsFiniteSet(S)
    PROVE  /\ Sorted(S) \in Seq(S)
           /\ \A s \in S : \E i \in DOMAIN Sorted(S) : Sorted(S)[i] = s
<1> DEFINE n == Cardinality(S)
<1> DEFINE q == Sorted(S)
<1>1. q \in [1..n -> S] /\ \A i, j \in DOMAIN q : i < j => q[i] < q[j]
  BY SortedExists DEF Sorted
<1>2. n \in Nat /\ IsFiniteSet(1..n) /\ Cardinality(1..n) = n
  BY FS_CardinalityType, FS_Interval
<1> HIDE DEF q, n
<1>3. q \in Seq(S)
  BY <1>1, <1>2, SeqDef
<1>4. q \in Injection(1..n, S)
  <2>1. \A i, j \in 1..n : q[i] = q[j] => i = j
    <3> SUFFICES ASSUME NEW i \in 1..n, NEW j \in 1..n, i # j PROVE q[i] # q[j]
      OBVIOUS
    <3>1. i < j \/ j < i
      BY <1>2
    <3>2. q[i] < q[j] \/ q[j] < q[i]
      BY <1>1, <3>1
    <3>3. q[i] \in Nat /\ q[j] \in Nat
      BY <1>1
    <3>4. QED
      BY <3>2, <3>3
  <2>2. QED
    BY <1>1, <2>1 DEF Injection, IsInjective
<1>5. q \in Surjection(1..n, S)
  BY <1>2, <1>4, FS_Injection DEF n
<1>6. QED
  BY <1>1, <1>3, <1>5 DEF Surjection, q

-----------------------------------------------------------------------------
(* What two transcripts share.                                              *)

\* A line within a finite set of messages stays in it, and begins with its end.
LEMMA LineWithin ==
    ASSUME NEW S, IsFiniteSet(S), NEW n \in S
    PROVE  n \in Line(S, n) /\ Line(S, n) \subseteq S
<1> DEFINE N == Cardinality(S)
<1> DEFINE Up(b) == b \cup {m \in S : \E c \in b : c.parent = m.uuid}
<1> DEFINE F(j, f) == f = [k \in 0..j |-> IF k = 0 THEN {n} ELSE Up(f[k - 1])]
<1> DEFINE up == CHOOSE f : F(N, f)
<1>1. Line(S, n) = up[N]
  BY DEF Line
<1>2. N \in Nat
  BY FS_CardinalityType
<1>3. \A j \in Nat : \E f : F(j, f)
  <2> DEFINE T == {j \in Nat : ~ \E f : F(j, f)}
  <2>1. SUFFICES ASSUME T # {} PROVE FALSE
    OBVIOUS
  <2>2. PICK j \in T : \A i \in T : j <= i
    BY <2>1, LeastNat
  <2>3. CASE j = 0
    <3> DEFINE g == [k \in 0..0 |-> {n}]
    <3>1. F(0, g)
      OBVIOUS
    <3>2. QED
      BY <2>2, <2>3, <3>1
  <2>4. CASE j # 0
    <3> HIDE DEF F
    <3>1. j \in Nat /\ j - 1 \in Nat /\ j - 1 \notin T
      <4>1. j \in Nat /\ T \subseteq Nat
        BY <2>2
      <4>2. j - 1 \in Nat /\ j - 1 < j
        BY <2>4, <4>1
      <4> HIDE DEF T
      <4>3. QED
        BY <2>2, <4>1, <4>2
    <3> USE DEF F
    <3>2. PICK f : F(j - 1, f)
      BY <3>1
    <3> DEFINE g == [k \in 0..j |-> IF k = j THEN Up(f[j - 1]) ELSE f[k]]
    <3>3. \A k \in 0..j : g[k] = IF k = 0 THEN {n} ELSE Up(g[k - 1])
      <4> SUFFICES ASSUME NEW k \in 0..j PROVE g[k] = IF k = 0 THEN {n} ELSE Up(g[k - 1])
        OBVIOUS
      <4> HIDE DEF Up
      <4>1. CASE k = j
        BY <2>4, <3>1, <4>1
      <4>2. CASE k # j
        <5>1. k \in 0..(j - 1)
          BY <3>1, <4>2
        <5>2. f[k] = IF k = 0 THEN {n} ELSE Up(f[k - 1])
          BY <3>2, <5>1
        <5>3. g[k] = f[k] /\ (k # 0 => g[k - 1] = f[k - 1])
          BY <3>1, <4>2, <5>1
        <5>4. QED
          BY <5>2, <5>3
      <4>3. QED
        BY <4>1, <4>2
    <3>4. F(j, g)
      <4> HIDE DEF Up
      <4>1. QED BY <3>3
    <3>5. QED
      BY <2>2, <3>4
  <2>5. QED
    BY <2>3, <2>4
<1>4. F(N, up)
  BY <1>2, <1>3
<1>5. \A k \in 0..N : up[k] = IF k = 0 THEN {n} ELSE Up(up[k - 1])
  BY <1>4
<1> HIDE DEF up, N
<1>6. \A k \in 0..N : n \in up[k] /\ up[k] \subseteq S
  <2> DEFINE T == {k \in 0..N : ~(n \in up[k] /\ up[k] \subseteq S)}
  <2>1. SUFFICES ASSUME T # {} PROVE FALSE
    OBVIOUS
  <2>2. T \in SUBSET Nat
    BY <1>2
  <2>3. PICK k \in T : \A i \in T : k <= i
    <3> HIDE DEF T
    <3>1. QED
      BY <2>1, <2>2, LeastNat
  <2>4. k \in 0..N /\ k # 0
    BY <1>2, <1>5, <2>3
  <2>5. k - 1 \in 0..N /\ k - 1 < k
    BY <1>2, <2>4
  <2>6. k - 1 \notin T
    <3> HIDE DEF T
    <3>1. QED
      BY <1>2, <2>3, <2>4, <2>5
  <2>7. n \in up[k - 1] /\ up[k - 1] \subseteq S
    BY <2>5, <2>6
  <2>8. n \in up[k] /\ up[k] \subseteq S
    BY <1>5, <2>4, <2>7
  <2>9. QED
    BY <2>3, <2>8
<1>7. QED
  BY <1>1, <1>2, <1>6

\* A part of a transcript is a transcript.
LEMMA PartIsTranscript ==
    ASSUME NEW t, IsTranscript(t), NEW S \in SUBSET t
    PROVE  IsTranscript(S)
<1>1. IsFiniteSet(S)
  BY FS_Subset DEF IsTranscript
<1>2. QED
  BY <1>1 DEF IsTranscript

\* Some message of a transcript that is not empty is the end of its longest line.
LEMMA BoundaryIsIn ==
    ASSUME NEW S, IsTranscript(S), S # {}
    PROVE  Boundary(S) \in S
<1> DEFINE depth == [n \in S |-> Cardinality(Line(S, n))]
<1> DEFINE Deeper(n, m) ==
        \/ depth[n] > depth[m]
        \/ depth[n] = depth[m] /\ n.time > m.time
        \/ depth[n] = depth[m] /\ n.time = m.time /\ n.uuid > m.uuid
<1> DEFINE R == {nm \in S \X S : Deeper(nm[1], nm[2])}
<1>1. IsFiniteSet(S)
  BY DEF IsTranscript
<1>2. \A n \in S : depth[n] \in Nat /\ n.time \in Nat /\ n.uuid \in Nat
  <2> SUFFICES ASSUME NEW n \in S PROVE depth[n] \in Nat /\ n.time \in Nat /\ n.uuid \in Nat
    OBVIOUS
  <2>1. Line(S, n) \subseteq S
    BY <1>1, LineWithin
  <2>2. IsFiniteSet(Line(S, n))
    BY <1>1, <2>1, FS_Subset
  <2>3. Cardinality(Line(S, n)) \in Nat
    BY <2>2, FS_CardinalityType
  <2>4. n \in Message
    BY DEF IsTranscript
  <2>5. QED
    BY <2>3, <2>4 DEF Message
<1>3. \A n, m \in S : n # m => n.uuid # m.uuid
  BY DEF IsTranscript
<1> HIDE DEF depth
<1>4. \A n, m \in S : n # m => Deeper(n, m) \/ Deeper(m, n)
  BY <1>2, <1>3
<1>5. \A n, m, l \in S : Deeper(n, m) /\ Deeper(m, l) => Deeper(n, l)
  BY <1>2
<1>6. \A n, m : <<n, m>> \in R <=> n \in S /\ m \in S /\ Deeper(n, m)
  OBVIOUS
<1> HIDE DEF R, Deeper
<1>7. \E n \in S : \A m \in S \ {n} : <<n, m>> \in R
  BY <1>1, <1>4, <1>5, <1>6, GreatestOf
<1>8. \E n \in S : \A m \in S \ {n} : Deeper(n, m)
  BY <1>6, <1>7
<1>9. Boundary(S) = CHOOSE n \in S : \A m \in S \ {n} : Deeper(n, m)
  BY DEF Boundary, Deeper, depth
<1>10. QED
  BY <1>8, <1>9

\* The numbers of a comparison are numbers, and two transcripts that are related
\* hold copies of one substantive message.
LEMMA SharedIs ==
    ASSUME NEW t, NEW o, IsTranscript(t)
    PROVE  /\ SharedChain(t, o) \in Comparison
           /\ Related(SharedChain(t, o)) =>
                 \E n \in t, m \in o : Substantive(n) /\ n.uuid = m.uuid
<1> DEFINE S == Compatible(t, o)
<1> DEFINE chain == Line(S, Boundary(S))
<1> DEFINE said == {n \in chain : Substantive(n)}
<1>1. CASE S = {}
  BY <1>1 DEF SharedChain, Nothing, Related, Comparison
<1>2. CASE S # {}
  <2>1. S \in SUBSET t /\ \A n \in S : \E m \in o : m.uuid = n.uuid
    BY DEF Compatible
  <2>2. IsTranscript(S)
    BY <2>1, PartIsTranscript
  <2>3. chain \subseteq S /\ IsFiniteSet(S)
    BY <1>2, <2>2, BoundaryIsIn, LineWithin DEF IsTranscript
  <2>4. IsFiniteSet(chain) /\ IsFiniteSet(said)
    BY <2>3, FS_Subset
  <2>5. Cardinality(chain) \in Nat /\ Cardinality(said) \in Nat
    BY <2>4, FS_CardinalityType
  <2>6. SharedChain(t, o) = [shared |-> Cardinality(chain), substantive |-> Cardinality(said),
                             boundary |-> Boundary(S).uuid]
    BY <1>2 DEF SharedChain
  <2>7. Boundary(S).uuid \in Nat
    BY <1>2, <2>2, BoundaryIsIn DEF IsTranscript, Message
  <2>8. Cardinality(said) >= 1 => said # {}
    BY FS_EmptySet
  <2> HIDE DEF chain, S
  <2>9. said # {} => \E n \in t, m \in o : Substantive(n) /\ n.uuid = m.uuid
    BY <2>1, <2>3
  <2> HIDE DEF said
  <2>10. QED
    BY <2>5, <2>6, <2>7, <2>8, <2>9 DEF Related, Comparison
<1>3. QED
  BY <1>1, <1>2

\* From which side two transcripts are compared matters only where copies of a
\* message carry different times.
LEMMA SharedFromBothSides ==
    ASSUME NEW t, NEW o, IsTranscript(t), IsTranscript(o),
           \A n \in t, m \in o : n.uuid = m.uuid => n.time = m.time
    PROVE  SharedChain(t, o) = SharedChain(o, t)
<1>1. \A n \in t, m \in o : n.uuid = m.uuid /\ n.kind = m.kind /\ n.parent = m.parent => n = m
  <2> SUFFICES ASSUME NEW n \in t, NEW m \in o, n.uuid = m.uuid, n.kind = m.kind,
                      n.parent = m.parent
               PROVE  n = m
    OBVIOUS
  <2>1. n.time = m.time
    OBVIOUS
  <2>2. n \in Message /\ m \in Message
    BY DEF IsTranscript
  <2>3. QED
    BY <2>1, <2>2 DEF Message
<1>2. Compatible(t, o) = Compatible(o, t)
  BY <1>1 DEF Compatible
<1>3. QED
  BY <1>2 DEF SharedChain

-----------------------------------------------------------------------------
(* What every step leaves as it is.                                         *)

\* The files as they are, or after one more write: what no step but the listing
\* goes beyond.
Moves == UNCHANGED files \/ \E s \in Session : Appends(s)

\* Transcripts grow, and what changes counts as moved.
LEMMA FilesGoOn ==
    ASSUME TypeOK, Moves
    PROVE  /\ world' = world
           /\ version' \in [Session -> Nat]
           /\ moved \subseteq moved'
           /\ \A s \in Session : /\ version[s] <= version'[s]
                                 /\ version'[s] <= Len(world.versions[s])
                                 /\ s \notin moved' => version'[s] = version[s]
<1> USE DEF TypeOK
<1>1. CASE UNCHANGED files
  BY <1>1 DEF files
<1>2. ASSUME NEW s \in Session, Appends(s)
      PROVE  /\ world' = world
             /\ version' \in [Session -> Nat]
             /\ moved \subseteq moved'
             /\ \A r \in Session : /\ version[r] <= version'[r]
                                   /\ version'[r] <= Len(world.versions[r])
                                   /\ r \notin moved' => version'[r] = version[r]
  <2>1. /\ version' = [version EXCEPT ![s] = @ + 1] /\ moved' = moved \cup {s}
        /\ world' = world /\ version[s] < Len(world.versions[s])
    BY <1>2 DEF Appends
  <2>2. world.versions[s] \in Seq(SUBSET Message) /\ Len(world.versions[s]) \in Nat
    BY InferenceAssumption
  <2>3. version[s] \in Nat /\ version[s] + 1 <= Len(world.versions[s])
    BY <2>1, <2>2
  <2>4. \A r \in Session \ {s} : version'[r] = version[r]
    BY <2>1
  <2>5. version'[s] = version[s] + 1
    BY <2>1
  <2>6. version' \in [Session -> Nat]
    BY <2>1, <2>3
  <2>7. \A r \in Session : version[r] \in Nat
    OBVIOUS
  <2>8. \A r \in Session : /\ version[r] <= version'[r]
                           /\ version'[r] <= Len(world.versions[r])
                           /\ r \notin moved' => version'[r] = version[r]
    <3> SUFFICES ASSUME NEW r \in Session
                 PROVE  /\ version[r] <= version'[r]
                        /\ version'[r] <= Len(world.versions[r])
                        /\ r \notin moved' => version'[r] = version[r]
      OBVIOUS
    <3>1. CASE r = s
      BY <2>1, <2>3, <2>5, <3>1
    <3>2. CASE r # s
      BY <2>4, <2>7, <3>2
    <3>3. QED
      BY <3>1, <3>2
  <2>9. QED
    BY <2>1, <2>6, <2>8
<1>3. QED
  BY <1>1, <1>2 DEF Moves

\* Every written version of a transcript is one, and so is what was parsed.
LEMMA VersionsAre ==
    ASSUME TypeOK, NEW s \in Session, NEW v \in 0..version[s]
    PROVE  IsTranscript(At(s, v))
<1>1. CASE v = 0
  <2>1. At(s, v) = {}
    BY <1>1 DEF At
  <2>2. IsFiniteSet({})
    BY FS_EmptySet
  <2>3. QED
    BY <2>1, <2>2 DEF IsTranscript
<1>2. CASE v # 0
  <2>1. /\ world \in Worlds /\ version[s] \in Nat /\ version[s] <= Len(world.versions[s])
        /\ world.versions[s] \in Seq(SUBSET Message)
    BY InferenceAssumption DEF TypeOK
  <2>2. v \in 1..Len(world.versions[s])
    BY <1>2, <2>1
  <2>3. v \in DOMAIN world.versions[s]
    BY <2>1, <2>2
  <2>4. At(s, v) = world.versions[s][v]
    BY <1>2 DEF At
  <2>5. QED
    BY <2>1, <2>3, <2>4, InferenceAssumption
<1>3. QED
  BY <1>1, <1>2

\* The first of a sequence is one of it, and the others are in its tail.
LEMMA FirstAndOthers ==
    ASSUME NEW S, NEW q \in Seq(S), q # <<>>
    PROVE  /\ Head(q) \in S /\ Tail(q) \in Seq(S)
           /\ Len(q) # 1 => Tail(q) # <<>>
           /\ \A i \in DOMAIN q :
                 q[i] = Head(q) \/ \E j \in DOMAIN Tail(q) : Tail(q)[j] = q[i]
<1>1. /\ Head(q) \in S /\ Tail(q) \in Seq(S) /\ Len(q) \in Nat \ {0}
      /\ Len(Tail(q)) = Len(q) - 1 /\ q[1] = Head(q)
      /\ \A j \in 1..Len(Tail(q)) : Tail(q)[j] = q[j + 1]
  <2>1. /\ Head(q) \in S /\ Tail(q) \in Seq(S) /\ Len(Tail(q)) = Len(q) - 1
        /\ \A j \in 1..Len(Tail(q)) : Tail(q)[j] = q[j + 1]
    BY HeadTailProperties
  <2>2. Len(q) \in Nat \ {0}
    BY EmptySeq, LenProperties
  <2>3. q[1] = Head(q)
    OBVIOUS
  <2>4. QED
    BY <2>1, <2>2, <2>3
<1>2. DOMAIN q = 1..Len(q) /\ DOMAIN Tail(q) = 1..Len(Tail(q))
  BY <1>1, LenProperties
<1>3. Len(q) # 1 => Tail(q) # <<>>
  <2>1. Len(<<>>) = 0
    OBVIOUS
  <2>2. Len(q) # 1 => Len(Tail(q)) # 0
    BY <1>1
  <2>3. QED
    BY <2>1, <2>2
<1>4. ASSUME NEW i \in DOMAIN q, i # 1
      PROVE  \E j \in DOMAIN Tail(q) : Tail(q)[j] = q[i]
  <2>1. i - 1 \in DOMAIN Tail(q) /\ (i - 1) + 1 = i
    BY <1>1, <1>2, <1>4
  <2>2. Tail(q)[i - 1] = q[i]
    BY <1>1, <1>2, <2>1
  <2>3. QED
    BY <2>1, <2>2
<1>5. QED
  BY <1>1, <1>3, <1>4

\* The transcript come to is one of those listed, and not the session's own.
LEMMA NextIsListed ==
    ASSUME InferenceInv, pc \in {"screen", "scan", "parse"}, left # <<>>
    PROVE  /\ Head(left) \in listing \ {Head(todo)} /\ Head(left) \in Session
           /\ Tail(left) \in Seq(listing \ {Head(todo)})
           /\ \A s : Pending(s) => s = Head(left) \/ \E j \in DOMAIN Tail(left) : Tail(left)[j] = s
<1>1. left \in Seq(listing \ {Head(todo)}) /\ listing \subseteq Session
  BY DEF InferenceInv, OthersInv, Analysing, TypeOK
<1> DEFINE S == listing \ {Head(todo)}
<1>2. left \in Seq(S) /\ S \subseteq Session
  BY <1>1
<1> HIDE DEF S
<1>3. /\ Head(left) \in S /\ Tail(left) \in Seq(S)
      /\ \A i \in DOMAIN left :
            left[i] = Head(left) \/ \E j \in DOMAIN Tail(left) : Tail(left)[j] = left[i]
  BY <1>2, FirstAndOthers
<1>4. \A s : Pending(s) => s = Head(left) \/ \E j \in DOMAIN Tail(left) : Tail(left)[j] = s
  BY <1>3 DEF Pending
<1>5. QED
  BY <1>2, <1>3, <1>4 DEF S

\* A step moves the files by one write at the most.
LEMMA StepMoves ==
    ASSUME InferenceInv, [Next]_vars
    PROVE  Moves \/ Discover
<1>1. CASE UNCHANGED vars
  BY <1>1 DEF Moves, vars
<1>2. CASE ReadHistory
  BY <1>2 DEF Moves, ReadHistory
<1>3. CASE ParseTarget
  <2>1. listing \subseteq Session
    BY DEF InferenceInv, TypeOK
  <2>2. QED
    BY <1>3, <2>1 DEF Moves, ParseTarget, Unavailable
<1>4. CASE ScreenNext \/ Scan \/ TimeOut \/ Conclude \/ Revalidate \/ Add
  BY <1>4 DEF Moves, ScreenNext, Scan, TimeOut, Conclude, Revalidate, Add
<1>5. CASE Examine
  <2>1. pc = "parse" /\ left # <<>>
    BY <1>5 DEF Examine, InferenceInv, OthersInv
  <2>2. Head(left) \in Session
    BY <2>1, NextIsListed
  <2>3. QED
    BY <1>5, <2>2 DEF Moves, Examine, Unavailable
<1>6. CASE \E s \in Session : Write(s) \/ Share(s)
  BY <1>6 DEF Moves, Write, Share
<1>7. QED
  BY <1>1, <1>2, <1>3, <1>4, <1>5, <1>6 DEF Next

\* What is parsed stays parsed, and the files are never taken back.
LEMMA StepGoesOn ==
    ASSUME InferenceInv, [Next]_vars
    PROVE  /\ world' = world
           /\ version' \in [Session -> Nat]
           /\ \A s \in Session : version[s] <= version'[s] /\ version'[s] <= Len(world.versions[s])
           /\ \A s \in Session : parsed[s] # None => parsed'[s] = parsed[s]
<1>1. TypeOK
  BY DEF InferenceInv
<1>2. /\ world' = world
      /\ version' \in [Session -> Nat]
      /\ \A s \in Session : version[s] <= version'[s] /\ version'[s] <= Len(world.versions[s])
  <2>1. CASE Moves
    BY <1>1, <2>1, FilesGoOn
  <2>2. CASE Discover
    <3>1. world' = world /\ version' = version
      BY <2>2 DEF Discover
    <3>2. QED
      BY <1>1, <3>1 DEF TypeOK
  <2>3. QED
    BY <2>1, <2>2, StepMoves
<1>3. parsed' = parsed \/ \E s : Parses(s)
  <2>1. CASE UNCHANGED vars
    BY <2>1 DEF vars, memo
  <2>2. CASE Discover \/ ReadHistory \/ ScreenNext \/ Scan \/ TimeOut \/ Conclude
    BY <2>2 DEF Discover, ReadHistory, ScreenNext, Scan, TimeOut, Conclude, memo
  <2>3. CASE Revalidate \/ Add \/ \E s \in Session : Write(s) \/ Share(s)
    BY <2>3 DEF Revalidate, Add, Write, Share, memo
  <2>4. CASE ParseTarget
    BY <2>4 DEF ParseTarget
  <2>5. CASE Examine
    BY <2>5 DEF Examine
  <2>6. QED
    BY <2>1, <2>2, <2>3, <2>4, <2>5 DEF Next
<1>4. \A s \in Session : parsed[s] # None => parsed'[s] = parsed[s]
  BY <1>1, <1>3 DEF TypeOK, Parses
<1>5. QED
  BY <1>2, <1>4

-----------------------------------------------------------------------------
(* The invariant holds at first.                                            *)

\* Before the corpus is listed nothing is parsed, compared or recorded.
LEMMA InferenceStarts ==
    ASSUME Init
    PROVE  InferenceInv
<1>1. TypeOK
  <2>1. \A s \in Session : version[s] \in Nat /\ version[s] <= Len(world.versions[s])
    <3> SUFFICES ASSUME NEW s \in Session
                 PROVE  version[s] \in Nat /\ version[s] <= Len(world.versions[s])
      OBVIOUS
    <3>1. world.versions[s] \in Seq(SUBSET Message) /\ world.versions[s] # <<>>
      BY InferenceAssumption DEF Init
    <3>2. Len(world.versions[s]) \in Nat \ {0}
      BY <3>1, EmptySeq, LenProperties
    <3>3. version[s] \in {0, 1}
      BY DEF Init
    <3>4. QED
      BY <3>2, <3>3
  <2>2. version \in [Session -> Nat]
    BY DEF Init
  <2>3. parsed \in [Session -> Nat \cup {None}] /\ known \in [Session -> Nat \cup {None}]
    BY DEF Init
  <2>4. todo \in Seq(Session) /\ todo # <<>>
    BY InferenceAssumption DEF Init
  <2>5. DOMAIN shard = Session /\ DOMAIN screens = Session /\ DOMAIN records = Session
    BY DEF Init
  <2>6. DOMAIN pairs = {{s, t} : s, t \in Session}
    BY DEF Init
  <2>7. world \in Worlds /\ pc = "discover" /\ listing = {} /\ incomplete = FALSE
    BY DEF Init
  <2>8. \A s \in Session : version[s] <= Len(world.versions[s])
    BY <2>1
  <2>9. /\ world \in Worlds /\ listing \subseteq Session /\ incomplete \in BOOLEAN
        /\ pc \in {"discover", "history", "target", "screen", "scan", "parse", "stable", "add",
                   "done"}
    BY <2>7
  <2>10. QED
    BY <2>2, <2>3, <2>4, <2>5, <2>6, <2>8, <2>9 DEF TypeOK
<1>2. CachedScreensAreExact
  <2>1. \A s \in Session : shard[s] # None => shard[s] = Screen(s, 1)
    BY DEF Init
  <2>2. \A s \in Session : Screen(s, 1).of = 1
    BY DEF Screen
  <2>3. QED
    BY <2>1, <2>2 DEF CachedScreensAreExact
<1>3. MemoInv
  BY DEF Init, MemoInv
<1>4. PairsInv
  <2>1. \A x, y \in Session : {x, y} \in {{s, t} : s, t \in Session}
    OBVIOUS
  <2>2. QED
    BY <2>1 DEF Init, PairsInv
<1>5. OthersInv
  BY FS_EmptySet DEF Init, OthersInv, Analysing
<1>6. RecordsInv
  BY DEF Init, RecordsInv, Fresh
<1>7. QED
  BY <1>1, <1>2, <1>3, <1>4, <1>5, <1>6 DEF InferenceInv

-----------------------------------------------------------------------------
(* Every step keeps it.                                                     *)

\* The corpus, the analysis and the sessions to come keep their types.
LEMMA TypeStep ==
    ASSUME InferenceInv, [Next]_vars
    PROVE  TypeOK'
<1> DEFINE Going == pc' # "done" => todo' \in Seq(Session) /\ todo' # <<>>
<1> DEFINE Corpus == /\ listing' \subseteq Session /\ known' \in [Session -> Nat \cup {None}]
                     /\ incomplete' \in BOOLEAN
<1> DEFINE Memo == /\ DOMAIN shard' = Session /\ DOMAIN screens' = Session
                   /\ DOMAIN records' = Session
                   /\ parsed' \in [Session -> Nat \cup {None}]
                   /\ DOMAIN pairs' = DOMAIN pairs
<1> DEFINE Typed == pc' \in {"discover", "history", "target", "screen", "scan", "parse",
                             "stable", "add", "done"}
<1>1. TypeOK
  BY DEF InferenceInv
<1>2. GoOn /\ pc # "done" => Going /\ Typed
  <2>1. pc # "done" => todo \in Seq(Session) /\ todo # <<>>
    BY <1>1 DEF TypeOK
  <2>2. ASSUME pc # "done", GoOn
        PROVE  Going /\ Typed
    <3>1. Tail(todo) \in Seq(Session) /\ (Len(todo) # 1 => Tail(todo) # <<>>)
      BY <2>1, <2>2, FirstAndOthers
    <3>2. QED
      BY <2>2, <3>1 DEF GoOn
  <2>3. QED
    BY <2>2
<1>3. todo' = todo /\ (pc' = "done" <=> pc = "done") => Going
  BY <1>1 DEF TypeOK
<1>4. UNCHANGED corpus => Corpus
  BY <1>1 DEF corpus, TypeOK
<1>5. UNCHANGED <<shard, memo, records>> => Memo
  BY <1>1 DEF memo, TypeOK
<1>6. \A s \in Session : version[s] \in Nat
  BY <1>1 DEF TypeOK
<1>7. \A s : Parses(s) => parsed' \in [Session -> Nat \cup {None}]
  BY <1>1, <1>6 DEF Parses, TypeOK
<1> HIDE DEF Going
<1>8. CASE UNCHANGED vars
  <2>1. pc' = pc /\ todo' = todo /\ UNCHANGED corpus /\ UNCHANGED <<shard, memo, records>>
    BY <1>8 DEF vars
  <2>2. Going /\ Corpus /\ Memo
    BY <2>1, <1>3, <1>4, <1>5
  <2>3. QED
    BY <1>1, <2>1, <2>2, StepGoesOn DEF Going, TypeOK
<1>9. CASE Discover
  <2>1. Going
    BY <1>3, <1>9 DEF Discover
  <2>2. Corpus /\ Typed
    BY <1>1, <1>9 DEF Discover, TypeOK
  <2>3. Memo
    BY <1>1, <1>9 DEF Discover, Sweeps, memo, TypeOK
  <2>4. QED
    BY <1>1, <2>1, <2>2, <2>3, StepGoesOn DEF Going, TypeOK
<1>10. CASE ReadHistory
  <2>1. Going
    BY <1>3, <1>10 DEF ReadHistory
  <2>2. world.history \in [Session -> Nat \cup {None}]
    BY <1>1, InferenceAssumption DEF TypeOK
  <2>3. known' \in [Session -> Nat \cup {None}]
    BY <1>1, <1>10, <2>2 DEF ReadHistory, TypeOK
  <2>4. Corpus /\ Typed
    BY <1>1, <1>10, <2>3 DEF ReadHistory, TypeOK
  <2>5. Memo
    BY <1>5, <1>10 DEF ReadHistory
  <2>6. QED
    BY <1>1, <2>1, <2>4, <2>5, StepGoesOn DEF Going, TypeOK
<1>11. CASE ParseTarget
  <2>1. Going
    BY <1>2, <1>3, <1>11 DEF ParseTarget
  <2>2. Typed
    BY <1>11 DEF ParseTarget, GoOn
  <2>3. Corpus
    BY <1>4, <1>11 DEF ParseTarget
  <2>4. Memo
    BY <1>1, <1>7, <1>11 DEF ParseTarget, TypeOK
  <2>5. QED
    BY <1>1, <2>1, <2>2, <2>3, <2>4, StepGoesOn DEF Going, TypeOK
<1>12. CASE ScreenNext
  <2>1. Going
    BY <1>3, <1>12 DEF ScreenNext, Looks, Skip
  <2>2. Typed
    BY <1>12 DEF ScreenNext, Looks, Skip
  <2>3. Corpus
    BY <1>4, <1>12 DEF ScreenNext
  <2>4. Memo
    BY <1>1, <1>12 DEF ScreenNext, Looks, TypeOK
  <2>5. QED
    BY <1>1, <2>1, <2>2, <2>3, <2>4, StepGoesOn DEF Going, TypeOK
<1>13. CASE Scan
  <2>1. Going
    BY <1>3, <1>13 DEF Scan, Looks, Skip
  <2>2. Typed
    BY <1>13 DEF Scan, Looks, Skip
  <2>3. Corpus
    BY <1>1, <1>13 DEF Scan, TypeOK
  <2>4. Memo
    BY <1>1, <1>13 DEF Scan, Looks, TypeOK
  <2>5. QED
    BY <1>1, <2>1, <2>2, <2>3, <2>4, StepGoesOn DEF Going, TypeOK
<1>14. CASE Examine
  <2>1. Going
    BY <1>2, <1>3, <1>14 DEF Examine, Skip
  <2>2. Typed
    BY <1>14 DEF Examine, GoOn, Skip
  <2>3. Corpus
    BY <1>1, <1>14 DEF Examine, TypeOK
  <2>4. Memo
    <3>1. parsed' \in [Session -> Nat \cup {None}]
      BY <1>1, <1>7, <1>14 DEF Examine, TypeOK
    <3>2. UNCHANGED <<shard, screens, records>> /\ DOMAIN pairs' = DOMAIN pairs
      BY <1>14 DEF Examine
    <3>3. QED
      BY <1>1, <3>1, <3>2 DEF TypeOK
  <2>5. QED
    BY <1>1, <2>1, <2>2, <2>3, <2>4, StepGoesOn DEF Going, TypeOK
<1>15. CASE TimeOut \/ Conclude \/ Revalidate \/ Add
  <2>1. Going
    BY <1>2, <1>3, <1>15 DEF TimeOut, Conclude, Revalidate, Add
  <2>2. Typed
    BY <1>15 DEF TimeOut, Conclude, Revalidate, Add, GoOn
  <2>3. Corpus
    BY <1>4, <1>15 DEF TimeOut, Conclude, Revalidate, Add
  <2>4. Memo
    BY <1>1, <1>15 DEF TimeOut, Conclude, Revalidate, Add, memo, TypeOK
  <2>5. QED
    BY <1>1, <2>1, <2>2, <2>3, <2>4, StepGoesOn DEF Going, TypeOK
<1>16. CASE \E s \in Session : Write(s) \/ Share(s)
  <2>1. pc' = pc /\ todo' = todo /\ UNCHANGED <<corpus, memo, records>>
    BY <1>16 DEF Write, Share
  <2>2. DOMAIN shard' = Session
    BY <1>1, <1>16 DEF Write, Share, TypeOK
  <2>3. Going /\ Corpus
    BY <2>1, <1>3, <1>4
  <2>4. Memo
    BY <1>1, <2>1, <2>2 DEF memo, TypeOK
  <2>5. QED
    BY <1>1, <2>1, <2>3, <2>4, StepGoesOn DEF Going, TypeOK
<1>17. QED
  BY <1>8, <1>9, <1>10, <1>11, <1>12, <1>13, <1>14, <1>15, <1>16 DEF Next

\* A screen comes into the cache as it was made, and what was swept away is gone.
LEMMA ShardStep ==
    ASSUME InferenceInv, [Next]_vars
    PROVE  CachedScreensAreExact'
<1>1. CachedScreensAreExact /\ DOMAIN shard = Session
  BY DEF InferenceInv, TypeOK
<1>2. world' = world
  BY StepGoesOn
<1>3. SUFFICES ASSUME NEW s \in Session, shard'[s] # None
               PROVE  shard'[s] = Screen(s, shard'[s].of)
  BY <1>2 DEF CachedScreensAreExact, Screen, At
<1>4. shard'[s] = shard[s] => shard'[s] = Screen(s, shard'[s].of)
  BY <1>1, <1>3 DEF CachedScreensAreExact
<1>5. \A v : shard'[s] = Screen(s, v) => shard'[s] = Screen(s, shard'[s].of)
  BY DEF Screen
<1>6. CASE UNCHANGED shard
  BY <1>4, <1>6
<1>7. CASE Discover
  BY <1>3, <1>4, <1>7 DEF Discover, Sweeps
<1>8. CASE Scan
  <2> DEFINE r == Head(left)
  <2> DEFINE fresh == [Screen(r, version[r]) EXCEPT !.of = scanned]
  <2>1. shard' = shard \/ (Same(r) /\ shard' = [shard EXCEPT ![r] = fresh])
    BY <1>8 DEF Scan
  <2>2. Same(r) => fresh = Screen(r, version[r])
    BY DEF Same, Screen
  <2> HIDE DEF fresh
  <2>3. QED
    BY <1>1, <1>4, <1>5, <2>1, <2>2
<1>9. ASSUME NEW r \in Session, Share(r)
      PROVE  shard'[s] = Screen(s, shard'[s].of)
  <2>1. \/ \E v \in 1..version[r] : shard' = [shard EXCEPT ![r] = Screen(r, v)]
        \/ shard' = [shard EXCEPT ![r] = None]
    BY <1>9 DEF Share
  <2>2. s # r => shard'[s] = shard[s]
    BY <1>1, <2>1
  <2>3. s = r => \E v : shard'[s] = Screen(s, v)
    BY <1>1, <1>3, <2>1
  <2>4. QED
    BY <1>4, <1>5, <2>2, <2>3
<1>10. Discover \/ Scan \/ (\E r \in Session : Share(r)) \/ UNCHANGED shard
  BY DEF Next, vars, ReadHistory, ParseTarget, ScreenNext, Examine, TimeOut, Conclude,
         Revalidate, Add, Write
<1>11. QED
  BY <1>6, <1>7, <1>8, <1>9, <1>10

\* What is newly screened or parsed is as the file is then; of what was before, only
\* a write makes it old, and that is noted.
LEMMA MemoStep ==
    ASSUME InferenceInv, [Next]_vars
    PROVE  MemoInv'
<1> DEFINE Screened(s) == /\ screens'[s] = Screen(s, screens'[s].of)
                          /\ s \notin moved' => screens'[s].of = version'[s]
<1> DEFINE Known(s) ==
        /\ screens'[s] # None => Screened(s)
        /\ parsed'[s] # None => /\ parsed'[s] <= version'[s]
                                /\ s \notin moved' => parsed'[s] = version'[s]
<1>1. TypeOK /\ MemoInv /\ CachedScreensAreExact
  BY DEF InferenceInv
<1>2. /\ world' = world /\ version \in [Session -> Nat] /\ version' \in [Session -> Nat]
      /\ \A s \in Session : version[s] <= version'[s]
  BY <1>1, StepGoesOn DEF TypeOK
<1>3. CASE Discover
  <2>1. \A s \in Session : screens'[s] = None /\ parsed'[s] = None
    BY <1>1, <1>3 DEF Discover, MemoInv, memo
  <2>2. QED
    BY <2>1 DEF MemoInv
<1>4. CASE Moves
  <2>1. /\ moved \subseteq moved'
        /\ \A s \in Session : s \notin moved' => version'[s] = version[s]
    BY <1>1, <1>4, FilesGoOn
  <2>2. ASSUME NEW s \in Session, screens'[s] = screens[s], screens'[s] # None
        PROVE  Screened(s)
    BY <1>1, <2>1, <2>2 DEF MemoInv
  <2>3. ASSUME NEW s \in Session, parsed'[s] = parsed[s], parsed'[s] # None
        PROVE  /\ parsed'[s] <= version'[s]
               /\ s \notin moved' => parsed'[s] = version'[s]
    <3>1. parsed[s] \in Nat /\ parsed[s] <= version[s] /\ (s \notin moved => parsed[s] = version[s])
      BY <1>1, <2>3 DEF MemoInv, TypeOK
    <3>2. version[s] <= version'[s] /\ version[s] \in Nat /\ version'[s] \in Nat
      BY <1>2
    <3>3. QED
      BY <2>1, <2>3, <3>1, <3>2
  <2>4. ASSUME NEW s \in Session, version'[s] = version[s], screens'[s] = Screen(s, version[s])
        PROVE  Screened(s)
    <3>1. Screen(s, version[s]).of = version[s]
      BY DEF Screen
    <3>2. QED
      BY <2>4, <3>1
  <2>5. ASSUME NEW s \in Session, version'[s] = version[s], parsed'[s] = version[s]
        PROVE  /\ parsed'[s] <= version'[s]
               /\ s \notin moved' => parsed'[s] = version'[s]
    BY <1>2, <2>5
  <2>6. \A s \in Session : \/ screens'[s] = screens[s]
                           \/ version'[s] = version[s] /\ screens'[s] = Screen(s, version[s])
    <3>1. CASE UNCHANGED screens
      BY <3>1
    <3>2. CASE ScreenNext
      <4> DEFINE r == Head(left)
      <4>1. pc = "screen" /\ left # <<>> /\ version' = version
        BY <3>2 DEF ScreenNext, files
      <4>2. r \in Session
        BY <4>1, NextIsListed
      <4>3. \/ screens[r] # None /\ Looks(screens[r], r)
            \/ Valid(r) /\ Looks(shard[r], r)
            \/ UNCHANGED screens
        BY <3>2 DEF ScreenNext
      <4>4. \A s \in Session : \/ screens'[s] = screens[s]
                               \/ Valid(r) /\ s = r /\ screens'[s] = shard[r]
        BY <1>1, <4>2, <4>3 DEF Looks, TypeOK
      <4>5. Valid(r) => shard[r] = Screen(r, version[r])
        BY <1>1, <4>2 DEF Valid, CachedScreensAreExact
      <4>6. QED
        BY <1>1, <4>1, <4>4, <4>5 DEF TypeOK
    <3>3. CASE Scan
      <4> DEFINE r == Head(left)
      <4> DEFINE fresh == [Screen(r, version[r]) EXCEPT !.of = scanned]
      <4>1. UNCHANGED screens \/ (Same(r) /\ screens' = [screens EXCEPT ![r] = fresh])
        BY <3>3 DEF Scan, Looks
      <4>2. Same(r) => fresh = Screen(r, version[r])
        BY DEF Same, Screen
      <4>3. version' = version
        BY <3>3 DEF Scan, files
      <4> HIDE DEF fresh
      <4>4. QED
        BY <1>1, <4>1, <4>2, <4>3 DEF TypeOK
    <3>4. ScreenNext \/ Scan \/ Discover \/ UNCHANGED screens
      BY DEF Next, vars, memo, ReadHistory, ParseTarget, Examine, TimeOut, Conclude,
             Revalidate, Add, Write, Share
    <3>5. Discover => UNCHANGED screens
      BY DEF Discover, memo
    <3>6. QED
      BY <3>1, <3>2, <3>3, <3>4, <3>5
  <2>7. \A s \in Session : \/ parsed'[s] = parsed[s]
                           \/ version'[s] = version[s] /\ parsed'[s] = version[s]
    <3>1. CASE UNCHANGED parsed
      BY <3>1
    <3>2. ASSUME UNCHANGED files, NEW r, Parses(r)
          PROVE  \A s \in Session : \/ parsed'[s] = parsed[s]
                                    \/ version'[s] = version[s] /\ parsed'[s] = version[s]
      BY <1>1, <3>2 DEF Parses, files, TypeOK
    <3>3. CASE ParseTarget
      BY <3>1, <3>2, <3>3 DEF ParseTarget
    <3>4. CASE Examine
      BY <3>1, <3>2, <3>4 DEF Examine
    <3>5. ParseTarget \/ Examine \/ UNCHANGED parsed
      BY DEF Next, vars, memo, Discover, ReadHistory, ScreenNext, Scan, TimeOut, Conclude,
             Revalidate, Add, Write, Share
    <3>6. QED
      BY <3>1, <3>3, <3>4, <3>5
  <2>8. \A s \in Session : Known(s)
    BY <2>2, <2>3, <2>4, <2>5, <2>6, <2>7
  <2>9. pc' = "discover" => \A s \in Session : screens'[s] = None /\ parsed'[s] = None
    <3>1. pc' = "discover" => pc = "discover" /\ UNCHANGED <<screens, parsed>>
      BY DEF Next, vars, memo, Discover, ReadHistory, ParseTarget, ScreenNext, Scan, Examine,
             Looks, Skip, GoOn, TimeOut, Conclude, Revalidate, Add, Write, Share
    <3>2. QED
      BY <1>1, <3>1 DEF MemoInv
  <2>10. ASSUME NEW s \in Session, screens'[s] # None
         PROVE  (screens[s] = Screen(s, screens[s].of))'
    BY <1>2, <2>8, <2>10 DEF Screen, At
  <2>11. QED
    BY <2>8, <2>9, <2>10 DEF MemoInv
<1>5. QED
  BY <1>3, <1>4, StepMoves

\* What was compared stays what the parsed transcripts say, as these stay.
LEMMA PairStays ==
    ASSUME InferenceInv, [Next]_vars, NEW x \in Session, NEW y \in Session,
           PairIs(x, y), pairs'[{x, y}] = pairs[{x, y}]
    PROVE  PairIs(x, y)'
<1>1. world' = world /\ parsed'[x] = parsed[x] /\ parsed'[y] = parsed[y]
  BY StepGoesOn DEF PairIs
<1>2. Comparisons(x, y)' = Comparisons(x, y)
  BY <1>1 DEF Comparisons, Read, SharedChain, Compatible, At
<1>3. QED
  BY <1>1, <1>2 DEF PairIs

\* An examination compares the session's transcript with the one come to, unless
\* they were compared before.
Compares(p) ==
    /\ UNCHANGED <<files, incomplete, todo, listing, known>>
    /\ pairs' = [pairs EXCEPT ![Key(Head(left))] = p]
    /\ candidates' = IF Related(p) THEN candidates \cup {Candidate(Head(left), p)}
                     ELSE candidates
    /\ Skip

\* It ends the analysis, makes the corpus incomplete or compares.
LEMMA ExamineIs ==
    ASSUME InferenceInv, Examine, NEW t, t = Head(todo), NEW s, s = Head(left)
    PROVE  \/ GoOn /\ UNCHANGED pairs
           \/ Skip /\ incomplete' /\ UNCHANGED <<todo, listing, known, parsed, pairs, candidates>>
           \/ \E p : /\ Compares(p) /\ pairs'[Key(s)] = p /\ PairIs(t, s)'
                     /\ pairs[Key(s)] # None => p = pairs[Key(s)]
<1> DEFINE v == IF parsed[s] = None THEN version[s] ELSE parsed[s]
<1> DEFINE p == IF pairs[Key(s)] = None THEN Compared(s, v) ELSE pairs[Key(s)]
<1>1. TypeOK /\ PairsInv
  BY DEF InferenceInv
<1>2. pc = "parse" /\ left # <<>>
  BY DEF Examine, InferenceInv, OthersInv
<1>3. s \in Session /\ s # t
  BY <1>2, NextIsListed
<1>4. t \in listing /\ t \in Session /\ parsed[t] # None
  BY <1>1, <1>2 DEF InferenceInv, OthersInv, Analysing, TypeOK
<1>5. Key(s) \in DOMAIN pairs
  <2>1. Key(s) = {t, s}
    BY DEF Key
  <2>2. {t, s} \in {{x, y} : x, y \in Session}
    BY <1>3, <1>4
  <2>3. DOMAIN pairs = {{x, y} : x, y \in Session}
    BY <1>1 DEF TypeOK
  <2>4. QED
    BY <2>1, <2>2, <2>3
<1>6. ASSUME Parses(s), UNCHANGED world
      PROVE  /\ parsed'[s] = v /\ parsed'[s] # None
             /\ parsed'[t] = parsed[t] /\ parsed'[t] # None
             /\ Read(t)' = Read(t) /\ Read(s)' = At(s, v)
  <2>1. parsed'[s] = v /\ parsed'[t] = parsed[t]
    BY <1>1, <1>3, <1>4, <1>6 DEF Parses, TypeOK
  <2>2. version[s] \in Nat
    BY <1>1, <1>3 DEF TypeOK
  <2>3. v # None
    BY <2>2, InferenceAssumption
  <2> HIDE DEF v
  <2>4. Read(t)' = Read(t) /\ Read(s)' = At(s, v)
    BY <1>6, <2>1 DEF Read, At
  <2>5. QED
    BY <1>4, <2>1, <2>3, <2>4
<1>7. ASSUME Parses(s), UNCHANGED world
      PROVE  p \in Comparisons(t, s)'
  <2>1. CASE pairs[Key(s)] = None
    <3>1. p = SharedChain(Read(t), At(s, v))
      BY <2>1 DEF Compared, Read
    <3>2. SharedChain(Read(t), Read(s))' = SharedChain(Read(t), At(s, v))
      BY <1>6, <1>7
    <3>3. QED
      BY <3>1, <3>2 DEF Comparisons
  <2>2. CASE pairs[Key(s)] # None
    <3>1. PairIs(t, s) /\ p = pairs[{t, s}]
      BY <1>1, <1>3, <1>4, <2>2 DEF PairsInv, Key
    <3>2. Read(s)' = Read(s)
      BY <1>6, <1>7, <3>1 DEF PairIs, Read
    <3>3. Comparisons(t, s)' = Comparisons(t, s)
      BY <1>6, <1>7, <3>2 DEF Comparisons
    <3>4. QED
      BY <3>1, <3>3 DEF PairIs
  <2>3. QED
    BY <2>1, <2>2
<1>8. ASSUME Compares(p), Parses(s)
      PROVE  /\ Compares(p) /\ pairs'[Key(s)] = p /\ PairIs(t, s)'
             /\ pairs[Key(s)] # None => p = pairs[Key(s)]
  <2>1. pairs'[Key(s)] = p
    BY <1>5, <1>8 DEF Compares
  <2>2. UNCHANGED <<world, todo>>
    BY <1>8 DEF Compares, files
  <2>3. parsed'[t] # None /\ parsed'[s] # None /\ p \in Comparisons(t, s)'
    BY <1>6, <1>7, <1>8, <2>2
  <2>4. pairs[Key(s)] # None => p = pairs[Key(s)]
    OBVIOUS
  <2> HIDE DEF p
  <2>5. PairIs(t, s)'
    BY <2>1, <2>3 DEF PairIs, Key
  <2>6. QED
    BY <1>8, <2>1, <2>4, <2>5
<1>9. \/ GoOn /\ UNCHANGED pairs
      \/ Skip /\ incomplete' /\ UNCHANGED <<todo, listing, known, parsed, pairs, candidates>>
      \/ Compares(p) /\ Parses(s)
  BY DEF Examine, Compares
<1>10. QED
  BY <1>8, <1>9

\* Pairs are only compared by an examination, and as it parsed them.
LEMMA PairsStep ==
    ASSUME InferenceInv, [Next]_vars
    PROVE  PairsInv'
<1>1. TypeOK /\ PairsInv
  BY DEF InferenceInv
<1>2. SUFFICES ASSUME NEW x \in Session, NEW y \in Session, x # y, pairs'[{x, y}] # None
               PROVE  PairIs(x, y)'
  BY DEF PairsInv
<1>3. CASE pairs'[{x, y}] = pairs[{x, y}]
  BY <1>1, <1>2, <1>3, PairStays DEF PairsInv
<1>4. CASE Examine /\ pairs'[{x, y}] # pairs[{x, y}]
  <2>1. PICK t, s : t = Head(todo) /\ s = Head(left)
    OBVIOUS
  <2>2. PICK p : Compares(p) /\ PairIs(t, s)'
    <3>1. pairs' # pairs
      BY <1>4
    <3>2. ~(GoOn /\ UNCHANGED pairs) /\ ~ UNCHANGED <<todo, listing, known, parsed, pairs, candidates>>
      BY <3>1
    <3>3. QED
      BY <1>4, <2>1, <3>2, ExamineIs
  <2>3. {x, y} = {t, s}
    <3>1. pairs' = [pairs EXCEPT ![{t, s}] = p]
      BY <2>1, <2>2 DEF Compares, Key
    <3>2. {x, y} \in DOMAIN pairs
      BY <1>1 DEF TypeOK
    <3>3. QED
      BY <1>4, <3>1, <3>2
  <2>4. (x = t /\ y = s) \/ (x = s /\ y = t)
    BY <1>2, <2>3
  <2>5. PairIs(s, t)' = PairIs(t, s)'
    <3>1. Comparisons(s, t)' = Comparisons(t, s)'
      BY DEF Comparisons
    <3>2. {s, t} = {t, s}
      OBVIOUS
    <3>3. QED
      BY <3>1, <3>2 DEF PairIs
  <2>6. QED
    BY <2>2, <2>4, <2>5
<1>5. Examine \/ UNCHANGED pairs
  BY DEF Next, vars, memo, Discover, ReadHistory, ParseTarget, ScreenNext, Scan, TimeOut,
         Conclude, Revalidate, Add, Write, Share
<1>6. QED
  BY <1>3, <1>4, <1>5

-----------------------------------------------------------------------------
(* The best candidate.                                                      *)

\* What was parsed is a transcript.
LEMMA ReadIs ==
    ASSUME TypeOK, MemoInv, NEW s \in Session, parsed[s] # None
    PROVE  IsTranscript(Read(s))
<1>1. parsed[s] \in Nat /\ parsed[s] <= version[s] /\ version[s] \in Nat
  BY DEF TypeOK, MemoInv
<1>2. parsed[s] \in 0..version[s]
  BY <1>1
<1>3. QED
  BY <1>2, VersionsAre DEF Read

\* A candidate is a transcript listed, with the numbers of its comparison.
LEMMA CandidatesAre ==
    ASSUME InferenceInv, Analysing, NEW c \in candidates
    PROVE  /\ c.session \in Session /\ c.session \in listing \ {Head(todo)}
           /\ c = Named(c.session) /\ Related(pairs[Key(c.session)])
           /\ PairIs(Head(todo), c.session)
           /\ c.shared \in Nat /\ c.substantive \in Nat
           /\ c.older <=> Older(Head(todo), c.session, known)
<1>1. TypeOK /\ MemoInv
  BY DEF InferenceInv
<1>2. PICK s \in listing \ {Head(todo)} :
          PairIs(Head(todo), s) /\ Related(pairs[Key(s)]) /\ c = Named(s)
  BY DEF InferenceInv, OthersInv
<1>3. /\ c.session = s /\ c.older = Older(Head(todo), s, known)
      /\ c.shared = pairs[Key(s)].shared /\ c.substantive = pairs[Key(s)].substantive
  BY <1>2 DEF Named, Candidate
<1>4. s \in Session /\ Head(todo) \in Session
  BY <1>1, <1>2 DEF InferenceInv, OthersInv, TypeOK
<1>5. pairs[Key(s)] \in Comparisons(Head(todo), s)
  BY <1>2 DEF PairIs, Key
<1>6. IsTranscript(Read(Head(todo))) /\ IsTranscript(Read(s))
  BY <1>1, <1>2, <1>4, ReadIs DEF PairIs
<1>7. pairs[Key(s)].shared \in Nat /\ pairs[Key(s)].substantive \in Nat
  BY <1>5, <1>6, SharedIs DEF Comparisons, Comparison
<1>8. QED
  BY <1>2, <1>3, <1>4, <1>7

\* Which of two candidates is named.
Beats(c, d) == Above(c, d) \/ (~Above(d, c) /\ c.session < d.session)

\* Where there is an eligible candidate there is a best one: candidates of the same
\* numbers are told apart by their sessions.
LEMMA BestIs ==
    ASSUME InferenceInv, Analysing, Eligible # {}
    PROVE  Best \in Eligible /\ \A d \in Eligible \ {Best} : Beats(Best, d)
<1> DEFINE R == {cd \in Eligible \X Eligible : Beats(cd[1], cd[2])}
<1>1. \A c \in Eligible : /\ c.session \in Session /\ c = Named(c.session)
                          /\ c.shared \in Nat /\ c.substantive \in Nat
  BY CandidatesAre DEF Eligible
<1>2. \A c \in Eligible : c.session \in Nat
  BY <1>1, InferenceAssumption
<1>3. \A c, d \in Eligible : c # d => c.session # d.session
  BY <1>1
<1>4. IsFiniteSet(Eligible)
  BY FS_Subset DEF InferenceInv, OthersInv, Eligible
<1>5. \A c, d \in Eligible : c # d => Beats(c, d) \/ Beats(d, c)
  BY <1>1, <1>2, <1>3 DEF Beats, Above
<1>6. \A c, d, e \in Eligible : Beats(c, d) /\ Beats(d, e) => Beats(c, e)
  BY <1>1, <1>2 DEF Beats, Above
<1>7. \A c, d : <<c, d>> \in R <=> c \in Eligible /\ d \in Eligible /\ Beats(c, d)
  OBVIOUS
<1> HIDE DEF R
<1>8. \E c \in Eligible : \A d \in Eligible \ {c} : <<c, d>> \in R
  BY <1>4, <1>5, <1>6, <1>7, GreatestOf
<1>9. \E c \in Eligible : \A d \in Eligible \ {c} : Beats(c, d)
  BY <1>7, <1>8
<1>10. Best = CHOOSE c \in Eligible : \A d \in Eligible \ {c} : Beats(c, d)
  BY DEF Best, Beats
<1>11. QED
  BY <1>9, <1>10

\* Only Add records, and what it records is an eligible candidate; the clocks it was
\* judged by are never read again.
LEMMA RecordsStep ==
    ASSUME InferenceInv, [Next]_vars
    PROVE  RecordsInv'
<1>1. TypeOK /\ RecordsInv /\ world' = world
  BY StepGoesOn DEF InferenceInv
<1>3. CASE Add
  <2>1. pc = "add" /\ known' = known
    BY <1>3 DEF Add, corpus
  <2>2. Analysing /\ Inferred
    BY <2>1 DEF InferenceInv, OthersInv, Analysing
  <2>3. Best \in Eligible
    BY <2>2, BestIs DEF Inferred
  <2>4. Older(Head(todo), Best.session, known)
    BY <2>2, <2>3, CandidatesAre DEF Eligible
  <2>5. \A s \in Session : \/ records'[s] = records[s]
                           \/ s = Head(todo) /\ records'[s] = Best.session
    BY <1>1, <1>3 DEF Add, TypeOK
  <2>6. ~Fresh'
    BY <1>3 DEF Add, GoOn, Fresh
  <2>7. \A s \in Session : records'[s] # None => Older(s, records'[s], known)
    BY <1>1, <2>4, <2>5 DEF RecordsInv
  <2>8. QED
    BY <1>1, <2>1, <2>6, <2>7 DEF RecordsInv, Older, Clocks
<1>4. CASE ReadHistory
  <2>1. \A s \in Session : records'[s] = None
    BY <1>1, <1>4 DEF ReadHistory, RecordsInv, Fresh
  <2>2. QED
    BY <2>1 DEF RecordsInv
<1>5. CASE UNCHANGED <<records, known>>
  <2>1. Fresh' => Fresh
    BY <1>5 DEF Fresh, Next, vars, Discover, ReadHistory, ParseTarget, ScreenNext, Scan, Examine,
                Looks, Skip, GoOn, TimeOut, Conclude, Revalidate, Add, Write, Share
  <2>2. QED
    BY <1>1, <1>5, <2>1 DEF RecordsInv, Older, Clocks
<1>6. Add \/ ReadHistory \/ UNCHANGED <<records, known>>
  BY DEF Next, vars, corpus, Discover, ParseTarget, ScreenNext, Scan, Examine, TimeOut, Conclude,
         Revalidate, Write, Share
<1>7. QED
  BY <1>3, <1>4, <1>5, <1>6

-----------------------------------------------------------------------------
(* No transcript is passed over.                                            *)

\* While a session is analysed, what is known of the others holds on, unless they
\* are written to or compared anew.
LEMMA OthersHold ==
    ASSUME InferenceInv, [Next]_vars, Moves, Analysing, UNCHANGED <<todo, listing, known>>,
           NEW t, t = Head(todo), NEW s \in listing \ {t}
    PROVE  /\ s \in Session /\ t \in Session /\ Head(todo)' = t /\ parsed'[t] # None
           /\ PairIs(t, s) /\ pairs'[{t, s}] = pairs[{t, s}] => PairIs(t, s)'
           /\ pairs'[{t, s}] = pairs[{t, s}] => Named(s)' = Named(s)
           /\ s \notin moved' /\ Unrelated(s) => Unrelated(s)'
           /\ s \in moved => s \in moved'
<1>1. TypeOK /\ t \in listing /\ parsed[t] # None /\ listing \subseteq Session
  BY DEF InferenceInv, OthersInv, TypeOK
<1>2. /\ world' = world /\ moved \subseteq moved'
      /\ s \notin moved' => version'[s] = version[s]
  BY <1>1, FilesGoOn
<1>3. s \in Session /\ t \in Session /\ Head(todo)' = t /\ parsed'[t] = parsed[t]
  BY <1>1, StepGoesOn
<1>4. PairIs(t, s) /\ pairs'[{t, s}] = pairs[{t, s}] => PairIs(t, s)'
  BY <1>3, PairStays
<1>5. ASSUME pairs'[{t, s}] = pairs[{t, s}]
      PROVE  Named(s)' = Named(s)
  <2>1. Clocks(t, s, known)' = Clocks(t, s, known)
    BY <1>2 DEF Clocks
  <2>2. Older(t, s, known)' = Older(t, s, known)
    BY <1>2 DEF Older, Clocks
  <2>3. \A p : Candidate(s, p)' = Candidate(s, p)
    BY <1>3, <2>1, <2>2 DEF Candidate
  <2>4. Key(s) = {t, s} /\ Key(s)' = {t, s}
    BY <1>3 DEF Key
  <2>5. QED
    BY <1>3, <1>5, <2>1, <2>2, <2>4 DEF Named, Candidate
<1>6. s \notin moved' /\ Unrelated(s) => Unrelated(s)'
  BY <1>2, <1>3 DEF Unrelated, Read, Content, At
<1>7. QED
  BY <1>1, <1>2, <1>3, <1>4, <1>5, <1>6

\* An analysis that is over leaves nothing behind.
LEMMA OthersGone ==
    ASSUME ~Analysing', candidates' = {}
    PROVE  OthersInv'
<1>1. pc' \notin {"screen", "scan", "parse", "stable", "add"}
  BY DEF Analysing
<1>2. IsFiniteSet(candidates')
  BY FS_EmptySet
<1>3. QED
  BY <1>1, <1>2 DEF OthersInv, Analysing

\* An analysis goes on as long as the transcripts taken off the list are ones that
\* were written to or have nothing to do with the session.
LEMMA OthersGoOn ==
    ASSUME InferenceInv, [Next]_vars, Moves, Analysing, Analysing',
           UNCHANGED <<todo, listing, known, pairs, candidates>>,
           NEW t, t = Head(todo), left' \in Seq(listing \ {t}),
           pc' \in {"scan", "parse"} => left' # <<>>,
           pc' \in {"stable", "add"} => left' = <<>> /\ Inferred',
           ~incomplete' => ~incomplete /\ \A s \in listing \ {t} :
                Pending(s) => Pending(s)' \/ s \in moved' \/ Unrelated(s)'
    PROVE  OthersInv'
<1>1. t \in listing /\ parsed[t] # None /\ t \in Session
  BY DEF InferenceInv, OthersInv, TypeOK
<1>2. Head(todo)' = t /\ t \in listing' /\ parsed'[t] # None
  BY <1>1, StepGoesOn
<1>3. ASSUME NEW c \in candidates'
      PROVE  \E s \in (listing \ {t})' :
                 PairIs(t, s)' /\ Related(pairs'[{t, s}]) /\ c = Named(s)'
  <2>1. PICK s \in listing \ {t} : PairIs(t, s) /\ Related(pairs[Key(s)]) /\ c = Named(s)
    BY <1>3 DEF InferenceInv, OthersInv
  <2>2. PairIs(t, s)' /\ Named(s)' = Named(s)
    BY <2>1, OthersHold
  <2>3. QED
    BY <2>1, <2>2 DEF Key
<1>4. ASSUME ~incomplete', NEW s \in (listing \ {t})'
      PROVE  s \in moved' \/ Pending(s)' \/ Unrelated(s)' \/ Examined(s)'
  <2>1. s \in moved \/ Pending(s) \/ Unrelated(s) \/ Examined(s)
    BY <1>4 DEF InferenceInv, OthersInv
  <2>2. CASE s \in moved \/ Unrelated(s)
    BY <1>4, <2>2, OthersHold
  <2>3. CASE Pending(s)
    BY <1>4, <2>3
  <2>4. CASE Examined(s)
    <3>1. PairIs(t, s)' /\ Named(s)' = Named(s)
      BY <1>4, <2>4, OthersHold DEF Examined
    <3>2. Related(pairs'[Key(s)']) => Named(s)' \in candidates'
      BY <1>2, <2>4, <3>1 DEF Examined, Key
    <3>3. QED
      BY <1>2, <3>1, <3>2 DEF Examined
  <2>5. QED
    BY <2>1, <2>2, <2>3, <2>4
<1>5. IsFiniteSet(candidates')
  BY DEF InferenceInv, OthersInv
<1>6. \A s : Key(s)' = {t, s}
  BY <1>2 DEF Key
<1>7. QED
  BY <1>2, <1>3, <1>4, <1>5, <1>6 DEF OthersInv

\* A screen of the file as it is that is not positive leaves nothing to compare.
LEMMA ScreenedOut ==
    ASSUME NEW s, ~Positive(Screen(s, version[s]))
    PROVE  Unrelated(s)
<1>1. {n.uuid : n \in Content(s)} \cap Asked = {}
  BY DEF Positive, Screen, Content
<1>2. QED
  BY <1>1 DEF Asked, Unrelated, Read

\* The analysis of a session begins with all the others before it.
LEMMA OthersBegin ==
    ASSUME InferenceInv, ParseTarget, pc' = "screen"
    PROVE  OthersInv'
<1> DEFINE t == Head(todo)
<1> DEFINE S == listing \ {t}
<1>1. TypeOK /\ candidates = {}
  BY DEF InferenceInv, OthersInv, Analysing, ParseTarget
<1>2. /\ t \in listing /\ Parses(t) /\ left' = Sorted(S) /\ candidates' = {}
      /\ todo' = todo /\ listing' = listing
  BY <1>1 DEF ParseTarget, GoOn, corpus
<1>3. t \in Session /\ version[t] \in Nat
  BY <1>1, <1>2 DEF TypeOK
<1>4. parsed'[t] # None
  BY <1>1, <1>2, <1>3, InferenceAssumption DEF Parses, TypeOK
<1>5. S \in SUBSET Nat /\ IsFiniteSet(S)
  BY <1>1, InferenceAssumption, FS_Subset DEF TypeOK
<1> HIDE DEF S
<1>6. left' \in Seq(S) /\ \A s \in S : \E i \in DOMAIN left' : left'[i] = s
  BY <1>2, <1>5, SortedHasAll
<1>7. \A s \in S : Pending(s)'
  BY <1>6 DEF Pending
<1>8. S = (listing \ {Head(todo)})'
  BY <1>2 DEF S
<1>9. IsFiniteSet(candidates')
  BY <1>2, FS_EmptySet
<1>10. QED
  BY <1>2, <1>4, <1>6, <1>7, <1>8, <1>9 DEF OthersInv, Analysing

\* A transcript that is skipped was found to be of no interest, or could not be read.
LEMMA OthersSkip ==
    ASSUME InferenceInv, [Next]_vars, Moves, pc \in {"screen", "scan", "parse"}, left # <<>>, Skip,
           UNCHANGED <<todo, listing, known, pairs, candidates>>,
           NEW r, r = Head(left), incomplete' \/ (~incomplete /\ (r \in moved' \/ Unrelated(r)'))
    PROVE  OthersInv'
<1>1. PICK t : t = Head(todo)
  OBVIOUS
<1>2. /\ left' \in Seq(listing \ {t})
      /\ \A s : Pending(s) => s = r \/ \E j \in DOMAIN left' : left'[j] = s
  BY <1>1, NextIsListed DEF Skip
<1>3. \A s : Pending(s) => Pending(s)' \/ s = r
  BY <1>2 DEF Pending
<1>4. ~incomplete' => ~incomplete /\ \A s \in listing \ {t} :
          Pending(s) => Pending(s)' \/ s \in moved' \/ Unrelated(s)'
  BY <1>3
<1>5. Analysing /\ Analysing' /\ pc' = "screen"
  BY DEF Analysing, Skip
<1>6. QED
  BY <1>1, <1>2, <1>4, <1>5, OthersGoOn

\* A comparison adds to the candidates the transcript compared, if that is related.
LEMMA OthersCompared ==
    ASSUME InferenceInv, Examine, NEW t, t = Head(todo), NEW s, s = Head(left),
           NEW p, Compares(p), pairs'[Key(s)] = p, PairIs(t, s)',
           pairs[Key(s)] # None => p = pairs[Key(s)]
    PROVE  OthersInv'
<1>1. pc = "parse" /\ left # <<>> /\ Analysing
  BY DEF Examine, InferenceInv, OthersInv, Analysing
<1>2. /\ UNCHANGED <<todo, listing, known, incomplete>> /\ Moves /\ pc' = "screen"
      /\ left' = Tail(left) /\ [Next]_vars
  BY DEF Compares, Moves, Skip, Next
<1>3. /\ s \in listing \ {t} /\ left' \in Seq(listing \ {t})
      /\ \A r : Pending(r) => Pending(r)' \/ r = s
  BY <1>1, <1>2, NextIsListed DEF Pending
<1>4. TypeOK /\ MemoInv /\ t \in listing /\ t \in Session /\ s \in Session
  BY <1>1, <1>3 DEF InferenceInv, OthersInv, TypeOK
<1>5. t \in listing' /\ Head(todo)' = t /\ parsed'[t] # None
  BY <1>2, <1>4 DEF PairIs
<1>6. \A r : Key(r) = {t, r} /\ Key(r)' = {t, r}
  BY <1>5 DEF Key
<1>7. ASSUME NEW r \in listing \ {t}, r # s
      PROVE  /\ pairs'[{t, r}] = pairs[{t, r}]
             /\ PairIs(t, r) => PairIs(t, r)' /\ Named(r)' = Named(r)
  <2>1. {t, r} # {t, s}
    BY <1>7
  <2>2. r \in Session
    BY <1>4, <1>7 DEF TypeOK
  <2>3. {t, r} \in {{x, y} : x, y \in Session}
    BY <1>4, <2>2
  <2>4. DOMAIN pairs = {{x, y} : x, y \in Session}
    BY <1>4 DEF TypeOK
  <2>5. {t, r} \in DOMAIN pairs
    BY <2>3, <2>4
  <2>6. pairs' = [pairs EXCEPT ![{t, s}] = p]
    BY <1>6 DEF Compares
  <2>7. pairs'[{t, r}] = pairs[{t, r}]
    BY <2>1, <2>5, <2>6
  <2>8. QED
    BY <1>1, <1>2, <1>7, <2>7, OthersHold
<1>8. PairIs(t, s) => pairs'[{t, s}] = pairs[{t, s}]
  <2>1. ASSUME PairIs(t, s) PROVE pairs[{t, s}] # None
    <3>1. IsTranscript(Read(t)) /\ IsTranscript(Read(s))
      BY <1>4, <2>1, ReadIs DEF PairIs
    <3>2. pairs[{t, s}] \in Comparison
      BY <2>1, <3>1, SharedIs DEF PairIs, Comparisons
    <3>3. QED
      BY <3>2, InferenceAssumption
  <2>2. QED
    BY <1>6, <2>1
<1>9. \A r \in listing \ {t} : PairIs(t, r) => PairIs(t, r)' /\ Named(r)' = Named(r)
                                                /\ pairs'[{t, r}] = pairs[{t, r}]
  <2>1. PairIs(t, s) => Named(s)' = Named(s)
    BY <1>1, <1>2, <1>3, <1>8, OthersHold
  <2>2. QED
    BY <1>7, <1>8, <2>1
<1>10. candidates \subseteq candidates' /\ IsFiniteSet(candidates')
  <2>1. IsFiniteSet(candidates)
    BY DEF InferenceInv, OthersInv
  <2>2. candidates' = candidates \/ candidates' = candidates \cup {Candidate(s, p)}
    BY DEF Compares
  <2>3. QED
    BY <2>1, <2>2, FS_AddElement
<1>11. Named(s)' = Candidate(s, p)
  <2>1. UNCHANGED world
    BY DEF Compares, files
  <2>2. Clocks(t, s, known)' = Clocks(t, s, known) /\ Older(t, s, known)' = Older(t, s, known)
    BY <1>2, <2>1 DEF Clocks, Older
  <2>3. QED
    BY <1>2, <1>5, <1>6, <2>2 DEF Named, Candidate
<1>12. ASSUME NEW c \in candidates'
       PROVE  \E r \in (listing \ {t})' :
                  PairIs(t, r)' /\ Related(pairs'[{t, r}]) /\ c = Named(r)'
  <2>1. CASE c \in candidates
    <3>1. PICK r \in listing \ {t} : PairIs(t, r) /\ Related(pairs[{t, r}]) /\ c = Named(r)
      BY <1>6, <2>1 DEF InferenceInv, OthersInv
    <3>2. QED
      BY <1>2, <1>9, <3>1
  <2>2. CASE c \notin candidates
    <3>1. Related(p) /\ c = Candidate(s, p)
      BY <1>12, <2>2 DEF Compares
    <3>2. QED
      BY <1>2, <1>3, <1>6, <1>11, <3>1
  <2>3. QED
    BY <2>1, <2>2
<1>13. Examined(s)'
  <2>1. Related(p) => Named(s)' \in candidates'
    BY <1>11 DEF Compares
  <2>2. QED
    BY <1>5, <1>6, <2>1 DEF Examined
<1>14. ASSUME ~incomplete', NEW r \in (listing \ {t})'
       PROVE  r \in moved' \/ Pending(r)' \/ Unrelated(r)' \/ Examined(r)'
  <2>1. r \in moved \/ Pending(r) \/ Unrelated(r) \/ Examined(r)
    BY <1>1, <1>2, <1>14 DEF InferenceInv, OthersInv
  <2>2. CASE r \in moved \/ Unrelated(r)
    BY <1>1, <1>2, <1>14, <2>2, OthersHold
  <2>3. CASE Pending(r)
    BY <1>3, <1>13, <2>3
  <2>4. CASE Examined(r)
    <3>1. PairIs(t, r)' /\ Named(r)' = Named(r) /\ pairs'[{t, r}] = pairs[{t, r}]
      BY <1>2, <1>9, <1>14, <2>4 DEF Examined
    <3>2. Related(pairs'[Key(r)']) => Named(r)' \in candidates'
      BY <1>6, <1>10, <2>4, <3>1 DEF Examined
    <3>3. QED
      BY <1>5, <3>1, <3>2 DEF Examined
  <2>5. QED
    BY <2>1, <2>2, <2>3, <2>4
<1>15. QED
  BY <1>2, <1>3, <1>5, <1>6, <1>10, <1>12, <1>14 DEF OthersInv, Analysing

\* What the analysis has found of the others is kept by every step.
LEMMA OthersStep ==
    ASSUME InferenceInv, [Next]_vars
    PROVE  OthersInv'
<1> DEFINE r == Head(left)
<1>1. TypeOK /\ MemoInv /\ CachedScreensAreExact /\ OthersInv
  BY DEF InferenceInv
<1>2. PICK t : t = Head(todo)
  OBVIOUS
<1>3. CASE GoOn
  <2>1. ~Analysing' /\ candidates' = {}
    BY <1>3 DEF GoOn, Analysing
  <2>2. QED
    BY <2>1, OthersGone
<1>4. ASSUME Moves, UNCHANGED <<todo, listing, known, incomplete, parsed, pairs, left, candidates>>,
             pc' = pc
      PROVE  OthersInv'
  <2>1. CASE Analysing
    <3>1. Analysing'
      BY <1>4, <2>1 DEF Analysing
    <3>2. left' \in Seq(listing \ {t}) /\ (pc' \in {"scan", "parse"} => left' # <<>>)
      BY <1>1, <1>2, <1>4, <2>1 DEF OthersInv
    <3>3. Inferred' = Inferred
      BY <1>4 DEF Inferred, Eligible, Best, Peers, Above
    <3>4. pc' \in {"stable", "add"} => left' = <<>> /\ Inferred'
      BY <1>1, <1>4, <3>3 DEF OthersInv
    <3>5. \A s : Pending(s)' = Pending(s)
      BY <1>4 DEF Pending
    <3>6. QED
      BY <1>2, <1>4, <2>1, <3>1, <3>2, <3>4, <3>5, OthersGoOn
  <2>2. CASE ~Analysing
    <3>1. ~Analysing' /\ candidates' = {}
      BY <1>1, <1>4, <2>2 DEF Analysing, OthersInv
    <3>2. QED
      BY <3>1, OthersGone
  <2>3. QED
    BY <2>1, <2>2
<1>5. CASE UNCHANGED vars
  BY <1>4, <1>5 DEF vars, corpus, memo, Moves
<1>6. CASE Discover \/ ReadHistory
  <2>1. ~Analysing' /\ candidates' = {}
    BY <1>1, <1>6 DEF Discover, ReadHistory, Analysing, OthersInv
  <2>2. QED
    BY <2>1, OthersGone
<1>7. CASE ParseTarget
  <2>1. GoOn \/ pc' = "screen"
    BY <1>7 DEF ParseTarget
  <2>2. QED
    BY <1>3, <1>7, <2>1, OthersBegin
<1>8. CASE ScreenNext
  <2>1. /\ pc = "screen" /\ left # <<>> /\ Moves /\ Analysing
        /\ UNCHANGED <<files, todo, listing, known, incomplete, parsed, pairs, candidates>>
    BY <1>8 DEF ScreenNext, corpus, Moves, Analysing
  <2>2. r \in Session /\ version[r] \in Nat
    BY <1>1, <2>1, NextIsListed DEF TypeOK
  <2>3. ASSUME NEW screen, Looks(screen, r), r \in moved \/ screen = Screen(r, version[r])
        PROVE  OthersInv'
    <3>1. CASE Positive(screen)
      <4>1. pc' = "parse" /\ left' = left
        BY <2>3, <3>1 DEF Looks
      <4>2. left' \in Seq(listing \ {t}) /\ left' # <<>> /\ Analysing'
        BY <1>1, <1>2, <2>1, <4>1 DEF OthersInv, Analysing
      <4>3. \A s : Pending(s)' = Pending(s)
        BY <4>1 DEF Pending
      <4>4. QED
        BY <1>2, <2>1, <4>1, <4>2, <4>3, OthersGoOn
    <3>2. CASE ~Positive(screen)
      <4>1. Skip
        BY <2>3, <3>2 DEF Looks
      <4>2. PICK q : q = r
        OBVIOUS
      <4>3. CASE q \in moved
        <5>1. q \in moved'
          BY <2>1, <4>3 DEF files
        <5>2. QED
          BY <2>1, <4>1, <4>2, <5>1, OthersSkip
      <4>4. CASE q \notin moved
        <5>1. Unrelated(q)
          BY <2>3, <3>2, <4>2, <4>4, ScreenedOut
        <5>2. Unrelated(q)'
          BY <2>1, <5>1 DEF Unrelated, Read, Content, At, files
        <5>3. QED
          BY <2>1, <4>1, <4>2, <5>2, OthersSkip
      <4>5. QED
        BY <4>3, <4>4
    <3>3. QED
      BY <3>1, <3>2
  <2>4. screens[r] # None => r \in moved \/ screens[r] = Screen(r, version[r])
    BY <1>1, <2>2 DEF MemoInv
  <2>5. Valid(r) => shard[r] = Screen(r, version[r])
    BY <1>1, <2>2 DEF Valid, CachedScreensAreExact
  <2>6. CASE pc' = "scan" /\ UNCHANGED left
    <3>1. left' \in Seq(listing \ {t}) /\ left' # <<>> /\ Analysing'
      BY <1>1, <1>2, <2>1, <2>6 DEF OthersInv, Analysing
    <3>2. \A s : Pending(s)' = Pending(s)
      BY <2>6 DEF Pending
    <3>3. QED
      BY <1>2, <2>1, <2>6, <3>1, <3>2, OthersGoOn
  <2>7. QED
    BY <1>8, <2>3, <2>4, <2>5, <2>6 DEF ScreenNext
<1>9. CASE Scan
  <2> DEFINE fresh == [Screen(r, version[r]) EXCEPT !.of = scanned]
  <2>1. /\ pc = "scan" /\ left # <<>> /\ Moves /\ Analysing
        /\ UNCHANGED <<files, todo, listing, known, parsed, pairs, candidates>>
    BY <1>1, <1>9 DEF Scan, OthersInv, Moves, Analysing
  <2>2. PICK q : q = r
    OBVIOUS
  <2>3. CASE Same(r) /\ Looks(fresh, r) /\ UNCHANGED incomplete
    <3>1. fresh = Screen(r, version[r])
      BY <2>3 DEF Same, Screen
    <3>2. CASE Positive(fresh)
      <4>1. pc' = "parse" /\ left' = left
        BY <2>3, <3>2 DEF Looks
      <4>2. left' \in Seq(listing \ {t}) /\ left' # <<>> /\ Analysing'
        BY <1>1, <1>2, <2>1, <4>1 DEF OthersInv, Analysing
      <4>3. \A s : Pending(s)' = Pending(s)
        BY <4>1 DEF Pending
      <4>4. QED
        BY <1>2, <2>1, <2>3, <4>1, <4>2, <4>3, OthersGoOn
    <3>3. CASE ~Positive(fresh)
      <4>1. Skip
        BY <2>3, <3>3 DEF Looks
      <4>2. Unrelated(q)
        BY <2>2, <3>1, <3>3, ScreenedOut
      <4>3. Unrelated(q)'
        BY <2>1, <4>2 DEF Unrelated, Read, Content, At, files
      <4>4. QED
        BY <2>1, <2>2, <2>3, <4>1, <4>3, OthersSkip
    <3>4. QED
      BY <3>2, <3>3
  <2>4. CASE incomplete' = TRUE /\ Skip
    BY <2>1, <2>2, <2>4, OthersSkip
  <2>5. QED
    BY <1>9, <2>3, <2>4 DEF Scan
<1>10. CASE Examine
  <2>1. PICK s : s = Head(left)
    OBVIOUS
  <2>2. CASE Skip /\ incomplete' /\ UNCHANGED <<todo, listing, known, parsed, pairs, candidates>>
    <3>1. pc = "parse" /\ left # <<>>
      BY <1>1, <1>10 DEF Examine, OthersInv
    <3>2. Moves
      <4>1. ~Discover
        BY <3>1 DEF Discover
      <4>2. QED
        BY <4>1, StepMoves
    <3>3. QED
      BY <2>1, <2>2, <3>1, <3>2, OthersSkip
  <2>3. ASSUME NEW p, Compares(p), pairs'[Key(s)] = p, PairIs(t, s)',
               pairs[Key(s)] # None => p = pairs[Key(s)]
        PROVE  OthersInv'
    BY <1>2, <1>10, <2>1, <2>3, OthersCompared
  <2>4. QED
    BY <1>2, <1>3, <1>10, <2>1, <2>2, <2>3, ExamineIs
<1>11. CASE Conclude \/ Revalidate
  <2>1. /\ pc \in {"screen", "stable"} /\ Moves /\ Analysing
        /\ UNCHANGED <<listing, known, incomplete, parsed, pairs>>
    BY <1>11 DEF Conclude, Revalidate, Moves, Analysing, corpus, memo
  <2>2. CASE pc' \in {"stable", "add"} /\ UNCHANGED <<todo, left, candidates>>
    <3>1. Inferred /\ left = <<>>
      BY <1>1, <1>11, <2>2 DEF Conclude, Revalidate, GoOn, OthersInv
    <3>2. Inferred' = Inferred
      BY <2>1, <2>2 DEF Inferred, Eligible, Best, Peers, Above
    <3>3. left' \in Seq(listing \ {t}) /\ Analysing'
      BY <1>1, <1>2, <2>1, <2>2 DEF OthersInv, Analysing
    <3>4. \A s : Pending(s)' = Pending(s)
      BY <2>2 DEF Pending
    <3>5. QED
      BY <1>2, <2>1, <2>2, <3>1, <3>2, <3>3, <3>4, OthersGoOn
  <2>3. QED
    BY <1>3, <1>11, <2>2 DEF Conclude, Revalidate
<1>12. CASE TimeOut \/ Add
  BY <1>3, <1>12 DEF TimeOut, Add
<1>13. CASE \E s \in Session : Write(s) \/ Share(s)
  BY <1>4, <1>13 DEF Write, Share, corpus, memo, Moves
<1>14. QED
  BY <1>5, <1>6, <1>7, <1>8, <1>9, <1>10, <1>11, <1>12, <1>13 DEF Next

-----------------------------------------------------------------------------
(* The theorems.                                                            *)

\* Every step keeps the invariant: one lemma for each of its parts.
LEMMA InferenceStep ==
    ASSUME InferenceInv, [Next]_vars
    PROVE  InferenceInv'
BY TypeStep, ShardStep, MemoStep, PairsStep, OthersStep, RecordsStep DEF InferenceInv

\* What the corpus, the cache and the analysis under way know is always what the
\* transcripts said when they were read, and nothing written to is taken for unmoved.
THEOREM InferenceInvariant == Spec => []InferenceInv
<1>1. Init => InferenceInv
  BY InferenceStarts
<1>2. InferenceInv /\ [Next]_vars => InferenceInv'
  BY InferenceStep
<1>3. QED
  BY <1>1, <1>2, PTL DEF Spec

\* A screen in the shared cache is that of the version it is for, in every state and
\* for every interleaving of scans, writes and other analyses.
THEOREM CachedScreensTheorem == Spec => []CachedScreensAreExact
<1>1. InferenceInv => CachedScreensAreExact
  BY DEF InferenceInv
<1>2. QED
  BY <1>1, InferenceInvariant, PTL

\* No set of things has one below each of them, within it, by a clock.
LEMMA NoDescent ==
    ASSUME NEW C, C # {}, NEW clock, NEW next,
           \A s \in C : clock[s] \in Nat /\ next[s] \in C /\ clock[next[s]] < clock[s]
    PROVE  FALSE
<1> DEFINE T == {clock[s] : s \in C}
<1>1. T \in SUBSET Nat /\ T # {}
  OBVIOUS
<1>2. \A s \in C : clock[s] \in T
  OBVIOUS
<1>3. \A x \in T : \E s \in C : x = clock[s]
  OBVIOUS
<1> HIDE DEF T
<1>4. PICK m \in T : \A n \in T : m <= n
  BY <1>1, LeastNat
<1>5. PICK s \in C : m = clock[s]
  BY <1>3
<1>6. clock[next[s]] \in T /\ clock[next[s]] \in Nat /\ clock[s] \in Nat
  BY <1>1, <1>2
<1>7. clock[s] <= clock[next[s]] /\ clock[next[s]] < clock[s]
  BY <1>4, <1>5, <1>6
<1>8. QED
  BY <1>6, <1>7

\* Recorded parents are older by one and the same clock, so no sessions have their
\* parents among themselves, however many there are.
THEOREM NoCircle == Spec => []ParentsFormNoCircle
<1>1. ASSUME InferenceInv
      PROVE  ParentsFormNoCircle
  <2> SUFFICES ASSUME NEW C \in SUBSET Session, \A s \in C : records[s] \in C, C # {}
               PROVE  FALSE
    BY DEF ParentsFormNoCircle
  <2>1. TypeOK /\ RecordsInv /\ world \in Worlds
    BY <1>1 DEF InferenceInv, TypeOK
  <2>2. \A s \in C : records[s] \in Session /\ Older(s, records[s], known)
    <3>1. \A s \in C : s \in Session /\ records[s] \in Session /\ records[s] # None
      BY InferenceAssumption
    <3>2. QED
      BY <2>1, <3>1 DEF RecordsInv
  <2>3. CASE world.birth \in [Session -> Nat]
    <3>1. ASSUME NEW s \in C
          PROVE  <<"birth", world.birth[records[s]], world.birth[s]>>
                     \in Clocks(s, records[s], known)
      <4>1. s \in Session /\ records[s] \in Session
        BY <2>2
      <4>2. world.birth[s] \in Nat /\ world.birth[records[s]] \in Nat
        BY <2>3, <4>1
      <4>3. world.birth[s] # None /\ world.birth[records[s]] # None
        BY <4>2, InferenceAssumption
      <4>4. QED
        BY <4>3 DEF Clocks
    <3>2. \A s \in C : world.birth[records[s]] < world.birth[s]
      BY <2>2, <3>1 DEF Older
    <3>3. \A s \in C : world.birth[s] \in Nat
      BY <2>3
    <3>4. QED
      BY <3>2, <3>3, NoDescent
  <2>4. CASE world.birth \in [Session -> {None}]
    <3>1. \A s \in C : /\ known[s] # None /\ known[records[s]] # None
                       /\ <<"history", known[records[s]], known[s]>> \in Clocks(s, records[s], known)
      BY <2>2, <2>4 DEF Older, Clocks
    <3>2. \A s \in C : known[records[s]] < known[s]
      BY <2>2, <3>1 DEF Older
    <3>3. \A s \in C : known[s] \in Nat
      BY <2>1, <3>1 DEF TypeOK
    <3>4. QED
      BY <3>2, <3>3, NoDescent
  <2>5. QED
    BY <2>1, <2>3, <2>4, InferenceAssumption
<1>2. InferenceInv => ParentsFormNoCircle
  BY <1>1
<1>3. QED
  BY <1>2, InferenceInvariant, PTL

\* Where nothing but the two files was written to and no copies differ in time, what
\* was compared is what a comparison now would give.
LEMMA ComparedIsCurrent ==
    ASSUME InferenceInv, NEW t \in Session, NEW r \in Session, PairIs(t, r),
           parsed[t] = version[t], r \notin moved \/ parsed[r] = version[r], ~Skewed(t, r)
    PROVE  pairs[{t, r}] = Shared(t, r) /\ Read(t) = Content(t) /\ Read(r) = Content(r)
<1>1. TypeOK /\ MemoInv
  BY DEF InferenceInv
<1>2. parsed[r] = version[r]
  BY <1>1 DEF MemoInv, PairIs
<1>3. Read(t) = Content(t) /\ Read(r) = Content(r)
  BY <1>2 DEF Read, Content
<1>4. IsTranscript(Content(t)) /\ IsTranscript(Content(r))
  BY <1>1, <1>3, ReadIs DEF PairIs
<1>5. \A n \in Content(t), m \in Content(r) : n.uuid = m.uuid => n.time = m.time
  BY DEF Skewed
<1>6. SharedChain(Content(t), Content(r)) = SharedChain(Content(r), Content(t))
  BY <1>4, <1>5, SharedFromBothSides
<1>7. QED
  BY <1>3, <1>6 DEF PairIs, Comparisons, Shared

\* A transcript that is related now, and was not written to, has been examined.
LEMMA RelatedIsNamed ==
    ASSUME InferenceInv, pc = "stable", EvidenceStable, NEW t, t = Head(todo),
           NEW r \in Session, r \notin moved, May(t, r),
           \A s \in listing \ {t} : ~Skewed(t, s)
    PROVE  Named(r) \in Eligible /\ PairIs(t, r) /\ pairs[{t, r}] = Shared(t, r) /\ r \in listing \ {t}
<1>1. TypeOK /\ MemoInv /\ OthersInv /\ Analysing /\ left = <<>> /\ Inferred
  BY DEF InferenceInv, OthersInv, Analysing
<1>2. t \in Session /\ parsed[t] # None /\ parsed[t] = version[t] /\ Read(t) = Content(t)
  BY <1>1 DEF OthersInv, TypeOK, EvidenceStable, Read, Content
<1>3. IsTranscript(Content(t))
  BY <1>1, <1>2, ReadIs
<1>4. PICK n \in Content(t), m \in Content(r) : Substantive(n) /\ n.uuid = m.uuid
  BY <1>3, SharedIs DEF May, Shared
<1>5. r \in listing \ {t}
  <2>1. version[r] # 0
    BY <1>4 DEF Content, At
  <2>2. version[r] \in Nat /\ version[r] > 0
    BY <1>1, <2>1 DEF TypeOK
  <2>3. QED
    BY <2>2 DEF EvidenceStable, May
<1>6. Examined(r)
  <2>1. ~Unrelated(r)
    BY <1>2, <1>4 DEF Unrelated
  <2>2. ~Pending(r)
    <3>1. DOMAIN left = {}
      BY <1>1
    <3>2. QED
      BY <3>1 DEF Pending
  <2>3. QED
    BY <1>1, <1>5, <2>1, <2>2 DEF OthersInv, Inferred
<1>7. PairIs(t, r) /\ (Related(pairs[{t, r}]) => Named(r) \in candidates)
  BY <1>6 DEF Examined, Key
<1>8. pairs[{t, r}] = Shared(t, r)
  BY <1>2, <1>5, <1>7, ComparedIsCurrent
<1>9. Named(r) \in candidates /\ Named(r).older
  BY <1>7, <1>8 DEF May, Named, Candidate
<1>10. QED
  BY <1>5, <1>7, <1>8, <1>9 DEF Eligible

\* What is recorded is what a fresh comparison of everything would name: nothing a
\* screen, the cache, an earlier session's parse or a pair from the other side kept
\* back could have changed it.
THEOREM RecordedIsBest == Spec => RecordedParentIsBest
<1>1. ASSUME InferenceInv, [Next]_vars, pc = "stable", pc' = "add",
             moved \ {Head(todo), Best.session} = {},
             ~ \E s \in listing \ {Head(todo)} : Skewed(Head(todo), s)
      PROVE  IsParentOf(Head(todo), Best.session)
  <2>1. PICK t, b : t = Head(todo) /\ b = Best.session
    OBVIOUS
  <2>2. EvidenceStable
    BY <1>1 DEF Next, vars, Discover, ReadHistory, ParseTarget, ScreenNext, Scan, Examine, GoOn,
                TimeOut, Conclude, Revalidate, Add, Write, Share
  <2>3. Analysing /\ TypeOK /\ Inferred /\ t \in Session /\ Eligible # {}
    BY <1>1, <2>1 DEF Analysing, InferenceInv, OthersInv, TypeOK, Inferred
  <2>4. Best \in Eligible /\ \A d \in Eligible \ {Best} : Beats(Best, d)
    BY <1>1, <2>3, BestIs
  <2>5. /\ b \in Session /\ b \in listing \ {t} /\ Best = Named(b) /\ PairIs(t, b)
        /\ Related(pairs[{t, b}]) /\ Older(t, b, known)
    BY <1>1, <2>1, <2>3, <2>4, CandidatesAre DEF Eligible, Key
  <2>6. parsed[t] = version[t] /\ parsed[b] = version[b]
    BY <2>1, <2>2 DEF EvidenceStable
  <2>7. \A s \in listing \ {t} : ~Skewed(t, s)
    BY <1>1, <2>1
  <2>8. pairs[{t, b}] = Shared(t, b)
    BY <1>1, <2>3, <2>5, <2>6, <2>7, ComparedIsCurrent
  <2>9. May(t, b)
    BY <2>5, <2>8 DEF May
  <2>10. ASSUME NEW r \in Session \ {b}, May(t, r)
         PROVE  /\ ~Above(Shared(t, r), Shared(t, b))
                /\ \/ Above(Shared(t, b), Shared(t, r))
                   \/ Shared(t, r).boundary # Shared(t, b).boundary
    <3>1. r \notin moved
      BY <1>1, <2>1, <2>10 DEF May
    <3>2. Named(r) \in Eligible /\ pairs[{t, r}] = Shared(t, r)
      BY <1>1, <2>1, <2>2, <2>7, <2>10, <3>1, RelatedIsNamed
    <3> DEFINE d == Named(r)
    <3>3. /\ d.session = r /\ d.shared = Shared(t, r).shared
          /\ d.substantive = Shared(t, r).substantive /\ d.boundary = Shared(t, r).boundary
      BY <2>1, <3>2 DEF Named, Candidate, Key
    <3>4. /\ Best.shared = Shared(t, b).shared /\ Best.boundary = Shared(t, b).boundary
          /\ Best.substantive = Shared(t, b).substantive
      BY <2>1, <2>5, <2>8 DEF Named, Candidate, Key
    <3>5. /\ d.shared \in Nat /\ d.substantive \in Nat
          /\ Best.shared \in Nat /\ Best.substantive \in Nat
      BY <1>1, <2>3, <2>4, <3>2, CandidatesAre DEF Eligible
    <3>6. d # Best
      BY <2>1, <2>10, <3>3
    <3>7. Beats(Best, d)
      BY <2>4, <3>2, <3>6
    <3>8. d \notin Peers(Best)
      BY <2>3, <3>6 DEF Inferred
    <3> HIDE DEF d
    <3>9. Above(Best, d) \/ Above(d, Best) \/ d.boundary # Best.boundary
      BY <3>2, <3>8 DEF Peers, d
    <3>10. ~Above(d, Best)
      BY <3>5, <3>7 DEF Beats, Above
    <3>11. QED
      BY <3>3, <3>4, <3>9, <3>10 DEF Above
  <2>11. QED
    BY <2>1, <2>9, <2>10 DEF IsParentOf
<1>2. InferenceInv /\ [Next]_vars =>
          [pc = "stable" /\ pc' = "add" =>
              \/ IsParentOf(Head(todo), Best.session)
              \/ moved \ {Head(todo), Best.session} # {}
              \/ \E s \in listing \ {Head(todo)} : Skewed(Head(todo), s)]_vars
  BY <1>1
<1>3. QED
  BY <1>2, InferenceInvariant, PTL DEF Spec, RecordedParentIsBest
=============================================================================
