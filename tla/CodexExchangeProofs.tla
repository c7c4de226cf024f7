------------------------ MODULE CodexExchangeProofs ------------------------
(***************************************************************************)
(* The exchange with the Codex app-server implements NameLookup and leaves *)
(* no server behind, for any threads, names, limits and faults.            *)
(*                                                                         *)
(* Why a listing that is read while threads move can be relied on: at any  *)
(* time every thread that bears the name and has not been touched is among *)
(* the candidates, in the answer under way, or below the cursor (Covered). *)
(***************************************************************************)
EXTENDS CodexExchange, FiniteSetTheorems, SequenceTheorems, TLAPS

Listing == [id : Thread, name : Name]
Cursors == Nat \cup {None}
Messages == [kind : {"result", "error", "notice", "malformed"}, id : Cursors,
             data : SUBSET Listing, next : Cursors]
Requests == [id : Nat \ {0}, cursor : Cursors]

\* What a sequence holds.
Held(q) == {q[i] : i \in 1..Len(q)}

TypeOK ==
    /\ name \in [Thread -> Name] /\ updated \in [Thread -> Nat]
    /\ bore \in [Thread -> SUBSET Name] /\ moved \subseteq Thread
    /\ asked \in Name \cup Thread /\ touches \in Nat
    /\ requests \in Seq(Requests) /\ stdout \in Seq(Messages) /\ inbox \in Seq(Messages)
    /\ request \in Nat \ {0} /\ cursor \in Cursors /\ seen \subseteq Nat
    /\ candidates \subseteq Listing
    /\ server \in {"none", "running", "exited", "reaped"}
    /\ pc \in {"spawn", "send", "await", "close", "terminate", "kill", "shut", "decide"}
                \cup Ended

\* A thread that was not touched has borne one name.
WorldInv ==
    \A t \in Thread : name[t] \in bore[t] /\ (t \notin moved => bore[t] = {name[t]})

\* There is a server between its start and its end, and only then.
ServerInv ==
    /\ pc = "spawn" => server = "none"
    /\ pc \in {"shut", "decide", "done"} => server \in {"none", "reaped"}
    /\ pc # "killed"

\* A listing says a name the thread has borne.
Truthful(data) == \A l \in data : l.name \in bore[l.id]

Shown(data, t) == \E l \in data : l.id = t /\ l.name = asked

\* No thread that has to be seen is missing: it is shown, or below the cursor.
Covered(data, c) ==
    \A t \in Thread : Lookup!MustBeSeen(t) => Shown(data, t) \/ updated[t] < c

Complete(data) == \A t \in Thread : Lookup!MustBeSeen(t) => Shown(data, t)

\* The request under way is the only one, and is not answered yet.
RequestInv ==
    /\ pc \notin {"send", "await"} => Held(stdout) = {} /\ Held(inbox) = {}
    /\ pc # "await" => requests = <<>>
    /\ requests # <<>> => requests = <<[id |-> request, cursor |-> cursor]>>
    /\ \A m \in Held(stdout) \cup Held(inbox) :
          m.id = None \/ m.id < request \/ (m.id = request /\ pc = "await" /\ requests = <<>>)

\* What the pages that were read amount to.
PagingInv ==
    pc \in {"spawn", "send", "await"} =>
        /\ cursor # None => cursor \in seen
        /\ Truthful(candidates)
        /\ request = 1 => cursor = None
        /\ asked \in Name => /\ \A l \in candidates : l.name = asked
                             /\ cursor # None => Covered(candidates, cursor)

\* An answer to the request under way: the first says nothing, any other goes
\* on behind the cursor, ends the listing or is a page that was there before.
Settles(m) ==
    IF request = 1 THEN m.next = None
    ELSE asked \in Name =>
            \/ m.next \in seen
            \/ m.next # None /\ Covered(candidates \cup m.data, m.next)
            \/ m.next = None /\ Complete(candidates \cup m.data)

MessageInv ==
    \A m \in Held(stdout) \cup Held(inbox) :
        /\ Truthful(m.data)
        /\ m.id # None => m.kind \in {"result", "error"}
        /\ m.id = request /\ m.kind = "result" => Settles(m)

\* The exchange yields what was asked for, or a refusal.
ResultInv ==
    pc \in {"close", "terminate", "kill", "shut", "decide"} /\ found # Refused =>
        /\ found \subseteq Listing /\ Truthful(found)
        /\ asked \in Thread => {l.id : l \in found} = {asked}
        /\ asked \in Name => (\A l \in found : l.name = asked) /\ Complete(found)

ExchangeInv == /\ TypeOK /\ WorldInv /\ ServerInv /\ RequestInv /\ PagingInv
               /\ MessageInv /\ ResultInv

-----------------------------------------------------------------------------
\* A set of numbers that is not empty has a least one: the intervals up to its
\* members are well-founded under inclusion.
LEMMA LeastNumber ==
    ASSUME NEW S \in SUBSET Nat, S # {}
    PROVE  \E n \in S : \A m \in S : n <= m
<1> DEFINE UpTo == {1..n : n \in S}
<1>1. IsWellFoundedOn(StrictSubsetOrdering(Nat), FiniteSubsetsOf(Nat))
  BY FS_StrictSubsetOrderingWellFounded
<1>2. UpTo \subseteq FiniteSubsetsOf(Nat) /\ UpTo # {}
  <2>1. \A n \in S : n \in Int /\ 1 \in Int
    OBVIOUS
  <2>2. \A n \in S : IsFiniteSet(1..n)
    BY <2>1, FS_Interval
  <2>3. \A n \in S : 1..n \in SUBSET Nat
    OBVIOUS
  <2>4. QED
    BY <2>2, <2>3 DEF FiniteSubsetsOf
<1>3. PICK b \in UpTo : \A a \in UpTo : <<a, b>> \notin StrictSubsetOrdering(Nat)
  BY <1>1, <1>2, WFMin
<1>4. PICK n \in S : b = 1..n
  OBVIOUS
<1>5. ASSUME NEW m \in S, m < n PROVE FALSE
  <2>1. 1..m \subseteq 1..n /\ n \in 1..n /\ n \notin 1..m
    BY <1>5
  <2>2. <<1..m, b>> \in StrictSubsetOrdering(Nat)
    BY <1>4, <2>1 DEF StrictSubsetOrdering
  <2>3. QED
    BY <1>3, <2>2
<1>6. QED
  BY <1>5

\* What sequences hold when they are appended to, joined and cut.
LEMMA HeldByEmpty == Held(<<>>) = {}
BY DEF Held

\* A pipe with one more line holds that line besides.
LEMMA HeldByAppend ==
    ASSUME NEW S, NEW q \in Seq(S), NEW e \in S
    PROVE  Append(q, e) \in Seq(S) /\ Held(Append(q, e)) = Held(q) \cup {e}
BY AppendProperties, LenProperties DEF Held

\* Two stretches of a pipe hold what each of them holds.
LEMMA HeldByConcat ==
    ASSUME NEW S, NEW q \in Seq(S), NEW r \in Seq(S)
    PROVE  q \o r \in Seq(S) /\ Held(q \o r) \subseteq Held(q) \cup Held(r)
<1>1. Len(q) \in Nat /\ Len(r) \in Nat
  BY LenProperties
<1>2. /\ q \o r \in Seq(S) /\ Len(q \o r) = Len(q) + Len(r)
      /\ \A i \in 1..(Len(q) + Len(r)) :
            (q \o r)[i] = IF i <= Len(q) THEN q[i] ELSE r[i - Len(q)]
  BY ConcatProperties
<1>3. ASSUME NEW i \in 1..(Len(q) + Len(r)) PROVE (q \o r)[i] \in Held(q) \cup Held(r)
  <2>1. CASE i <= Len(q)
    BY <1>1, <1>2, <2>1 DEF Held
  <2>2. CASE i > Len(q)
    <3>1. i - Len(q) \in 1..Len(r)
      BY <1>1, <2>2
    <3>2. QED
      BY <1>1, <1>2, <2>2, <3>1 DEF Held
  <2>3. QED
    BY <1>1, <2>1, <2>2
<1>4. QED
  BY <1>2, <1>3 DEF Held

\* Reading a stretch of a pipe brings nothing new.
LEMMA HeldBySubSeq ==
    ASSUME NEW S, NEW q \in Seq(S), NEW i \in Nat \ {0}, NEW j \in Nat, j <= Len(q)
    PROVE  SubSeq(q, i, j) \in Seq(S) /\ Held(SubSeq(q, i, j)) \subseteq Held(q)
<1>1. Len(q) \in Nat /\ \A k \in 1..Len(q) : q[k] \in S
  BY LenProperties, ElementOfSeq
<1>2. \A k \in i..j : q[k] \in S
  BY <1>1
<1>3. /\ SubSeq(q, i, j) \in Seq(S)
      /\ Len(SubSeq(q, i, j)) = IF i <= j THEN j - i + 1 ELSE 0
      /\ \A k \in 1..(j - i + 1) : SubSeq(q, i, j)[k] = q[i + k - 1]
  BY <1>2, SubSeqProperties
<1>4. ASSUME NEW k \in 1..(j - i + 1) PROVE SubSeq(q, i, j)[k] \in Held(q)
  <2>1. i + k - 1 \in 1..Len(q)
    BY <1>1
  <2>2. QED
    BY <1>3, <2>1 DEF Held
<1>5. QED
  BY <1>3, <1>4 DEF Held

\* A line, once or twice, is a pipe that holds just that line.
LEMMA HeldByShort ==
    ASSUME NEW S, NEW e \in S
    PROVE  /\ <<e>> \in Seq(S) /\ Held(<<e>>) = {e}
           /\ <<e, e>> \in Seq(S) /\ Held(<<e, e>>) = {e}
<1>1. Len(<<e>>) = 1 /\ <<e>>[1] = e /\ Len(<<e, e>>) = 2 /\ <<e, e>>[1] = e /\ <<e, e>>[2] = e
  OBVIOUS
<1>2. QED
  BY <1>1 DEF Held

\* The first of some places of a sequence is one of them.
LEMMA FirstIsOne ==
    ASSUME NEW S \in SUBSET Nat, S # {}
    PROVE  FirstOf(S) \in S
BY LeastNumber DEF FirstOf

-----------------------------------------------------------------------------
\* Before anything is sent there is nothing to be wrong about.
LEMMA InitExchange == Init => ExchangeInv
<1> SUFFICES ASSUME Init PROVE ExchangeInv
  OBVIOUS
<1>1. \A t \in Thread : updated[t] \in Nat
  <2>1. Cardinality(Thread) \in Nat
    BY ExchangeAssumption, FS_CardinalityType DEF ExchangeAssumption
  <2>2. updated \in [Thread -> 1..Cardinality(Thread)]
    BY DEF Init
  <2>3. QED
    BY <2>1, <2>2
<1>2. TypeOK
  <2>1. updated \in [Thread -> Nat]
    BY <1>1 DEF Init
  <2>2. <<>> \in Seq(Requests) /\ <<>> \in Seq(Messages)
    BY EmptySeq
  <2>3. /\ name \in [Thread -> Name] /\ bore = [t \in Thread |-> {name[t]}] /\ moved = {}
        /\ asked \in Name \cup Thread /\ touches = 0 /\ request = 1 /\ cursor = None
        /\ seen = {} /\ candidates = {} /\ server = "none" /\ pc = "spawn"
        /\ requests = <<>> /\ stdout = <<>> /\ inbox = <<>>
    BY DEF Init
  <2>4. bore \in [Thread -> SUBSET Name]
    BY <2>3
  <2>5. QED
    BY <2>1, <2>2, <2>3, <2>4 DEF TypeOK, Cursors
<1>3. WorldInv
  BY DEF Init, WorldInv
<1>4. ServerInv
  BY DEF Init, ServerInv
<1>5. RequestInv /\ PagingInv /\ MessageInv /\ ResultInv
  BY HeldByEmpty DEF Init, RequestInv, PagingInv, Truthful, MessageInv, ResultInv
<1>6. QED
  BY <1>2, <1>3, <1>4, <1>5 DEF ExchangeInv

\* What a result of the exchange has to be.
ResultOK(result) ==
    result # Refused =>
        /\ result \subseteq Listing /\ Truthful(result)
        /\ asked \in Thread => {l.id : l \in result} = {asked}
        /\ asked \in Name => (\A l \in result : l.name = asked) /\ Complete(result)

\* An exchange that is over has a sound result and holds nothing else.
LEMMA OverKeepsInv ==
    ASSUME ExchangeInv, NEW result, Over(result), ResultOK(result),
           UNCHANGED <<world, asked, server>>
    PROVE  ExchangeInv'
<1> USE DEF ExchangeInv, Over, world
<1>1. <<>> \in Seq(Requests) /\ <<>> \in Seq(Messages)
  BY EmptySeq
<1>2. TypeOK'
  BY <1>1 DEF TypeOK, Cursors
<1>3. WorldInv' /\ ServerInv' /\ PagingInv'
  BY DEF WorldInv, ServerInv, PagingInv
<1>4. RequestInv' /\ MessageInv'
  BY HeldByEmpty DEF RequestInv, MessageInv
<1>5. ResultInv'
  BY DEF ResultInv, ResultOK, Truthful, Complete, Shown, Lookup!MustBeSeen
<1>6. QED
  BY <1>2, <1>3, <1>4, <1>5

\* Ending the server, and deciding, leave the result as it is.
Ends ==
    /\ pc \in {"close", "terminate", "kill", "shut", "decide"}
    /\ pc' \in {"close", "terminate", "kill", "shut", "decide", "done", "escaped"}
    /\ server' \in {server, "exited", "reaped"}
    /\ pc' \in {"shut", "decide", "done"} => server' \in {"none", "reaped"}
    /\ UNCHANGED <<world, asked, wires, inbox, request, paging, found>>

\* Ending the server keeps the invariant.
LEMMA EndKeepsInv ==
    ASSUME ExchangeInv, Ends
    PROVE  ExchangeInv'
<1> USE DEF ExchangeInv, Ends, world, wires, paging
<1>1. TypeOK'
  BY DEF TypeOK, Ended
<1>2. WorldInv' /\ ServerInv' /\ PagingInv'
  BY DEF WorldInv, ServerInv, PagingInv
<1>3. RequestInv' /\ MessageInv'
  BY DEF RequestInv, MessageInv
<1>4. ResultInv'
  BY DEF ResultInv, Truthful, Complete, Shown, Lookup!MustBeSeen
<1>5. QED
  BY <1>1, <1>2, <1>3, <1>4

\* The finally clause and the decision after it keep the invariant.
LEMMA ClosingKeepsInv ==
    ASSUME ExchangeInv, Close \/ Wait \/ Shut \/ Decide
    PROVE  ExchangeInv'
<1>1. Ends
  BY DEF Ends, Close, Wait, Shut, Decide, Reaps, Ignored, ExchangeInv, ServerInv
<1>2. QED
  BY <1>1, EndKeepsInv

\* The deadline, a server that is gone, a write that fails.
LEMMA FailingKeepsInv ==
    ASSUME ExchangeInv, Hopeless \/ Expire
    PROVE  ExchangeInv'
<1>1. ResultOK(Refused)
  BY DEF ResultOK
<1>2. QED
  BY <1>1, OverKeepsInv DEF Hopeless, Expire, Fails

\* A server is started, or cannot be.
LEMMA SpawnKeepsInv ==
    ASSUME ExchangeInv, Spawn
    PROVE  ExchangeInv'
<1> USE DEF ExchangeInv, Spawn, world, wires, paging
<1>1. pc = "spawn" /\ pc' \in {"send", "decide"}
  OBVIOUS
<1>2. TypeOK'
  BY DEF TypeOK
<1>3. WorldInv' /\ ServerInv'
  BY DEF WorldInv, ServerInv
<1>4. RequestInv' /\ MessageInv'
  BY DEF RequestInv, MessageInv
<1>5. PagingInv'
  <2>1. pc = "spawn" /\ UNCHANGED <<cursor, seen, candidates, request, asked, bore, moved, updated>>
    OBVIOUS
  <2>2. QED
    BY <2>1 DEF PagingInv, Truthful, Covered, Shown, Lookup!MustBeSeen
<1>6. ResultInv'
  BY DEF ResultInv
<1>7. QED
  BY <1>2, <1>3, <1>4, <1>5, <1>6

\* A request is on its way, or cannot be written.
LEMMA SendKeepsInv ==
    ASSUME ExchangeInv, Send
    PROVE  ExchangeInv'
<1> USE DEF ExchangeInv, Send
<1>1. CASE server = "running"
  <2>1. /\ pc = "send" /\ pc' = "await"
        /\ requests' = Append(requests, [id |-> request, cursor |-> cursor])
        /\ UNCHANGED <<world, asked, server, stdout, inbox, request, paging, found>>
    BY <1>1
  <2>2. requests = <<>> /\ requests' = <<[id |-> request, cursor |-> cursor]>>
    BY <2>1 DEF RequestInv
  <2>3. [id |-> request, cursor |-> cursor] \in Requests
    BY DEF TypeOK, Requests
  <2>4. requests' \in Seq(Requests) /\ requests' # <<>>
    BY <2>2, <2>3
  <2>5. TypeOK'
    BY <2>1, <2>4 DEF TypeOK, world, paging
  <2>6. WorldInv' /\ ServerInv' /\ ResultInv'
    BY <2>1 DEF WorldInv, ServerInv, ResultInv, world
  <2>7. RequestInv'
    BY <2>1, <2>2 DEF RequestInv, paging
  <2>8. PagingInv' /\ MessageInv'
    BY <2>1 DEF PagingInv, MessageInv, Truthful, Settles, Covered, Complete, Shown,
               Lookup!MustBeSeen, world, paging
  <2>9. QED
    BY <2>5, <2>6, <2>7, <2>8
<1>2. CASE server = "exited"
  <2>1. Over(Refused) /\ ResultOK(Refused)
    BY <1>2 DEF Fails, Ignored, ResultOK
  <2>2. QED
    BY <2>1, OverKeepsInv
<1>3. QED
  BY <1>1, <1>2

\* A server that dies takes no promise with it.
LEMMA ExitKeepsInv ==
    ASSUME ExchangeInv, Exit
    PROVE  ExchangeInv'
<1>1. /\ server = "running" /\ server' = "exited"
      /\ UNCHANGED <<name, updated, bore, moved, touches, asked, requests, stdout, inbox, pc,
                     request, cursor, seen, candidates, found>>
  BY DEF Exit, world, wires, paging
<1>2. TypeOK'
  BY <1>1 DEF ExchangeInv, TypeOK
<1>3. WorldInv' /\ RequestInv' /\ ServerInv'
  BY <1>1 DEF ExchangeInv, WorldInv, RequestInv, ServerInv
<1>4. PagingInv' /\ MessageInv' /\ ResultInv'
  BY <1>1 DEF ExchangeInv, PagingInv, MessageInv, ResultInv, Truthful, Settles, Covered,
              Complete, Shown, Lookup!MustBeSeen
<1>5. QED
  BY <1>2, <1>3, <1>4 DEF ExchangeInv

\* What a touch leaves true: listings stay truthful, and a thread that must be
\* seen still bears the name it was listed with and has not moved up.
LEMMA TouchFrame ==
    ASSUME ExchangeInv, NEW t \in Thread, Touch(t)
    PROVE  /\ \A u \in Thread : bore[u] \subseteq bore'[u]
           /\ \A u \in Thread : Lookup!MustBeSeen(u)' =>
                 Lookup!MustBeSeen(u) /\ updated'[u] = updated[u]
           /\ TypeOK' /\ WorldInv'
<1> USE DEF ExchangeInv, TypeOK, Touch
<1>1. PICK n \in Name : name' = [name EXCEPT ![t] = n] /\ bore' = [bore EXCEPT ![t] = @ \cup {n}]
  OBVIOUS
<1>2. Cardinality(Thread) + touches' \in Nat /\ touches' \in Nat
  BY ExchangeAssumption, FS_CardinalityType DEF ExchangeAssumption
<1>3. updated' = [updated EXCEPT ![t] = Cardinality(Thread) + touches'] /\ moved' = moved \cup {t}
      /\ asked' = asked
  OBVIOUS
<1>4. \A u \in Thread : u # t => name'[u] = name[u] /\ bore'[u] = bore[u] /\ updated'[u] = updated[u]
  BY <1>1, <1>3
<1>5. \A u \in Thread : bore[u] \subseteq bore'[u]
  BY <1>1
<1>6. \A u \in Thread : Lookup!MustBeSeen(u)' =>
         Lookup!MustBeSeen(u) /\ updated'[u] = updated[u]
  BY <1>3, <1>4 DEF Lookup!MustBeSeen
<1>7. name' \in [Thread -> Name] /\ bore' \in [Thread -> SUBSET Name]
  BY <1>1
<1>8. updated' \in [Thread -> Nat]
  BY <1>2, <1>3
<1>9. TypeOK'
  BY <1>2, <1>3, <1>7, <1>8 DEF wires, paging
<1>10. WorldInv'
  BY <1>1, <1>3, <1>4 DEF WorldInv
<1>11. QED
  BY <1>5, <1>6, <1>9, <1>10

\* A renamed or updated thread only adds to what a lookup may see.
LEMMA TouchKeepsInv ==
    ASSUME ExchangeInv, NEW t \in Thread, Touch(t)
    PROVE  ExchangeInv'
<1> USE DEF ExchangeInv
<1>1. /\ UNCHANGED <<asked, server, wires, inbox, pc, request, paging, found>>
      /\ pc \in {"spawn", "send", "await"}
  BY DEF Touch, Listening
<1>2. /\ \A u \in Thread : bore[u] \subseteq bore'[u]
      /\ \A u \in Thread : Lookup!MustBeSeen(u)' =>
            Lookup!MustBeSeen(u) /\ updated'[u] = updated[u]
      /\ TypeOK' /\ WorldInv'
  BY TouchFrame
<1>3. \A data \in SUBSET Listing : Truthful(data) => Truthful(data)'
  BY <1>2 DEF Truthful, Listing
<1>4. \A data \in SUBSET Listing, c \in Nat : Covered(data, c) => Covered(data, c)'
  BY <1>1, <1>2 DEF Covered, Shown
<1>5. \A data \in SUBSET Listing : Complete(data) => Complete(data)'
  BY <1>1, <1>2 DEF Complete, Shown
<1>6. ServerInv' /\ RequestInv' /\ ResultInv'
  BY <1>1 DEF ServerInv, RequestInv, ResultInv, wires, paging
<1>7. PagingInv'
  BY <1>1, <1>3, <1>4 DEF PagingInv, TypeOK, Cursors, paging
<1>8. MessageInv'
  <2> SUFFICES ASSUME NEW m \in Held(stdout) \cup Held(inbox)
               PROVE  /\ Truthful(m.data)'
                      /\ m.id # None => m.kind \in {"result", "error"}
                      /\ m.id = request /\ m.kind = "result" => Settles(m)'
    BY <1>1 DEF MessageInv, wires, paging
  <2>1. m \in Messages
    BY ElementOfSeq DEF TypeOK, Held
  <2>2. m.data \in SUBSET Listing /\ candidates \cup m.data \in SUBSET Listing /\ m.next \in Cursors
    BY <2>1 DEF Messages, TypeOK
  <2>3. QED
    BY <1>1, <1>3, <1>4, <1>5, <2>2 DEF MessageInv, Settles, Cursors, paging
<1>9. QED
  BY <1>2, <1>6, <1>7, <1>8

-----------------------------------------------------------------------------
\* A message that may arrive: a listing is truthful, and an answer to the
\* request under way settles it.
Sound(m) ==
    /\ m \in Messages /\ Truthful(m.data)
    /\ m.id \in {None, request}
    /\ m.id # None => m.kind \in {"result", "error"}
    /\ m.id = request /\ m.kind = "result" => Settles(m)

\* Sound lines that arrive at the client keep the invariant.
LEMMA ArrivalKeepsInv ==
    ASSUME ExchangeInv, NEW new, \A m \in new : Sound(m),
           stdout' \in Seq(Messages), Held(stdout') \subseteq Held(stdout) \cup new,
           \/ requests' = requests /\ \A m \in new : m.id = None
           \/ requests' = <<>> /\ pc = "await",
           pc \in {"send", "await"},
           UNCHANGED <<world, asked, server, inbox, pc, request, paging, found>>
    PROVE  ExchangeInv'
<1>1. UNCHANGED <<name, updated, bore, moved, touches, asked, server, inbox, pc, request,
                  cursor, seen, candidates, found>>
  BY DEF world, paging
<1>2. TypeOK'
  <2>1. requests' \in Seq(Requests)
    BY EmptySeq DEF ExchangeInv, TypeOK
  <2>2. QED
    BY <1>1, <2>1 DEF ExchangeInv, TypeOK
<1>3. WorldInv' /\ ServerInv' /\ ResultInv'
  BY <1>1 DEF ExchangeInv, WorldInv, ServerInv, ResultInv
<1>4. PagingInv'
  BY <1>1 DEF ExchangeInv, PagingInv, Truthful, Covered, Shown, Lookup!MustBeSeen
<1>5. \A m \in Held(stdout') \cup Held(inbox') : m \in Held(stdout) \cup Held(inbox) \cup new
  BY <1>1
<1>6. RequestInv'
  <2>1. None # request
    BY ExchangeAssumption DEF ExchangeAssumption, ExchangeInv, TypeOK
  <2>2. QED
    BY <1>1, <1>5, <2>1 DEF ExchangeInv, RequestInv, Sound
<1>7. MessageInv'
  <2> SUFFICES ASSUME NEW m \in Held(stdout') \cup Held(inbox')
               PROVE  /\ Truthful(m.data)'
                      /\ m.id # None => m.kind \in {"result", "error"}
                      /\ m.id = request /\ m.kind = "result" => Settles(m)'
    BY <1>1 DEF MessageInv
  <2>1. Truthful(m.data) /\ (m.id # None => m.kind \in {"result", "error"})
        /\ (m.id = request /\ m.kind = "result" => Settles(m))
    BY <1>5 DEF ExchangeInv, MessageInv, Sound
  <2>2. QED
    BY <1>1, <2>1 DEF Truthful, Settles, Covered, Complete, Shown, Lookup!MustBeSeen
<1>8. QED
  BY <1>2, <1>3, <1>4, <1>6, <1>7 DEF ExchangeInv

\* A page goes on where the cursor left off: a thread that must be seen and is
\* neither on it nor was shown before is below its end.
LEMMA PageSettles ==
    ASSUME ExchangeInv, pc = "await", asked \in Name, request # 1,
           NEW S \in Pages(cursor), NEW m,
           m.data = {Listed(t) : t \in S}, m.next = EndOf(S, cursor)
    PROVE  m.next \in Cursors /\ Settles(m)
<1>1. S \in SUBSET Left(cursor) /\ Left(cursor) \subseteq Thread
      /\ (S = {} => Left(cursor) = {})
      /\ \A t \in S, u \in Left(cursor) \ S : updated[t] > updated[u]
  BY DEF Pages, Left
<1>2. \A u \in Thread : Lookup!MustBeSeen(u) =>
         \/ Shown(candidates, u)
         \/ u \in Left(cursor)
  BY DEF ExchangeInv, PagingInv, Covered, Left
<1>3. \A u \in S : Lookup!MustBeSeen(u) => Shown(m.data, u)
  <2> SUFFICES ASSUME NEW u \in S, Lookup!MustBeSeen(u) PROVE Shown(m.data, u)
    OBVIOUS
  <2>1. name[u] = asked
    BY <1>1 DEF ExchangeInv, WorldInv, Lookup!MustBeSeen
  <2>2. Listed(u) \in m.data /\ Listed(u).id = u /\ Listed(u).name = name[u]
    BY DEF Listed
  <2>3. QED
    BY <2>1, <2>2 DEF Shown
<1>4. \A u \in Thread : Shown(candidates, u) \/ Shown(m.data, u) => Shown(candidates \cup m.data, u)
  BY DEF Shown
<1>5. CASE S = Left(cursor)
  <2>1. m.next = None
    BY <1>5 DEF EndOf
  <2>2. Complete(candidates \cup m.data)
    BY <1>2, <1>3, <1>4, <1>5 DEF Complete
  <2>3. QED
    BY <2>1, <2>2 DEF Settles, Cursors
<1>6. CASE S # Left(cursor)
  <2> DEFINE times == {updated[t] : t \in S}
  <2>0. updated \in [Thread -> Nat] /\ S \subseteq Thread
    BY <1>1 DEF ExchangeInv, TypeOK
  <2>1. times \in SUBSET Nat /\ times # {}
    <3>1. \A t \in S : updated[t] \in Nat
      BY <2>0
    <3>2. S # {}
      BY <1>1, <1>6
    <3>3. QED
      BY <3>1, <3>2
  <2>2. m.next = CHOOSE n \in times : \A t \in S : n <= updated[t]
    BY <1>6 DEF EndOf
  <2>3. \E n \in times : \A t \in S : n <= updated[t]
    <3> HIDE DEF times
    <3>1. PICK n \in times : \A k \in times : n <= k
      BY <2>1, LeastNumber
    <3>2. \A t \in S : updated[t] \in times
      BY DEF times
    <3>3. QED
      BY <3>1, <3>2
  <2>4. m.next \in times
    BY <2>2, <2>3
  <2>5. m.next \in Nat /\ m.next # None
    BY <2>1, <2>4, ExchangeAssumption DEF ExchangeAssumption
  <2>6. \A u \in Left(cursor) \ S : updated[u] < m.next
    BY <1>1, <2>4 DEF ExchangeInv, TypeOK
  <2>7. Covered(candidates \cup m.data, m.next)
    BY <1>2, <1>3, <1>4, <2>6 DEF Covered
  <2>8. QED
    BY <2>5, <2>7 DEF Settles, Cursors
<1>7. QED
  BY <1>5, <1>6

\* Listings are made of what the threads are called.
LEMMA ListedIsTrue ==
    ASSUME ExchangeInv, NEW S \in SUBSET Thread
    PROVE  LET data == {Listed(t) : t \in S}
           IN  data \in SUBSET Listing /\ Truthful(data)
<1>1. \A t \in S : name[t] \in Name /\ name[t] \in bore[t]
  BY DEF ExchangeInv, TypeOK, WorldInv
<1>2. \A t \in S : Listed(t) \in Listing /\ Listed(t).id = t /\ Listed(t).name = name[t]
  BY <1>1 DEF Listed, Listing
<1>3. QED
  BY <1>1, <1>2 DEF Truthful

\* A result with a truthful listing that settles the request may arrive.
LEMMA ResultIsSound ==
    ASSUME ExchangeInv, NEW S \in SUBSET Thread, NEW next \in Cursors, NEW m,
           m = Message("result", request, {Listed(t) : t \in S}, next), Settles(m)
    PROVE  Sound(m)
<1>1. request \in Nat /\ {Listed(t) : t \in S} \in SUBSET Listing /\ Truthful({Listed(t) : t \in S})
  BY ListedIsTrue DEF ExchangeInv, TypeOK
<1>2. /\ m.kind = "result" /\ m.id = request /\ m.data = {Listed(t) : t \in S} /\ m.next = next
      /\ m \in Messages
  BY <1>1 DEF Message, Messages, Cursors
<1>3. QED
  BY <1>1, <1>2 DEF Sound

\* Messages that list nothing may arrive as well.
LEMMA EmptyIsSound ==
    ASSUME ExchangeInv, NEW kind, NEW id, NEW m, m = Message(kind, id, {}, None),
           \/ kind \in {"error", "notice", "malformed"} /\ id = None
           \/ kind = "error" /\ id = request
           \/ kind = "result" /\ id = request /\ request = 1
    PROVE  Sound(m)
<1>1. /\ m.kind = kind /\ m.id = id /\ m.data = {} /\ m.next = None
      /\ m \in Messages /\ request \in Nat /\ request # None
  BY ExchangeAssumption DEF ExchangeAssumption, ExchangeInv, TypeOK, Message, Messages, Cursors
<1>2. QED
  BY <1>1 DEF Sound, Truthful, Settles

\* Whatever the server answers to the request under way may arrive.
LEMMA AnswersAreSound ==
    ASSUME ExchangeInv, pc = "await", NEW r, r = [id |-> request, cursor |-> cursor],
           NEW m \in Answers(r)
    PROVE  Sound(m)
<1>1. r.id = request /\ r.cursor = cursor /\ asked \in Name \cup Thread /\ None \in Cursors
  BY DEF ExchangeInv, TypeOK, Cursors
<1>2. CASE request = 1
  <2>1. m = Message("result", request, {}, None)
    BY <1>1, <1>2 DEF Answers
  <2>2. QED
    BY <1>2, <2>1, EmptyIsSound
<1>3. CASE request # 1 /\ asked \in Thread
  <2>1. m = Message("result", request, {Listed(t) : t \in {asked}}, None) /\ asked \notin Name
    BY <1>1, <1>3, ExchangeAssumption DEF Answers, ExchangeAssumption
  <2>2. Settles(m)
    BY <1>3, <2>1 DEF Settles
  <2>3. QED
    BY <1>1, <1>3, <2>1, <2>2, ResultIsSound
<1>4. CASE request # 1 /\ asked \in Name
  <2>1. asked \notin Thread
    BY <1>4, ExchangeAssumption DEF ExchangeAssumption
  <2>2. PICK S \in Pages(cursor) :
           m = Message("result", request, {Listed(t) : t \in S}, EndOf(S, cursor))
    BY <1>1, <1>4, <2>1 DEF Answers
  <2>3. m.data = {Listed(t) : t \in S} /\ m.next = EndOf(S, cursor)
    BY <2>2 DEF Message
  <2>4. m.next \in Cursors /\ Settles(m)
    BY <1>4, <2>3, PageSettles
  <2>5. S \in SUBSET Thread
    BY DEF Pages, Left
  <2>6. QED
    BY <2>2, <2>3, <2>4, <2>5, ResultIsSound
<1>5. QED
  BY <1>1, <1>2, <1>3, <1>4

\* So may everything it says in place of an answer.
LEMMA MisbehaviourIsSound ==
    ASSUME ExchangeInv, pc = "await", NEW r, r = [id |-> request, cursor |-> cursor],
           NEW q \in Misbehaviour(r)
    PROVE  q \in Seq(Messages) /\ \A m \in Held(q) : Sound(m)
<1>1. r.id = request /\ r.cursor = cursor /\ asked \in Name \cup Thread /\ None \in Cursors
  BY DEF ExchangeInv, TypeOK, Cursors
<1>2. ASSUME NEW m, Sound(m), q = <<m>> \/ q = <<m, m>>
      PROVE  q \in Seq(Messages) /\ \A n \in Held(q) : Sound(n)
  <2>1. m \in Messages
    BY <1>2 DEF Sound
  <2>2. QED
    BY <1>2, <2>1, HeldByShort
<1>3. CASE q = <<Message("error", r.id, {}, None)>>
  <2>1. Sound(Message("error", request, {}, None))
    BY EmptyIsSound
  <2>2. QED
    BY <1>1, <1>2, <1>3, <2>1
<1>4. CASE q = <<Message("malformed", None, {}, None)>>
  <2>1. Sound(Message("malformed", None, {}, None))
    BY EmptyIsSound
  <2>2. QED
    BY <1>2, <1>4, <2>1
<1>5. CASE /\ asked \in Thread
           /\ \E t \in Thread : q = <<Message("result", r.id, {Listed(t)}, None)>>
  <2>1. PICK t \in Thread : q = <<Message("result", r.id, {Listed(t)}, None)>>
    BY <1>5
  <2> DEFINE m == Message("result", request, {Listed(u) : u \in {t}}, None)
  <2>2. q = <<m>>
    BY <1>1, <2>1
  <2>3. Settles(m)
    BY <1>5, ExchangeAssumption DEF Settles, Message, ExchangeAssumption
  <2>4. Sound(m)
    BY <1>1, <2>3, ResultIsSound
  <2>5. QED
    BY <1>2, <2>2, <2>4
<1>6. CASE /\ asked \in Name /\ cursor # None
           /\ \E S \in Pages(None) : q = <<Message("result", r.id, {Listed(t) : t \in S}, cursor)>>
  <2>1. PICK S \in Pages(None) : q = <<Message("result", r.id, {Listed(t) : t \in S}, cursor)>>
    BY <1>6
  <2> DEFINE m == Message("result", request, {Listed(t) : t \in S}, cursor)
  <2>2. S \in SUBSET Thread /\ q = <<m>>
    BY <1>1, <2>1 DEF Pages, Left
  <2>3. cursor \in seen /\ request # 1 /\ cursor \in Cursors
    BY <1>6 DEF ExchangeInv, PagingInv, TypeOK
  <2>4. Settles(m)
    BY <2>3 DEF Settles, Message
  <2>5. Sound(m)
    BY <2>2, <2>3, <2>4, ResultIsSound
  <2>6. QED
    BY <1>2, <2>2, <2>5
<1>7. CASE \E m \in Answers(r) : q = <<m, m>>
  BY <1>2, <1>7, AnswersAreSound
<1>8. QED
  BY <1>1, <1>3, <1>4, <1>5, <1>6, <1>7 DEF Misbehaviour

\* The server answers, one way or another.
LEMMA ServeKeepsInv ==
    ASSUME ExchangeInv, Serve
    PROVE  ExchangeInv'
<1>1. /\ requests # <<>> /\ requests' = Tail(requests)
      /\ UNCHANGED <<world, asked, server, inbox, pc, request, paging, found>>
      /\ \/ \E m \in Answers(Head(requests)) : stdout' = Append(stdout, m)
         \/ \E q \in Misbehaviour(Head(requests)) : stdout' = stdout \o q
  BY DEF Serve
<1> DEFINE r == [id |-> request, cursor |-> cursor]
<1>2. requests = <<r>> /\ pc = "await"
  BY <1>1 DEF ExchangeInv, RequestInv
<1>3. Head(requests) = r /\ requests' = <<>>
  BY <1>1, <1>2
<1>4. stdout \in Seq(Messages)
  BY DEF ExchangeInv, TypeOK
<1> HIDE DEF r
<1>5. PICK new : /\ \A m \in new : Sound(m)
                 /\ stdout' \in Seq(Messages) /\ Held(stdout') \subseteq Held(stdout) \cup new
  <2>1. CASE \E m \in Answers(r) : stdout' = Append(stdout, m)
    <3>1. PICK m \in Answers(r) : stdout' = Append(stdout, m)
      BY <2>1
    <3>2. Sound(m) /\ m \in Messages
      BY <1>2, AnswersAreSound DEF r, Sound
    <3>3. /\ stdout' \in Seq(Messages) /\ Held(stdout') = Held(stdout) \cup {m}
          /\ \A n \in {m} : Sound(n)
      BY <1>4, <3>1, <3>2, HeldByAppend
    <3>4. QED
      BY <3>3
  <2>2. CASE \E q \in Misbehaviour(r) : stdout' = stdout \o q
    <3>1. PICK q \in Misbehaviour(r) : stdout' = stdout \o q
      BY <2>2
    <3>2. q \in Seq(Messages) /\ \A m \in Held(q) : Sound(m)
      BY <1>2, MisbehaviourIsSound DEF r
    <3>3. stdout' \in Seq(Messages) /\ Held(stdout') \subseteq Held(stdout) \cup Held(q)
      BY <1>4, <3>1, <3>2, HeldByConcat
    <3>4. QED
      BY <3>2, <3>3
  <2>3. QED
    BY <1>1, <1>3, <2>1, <2>2
<1>6. QED
  BY <1>1, <1>2, <1>3, <1>5, ArrivalKeepsInv

\* A notice says nothing.
LEMMA NotifyKeepsInv ==
    ASSUME ExchangeInv, Notify
    PROVE  ExchangeInv'
<1>1. /\ server = "running" /\ Listening /\ stdout' = Append(stdout, Notice)
      /\ UNCHANGED <<world, asked, server, requests, inbox, pc, request, paging, found>>
  BY DEF Notify
<1>2. pc \in {"send", "await"}
  BY <1>1 DEF Listening, ExchangeInv, ServerInv
<1>3. Sound(Notice) /\ Notice.id = None /\ Notice \in Messages
  BY EmptyIsSound DEF Notice, Message, Sound
<1>4. PICK new : /\ \A m \in new : Sound(m)
                 /\ \A m \in new : m.id = None
                 /\ stdout' \in Seq(Messages) /\ Held(stdout') \subseteq Held(stdout) \cup new
  <2>1. stdout \in Seq(Messages)
    BY DEF ExchangeInv, TypeOK
  <2>2. stdout' \in Seq(Messages) /\ Held(stdout') = Held(stdout) \cup {Notice}
    BY <1>1, <1>3, <2>1, HeldByAppend
  <2>3. (\A m \in {Notice} : Sound(m)) /\ (\A m \in {Notice} : m.id = None)
    BY <1>3
  <2>4. QED
    BY <2>2, <2>3
<1>5. QED
  BY <1>1, <1>2, <1>4, ArrivalKeepsInv

-----------------------------------------------------------------------------
\* What a turn of response() has read: the inbox and what of stdout came with
\* it hold nothing that was not in one of the two.
LEMMA ReadingFrame ==
    ASSUME ExchangeInv, NEW k \in 0..Len(stdout)
    PROVE  LET all == inbox \o Prefix(k)
               rest == SubSeq(stdout, k + 1, Len(stdout))
           IN  /\ all \in Seq(Messages) /\ Held(all) \subseteq Held(stdout) \cup Held(inbox)
               /\ rest \in Seq(Messages) /\ Held(rest) \subseteq Held(stdout)
<1>1. stdout \in Seq(Messages) /\ inbox \in Seq(Messages) /\ Len(stdout) \in Nat
  BY LenProperties DEF ExchangeInv, TypeOK
<1>2. k \in Nat /\ k <= Len(stdout) /\ k + 1 \in Nat \ {0} /\ 1 \in Nat \ {0}
  BY <1>1
<1>3. Prefix(k) \in Seq(Messages) /\ Held(Prefix(k)) \subseteq Held(stdout)
  BY <1>1, <1>2, HeldBySubSeq DEF Prefix
<1>4. /\ SubSeq(stdout, k + 1, Len(stdout)) \in Seq(Messages)
      /\ Held(SubSeq(stdout, k + 1, Len(stdout))) \subseteq Held(stdout)
  BY <1>1, <1>2, HeldBySubSeq
<1>5. /\ inbox \o Prefix(k) \in Seq(Messages)
      /\ Held(inbox \o Prefix(k)) \subseteq Held(inbox) \cup Held(Prefix(k))
  BY <1>1, <1>3, HeldByConcat
<1>6. QED
  BY <1>3, <1>4, <1>5

\* Taking a message out leaves the others.
LEMMA HeldByWithout ==
    ASSUME NEW S, NEW q \in Seq(S), NEW i \in 1..Len(q)
    PROVE  Without(q, i) \in Seq(S) /\ Held(Without(q, i)) \subseteq Held(q)
<1>1. Len(q) \in Nat /\ i \in Nat /\ i - 1 \in Nat /\ i - 1 <= Len(q) /\ i + 1 \in Nat \ {0}
      /\ 1 \in Nat \ {0}
  BY LenProperties
<1>2. SubSeq(q, 1, i - 1) \in Seq(S) /\ Held(SubSeq(q, 1, i - 1)) \subseteq Held(q)
  BY <1>1, HeldBySubSeq
<1>3. SubSeq(q, i + 1, Len(q)) \in Seq(S) /\ Held(SubSeq(q, i + 1, Len(q))) \subseteq Held(q)
  BY <1>1, HeldBySubSeq
<1> DEFINE before == SubSeq(q, 1, i - 1)
           after == SubSeq(q, i + 1, Len(q))
<1>4. Without(q, i) = before \o after
  BY DEF Without
<1> HIDE DEF before, after
<1>5. before \in Seq(S) /\ after \in Seq(S) /\ Held(before) \cup Held(after) \subseteq Held(q)
  BY <1>2, <1>3 DEF before, after
<1>6. before \o after \in Seq(S) /\ Held(before \o after) \subseteq Held(before) \cup Held(after)
  BY <1>5, HeldByConcat
<1>7. QED
  BY <1>4, <1>5, <1>6

\* The reply that is taken answers the request under way.
LEMMA ReplyIsAnswer ==
    ASSUME ExchangeInv, NEW all \in Seq(Messages),
           Held(all) \subseteq Held(stdout) \cup Held(inbox), Mine(all) # {}
    PROVE  LET reply == all[FirstOf(Mine(all))]
           IN  /\ FirstOf(Mine(all)) \in 1..Len(all)
               /\ reply \in Messages /\ reply.id = request
               /\ requests = <<>> /\ Truthful(reply.data)
               /\ reply.kind \in {"result", "error"}
               /\ reply.kind = "result" => Settles(reply)
<1>1. DOMAIN all = 1..Len(all) /\ Len(all) \in Nat
  BY LenProperties
<1>2. Mine(all) \in SUBSET Nat
  BY <1>1 DEF Mine
<1>3. FirstOf(Mine(all)) \in Mine(all)
  BY <1>2, FirstIsOne
<1> DEFINE at == FirstOf(Mine(all))
<1>4. at \in 1..Len(all) /\ all[at].id = request
  BY <1>1, <1>3 DEF Mine
<1> HIDE DEF at
<1>5. all[at] \in Messages /\ all[at] \in Held(stdout) \cup Held(inbox)
  BY <1>4, ElementOfSeq DEF Held
<1>6. request # None /\ request \in Nat
  BY ExchangeAssumption DEF ExchangeAssumption, ExchangeInv, TypeOK
<1>7. requests = <<>>
  BY <1>4, <1>5, <1>6 DEF ExchangeInv, RequestInv
<1>8. Truthful(all[at].data) /\ all[at].kind \in {"result", "error"}
      /\ (all[at].kind = "result" => Settles(all[at]))
  BY <1>4, <1>5, <1>6 DEF ExchangeInv, MessageInv
<1>9. QED
  BY <1>4, <1>5, <1>7, <1>8 DEF at

\* Only listings of another name are left out of the candidates.
LEMMA MatchingShows ==
    ASSUME NEW data, NEW more, NEW t, Shown(data \cup more, t)
    PROVE  Shown(data \cup Matching(more), t)
BY DEF Shown, Matching

\* What an answer yields is what was asked for, or a refusal.
LEMMA YieldsAreSound ==
    ASSUME ExchangeInv, pc = "await", NEW m \in Messages, Truthful(m.data),
           m.kind \in {"result", "error"}, m.kind = "result" => Settles(m),
           NEW result \in Yields(m)
    PROVE  ResultOK(result)
<1> SUFFICES ASSUME result # Refused PROVE ResultOK(result)
  BY DEF ResultOK
<1>1. request \in Nat \ {0} /\ asked \in Name \cup Thread /\ Name \cap Thread = {}
      /\ seen \subseteq Nat /\ None \notin Nat /\ candidates \subseteq Listing
      /\ m.data \subseteq Listing
  BY ExchangeAssumption DEF ExchangeAssumption, ExchangeInv, TypeOK, Messages
<1>2. m.kind = "result" /\ request > 1
  BY <1>1 DEF Yields
<1>3. CASE asked \in Thread
  <2>1. result = m.data /\ {l.id : l \in m.data} = {asked}
    BY <1>1, <1>2, <1>3 DEF Yields
  <2>2. QED
    BY <1>1, <1>3, <2>1 DEF ResultOK
<1>4. CASE asked \in Name
  <2>1. m.next = None /\ result = candidates \cup Matching(m.data)
    <3>1. result \in IF records + Cardinality(m.data) > MaxRecords THEN {Refused}
                     ELSE IF m.next = None THEN {candidates \cup Matching(m.data)}
                     ELSE IF GoesOn(m) THEN {} ELSE {Refused}
      BY <1>1, <1>2, <1>4 DEF Yields
    <3>2. QED
      BY <3>1
  <2>2. Complete(candidates \cup m.data)
    <3>1. request # 1 /\ None \notin seen
      <4>1. request \in Nat /\ request > 1
        BY <1>1, <1>2
      <4>2. request # 1
        BY <4>1
      <4>3. None \notin seen
        BY <1>1
      <4>4. QED
        BY <4>2, <4>3
    <3>2. Settles(m)
      BY <1>2
    <3>3. QED
      BY <1>4, <2>1, <3>1, <3>2 DEF Settles
  <2>3. Complete(result)
    BY <2>1, <2>2, MatchingShows DEF Complete
  <2>4. result \subseteq Listing /\ Truthful(result) /\ \A l \in result : l.name = asked
    <3>1. Truthful(candidates) /\ \A l \in candidates : l.name = asked
      BY <1>4 DEF ExchangeInv, PagingInv
    <3>2. Matching(m.data) \subseteq m.data /\ \A l \in Matching(m.data) : l.name = asked
      BY DEF Matching
    <3>3. QED
      BY <1>1, <2>1, <3>1, <3>2 DEF Truthful
  <2>5. QED
    BY <1>1, <1>4, <2>3, <2>4 DEF ResultOK
<1>5. QED
  BY <1>1, <1>3, <1>4

\* An answer that yields nothing yet is the first one, or a page with a cursor
\* of its own.
LEMMA AskingOnIsPaging ==
    ASSUME ExchangeInv, pc = "await", NEW m \in Messages, Truthful(m.data),
           m.kind \in {"result", "error"}, m.kind = "result" => Settles(m),
           Yields(m) = {}, asked \in Name, m.next # None
    PROVE  m.next \notin seen /\ Covered(candidates \cup Matching(m.data), m.next)
<1>1. request \in Nat \ {0} /\ Name \cap Thread = {}
  BY ExchangeAssumption DEF ExchangeAssumption, ExchangeInv, TypeOK
<1>2. m.kind = "result"
  BY DEF Yields
<1>3. request # 1
  BY <1>2 DEF Settles
<1>4. GoesOn(m)
  <2>1. {} = IF records + Cardinality(m.data) > MaxRecords THEN {Refused}
             ELSE IF m.next = None THEN {candidates \cup Matching(m.data)}
             ELSE IF GoesOn(m) THEN {} ELSE {Refused}
    BY <1>1, <1>2, <1>3 DEF Yields
  <2>2. QED
    BY <2>1
<1>5. Covered(candidates \cup m.data, m.next)
  BY <1>2, <1>3, <1>4 DEF Settles, GoesOn
<1>6. QED
  BY <1>4, <1>5, MatchingShows DEF Covered, GoesOn

\* The next request is asked for: the messages that stay are answered already.
LEMMA AskOnKeepsInv ==
    ASSUME ExchangeInv, pc = "await", NEW m \in Messages, Truthful(m.data),
           m.kind \in {"result", "error"}, m.kind = "result" => Settles(m),
           Yields(m) = {}, requests = <<>>, AskOn(m),
           stdout' \in Seq(Messages), inbox' \in Seq(Messages),
           Held(stdout') \cup Held(inbox') \subseteq Held(stdout) \cup Held(inbox),
           UNCHANGED <<world, asked, server>>
    PROVE  ExchangeInv'
<1>1. /\ UNCHANGED <<name, updated, bore, moved, touches, asked, server, requests, found>>
      /\ pc' = "send" /\ request' = request + 1 /\ candidates' = candidates \cup Matching(m.data)
      /\ cursor' = m.next /\ seen' = seen \cup ({m.next} \ {None})
  BY DEF world, AskOn
<1>2. request \in Nat \ {0} /\ m.next \in Cursors /\ m.data \subseteq Listing
      /\ Matching(m.data) \subseteq m.data
  BY DEF ExchangeInv, TypeOK, Messages, Matching
<1>3. TypeOK'
  <2>1. request' \in Nat \ {0} /\ cursor' \in Cursors /\ candidates' \subseteq Listing
    BY <1>1, <1>2 DEF ExchangeInv, TypeOK
  <2>2. seen' \subseteq Nat
    BY <1>1, <1>2 DEF ExchangeInv, TypeOK, Cursors
  <2>3. QED
    BY <1>1, <2>1, <2>2 DEF ExchangeInv, TypeOK
<1>4. WorldInv' /\ ServerInv' /\ ResultInv'
  BY <1>1 DEF ExchangeInv, WorldInv, ServerInv, ResultInv
<1>5. \A n \in Held(stdout') \cup Held(inbox') :
         /\ n.id = None \/ n.id < request \/ n.id = request
         /\ Truthful(n.data) /\ (n.id # None => n.kind \in {"result", "error"})
         /\ n \in Messages
  <2>1. \A n \in Held(stdout) \cup Held(inbox) : n \in Messages
    BY ElementOfSeq DEF ExchangeInv, TypeOK, Held
  <2>2. QED
    BY <2>1 DEF ExchangeInv, RequestInv, MessageInv
<1>6. \A n \in Held(stdout') \cup Held(inbox') :
         /\ n.id = None \/ n.id < request'
         /\ n.id # request'
  <2>1. None # request'
    BY <1>1, <1>2, ExchangeAssumption DEF ExchangeAssumption
  <2>2. \A n \in Messages : n.id = None \/ n.id \in Nat
    BY DEF Messages, Cursors
  <2>3. QED
    BY <1>1, <1>2, <1>5, <2>1, <2>2
<1>7. RequestInv'
  BY <1>1, <1>6 DEF RequestInv
<1>8. PagingInv'
  <2>1. cursor' # None => cursor' \in seen'
    BY <1>1
  <2>2. Truthful(candidates')
    BY <1>1, <1>2 DEF Truthful, ExchangeInv, PagingInv
  <2>3. request' # 1
    BY <1>1, <1>2
  <2>4. asked \in Name => \A l \in candidates' : l.name = asked
    BY <1>1 DEF Matching, ExchangeInv, PagingInv
  <2>5. asked \in Name /\ cursor' # None => Covered(candidates', cursor')
    BY <1>1, AskingOnIsPaging
  <2>6. Truthful(candidates') => Truthful(candidates)'
    BY <1>1 DEF Truthful
  <2>7. Covered(candidates', cursor') => Covered(candidates, cursor)'
    BY <1>1 DEF Covered, Shown, Lookup!MustBeSeen
  <2>8. QED
    BY <1>1, <2>1, <2>2, <2>3, <2>4, <2>5, <2>6, <2>7 DEF PagingInv
<1>9. MessageInv'
  BY <1>1, <1>5, <1>6 DEF MessageInv, Truthful
<1>10. QED
  BY <1>3, <1>4, <1>7, <1>8, <1>9 DEF ExchangeInv

\* A turn of response().
LEMMA ReceiveKeepsInv ==
    ASSUME ExchangeInv, Receive
    PROVE  ExchangeInv'
<1>1. PICK k \in 0..Len(stdout) :
         LET all == inbox \o Prefix(k)
             unusable == \/ \E i \in 1..k : stdout[i].kind = "malformed"
                         \/ Len(all) > MaxPending
             reply == all[FirstOf(Mine(all))]
             rest == stdout' = SubSeq(stdout, k + 1, Len(stdout))
         IN  \/ k > 0 /\ unusable /\ Fails
             \/ /\ k > 0 /\ ~unusable /\ Mine(all) = {}
                /\ inbox' = all /\ rest
                /\ UNCHANGED <<requests, pc, request, paging, found>>
             \/ /\ ~unusable /\ Mine(all) # {}
                /\ \/ \E result \in Yields(reply) : Over(result)
                   \/ /\ Yields(reply) = {}
                      /\ AskOn(reply)
                      /\ inbox' = Without(all, FirstOf(Mine(all))) /\ rest
  BY DEF Receive
<1>2. pc = "await" /\ UNCHANGED <<world, asked, server>>
  BY DEF Receive
<1> DEFINE all == inbox \o Prefix(k)
           left == SubSeq(stdout, k + 1, Len(stdout))
           at == FirstOf(Mine(all))
           reply == all[at]
<1>3. /\ all \in Seq(Messages) /\ Held(all) \subseteq Held(stdout) \cup Held(inbox)
      /\ left \in Seq(Messages) /\ Held(left) \subseteq Held(stdout)
  BY ReadingFrame
<1>4. \/ Fails
      \/ /\ inbox' = all /\ stdout' = left
         /\ UNCHANGED <<requests, pc, request, paging, found>>
      \/ /\ Mine(all) # {}
         /\ \/ \E result \in Yields(reply) : Over(result)
            \/ Yields(reply) = {} /\ AskOn(reply) /\ inbox' = Without(all, at) /\ stdout' = left
  BY <1>1
<1>5. Mine(all) # {} =>
         /\ at \in 1..Len(all)
         /\ reply \in Messages /\ reply.id = request
         /\ requests = <<>> /\ Truthful(reply.data)
         /\ reply.kind \in {"result", "error"}
         /\ reply.kind = "result" => Settles(reply)
  BY <1>3, ReplyIsAnswer
<1> HIDE DEF all, left, at, reply
<1>6. CASE Fails
  BY <1>2, <1>6, OverKeepsInv DEF Fails, ResultOK
<1>7. CASE /\ inbox' = all /\ stdout' = left
           /\ UNCHANGED <<requests, pc, request, paging, found>>
  <2>1. UNCHANGED <<name, updated, bore, moved, touches, asked, server, requests, pc, request,
                    cursor, seen, candidates, found>>
    BY <1>2, <1>7 DEF world, paging
  <2>2. \A m \in Held(stdout') \cup Held(inbox') : m \in Held(stdout) \cup Held(inbox)
    BY <1>3, <1>7
  <2>3. TypeOK'
    BY <1>3, <1>7, <2>1 DEF ExchangeInv, TypeOK
  <2>4. WorldInv' /\ ServerInv' /\ ResultInv'
    BY <1>2, <2>1 DEF ExchangeInv, WorldInv, ServerInv, ResultInv
  <2>5. RequestInv'
    BY <1>2, <2>1, <2>2 DEF ExchangeInv, RequestInv
  <2>6. PagingInv' /\ MessageInv'
    BY <2>1, <2>2 DEF ExchangeInv, PagingInv, MessageInv, Truthful, Settles, Covered,
                     Complete, Shown, Lookup!MustBeSeen
  <2>7. QED
    BY <2>3, <2>4, <2>5, <2>6 DEF ExchangeInv
<1>8. CASE Mine(all) # {} /\ \E result \in Yields(reply) : Over(result)
  <2>1. PICK result \in Yields(reply) : Over(result)
    BY <1>8
  <2>2. ResultOK(result)
    BY <1>2, <1>5, <1>8, YieldsAreSound
  <2>3. QED
    BY <1>2, <2>1, <2>2, OverKeepsInv
<1>9. CASE /\ Mine(all) # {} /\ Yields(reply) = {} /\ AskOn(reply)
           /\ inbox' = Without(all, at) /\ stdout' = left
  <2>1. inbox' \in Seq(Messages) /\ Held(inbox') \subseteq Held(all)
    BY <1>3, <1>5, <1>9, HeldByWithout
  <2>2. /\ stdout' \in Seq(Messages)
        /\ Held(stdout') \cup Held(inbox') \subseteq Held(stdout) \cup Held(inbox)
    BY <1>3, <1>9, <2>1
  <2>3. QED
    BY <1>2, <1>5, <1>9, <2>1, <2>2, AskOnKeepsInv
<1>10. QED
  BY <1>4, <1>6, <1>7, <1>8, <1>9

-----------------------------------------------------------------------------
\* Every step of client and server keeps the invariant.
LEMMA NextExchange == ExchangeInv /\ [Next]_vars => ExchangeInv'
<1> SUFFICES ASSUME ExchangeInv, [Next]_vars PROVE ExchangeInv'
  OBVIOUS
<1>1. CASE Client
  BY <1>1, SpawnKeepsInv, SendKeepsInv, ReceiveKeepsInv, FailingKeepsInv, ClosingKeepsInv
     DEF Client
<1>2. CASE Serve
  BY <1>2, ServeKeepsInv
<1>3. CASE Notify
  BY <1>3, NotifyKeepsInv
<1>4. CASE Exit
  BY <1>4, ExitKeepsInv
<1>5. CASE \E t \in Thread : Touch(t)
  BY <1>5, TouchKeepsInv
<1>6. CASE UNCHANGED vars
  <2>1. UNCHANGED <<name, updated, bore, moved, touches, asked, server, requests, stdout, inbox,
                    pc, request, cursor, seen, candidates, found>>
    BY <1>6 DEF vars, world, wires, paging
  <2>2. TypeOK'
    BY <2>1 DEF ExchangeInv, TypeOK
  <2>3. WorldInv' /\ RequestInv' /\ ServerInv'
    BY <2>1 DEF ExchangeInv, WorldInv, RequestInv, ServerInv
  <2>4. PagingInv' /\ MessageInv' /\ ResultInv'
    BY <2>1 DEF ExchangeInv, PagingInv, MessageInv, ResultInv, Truthful, Settles, Covered,
                Complete, Shown, Lookup!MustBeSeen
  <2>5. QED
    BY <2>2, <2>3, <2>4 DEF ExchangeInv
<1>7. QED
  BY <1>1, <1>2, <1>3, <1>4, <1>5, <1>6 DEF Next

\* The variables have their types, the request under way is the only one and
\* unanswered, what was listed is true, and nothing that has to be seen is
\* missing from the pages read and the answers on their way.
THEOREM ExchangeInvariant == Spec => []ExchangeInv
<1>1. Init => ExchangeInv
  BY InitExchange
<1>2. ExchangeInv /\ [Next]_vars => ExchangeInv'
  BY NextExchange
<1>3. QED
  BY <1>1, <1>2, PTL DEF Spec

\* The finally clause of codex_app_server.py leaves no server behind when the
\* exchange is over, and no broken pipe kills the command, for any number of
\* faults at any moment.
THEOREM ServerIsReaped == Spec => []NoServerIsLeft
<1>1. ExchangeInv => NoServerIsLeft
  BY DEF ExchangeInv, ServerInv, NoServerIsLeft
<1>2. QED
  BY <1>1, ExchangeInvariant, PTL

-----------------------------------------------------------------------------
(* The refinement of NameLookup.                                            *)

Mapped == IF pc = "done" THEN answer ELSE Pending

\* An exchange begins where a lookup does.
LEMMA InitIsLookupInit == Init => Lookup!LookupInit
<1> SUFFICES ASSUME Init PROVE Lookup!LookupInit
  OBVIOUS
<1>1. name \in [Thread -> Name] /\ bore = [t \in Thread |-> {name[t]}] /\ moved = {}
      /\ asked \in Name \cup Thread /\ pc = "spawn"
  BY DEF Init
<1>2. bore \in [Thread -> {{n} : n \in Name}]
  BY <1>1
<1>3. QED
  BY <1>1, <1>2 DEF Lookup!LookupInit

\* A touch is a touch, for the lookup too.
LEMMA TouchIsTouch ==
    ASSUME ExchangeInv, NEW t \in Thread, Touch(t)
    PROVE  Lookup!Touch(t)
<1>1. (\E n \in Name : bore' = [bore EXCEPT ![t] = @ \cup {n}]) /\ moved' = moved \cup {t}
      /\ asked' = asked /\ pc' = pc /\ pc # "done"
  BY DEF Touch, Listening
<1>2. QED
  BY <1>1 DEF Lookup!Touch

\* The sessions that are found bear the name, or bore it, and whoever has to be
\* found is among them.
LEMMA SessionsAreSeen ==
    ASSUME ExchangeInv, pc = "decide", found # Refused, asked \in Name
    PROVE  /\ Sessions \subseteq Thread
           /\ \A t \in Sessions : Lookup!MayBeSeen(t)
           /\ \A t \in Thread : Lookup!MustBeSeen(t) => t \in Sessions
<1>1. /\ found \subseteq Listing /\ Truthful(found) /\ Complete(found)
      /\ \A l \in found : l.name = asked
  BY DEF ExchangeInv, ResultInv
<1>2. \A t \in Sessions : t \in Canonical /\ \E l \in found : l.id = t
  BY DEF Sessions
<1>3. \A t \in Sessions : t \in Thread
  BY <1>1, <1>2 DEF Listing
<1>4. \A t \in Sessions : asked \in bore[t]
  BY <1>1, <1>2 DEF Truthful
<1>5. \A t \in Thread : Lookup!MustBeSeen(t) => t \in Sessions
  BY <1>1 DEF Complete, Shown, Sessions, Lookup!MustBeSeen
<1>6. QED
  BY <1>2, <1>3, <1>4, <1>5 DEF Lookup!MayBeSeen

\* What the command decides is an answer the lookup may give.
LEMMA DecideIsAnswer ==
    ASSUME ExchangeInv, Decide
    PROVE  Lookup!Answer
<1>1. pc = "decide" /\ pc' = "done" /\ UNCHANGED <<name, updated, bore, moved, asked>>
  BY DEF Decide, world
<1>2. Mapped = Pending /\ Mapped' = answer'
  BY <1>1 DEF Mapped
<1>3. CASE found = Refused /\ answer' = Refused
  BY <1>1, <1>3 DEF Lookup!Answer, Lookup!Refuse
<1>4. CASE found # Refused /\ asked \in Thread /\ answer' \in {l.name : l \in found}
  <2>1. Truthful(found) /\ {l.id : l \in found} = {asked}
    BY <1>1, <1>4 DEF ExchangeInv, ResultInv
  <2>2. PICK l \in found : answer' = l.name
    BY <1>4
  <2>3. l.id = asked /\ l.name \in bore[l.id]
    BY <2>1 DEF Truthful
  <2>4. QED
    BY <1>1, <1>4, <2>2, <2>3 DEF Lookup!Answer, Lookup!Tell
<1>5. CASE found # Refused /\ asked \in Name /\ Sessions = {} /\ answer' = NotFound
  BY <1>1, <1>5, SessionsAreSeen DEF Lookup!Answer, Lookup!FindNone
<1>6. CASE found # Refused /\ asked \in Name /\ Cardinality(Sessions) > 1 /\ answer' = Ambiguous
  <2>1. Sessions \subseteq Thread /\ \A t \in Sessions : Lookup!MayBeSeen(t)
    BY <1>1, <1>6, SessionsAreSeen
  <2>2. \E t \in Sessions : \E u \in Sessions : t # u
    <3>1. Sessions # {}
      BY <1>6, FS_EmptySet
    <3>2. PICK t \in Sessions : TRUE
      BY <3>1
    <3>3. Sessions # {t}
      BY <1>6, FS_Singleton
    <3>4. QED
      BY <3>2, <3>3
  <2>3. QED
    BY <1>1, <1>6, <2>1, <2>2 DEF Lookup!Answer, Lookup!FindSeveral
<1>7. CASE /\ found # Refused /\ asked \in Name
           /\ \E t \in Sessions : /\ Sessions = {t}
                                 /\ answer' = IF t \in Flushed THEN t ELSE Refused
  <2>1. PICK t \in Sessions : Sessions = {t} /\ answer' = IF t \in Flushed THEN t ELSE Refused
    BY <1>7
  <2>2. /\ t \in Thread /\ Lookup!MayBeSeen(t)
        /\ \A u \in Thread \ {t} : ~Lookup!MustBeSeen(u)
    BY <1>1, <1>7, <2>1, SessionsAreSeen
  <2>3. CASE t \in Flushed
    BY <1>1, <1>7, <2>1, <2>2, <2>3 DEF Lookup!Answer, Lookup!Resolve
  <2>4. CASE t \notin Flushed
    BY <1>1, <2>1, <2>4 DEF Lookup!Answer, Lookup!Refuse
  <2>5. QED
    BY <2>3, <2>4
<1>8. QED
  BY <1>3, <1>4, <1>5, <1>6, <1>7 DEF Decide

\* Every step but a decision and a touch shows nothing of itself.
LEMMA OtherStepsAreSilent ==
    ASSUME ExchangeInv,
           \/ Spawn \/ Send \/ Receive \/ Hopeless \/ Expire \/ Close \/ Wait \/ Shut
           \/ Serve \/ Notify \/ Exit \/ UNCHANGED vars
    PROVE  UNCHANGED <<bore, moved, asked, Mapped>>
<1>1. UNCHANGED <<bore, moved, asked, answer>>
  BY DEF Spawn, Send, Receive, Hopeless, Expire, Close, Wait, Shut, Serve, Notify, Exit, vars, world
<1>2. (pc # "done" /\ pc' # "done") \/ pc' = pc
  BY DEF Spawn, Send, Receive, Hopeless, Expire, Close, Wait, Shut, Serve, Notify, Exit, vars,
         Fails, Over, AskOn, Reaps
<1>3. QED
  BY <1>1, <1>2 DEF Mapped

\* The exchange implements NameLookup.
THEOREM ExchangeRefinesLookup == Spec => LookupSpecified
<1>1. Init => Lookup!LookupInit
  BY InitIsLookupInit
<1>2. ExchangeInv /\ [Next]_vars => [Lookup!LookupNext]_(Lookup!lookup)
  <2> SUFFICES ASSUME ExchangeInv, [Next]_vars PROVE [Lookup!LookupNext]_(Lookup!lookup)
    OBVIOUS
  <2>1. CASE Decide
    BY <2>1, DecideIsAnswer DEF Lookup!LookupNext
  <2>2. CASE \E t \in Thread : Touch(t)
    BY <2>2, TouchIsTouch DEF Lookup!LookupNext
  <2>3. CASE \/ Spawn \/ Send \/ Receive \/ Hopeless \/ Expire \/ Close \/ Wait \/ Shut
             \/ Serve \/ Notify \/ Exit \/ UNCHANGED vars
    BY <2>3, OtherStepsAreSilent DEF Mapped, Lookup!lookup
  <2>4. QED
    BY <2>1, <2>2, <2>3 DEF Next, Client
<1>3. QED
  BY <1>1, <1>2, ExchangeInvariant, PTL DEF Spec, LookupSpecified, Lookup!LookupSpec
=============================================================================
