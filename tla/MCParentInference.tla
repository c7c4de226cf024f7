------------------------- MODULE MCParentInference -------------------------
(***************************************************************************)
(* Three sessions, 1 the oldest.  In every family the messages 1, 2 and 3  *)
(* come first; what follows says who forked from whom, and where.          *)
(***************************************************************************)
EXTENDS ParentInference, TLC

Node(u, p, k, t) == [uuid |-> u, parent |-> p, kind |-> k, time |-> t]
N(u, p) == Node(u, p, "user", u)
Stem == {Node(1, None, "system", 1), N(2, 1), N(3, 2)}

Family(a, b, c) == (1 :> a) @@ (2 :> b) @@ (3 :> c)

\* 3 forked from 2, which had gone on after forking from 1.
Line3 == Family(<<Stem, Stem \cup {N(4, 3)}>>, <<Stem, Stem \cup {N(5, 3)}>>,
                <<Stem \cup {N(5, 3)}, Stem \cup {N(5, 3), N(6, 5)}>>)
\* 2 and 3 forked from 1 at one message; 2 has still to receive its copy.
Siblings == Family(<<Stem, Stem \cup {N(4, 3)}>>, <<{}, Stem \cup {N(5, 3)}>>,
                   <<Stem, Stem \cup {N(6, 3)}>>)
\* 3 shares one branch with 1 and another with 2.
Branches == Family(<<Stem, Stem \cup {N(4, 3)}>>, <<Stem \cup {N(5, 3)}>>,
                   <<Stem \cup {N(4, 3), N(5, 3)}>>)
\* The copies of a message carry different times.
Aside(t) == Node(4, 3, "system", t)
Retimed == Family(<<Stem \cup {Aside(4)}>>, <<Stem \cup {Aside(4), N(5, 3)}>>,
                  <<Stem \cup {Aside(9), N(5, 3)}>>)
\* A collision of uuids under another parent, and messages in a circle.
Elsewhere == Family(<<Stem>>, <<{Node(1, None, "system", 1), N(2, 1), N(3, 1), N(4, 3)}>>,
                    <<Stem \cup {N(4, 3)}>>)
Circle == {N(7, 8), N(8, 7)}
Tangled == Family(<<Stem>>, <<Stem \cup Circle>>, <<Stem \cup Circle>>)

Ages == (1 :> 1) @@ (2 :> 2) @@ (3 :> 3)
Reverse == (1 :> 3) @@ (2 :> 2) @@ (3 :> 1)
Unknown == [s \in Session |-> None]

MCWorlds == {[versions |-> v, birth |-> c[1], history |-> c[2]] :
                v \in {Line3, Siblings, Branches, Retimed, Elsewhere, Tangled},
                c \in {<<Unknown, Ages>>, <<Ages, Ages>>, <<Ages, Reverse>>}}
MCRequests == {<<3>>, <<2, 3>>, <<3, 2>>}
=============================================================================
