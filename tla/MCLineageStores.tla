-------------------------- MODULE MCLineageStores --------------------------
(***************************************************************************)
(* Two analyses of one child, or one of each of two, beside a deletion and *)
(* an inspection of the first; the second child keeps what it had in the   *)
(* legacy file unless it is analysed itself.                               *)
(***************************************************************************)
EXTENDS LineageStores, TLC

CONSTANTS c1, c2, i1, i2, d1, s1, u1, u2

MCTargets == {[q \in Proc |-> IF q = i THEN c2 ELSE c1] : i \in {i1, i2}}
                \cup {[q \in Proc |-> c1]}

Symmetry == Permutations({i1, i2})

Held(was, moved) == [recorded |-> was, migrated |-> moved]
MCOrigins == {[c \in Child |-> IF c = c1 THEN h ELSE Held(TRUE, FALSE)] :
                h \in {Held(FALSE, FALSE), Held(TRUE, FALSE), Held(TRUE, TRUE)}}
=============================================================================
