---------------------------- MODULE MCStateCarry ----------------------------
(***************************************************************************)
(* Parents for StateCarry.  Every state one path p can be in, alone with   *)
(* two edits, or beside a second path q (the only one ignored) with one:   *)
(* q makes renames, and entries that only --with-ignored or an include     *)
(* brings into the fork; beside an unchanged p nothing is included.        *)
(***************************************************************************)
EXTENDS StateCarry, TLC

CONSTANTS p, q, a, b, Lone, Paired

\* A path in commit, index and on disk; p has every combination git allows.
Life == {l \in [head : {a, Absent}, index : {a, b, Ita, Absent}, work : Object] :
            l.index # Absent => l.work # Nested}
Beside == {[head |-> Absent, index |-> Absent, work |-> w] : w \in {Absent, a, Locked}}
            \cup {[head |-> a, index |-> i, work |-> w] : i \in {a, Absent}, w \in {a, Absent}}

Joined(l, m, hid) ==
    [head |-> (p :> l.head @@ q :> m.head), index |-> (p :> l.index @@ q :> m.index),
     work |-> (p :> l.work @@ q :> m.work), hidden |-> hid]

Empty == [head |-> Absent, index |-> Absent, work |-> Absent]
Kept == [head |-> a, index |-> a, work |-> a]

MCStarts ==
    {[parent |-> Joined(l, Empty, {}), included |-> {q}, limit |-> Lone] : l \in Life}
    \cup {[parent |-> Joined(l, m, {}), included |-> {q}, limit |-> Paired] :
                l \in Life, m \in Beside}
    \cup {[parent |-> Joined(Kept, m, {}), included |-> {}, limit |-> Paired] : m \in Beside}
=============================================================================
