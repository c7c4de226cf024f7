-------------------------- MODULE MCSubmoduleCarry --------------------------
(***************************************************************************)
(* Two submodules, one inside the other, each with a tracked path s and an *)
(* untracked path u.  Quiet parents take every combination of the trees    *)
(* below and of names; edited ones are plain and differ in one checkout.   *)
(***************************************************************************)
EXTENDS SubmoduleCarry

CONSTANTS s, u, c1, c2, EditLimit

MCPath == {s, u}
MCContent == {c1, c2}

Basic == Pristine(Committed(c1))
Worktree(work, extra) == [Basic EXCEPT !.work = [p \in MCPath |->
                                IF p = s THEN work ELSE extra]]
Trees == {Worktree(w, x) : w \in {c1, c2, Absent, Locked},
                           x \in {Absent, c2, Locked, Nested}}
            \cup {Pristine(Committed(c2)), [Worktree(c2, Absent) EXCEPT !.index[s] = c2]}

In(tree, urls) == [init |-> TRUE, urls |-> urls, tree |-> tree]
Litter == [Cold EXCEPT !.tree.work[u] = c2]

Chains == {<<Cold, Cold>>, <<Litter, Cold>>}
            \cup {<<In(t, "own"), x>> : t \in Trees, x \in {Cold, Litter}}
            \cup {<<In(t, "own"), In(v, "none")>> : t, v \in Trees}

Quiet == {[checkouts |-> ch, names |-> n, limit |-> 0] :
            ch \in Chains, n \in [1..2 -> Name]}

Busy == {[checkouts |-> ch, names |-> <<"plain", n>>, limit |-> EditLimit] :
            ch \in {<<In(Basic, "own"), Cold>>}
                \cup {<<In(Basic, "own"), In(t, "none")>> :
                        t \in {Basic, Worktree(c2, c2), Worktree(c1, Locked)}},
            n \in {"plain", "absent"}}

MCStarts == Quiet \cup Busy
=============================================================================
