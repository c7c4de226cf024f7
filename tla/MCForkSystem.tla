---------------------------- MODULE MCForkSystem ----------------------------
(***************************************************************************)
(* Fork commands that collide in the ways users can ask for.  Cross: f and *)
(* g ask for one path, g and h for one branch, f and h for one name.       *)
(* Twice: one fork, attempted twice.                                       *)
(***************************************************************************)
EXTENDS ForkSystem, TLC

CONSTANTS f, g, h, n, m, p1, p2, b1, b2

Ask(p, b) == [path |-> p, branch |-> b]

CrossPair == (f :> Ask(p1, b1)) @@ (g :> Ask(p1, b2)) @@ (h :> Ask(p2, b2))
CrossName == (f :> n) @@ (g :> m) @@ (h :> n)

TwicePair == (f :> Ask(p1, b1)) @@ (g :> Ask(p1, b1))
TwiceName == (f :> n) @@ (g :> n)

(* Bound: one signal or death, or one action of the user. *)
OneDisturbance == signals + meddling <= 1
=============================================================================
