----------------------------- MODULE NameLookup -----------------------------
(***************************************************************************)
(* What asking Codex about its sessions promises, while Codex goes on      *)
(* renaming and reordering them: how the answer came about is not said.    *)
(* CodexExchange is the protocol that implements it.                       *)
(***************************************************************************)
CONSTANTS
    Thread, Name,
    Canonical,  \* the threads whose id is a canonical UUID
    Pending, Refused, NotFound, Ambiguous   \* answers that are not a thread

VARIABLES
    bore,       \* per thread, the names it has borne since the lookup began
    moved,      \* the threads touched since then
    asked,      \* a name to resolve, or a thread whose name is wanted
    answer

lookup == <<bore, moved, asked, answer>>

\* A thread that bears the name and cannot have escaped a listing.
MustBeSeen(t) == t \in Canonical \ moved /\ asked \in bore[t]
MayBeSeen(t) == t \in Canonical /\ asked \in bore[t]

LookupInit ==
    /\ bore \in [Thread -> {{n} : n \in Name}] /\ moved = {}
    /\ asked \in Name \cup Thread /\ answer = Pending

Touch(t) ==
    /\ \E n \in Name : bore' = [bore EXCEPT ![t] = @ \cup {n}]
    /\ moved' = moved \cup {t}
    /\ UNCHANGED <<asked, answer>>

Resolve ==
    /\ asked \in Name
    /\ \E t \in Thread :
          /\ MayBeSeen(t) /\ \A u \in Thread \ {t} : ~MustBeSeen(u)
          /\ answer' = t

FindNone == /\ asked \in Name /\ \A t \in Thread : ~MustBeSeen(t)
            /\ answer' = NotFound

FindSeveral == /\ asked \in Name
               /\ \E t \in Thread : \E u \in Thread \ {t} : MayBeSeen(t) /\ MayBeSeen(u)
               /\ answer' = Ambiguous

Tell == asked \in Thread /\ answer' \in bore[asked]

Refuse == answer' = Refused

Answer ==
    /\ answer = Pending
    /\ Resolve \/ FindNone \/ FindSeveral \/ Tell \/ Refuse
    /\ UNCHANGED <<bore, moved, asked>>

LookupNext == Answer \/ \E t \in Thread : Touch(t)

LookupSpec == LookupInit /\ [][LookupNext]_lookup
=============================================================================
