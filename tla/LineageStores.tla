--------------------------- MODULE LineageStores ---------------------------
(***************************************************************************)
(* The stores of what is known about the parent of a Claude session, and   *)
(* the processes that work on them: claims (lineage.py), inferred records  *)
(* and the freshness index (lineage_inference_store.py), which moved to    *)
(* another directory and is migrated one child at a time.                  *)
(*                                                                         *)
(* An analysis is session claude-parent infer, with or without --record;   *)
(* a deletion is session claude-parent delete; an inspection is session.   *)
(* Claims and records change in one locked rewrite each (RegistryFile).    *)
(* The index is two files under two locks, each file rewritten in a step   *)
(* of its own, and inspections read file by file without a lock.           *)
(***************************************************************************)
EXTENDS Naturals

CONSTANTS
    Child,          \* sessions whose parent is asked for
    Universe,       \* sets of transcripts a child may be compared with
    Telling,        \* the universes that yield a parent worth recording
    Analyses, Deletes, Sessions,
    Active,         \* the children that are written to and get claims meanwhile
    Targets,        \* the children the processes may be about
    Origins,        \* what the stores may hold before
    None, Earlier,  \* no value; an analysis of an earlier time
    MaxChanges, MaxFaults

Proc == Analyses \cup Deletes \cup Sessions
File == {"state", "legacy"}

Entry == [universe : Universe, by : Analyses \cup {Earlier}]
Found == [universe : Universe, sources : 0..MaxChanges, listing : 0..MaxChanges,
          by : Analyses \cup {Earlier}]
Verdict == {"claimed", "absent", "current", "last_known_good", "unknown"}

\* A process runs one command; None is no value that anything is set to.
ASSUME LineageAssumption ==
    /\ Telling \subseteq Universe /\ Active \subseteq Child
    /\ Analyses \cap Deletes = {} /\ Sessions \cap (Analyses \cup Deletes) = {}
    /\ None \notin Universe \cup Proc \cup Entry \cup Found \cup Verdict
    /\ Earlier \notin Proc
    /\ Targets \subseteq [Proc -> Child]
    /\ Origins \subseteq [Child -> [recorded : BOOLEAN, migrated : BOOLEAN]]
    /\ MaxChanges \in Nat /\ MaxFaults \in Nat

VARIABLES
    corpus,     \* per child, the universe and how often its sources changed
    listing,    \* how often the set of transcript files changed
    changes,    \* how often Claude wrote
    claims,     \* the children with a planned claim
    records,    \* the inferred records, one per child at most
    index,      \* per file and child, the freshness entry
    unreadable, \* the index files that are not valid now
    lock,       \* per file, who holds its lock
    pc, on,         \* per process: its next step and its child
    source,     \* which record a deletion is for
    saw,        \* what an analysis found, the record an inspection holds
    verdict,    \* what an inspection reports
    faults,
    past        \* what happened, for the properties only

store == <<claims, records, index>>
world == <<corpus, listing, changes, unreadable, faults>>
local == <<saw, verdict>>
vars == <<store, world, lock, pc, on, source, local, past>>

Waiting == {"state lock", "legacy lock"}
Critical == {"state file", "legacy file"}
Ended == {"done", "failed"}
Steps == {"analyze", "stable", "add", "choose", "consent",
          "survivor", "remove", "claim", "record", "sources", "see state",
          "see legacy"} \cup Waiting \cup Critical \cup Ended

\* A child recorded earlier has its entry in one of the two files.
Init ==
    /\ corpus \in [Child -> [universe : Universe, sources : {0}]]
    /\ \E o \in Origins :
          /\ \A c \in Child : o[c].recorded => corpus[c].universe \in Telling
          /\ records = [c \in Child |->
                IF o[c].recorded
                THEN [universe |-> corpus[c].universe, sources |-> 0,
                      listing |-> 0, by |-> Earlier]
                ELSE None]
          /\ index = [f \in File |-> [c \in Child |->
                IF o[c].recorded /\ o[c].migrated = (f = "state")
                THEN [universe |-> corpus[c].universe, by |-> Earlier]
                ELSE None]]
    /\ claims \in SUBSET Active
    /\ listing = 0 /\ changes = 0 /\ unreadable = {} /\ faults = 0
    /\ lock = [f \in File |-> None]
    /\ pc = [p \in Proc |-> CASE p \in Analyses -> "analyze"
                              [] p \in Deletes -> "choose"
                              [] p \in Sessions -> "claim"]
    /\ on \in Targets
    /\ source = [d \in Deletes |-> None]
    /\ saw = [p \in Proc |-> None]
    /\ verdict = [s \in Sessions |-> None]
    /\ past = [found |-> [c \in Child |-> IF records[c] = None THEN None
                                          ELSE corpus[c].universe],
               wrote |-> {},        \* analyses that wrote their entry
               unwritten |-> {},    \* analyses that could not
               leftover |-> {},     \* children whose migration stopped half way
               stripped |-> {},     \* deletions that took the state entry away
               cleared |-> {},      \* deletions that read both files
               seen |-> [p \in Deletes \cup Sessions |-> {}]]

Inferred(d) == source[d] = "inferred"

-----------------------------------------------------------------------------
Goes(p, to) == pc' = [pc EXCEPT ![p] = to]
Frees(p) == lock' = [f \in File |-> IF lock[f] = p THEN None ELSE lock[f]]

\* Both locks are taken in one order.  Mutant: a deletion starts at the other.
DeletesLegacyFirst(p) == IF p \in Deletes THEN "legacy" ELSE "state"
First(p) == "state"
Second(p) == CHOOSE f \in File : f # First(p)

Free(f) == lock[f] = None

TakeFirst(p) ==
    /\ pc[p] = "state lock" /\ Free(First(p))
    /\ lock' = [lock EXCEPT ![First(p)] = p]
    /\ Goes(p, "legacy lock")
    /\ UNCHANGED <<store, world, on, source, local, past>>

TakeSecond(p) ==
    /\ pc[p] = "legacy lock" /\ Free(Second(p))
    /\ lock' = [lock EXCEPT ![Second(p)] = p]
    /\ Goes(p, "state file")
    /\ UNCHANGED <<store, world, on, source, local, past>>

\* A lock still held at the deadline: neither command tolerates that.
Busy(p) ==
    /\ \/ pc[p] = "state lock" /\ ~Free(First(p))
       \/ pc[p] = "legacy lock" /\ ~Free(Second(p))
    /\ Goes(p, "failed") /\ Frees(p)
    /\ UNCHANGED <<store, world, on, source, local, past>>

\* The index is done with, or given up: on to the record itself, which an
\* analysis writes only with --record and when it found a parent.
Continues(p) ==
    /\ \/ p \in Deletes /\ Goes(p, "remove")
       \/ p \in Analyses /\ Goes(p, "done")
       \/ p \in Analyses /\ saw[p].universe \in Telling /\ Goes(p, "stable")
    /\ Frees(p)

\* An update puts the new entry into the state file and takes the child's out
\* of the legacy one; a removal takes it out of both.
NewEntry(p) == IF p \in Deletes THEN None
               ELSE [universe |-> saw[p].universe, by |-> p]

UpdateState(p) ==
    /\ pc[p] = "state file"
    /\ \/ /\ "state" \in unreadable
          /\ Continues(p)
          /\ past' = [past EXCEPT !.unwritten = @ \cup ({p} \cap Analyses)]
          /\ UNCHANGED index
       \/ /\ "state" \notin unreadable
          /\ index' = [index EXCEPT !["state"][on[p]] = NewEntry(p)]
          /\ Goes(p, "legacy file")
          /\ past' = IF p \in Analyses
                     THEN [past EXCEPT !.wrote = @ \cup {p},
                                       !.found[on[p]] = saw[p].universe]
                     ELSE IF index["state"][on[p]] = None THEN past
                     ELSE [past EXCEPT !.stripped = @ \cup {p}]
          /\ UNCHANGED lock
    /\ UNCHANGED <<claims, records, world, on, source, local>>

\* Mutants: the whole file goes when one child is migrated; a removal ends at
\* the first file that held the child.
Emptied(p) == [d \in Child |-> None]
PoppedOnce(p) == IF p \in past.stripped THEN index["legacy"]
                 ELSE [index["legacy"] EXCEPT ![on[p]] = None]
Popped(p) == [index["legacy"] EXCEPT ![on[p]] = None]

Leftover(p) == IF p \in Analyses /\ index["legacy"][on[p]] # None
               THEN [past EXCEPT !.leftover = @ \cup {on[p]}] ELSE past

UpdateLegacy(p) ==
    /\ pc[p] = "legacy file"
    /\ \/ /\ "legacy" \in unreadable
          /\ past' = Leftover(p) /\ UNCHANGED index
       \/ /\ "legacy" \notin unreadable
          /\ index' = [index EXCEPT !["legacy"] = Popped(p)]
          /\ past' = IF p \in Deletes
                     THEN [past EXCEPT !.cleared = @ \cup {p},
                                       !.seen[p] = past.wrote \cup {Earlier}]
                     ELSE past
    /\ Continues(p)
    /\ UNCHANGED <<claims, records, world, on, source, local>>

-----------------------------------------------------------------------------
(* session claude-parent infer.                                             *)

\* The corpus is listed and read.
Analyze(p) ==
    /\ pc[p] = "analyze"
    /\ saw' = [saw EXCEPT ![p] = [universe |-> corpus[on[p]].universe,
                                  sources |-> corpus[on[p]].sources,
                                  listing |-> listing, by |-> p]]
    /\ Goes(p, "state lock")
    /\ UNCHANGED <<store, world, lock, on, source, verdict, past>>

\* An analysis tolerates what goes wrong with the index, a removal does not
\* tolerate an operating-system error.
Tolerate(p) ==
    /\ pc[p] \in Waiting \cup Critical
    /\ faults < MaxFaults /\ faults' = faults + 1
    /\ Continues(p)
    /\ past' = IF pc[p] = "legacy file" THEN Leftover(p)
               ELSE [past EXCEPT !.unwritten = @ \cup {p}]
    /\ UNCHANGED <<store, corpus, listing, changes, unreadable, on, source, local>>

EvidenceStable(p) == /\ listing = saw[p].listing
                     /\ corpus[on[p]].sources = saw[p].sources

Stable(p) ==
    /\ pc[p] = "stable"
    /\ Goes(p, IF EvidenceStable(p) THEN "add" ELSE "failed")
    /\ UNCHANGED <<store, world, lock, on, source, local, past>>

AddInference(p) ==
    /\ pc[p] = "add"
    /\ records' = [records EXCEPT ![on[p]] = saw[p]]
    /\ Goes(p, "done")
    /\ UNCHANGED <<claims, index, world, lock, on, source, local, past>>

-----------------------------------------------------------------------------
(* session claude-parent delete.                                            *)

Choose(p) ==
    /\ pc[p] = "choose"
    /\ \/ records[on[p]] # None /\ source' = [source EXCEPT ![p] = "inferred"]
       \/ on[p] \in claims /\ source' = [source EXCEPT ![p] = "planned"]
    /\ Goes(p, "consent")
    /\ UNCHANGED <<store, world, lock, on, local, past>>

Consent(p) ==
    /\ pc[p] = "consent"
    /\ Goes(p, IF Inferred(p) THEN "state lock" ELSE "survivor")
    /\ UNCHANGED <<store, world, lock, on, source, local, past>>

\* Mutant: the entry goes with the claim.
NobodyRelies(p) == TRUE
Unused(p) == records[on[p]] = None

Survivor(p) ==
    /\ pc[p] = "survivor"
    /\ Goes(p, IF Unused(p) THEN "state lock" ELSE "remove")
    /\ UNCHANGED <<store, world, lock, on, source, local, past>>

Remove(p) ==
    /\ pc[p] = "remove"
    /\ IF Inferred(p)
       THEN records' = [records EXCEPT ![on[p]] = None] /\ UNCHANGED claims
       ELSE claims' = claims \ {on[p]} /\ UNCHANGED records
    /\ Goes(p, "done")
    /\ UNCHANGED <<index, world, lock, on, source, local, past>>

-----------------------------------------------------------------------------
(* session: claim, record, source fingerprints, state file, legacy file.    *)

Reports(s, v) == verdict' = [verdict EXCEPT ![s] = v] /\ Goes(s, "done")

ReadClaim(s) ==
    /\ pc[s] = "claim"
    /\ \/ on[s] \in claims /\ Reports(s, "claimed")
       \/ on[s] \notin claims /\ Goes(s, "record") /\ UNCHANGED verdict
    /\ UNCHANGED <<store, world, lock, on, source, saw, past>>

ReadRecord(s) ==
    /\ pc[s] = "record"
    /\ \/ /\ records[on[s]] = None
          /\ Reports(s, "absent") /\ UNCHANGED saw
       \/ /\ records[on[s]] # None
          /\ saw' = [saw EXCEPT ![s] = records[on[s]]]
          /\ Goes(s, "sources") /\ UNCHANGED verdict
    /\ UNCHANGED <<store, world, lock, on, source, past>>

CheckSources(s) ==
    /\ pc[s] = "sources"
    /\ \/ corpus[on[s]].sources # saw[s].sources /\ Reports(s, "last_known_good")
       \/ /\ corpus[on[s]].sources = saw[s].sources
          /\ Goes(s, "see state") /\ UNCHANGED verdict
    /\ UNCHANGED <<store, world, lock, on, source, saw, past>>

Judge(record, entry) == IF entry.universe = record.universe
                        THEN "current" ELSE "last_known_good"

\* Mutant: what the legacy file says outranks the state file.
NeverIn(c) == index["legacy"][c] # None \/ index["state"][c] = None
NotIn(c) == index["state"][c] = None

SeeState(s) ==
    /\ pc[s] = "see state"
    /\ \/ "state" \in unreadable /\ Reports(s, "unknown")
       \/ /\ "state" \notin unreadable /\ ~NotIn(on[s])
          /\ Reports(s, Judge(saw[s], index["state"][on[s]]))
       \/ /\ "state" \notin unreadable /\ NotIn(on[s])
          /\ Goes(s, "see legacy") /\ UNCHANGED verdict
    /\ past' = [past EXCEPT !.seen[s] = {past.found[on[s]]}]
    /\ UNCHANGED <<store, world, lock, on, source, saw>>

SeeLegacy(s) ==
    LET entry == index["legacy"][on[s]]
    IN  /\ pc[s] = "see legacy"
        /\ Reports(s, IF "legacy" \in unreadable \/ entry = None
                      THEN "unknown" ELSE Judge(saw[s], entry))
        /\ UNCHANGED <<store, world, lock, on, source, saw, past>>

-----------------------------------------------------------------------------
(* Everything else.                                                         *)

\* Killed, or stopped by an error it does not tolerate; the kernel frees locks.
Fail(p) ==
    /\ pc[p] \notin Ended \cup {"analyze", "choose"}
    /\ faults < MaxFaults /\ faults' = faults + 1
    /\ Goes(p, "failed") /\ Frees(p)
    /\ past' = IF pc[p] = "legacy file" THEN Leftover(p) ELSE past
    /\ UNCHANGED <<store, corpus, listing, changes, unreadable, on, source, local>>

\* Claude writes transcripts: a source of the child's record, a new file, or
\* another one that only matters to what the child may be compared with.
Write(c) ==
    /\ changes < MaxChanges /\ changes' = changes + 1
    /\ \E u \in Universe :
          \/ corpus' = [corpus EXCEPT ![c].universe = u, ![c].sources = @ + 1]
             /\ UNCHANGED listing
          \/ corpus' = [corpus EXCEPT ![c].universe = u] /\ listing' = listing + 1
          \/ corpus' = [corpus EXCEPT ![c].universe = u] /\ UNCHANGED listing
    /\ UNCHANGED <<store, unreadable, faults, lock, pc, on, source, local, past>>

\* fork registers a claim.
Plan(c) ==
    /\ c \notin claims /\ claims' = claims \cup {c}
    /\ UNCHANGED <<records, index, world, lock, pc, on, source, local, past>>

\* Something replaces an index file by a link or by junk, or brings it back.
Meddle(f) ==
    /\ faults < MaxFaults /\ faults' = faults + 1
    /\ unreadable' = IF f \in unreadable THEN unreadable \ {f} ELSE unreadable \cup {f}
    /\ UNCHANGED <<store, corpus, listing, changes, lock, pc, on, source, local, past>>

Next ==
    \/ \E p \in Analyses \cup Deletes : \/ TakeFirst(p) \/ TakeSecond(p) \/ Busy(p)
                                       \/ UpdateState(p) \/ UpdateLegacy(p) \/ Fail(p)
    \/ \E p \in Analyses : \/ Analyze(p) \/ Tolerate(p)
                           \/ Stable(p) \/ AddInference(p)
    \/ \E p \in Deletes : Choose(p) \/ Consent(p) \/ Survivor(p) \/ Remove(p)
    \/ \E s \in Sessions : \/ ReadClaim(s) \/ ReadRecord(s) \/ CheckSources(s)
                           \/ SeeState(s) \/ SeeLegacy(s)
    \/ \E c \in Active : Write(c) \/ Plan(c)
    \/ \E f \in File : Meddle(f)

Spec == Init /\ [][Next]_vars

-----------------------------------------------------------------------------
(* Properties.                                                              *)

\* An inspection takes a record for current only if the last analysis that
\* reached the index, when it looked, found the record's universe: rejected
\* evidence is not revived by the migration, by a deletion under way or by an
\* analysis that ends late.  Only a migration that stopped half way can do it.
RejectedStaysRejected ==
    \A s \in Sessions : verdict[s] = "current" =>
        \/ past.seen[s] = {saw[s].universe}
        \/ on[s] \in past.leftover

\* A record without an entry in either file never had one written, or lost it
\* to a deletion of its own child.  A deletion of the child's claim counts only
\* for a record that an analysis has written since the beginning: it costs one
\* that was there before nothing, and neither does migrating or deleting
\* another child.
CorroborationIsNotLost ==
    \A c \in Child :
        records[c] # None /\ (\A f \in File : index[f][c] = None) =>
            \/ records[c].by \in past.unwritten
            \/ \E d \in past.stripped \cup past.cleared :
                  on[d] = c /\ (Inferred(d) \/ records[c].by # Earlier)

\* A removal that read both files leaves the child in neither; what is there
\* later was found by an analysis that wrote after it.
ReportedRemovalIsComplete ==
    \A d \in past.cleared :
        /\ index["legacy"][on[d]] = None
        /\ index["state"][on[d]] # None =>
              index["state"][on[d]].by \notin past.seen[d]

\* No two commands wait for each other: whoever waits for the second lock waits
\* for somebody who waits for nothing, so that no command needs its deadline.
NoCircularWait ==
    \A p, q \in Analyses \cup Deletes :
        ~ /\ pc[p] = "legacy lock" /\ lock[Second(p)] = q
          /\ pc[q] = "legacy lock" /\ lock[Second(q)] = p
=============================================================================
