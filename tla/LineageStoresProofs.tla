------------------------ MODULE LineageStoresProofs ------------------------
(***************************************************************************)
(* The four properties of the lineage stores for any sessions, transcripts *)
(* and commands.                                                           *)
(*                                                                         *)
(* The index is two files that are rewritten one after the other, so what  *)
(* a reader needs is spread over them while a command is between the two.  *)
(* The inductive invariant says who may be there (the locks), what that    *)
(* command has done to the first file, and what each file says of a child  *)
(* meanwhile.                                                              *)
(***************************************************************************)
EXTENDS LineageStores, TLAPS

Commands == Analyses \cup Deletes
Holding == {"legacy lock"} \cup Critical

Past == [found : [Child -> Universe \cup {None}],
         wrote : SUBSET Analyses, unwritten : SUBSET Analyses,
         leftover : SUBSET Child,
         stripped : SUBSET Deletes, cleared : SUBSET Deletes,
         seen : [Deletes \cup Sessions ->
                    SUBSET (Universe \cup {None} \cup Analyses \cup {Earlier})]]

WorldOK ==
    /\ corpus \in [Child -> [universe : Universe, sources : 0..MaxChanges]]
    /\ listing \in 0..MaxChanges /\ changes \in 0..MaxChanges
    /\ listing <= changes /\ \A c \in Child : corpus[c].sources <= changes

StoresOK ==
    /\ claims \subseteq Child
    /\ records \in [Child -> Found \cup {None}]
    /\ index \in [File -> [Child -> Entry \cup {None}]]

ProcessesOK ==
    /\ lock \in [File -> Commands \cup {None}]
    /\ pc \in [Proc -> Steps]
    /\ \A p \in Commands : pc[p] \notin {"claim", "record", "sources", "see state", "see legacy"}
    /\ \A p \in Analyses : pc[p] \notin {"choose", "consent", "survivor", "remove"}
    /\ \A p \in Deletes : pc[p] \notin {"analyze", "stable", "add"}
    /\ \A s \in Sessions : pc[s] \notin Waiting \cup Critical
    /\ on \in [Proc -> Child]
    /\ source \in [Deletes -> {"inferred", "planned", None}]
    /\ saw \in [Proc -> Found \cup {None}]
    /\ verdict \in [Sessions -> Verdict \cup {None}]

TypeOK == WorldOK /\ StoresOK /\ ProcessesOK /\ past \in Past

\* Who holds which lock: both at the files, the first alone at the second.
LockAt(p) ==
    /\ lock["state"] = p <=> pc[p] \in Holding
    /\ lock["legacy"] = p <=> pc[p] \in Critical

\* An analysis writes once and, until it has been to the second file, what it
\* wrote stands; afterwards only a deletion took it away.
WriteAt(p) ==
    /\ pc[p] # "analyze" => saw[p] \in Found /\ saw[p].by = p
    /\ p \in past.wrote => /\ pc[p] \in {"legacy file", "stable", "add"} \cup Ended
                           /\ \/ index["state"][on[p]] # None
                              \/ \E d \in past.stripped : on[d] = on[p]
    /\ pc[p] = "legacy file" => p \in past.wrote /\ index["state"][on[p]] # None
    /\ pc[p] \in {"stable", "add"} => p \in past.wrote \cup past.unwritten

\* A deletion that is at the index was for the record, or saw that no earlier
\* record needs the entry; what it took from the first file stays taken while
\* it is at the second.
DeleteAt(d) ==
    /\ pc[d] \in Waiting \cup Critical =>
          Inferred(d) \/ records[on[d]] = None \/ records[on[d]].by # Earlier
    /\ pc[d] = "legacy file" => index["state"][on[d]] = None
    /\ d \in past.stripped \cup past.cleared => pc[d] # "choose"
    /\ d \in past.cleared => past.seen[d] \subseteq past.wrote \cup {Earlier}

\* Where a record came from, and where its entry is or who took it.
RecordAt(c) ==
    records[c] # None =>
        \/ /\ records[c].by \in past.wrote \cup past.unwritten
           /\ on[records[c].by] = c
        \/ /\ records[c].by = Earlier
           /\ \/ \E f \in File : index[f][c] # None
              \/ \E d \in past.stripped \cup past.cleared : on[d] = c /\ Inferred(d)

\* The state file says what the last analysis found; the legacy one may say
\* otherwise only under an analysis at work on it, or where one stopped there.
FoundAt(c) ==
    /\ index["state"][c] # None => index["state"][c].universe = past.found[c]
    /\ index["legacy"][c] # None =>
          \/ index["legacy"][c].universe = past.found[c]
          \/ c \in past.leftover
          \/ \E p \in Analyses : pc[p] = "legacy file" /\ on[p] = c

\* An inspection between the files, and one that reported, answer for what had
\* been found when they were at the first.
SessionAt(s) ==
    /\ pc[s] = "see legacy" /\ index["legacy"][on[s]] # None =>
          \/ past.seen[s] = {index["legacy"][on[s]].universe}
          \/ on[s] \in past.leftover
    /\ verdict[s] = "current" =>
          /\ pc[s] = "done"
          /\ past.seen[s] = {saw[s].universe} \/ on[s] \in past.leftover

\* What ReportedRemovalIsComplete says of one removal.
RemovalAt(d) ==
    d \in past.cleared =>
        /\ index["legacy"][on[d]] = None
        /\ index["state"][on[d]] # None => index["state"][on[d]].by \notin past.seen[d]

LockInv == \A p \in Commands : LockAt(p)
WriteInv == \A p \in Analyses : WriteAt(p)
DeleteInv == \A d \in Deletes : DeleteAt(d) /\ RemovalAt(d)
RecordInv == \A c \in Child : RecordAt(c)
FoundInv == \A c \in Child : FoundAt(c)
SessionInv == \A s \in Sessions : SessionAt(s)

StoresInv == /\ TypeOK /\ LockInv /\ WriteInv /\ DeleteInv
             /\ RecordInv /\ FoundInv /\ SessionInv

-----------------------------------------------------------------------------
\* The roles are apart, and None and Earlier stand for no process.
LEMMA Roles ==
    /\ \A p \in Analyses : p \in Proc /\ p \in Commands /\ p \notin Deletes /\ p \notin Sessions
    /\ \A p \in Deletes : p \in Proc /\ p \in Commands /\ p \notin Analyses /\ p \notin Sessions
    /\ \A p \in Sessions : p \in Proc /\ p \notin Commands
    /\ \A p \in Commands : p \in Proc /\ (p \in Analyses \/ p \in Deletes)
    /\ \A p \in Proc : p # None /\ p # Earlier
BY LineageAssumption DEF LineageAssumption, Proc, Commands

\* None is no record, no entry and no verdict.
LEMMA NoneIsNothing ==
    None \notin Universe /\ None \notin Entry /\ None \notin Found /\ None \notin Verdict
BY LineageAssumption DEF LineageAssumption

\* With two files, the second lock is the legacy file's.
LEMMA SecondIsLegacy ==
    /\ "state" \in File /\ "legacy" \in File
    /\ \A p : First(p) = "state" /\ Second(p) = "legacy"
BY DEF Second, First, File

\* A process that goes somewhere moves itself alone.
LEMMA GoesMoves ==
    ASSUME TypeOK, NEW p \in Proc, NEW to, Goes(p, to)
    PROVE  pc'[p] = to /\ \A q \in Proc : q # p => pc'[q] = pc[q]
BY DEF TypeOK, ProcessesOK, Goes

\* Freeing takes a process off both locks and nobody else.
LEMMA FreesBoth ==
    ASSUME TypeOK, NEW p \in Commands, Frees(p)
    PROVE  /\ lock' \in [File -> Commands \cup {None}]
           /\ \A f \in File : lock'[f] # p
           /\ \A f \in File, q \in Commands : q # p => (lock'[f] = q <=> lock[f] = q)
BY Roles DEF TypeOK, ProcessesOK, Frees

\* The locks exclude: whoever is at the files is alone there.
LEMMA FilesAreExclusive ==
    ASSUME LockInv, NEW p \in Commands, NEW q \in Commands,
           pc[p] \in Critical, pc[q] \in Critical
    PROVE  p = q
BY DEF LockInv, LockAt, Holding

-----------------------------------------------------------------------------
\* The invariant does not depend on what Claude writes, on the claims or on
\* which file is unreadable.
LEMMA EnvironmentFrame ==
    ASSUME StoresInv, WorldOK', claims' \subseteq Child,
           UNCHANGED <<records, index, lock, pc, on, source, saw, verdict, past>>
    PROVE  StoresInv'
<1>1. TypeOK'
  BY DEF StoresInv, TypeOK, StoresOK, ProcessesOK
<1>2. LockInv' /\ WriteInv'
  BY DEF StoresInv, LockInv, LockAt, WriteInv, WriteAt
<1>3. DeleteInv'
  BY DEF StoresInv, DeleteInv, DeleteAt, RemovalAt, Inferred
<1>4. RecordInv'
  <2> SUFFICES ASSUME NEW c \in Child PROVE RecordAt(c)'
    BY DEF RecordInv
  <2>1. RecordAt(c)
    BY DEF StoresInv, RecordInv
  <2>2. QED
    BY <2>1 DEF RecordAt, Inferred
<1>5. FoundInv' /\ SessionInv'
  BY DEF StoresInv, FoundInv, FoundAt, SessionInv, SessionAt
<1>6. QED
  BY <1>1, <1>2, <1>3, <1>4, <1>5 DEF StoresInv

\* What Claude writes stays within its bounds.
LEMMA WriteKeepsInv ==
    ASSUME StoresInv, NEW c \in Active, Write(c)
    PROVE  StoresInv'
<1> USE DEF Write, store, local
<1>1. WorldOK
  BY DEF StoresInv, TypeOK
<1>2. c \in Child /\ MaxChanges \in Nat
  BY LineageAssumption DEF LineageAssumption
<1>3. PICK u \in Universe :
         \/ corpus' = [corpus EXCEPT ![c].universe = u, ![c].sources = @ + 1]
            /\ UNCHANGED listing
         \/ corpus' = [corpus EXCEPT ![c].universe = u] /\ listing' = listing + 1
         \/ corpus' = [corpus EXCEPT ![c].universe = u] /\ UNCHANGED listing
  OBVIOUS
<1>4. changes < MaxChanges /\ changes' = changes + 1
  OBVIOUS
<1>5. WorldOK'
  <2> HIDE DEF Write
  <2>1. changes' \in 0..MaxChanges
    BY <1>1, <1>2, <1>4 DEF WorldOK
  <2>2. listing' \in 0..MaxChanges /\ listing' <= changes'
    BY <1>1, <1>2, <1>3, <1>4 DEF WorldOK
  <2>3. corpus' \in [Child -> [universe : Universe, sources : 0..MaxChanges]]
    BY <1>1, <1>2, <1>3, <1>4 DEF WorldOK
  <2>4. \A d \in Child : corpus'[d].sources <= changes'
    BY <1>1, <1>2, <1>3, <1>4 DEF WorldOK
  <2>5. QED
    BY <2>1, <2>2, <2>3, <2>4 DEF WorldOK
<1>6. claims' \subseteq Child
  BY DEF StoresInv, TypeOK, StoresOK
<1>7. QED
  BY <1>5, <1>6, EnvironmentFrame

\* A claim is planned, or an index file is meddled with.
LEMMA OthersKeepInv ==
    ASSUME StoresInv,
           \/ \E c \in Active : Plan(c)
           \/ \E f \in File : Meddle(f)
           \/ UNCHANGED vars
    PROVE  StoresInv'
<1>1. UNCHANGED <<corpus, listing, changes, records, index, lock, pc, on, source, saw,
                  verdict, past>>
  BY DEF Plan, Meddle, vars, store, world, local
<1>2. WorldOK'
  BY <1>1 DEF StoresInv, TypeOK, WorldOK
<1>3. claims' \subseteq Child
  BY LineageAssumption DEF LineageAssumption, StoresInv, TypeOK, StoresOK, Plan, Meddle,
     vars, store
<1>4. QED
  BY <1>1, <1>2, <1>3, EnvironmentFrame

-----------------------------------------------------------------------------
\* A process moves without holding or taking a lock at the files.
Walks(p) ==
    /\ \A q \in Proc : q # p => pc'[q] = pc[q]
    /\ pc[p] \notin Holding /\ pc'[p] \notin Holding
    /\ UNCHANGED <<index, lock, on>>

\* Such a move disturbs no lock, nothing either file says of a child and no
\* removal that is complete.
LEMMA WalkFrame ==
    ASSUME StoresInv, NEW p \in Proc, Walks(p), UNCHANGED past
    PROVE  LockInv' /\ FoundInv' /\ \A d \in Deletes : RemovalAt(d)'
<1> USE DEF Walks, StoresInv, Holding, Critical
<1>1. LockInv'
  BY Roles DEF LockInv, LockAt
<1>2. FoundInv'
  <2> SUFFICES ASSUME NEW c \in Child PROVE FoundAt(c)'
    BY DEF FoundInv
  <2>1. FoundAt(c)
    BY DEF FoundInv
  <2>2. \A q \in Analyses : pc[q] = "legacy file" => pc'[q] = "legacy file"
    BY Roles
  <2>3. QED
    BY <2>1, <2>2 DEF FoundAt
<1>3. \A d \in Deletes : RemovalAt(d)'
  BY DEF DeleteInv, RemovalAt
<1>4. QED
  BY <1>1, <1>2, <1>3

\* An analysis that reads, checks its evidence or adds its record.
LEMMA AnalysisKeepsInv ==
    ASSUME StoresInv, NEW p \in Analyses, Analyze(p) \/ Stable(p) \/ AddInference(p)
    PROVE  StoresInv'
<1> USE DEF StoresInv
<1>1. /\ \A q \in Proc : q # p => pc'[q] = pc[q]
      /\ pc[p] \in {"analyze", "stable", "add"}
      /\ \/ pc[p] = "analyze" /\ pc'[p] = "state lock"
         \/ pc[p] = "stable" /\ pc'[p] \in {"add", "failed"}
         \/ pc[p] = "add" /\ pc'[p] = "done"
  BY Roles, GoesMoves DEF Analyze, Stable, AddInference
<1>2. UNCHANGED <<claims, index, lock, on, source, verdict, past, corpus, listing, changes>>
  BY DEF Analyze, Stable, AddInference, store, world, local
<1>3. LockInv' /\ FoundInv' /\ \A d \in Deletes : RemovalAt(d)'
  BY <1>1, <1>2, Roles, WalkFrame DEF Walks, Holding, Critical
<1>4. /\ saw' \in [Proc -> Found \cup {None}]
      /\ \A q \in Proc : q # p => saw'[q] = saw[q]
      /\ saw'[p] \in Found /\ saw'[p].by = p
  <2>1. CASE Analyze(p)
    <3>1. [universe |-> corpus[on[p]].universe, sources |-> corpus[on[p]].sources,
           listing |-> listing, by |-> p] \in Found
      BY Roles DEF TypeOK, WorldOK, ProcessesOK, Found
    <3>2. QED
      BY <2>1, <3>1, Roles DEF Analyze, TypeOK, ProcessesOK
  <2>2. CASE Stable(p) \/ AddInference(p)
    BY <2>2 DEF Stable, AddInference, local, TypeOK, ProcessesOK, WriteInv, WriteAt
  <2>3. QED
    BY <2>1, <2>2
<1>5. /\ records' \in [Child -> Found \cup {None}]
      /\ \A c \in Child :
            \/ records'[c] = records[c]
            \/ records'[c].by = p /\ on[p] = c /\ pc[p] = "add"
  <2>1. CASE AddInference(p)
    BY <1>2, <1>4, <2>1, Roles DEF AddInference, local, TypeOK, StoresOK, ProcessesOK
  <2>2. CASE Analyze(p) \/ Stable(p)
    BY <2>2 DEF Analyze, Stable, store, TypeOK, StoresOK
  <2>3. QED
    BY <2>1, <2>2
<1>6. TypeOK'
  <2>1. WorldOK' /\ StoresOK' /\ past' \in Past
    BY <1>2, <1>5 DEF TypeOK, WorldOK, StoresOK
  <2>2. pc' \in [Proc -> Steps]
    BY Roles DEF Analyze, Stable, AddInference, Goes, TypeOK, ProcessesOK, Steps, Waiting, Ended
  <2>3. ProcessesOK'
    BY <1>1, <1>2, <1>4, <2>2, Roles DEF TypeOK, ProcessesOK, Waiting, Critical
  <2>4. QED
    BY <2>1, <2>3 DEF TypeOK
<1>7. WriteInv'
  <2> SUFFICES ASSUME NEW q \in Analyses PROVE WriteAt(q)'
    BY DEF WriteInv
  <2>1. WriteAt(q)
    BY DEF WriteInv
  <2>2. QED
    BY <1>1, <1>2, <1>4, <2>1, Roles DEF WriteAt, Ended
<1>8. DeleteInv'
  <2> SUFFICES ASSUME NEW d \in Deletes PROVE DeleteAt(d)'
    BY <1>3 DEF DeleteInv
  <2>1. DeleteAt(d) /\ on[d] \in Child /\ pc'[d] = pc[d]
    BY <1>1, Roles DEF DeleteInv, TypeOK, ProcessesOK
  <2>2. QED
    BY <1>2, <1>5, <2>1, Roles DEF DeleteAt, Inferred
<1>9. RecordInv'
  <2> SUFFICES ASSUME NEW c \in Child PROVE RecordAt(c)'
    BY DEF RecordInv
  <2>1. RecordAt(c)
    BY DEF RecordInv
  <2>2. pc[p] = "add" => p \in past.wrote \cup past.unwritten
    BY DEF WriteInv, WriteAt
  <2>3. QED
    BY <1>2, <1>5, <2>1, <2>2 DEF RecordAt, Inferred
<1>10. SessionInv'
  <2> SUFFICES ASSUME NEW s \in Sessions PROVE SessionAt(s)'
    BY DEF SessionInv
  <2>1. SessionAt(s) /\ pc'[s] = pc[s] /\ saw'[s] = saw[s]
    BY <1>1, <1>4, Roles DEF SessionInv
  <2>2. QED
    BY <1>2, <2>1 DEF SessionAt
<1>11. QED
  BY <1>3, <1>6, <1>7, <1>8, <1>9, <1>10

\* A deletion that chooses, gets its consent, looks for a surviving record or
\* removes what it was for.
LEMMA DeletionKeepsInv ==
    ASSUME StoresInv, NEW p \in Deletes, Choose(p) \/ Consent(p) \/ Survivor(p) \/ Remove(p)
    PROVE  StoresInv'
<1> USE DEF StoresInv
<1>1. /\ \A q \in Proc : q # p => pc'[q] = pc[q]
      /\ \/ pc[p] = "choose" /\ pc'[p] = "consent"
         \/ pc[p] = "consent" /\ pc'[p] = "survivor"
         \/ pc[p] = "consent" /\ pc'[p] = "state lock" /\ Inferred(p)
         \/ pc[p] = "survivor" /\ pc'[p] = "state lock" /\ records[on[p]] = None
         \/ pc[p] = "survivor" /\ pc'[p] = "remove"
         \/ pc[p] = "remove" /\ pc'[p] = "done"
  BY Roles, GoesMoves DEF Choose, Consent, Survivor, Remove, Unused
<1>2. UNCHANGED <<index, lock, on, saw, verdict, past, corpus, listing, changes>>
  BY DEF Choose, Consent, Survivor, Remove, store, world, local
<1>3. LockInv' /\ FoundInv' /\ \A d \in Deletes : RemovalAt(d)'
  BY <1>1, <1>2, Roles, WalkFrame DEF Walks, Holding, Critical
<1>4. /\ source' \in [Deletes -> {"inferred", "planned", None}]
      /\ \A d \in Deletes : pc[d] # "choose" => source'[d] = source[d]
  BY DEF Choose, Consent, Survivor, Remove, TypeOK, ProcessesOK
<1>5. /\ records' \in [Child -> Found \cup {None}]
      /\ \A c \in Child : records'[c] \in {records[c], None}
  BY DEF Choose, Consent, Survivor, Remove, store, TypeOK, StoresOK
<1>6. claims' \subseteq Child
  BY DEF Choose, Consent, Survivor, Remove, store, TypeOK, StoresOK
<1>7. TypeOK'
  <2>1. WorldOK' /\ StoresOK' /\ past' \in Past
    BY <1>2, <1>5, <1>6 DEF TypeOK, WorldOK, StoresOK
  <2>2. pc' \in [Proc -> Steps]
    BY Roles DEF Choose, Consent, Survivor, Remove, Goes, TypeOK, ProcessesOK, Steps,
       Waiting, Ended
  <2>3. ProcessesOK'
    BY <1>1, <1>2, <1>4, <2>2, Roles DEF TypeOK, ProcessesOK, Waiting, Critical
  <2>4. QED
    BY <2>1, <2>3 DEF TypeOK
<1>8. WriteInv'
  <2> SUFFICES ASSUME NEW q \in Analyses PROVE WriteAt(q)'
    BY DEF WriteInv
  <2>1. WriteAt(q) /\ pc'[q] = pc[q]
    BY <1>1, Roles DEF WriteInv
  <2>2. QED
    BY <1>2, <2>1 DEF WriteAt
<1>9. DeleteInv'
  <2> SUFFICES ASSUME NEW d \in Deletes PROVE DeleteAt(d)'
    BY <1>3 DEF DeleteInv
  <2>1. DeleteAt(d) /\ on[d] \in Child
    BY Roles DEF DeleteInv, TypeOK, ProcessesOK
  <2>2. QED
    BY <1>1, <1>2, <1>4, <1>5, <2>1, Roles DEF DeleteAt, Inferred, Waiting, Critical
<1>10. RecordInv'
  <2> SUFFICES ASSUME NEW c \in Child PROVE RecordAt(c)'
    BY DEF RecordInv
  <2>1. RecordAt(c)
    BY DEF RecordInv
  <2>2. \A d \in past.stripped \cup past.cleared : d \in Deletes /\ source'[d] = source[d]
    BY <1>4 DEF DeleteInv, DeleteAt, TypeOK, Past
  <2>3. QED
    BY <1>2, <1>5, <2>1, <2>2 DEF RecordAt, Inferred
<1>11. SessionInv'
  <2> SUFFICES ASSUME NEW s \in Sessions PROVE SessionAt(s)'
    BY DEF SessionInv
  <2>1. SessionAt(s) /\ pc'[s] = pc[s]
    BY <1>1, Roles DEF SessionInv
  <2>2. QED
    BY <1>2, <2>1 DEF SessionAt
<1>12. QED
  BY <1>3, <1>7, <1>8, <1>9, <1>10, <1>11

\* An inspection reads and reports.  What it saw found at the first file is
\* what the entry it takes for current says, unless a migration stopped there.
LEMMA InspectionKeepsInv ==
    ASSUME StoresInv, NEW p \in Sessions,
           ReadClaim(p) \/ ReadRecord(p) \/ CheckSources(p) \/ SeeState(p) \/ SeeLegacy(p)
    PROVE  StoresInv'
<1> USE DEF StoresInv
<1>1. /\ \A q \in Proc : q # p => pc'[q] = pc[q]
      /\ pc[p] \in {"claim", "record", "sources", "see state", "see legacy"}
      /\ pc'[p] \in {"record", "sources", "see state", "see legacy", "done"}
  BY Roles, GoesMoves DEF ReadClaim, ReadRecord, CheckSources, SeeState, SeeLegacy, Reports
<1>2. UNCHANGED <<claims, records, index, lock, on, source, corpus, listing, changes>>
  BY DEF ReadClaim, ReadRecord, CheckSources, SeeState, SeeLegacy, store, world
<1>3. /\ saw' \in [Proc -> Found \cup {None}]
      /\ \A q \in Proc : q # p => saw'[q] = saw[q]
      /\ pc[p] # "record" => saw'[p] = saw[p]
  <2>1. records[on[p]] \in Found \cup {None}
    BY Roles DEF TypeOK, StoresOK, ProcessesOK
  <2>2. QED
    BY <2>1, Roles DEF ReadClaim, ReadRecord, CheckSources, SeeState, SeeLegacy, TypeOK,
       ProcessesOK
<1>4. /\ past' \in Past
      /\ UNCHANGED <<past.found, past.wrote, past.unwritten, past.leftover, past.stripped,
                     past.cleared>>
      /\ \A q \in Deletes \cup Sessions :
            q # p \/ pc[p] # "see state" => past'.seen[q] = past.seen[q]
      /\ pc[p] = "see state" => past'.seen[p] = {past.found[on[p]]}
  <2>1. CASE SeeState(p)
    <3>1. on[p] \in Child /\ pc[p] = "see state"
      BY <2>1, Roles DEF SeeState, TypeOK, ProcessesOK
    <3>2. past' = [past EXCEPT !.seen[p] = {past.found[on[p]]}]
      BY <2>1 DEF SeeState
    <3>3. past \in Past
      BY DEF TypeOK
    <3>4. past.found[on[p]] \in Universe \cup {None}
      BY <3>1, <3>3 DEF Past
    <3>5. QED
      BY <3>1, <3>2, <3>3, <3>4 DEF Past
  <2>2. CASE ~SeeState(p)
    BY <2>2, Roles DEF ReadClaim, ReadRecord, CheckSources, SeeLegacy, TypeOK
  <2>3. QED
    BY <2>1, <2>2
<1>5. /\ verdict' \in [Sessions -> Verdict \cup {None}]
      /\ \A s \in Sessions : s # p => verdict'[s] = verdict[s]
      /\ verdict'[p] = verdict[p] \/ pc'[p] = "done"
  BY DEF ReadClaim, ReadRecord, CheckSources, SeeState, SeeLegacy, Reports, Judge, TypeOK,
         ProcessesOK, Verdict, Goes, Proc
<1>6. TypeOK'
  <2>1. WorldOK' /\ StoresOK'
    BY <1>2 DEF TypeOK, WorldOK, StoresOK
  <2>2. pc' \in [Proc -> Steps]
    BY Roles DEF ReadClaim, ReadRecord, CheckSources, SeeState, SeeLegacy, Reports, Goes,
       TypeOK, ProcessesOK, Steps, Ended
  <2>3. ProcessesOK'
    BY <1>1, <1>2, <1>3, <1>5, <2>2, Roles DEF TypeOK, ProcessesOK, Waiting, Critical
  <2>4. QED
    BY <1>4, <2>1, <2>3 DEF TypeOK
<1>7. LockInv'
  BY <1>1, <1>2, Roles DEF LockInv, LockAt
<1>8. FoundInv'
  <2> SUFFICES ASSUME NEW c \in Child PROVE FoundAt(c)'
    BY DEF FoundInv
  <2>1. FoundAt(c) /\ \A q \in Analyses : pc'[q] = pc[q]
    BY <1>1, Roles DEF FoundInv
  <2>2. QED
    BY <1>2, <1>4, <2>1 DEF FoundAt
<1>9. WriteInv'
  <2> SUFFICES ASSUME NEW q \in Analyses PROVE WriteAt(q)'
    BY DEF WriteInv
  <2>1. WriteAt(q) /\ pc'[q] = pc[q] /\ saw'[q] = saw[q]
    BY <1>1, <1>3, Roles DEF WriteInv
  <2>2. QED
    BY <1>2, <1>4, <2>1 DEF WriteAt
<1>10. DeleteInv'
  <2> SUFFICES ASSUME NEW d \in Deletes PROVE DeleteAt(d)' /\ RemovalAt(d)'
    BY DEF DeleteInv
  <2>1. DeleteAt(d) /\ RemovalAt(d) /\ pc'[d] = pc[d] /\ past'.seen[d] = past.seen[d]
    BY <1>1, <1>4, Roles DEF DeleteInv
  <2>2. QED
    BY <1>2, <1>4, <2>1 DEF DeleteAt, RemovalAt, Inferred
<1>11. RecordInv'
  <2> SUFFICES ASSUME NEW c \in Child PROVE RecordAt(c)'
    BY DEF RecordInv
  <2>1. RecordAt(c)
    BY DEF RecordInv
  <2>2. QED
    BY <1>2, <1>4, <2>1 DEF RecordAt, Inferred
<1>12. SessionAt(p)'
  <2> DEFINE c == on[p]
  <2>1. c \in Child /\ SessionAt(p) /\ FoundAt(c) /\ c' = c
    BY <1>2, Roles DEF TypeOK, ProcessesOK, SessionInv, FoundInv
  <2>2. verdict'[p] = "current" => verdict'[p] # verdict[p] /\ pc'[p] = "done"
    BY <1>1, <1>5, <2>1 DEF SessionAt
  <2>3. CASE SeeState(p)
    <3>1. pc[p] = "see state" /\ past'.seen[p] = {past.found[c]} /\ saw'[p] = saw[p]
      BY <1>3, <1>4, <2>3 DEF SeeState
    <3>2. pc'[p] = "see legacy" => index["state"][c] = None
      BY <2>3, GoesMoves, Roles DEF SeeState, NotIn, Reports
    <3>3. index["state"][c] = None /\ index["legacy"][c] # None =>
             index["legacy"][c].universe = past.found[c] \/ c \in past.leftover
      BY <2>1 DEF FoundAt, WriteInv, WriteAt
    <3>4. verdict'[p] = "current" =>
             index["state"][c] # None /\ index["state"][c].universe = saw[p].universe
      BY <2>2, <2>3 DEF SeeState, NotIn, Reports, Judge, TypeOK, ProcessesOK
    <3>5. index["state"][c] # None => index["state"][c].universe = past.found[c]
      BY <2>1 DEF FoundAt
    <3>6. QED
      BY <1>2, <1>4, <2>1, <2>2, <3>1, <3>2, <3>3, <3>4, <3>5 DEF SessionAt
  <2>4. CASE SeeLegacy(p)
    <3>1. pc[p] = "see legacy" /\ past'.seen[p] = past.seen[p] /\ saw'[p] = saw[p]
      BY <1>3, <1>4, <2>4 DEF SeeLegacy
    <3>2. pc'[p] = "done"
      BY <2>4, GoesMoves, Roles DEF SeeLegacy, Reports
    <3>3. verdict'[p] = "current" =>
             index["legacy"][c] # None /\ index["legacy"][c].universe = saw[p].universe
      BY <2>2, <2>4 DEF SeeLegacy, Reports, Judge, TypeOK, ProcessesOK
    <3>4. QED
      BY <1>2, <1>4, <2>1, <2>2, <3>1, <3>2, <3>3 DEF SessionAt
  <2>5. CASE ReadClaim(p) \/ ReadRecord(p) \/ CheckSources(p)
    <3>1. \/ verdict' = verdict
          \/ \E v \in {"claimed", "absent", "last_known_good"} :
                verdict' = [verdict EXCEPT ![p] = v]
      BY <2>5 DEF ReadClaim, ReadRecord, CheckSources, Reports
    <3>2. verdict'[p] # "current"
      BY <2>2, <3>1 DEF TypeOK, ProcessesOK
    <3>3. pc'[p] # "see legacy"
      BY <2>5, Roles DEF ReadClaim, ReadRecord, CheckSources, Reports, Goes, TypeOK, ProcessesOK
    <3>4. QED
      BY <3>2, <3>3 DEF SessionAt
  <2>6. QED
    BY <2>3, <2>4, <2>5
<1>13. SessionInv'
  <2> SUFFICES ASSUME NEW s \in Sessions, s # p PROVE SessionAt(s)'
    BY <1>12 DEF SessionInv
  <2>1. SessionAt(s) /\ pc'[s] = pc[s] /\ saw'[s] = saw[s] /\ verdict'[s] = verdict[s]
        /\ past'.seen[s] = past.seen[s]
    BY <1>1, <1>3, <1>4, <1>5, Roles DEF SessionInv
  <2>2. QED
    BY <1>2, <1>4, <2>1 DEF SessionAt
<1>14. QED
  BY <1>6, <1>7, <1>8, <1>9, <1>10, <1>11, <1>13

-----------------------------------------------------------------------------
\* A command moves on without writing: it takes a lock, gives up, or leaves a
\* file as it found it.  A migration that leaves the second file so says that
\* it stopped half way.
Passes(p) ==
    /\ \A q \in Proc : q # p => pc'[q] = pc[q]
    /\ pc[p] \notin {"analyze", "choose"} \cup Ended
    /\ \/ pc[p] \in Waiting /\ pc'[p] \in {"legacy lock", "state file"}
       \/ pc'[p] \in {"remove", "done", "failed"}
       \/ pc'[p] = "stable" /\ p \in past.wrote \cup past'.unwritten
    /\ UNCHANGED <<records, index, on, source, saw, verdict>>
    /\ UNCHANGED <<past.found, past.wrote, past.stripped, past.cleared, past.seen>>
    /\ past.unwritten \subseteq past'.unwritten /\ past.leftover \subseteq past'.leftover
    /\ p \in Analyses /\ pc[p] = "legacy file" /\ index["legacy"][on[p]] # None =>
          on[p] \in past'.leftover

\* A step that passes a file of the index by keeps the invariant.
LEMMA PassKeepsInv ==
    ASSUME StoresInv, NEW p \in Commands, Passes(p), TypeOK', LockInv'
    PROVE  StoresInv'
<1> USE DEF StoresInv, Passes
<1>1. WriteInv'
  <2> SUFFICES ASSUME NEW q \in Analyses PROVE WriteAt(q)'
    BY DEF WriteInv
  <2>1. WriteAt(q)
    BY DEF WriteInv
  <2>2. CASE q = p
    BY <2>1, <2>2, Roles DEF WriteAt, Waiting, Ended, TypeOK, ProcessesOK
  <2>3. CASE q # p
    BY <2>1, <2>3, Roles DEF WriteAt
  <2>4. QED
    BY <2>2, <2>3
<1>2. DeleteInv'
  <2> SUFFICES ASSUME NEW d \in Deletes PROVE DeleteAt(d)' /\ RemovalAt(d)'
    BY DEF DeleteInv
  <2>1. DeleteAt(d) /\ RemovalAt(d)
    BY DEF DeleteInv
  <2>2. CASE d = p
    BY <2>1, <2>2, Roles DEF DeleteAt, RemovalAt, Inferred, Waiting, Critical, Ended
  <2>3. CASE d # p
    BY <2>1, <2>3, Roles DEF DeleteAt, RemovalAt, Inferred
  <2>4. QED
    BY <2>2, <2>3
<1>3. RecordInv'
  <2> SUFFICES ASSUME NEW c \in Child PROVE RecordAt(c)'
    BY DEF RecordInv
  <2>1. RecordAt(c)
    BY DEF RecordInv
  <2>2. QED
    BY <2>1 DEF RecordAt, Inferred
<1>4. FoundInv'
  <2> SUFFICES ASSUME NEW c \in Child PROVE FoundAt(c)'
    BY DEF FoundInv
  <2>1. FoundAt(c)
    BY DEF FoundInv
  <2>2. QED
    BY <2>1, Roles DEF FoundAt
<1>5. SessionInv'
  <2> SUFFICES ASSUME NEW s \in Sessions PROVE SessionAt(s)'
    BY DEF SessionInv
  <2>1. SessionAt(s) /\ pc'[s] = pc[s]
    BY Roles DEF SessionInv
  <2>2. QED
    BY <2>1 DEF SessionAt
<1>6. QED
  BY <1>1, <1>2, <1>3, <1>4, <1>5

\* Who frees both locks and goes where none is held keeps the locks in order.
LEMMA FreesKeepsLocks ==
    ASSUME StoresInv, NEW p \in Commands, Frees(p), pc'[p] \notin Holding,
           \A q \in Proc : q # p => pc'[q] = pc[q]
    PROVE  LockInv'
<1> SUFFICES ASSUME NEW q \in Commands PROVE LockAt(q)'
  BY DEF LockInv
<1>1. LockAt(q)
  BY DEF StoresInv, LockInv
<1>2. lock'["state"] # p /\ lock'["legacy"] # p
  BY FreesBoth, SecondIsLegacy DEF StoresInv
<1>3. q # p => (lock'["state"] = q <=> lock["state"] = q)
                 /\ (lock'["legacy"] = q <=> lock["legacy"] = q)
  BY FreesBoth, SecondIsLegacy DEF StoresInv
<1>4. QED
  BY <1>1, <1>2, <1>3, Roles DEF LockAt, Holding

\* A lock is taken by a command that waits for it, when nobody has it.
LEMMA TakeKeepsInv ==
    ASSUME StoresInv, NEW p \in Commands, TakeFirst(p) \/ TakeSecond(p)
    PROVE  StoresInv'
<1> USE DEF StoresInv
<1>1. /\ \A q \in Proc : q # p => pc'[q] = pc[q]
      /\ pc[p] \in Waiting /\ pc'[p] \in {"legacy lock", "state file"}
      /\ UNCHANGED <<store, world, on, source, local, past>>
  BY Roles, GoesMoves DEF TakeFirst, TakeSecond, Waiting
<1>2. LockInv'
  <2> SUFFICES ASSUME NEW q \in Commands PROVE LockAt(q)'
    BY DEF LockInv
  <2>1. LockAt(q) /\ LockAt(p)
    BY DEF LockInv
  <2>2. q # None /\ p # None
    BY Roles
  <2>3. CASE TakeFirst(p)
    <3>1. pc[p] = "state lock" /\ pc'[p] = "legacy lock" /\ lock["state"] = None
          /\ lock'["state"] = p /\ lock'["legacy"] = lock["legacy"]
      BY <2>3, SecondIsLegacy, GoesMoves, Roles DEF TakeFirst, Free, TypeOK, ProcessesOK
    <3>2. QED
      BY <1>1, <2>1, <2>2, <3>1, Roles DEF LockAt, Holding, Critical
  <2>4. CASE TakeSecond(p)
    <3>1. pc[p] = "legacy lock" /\ pc'[p] = "state file" /\ lock["legacy"] = None
          /\ lock'["legacy"] = p /\ lock'["state"] = lock["state"]
      BY <2>4, SecondIsLegacy, GoesMoves, Roles DEF TakeSecond, Free, TypeOK, ProcessesOK
    <3>2. QED
      BY <1>1, <2>1, <2>2, <3>1, Roles DEF LockAt, Holding, Critical
  <2>5. QED
    BY <2>3, <2>4
<1>3. TypeOK'
  <2>1. WorldOK' /\ StoresOK' /\ past' \in Past
    BY <1>1 DEF TypeOK, WorldOK, StoresOK, world, store
  <2>2. pc' \in [Proc -> Steps] /\ lock' \in [File -> Commands \cup {None}]
    BY Roles DEF TakeFirst, TakeSecond, Goes, TypeOK, ProcessesOK, Steps, Waiting, Critical
  <2>3. ProcessesOK'
    BY <1>1, <2>2, Roles DEF TypeOK, ProcessesOK, local
  <2>4. QED
    BY <2>1, <2>3 DEF TypeOK
<1>4. Passes(p)
  BY <1>1, Roles DEF Passes, Waiting, Ended, store, local
<1>5. QED
  BY <1>2, <1>3, <1>4, PassKeepsInv

\* A command leaves the index without writing: it frees its locks, and the
\* ghosts note an analysis that could not write or a migration that stopped.
Leaves(p, to) ==
    /\ Frees(p) /\ Goes(p, to)
    /\ pc[p] \notin {"analyze", "choose"} \cup Ended
    /\ \/ to \in {"done", "failed"}
       \/ to = "remove" /\ p \in Deletes
       \/ to = "stable" /\ p \in Analyses /\ p \in past.wrote \cup past'.unwritten
    /\ UNCHANGED <<claims, records, index, corpus, listing, changes, on, source, saw, verdict>>
    /\ \/ past' = Leftover(p)
       \/ /\ pc[p] # "legacy file"
          /\ past' \in {past, [past EXCEPT !.unwritten = @ \cup ({p} \cap Analyses)]}

\* A command that ends, or dies, and gives up its locks keeps the invariant.
LEMMA LeaveKeepsInv ==
    ASSUME StoresInv, NEW p \in Commands, NEW to, Leaves(p, to)
    PROVE  StoresInv'
<1> USE DEF StoresInv
<1>1. p \in Proc /\ on[p] \in Child /\ past \in Past
  BY Roles DEF TypeOK, ProcessesOK
<1>2. /\ past' \in Past
      /\ UNCHANGED <<past.found, past.wrote, past.stripped, past.cleared, past.seen>>
      /\ past.unwritten \subseteq past'.unwritten /\ past.leftover \subseteq past'.leftover
      /\ p \in Analyses /\ pc[p] = "legacy file" /\ index["legacy"][on[p]] # None =>
            on[p] \in past'.leftover
  <2>1. CASE past' = Leftover(p)
    BY <1>1, <2>1 DEF Leftover, Past
  <2>2. CASE pc[p] # "legacy file"
             /\ past' \in {past, [past EXCEPT !.unwritten = @ \cup ({p} \cap Analyses)]}
    BY <1>1, <2>2 DEF Past
  <2>3. QED
    BY <2>1, <2>2 DEF Leaves
<1>3. /\ \A q \in Proc : q # p => pc'[q] = pc[q]
      /\ pc'[p] = to /\ to \in {"done", "failed", "remove", "stable"}
  BY <1>1, GoesMoves DEF Leaves
<1>4. LockInv'
  BY <1>3, FreesKeepsLocks DEF Leaves, Holding, Critical
<1>5. TypeOK'
  <2>1. WorldOK' /\ StoresOK'
    BY DEF TypeOK, WorldOK, StoresOK, Leaves
  <2>2. pc' \in [Proc -> Steps]
    BY <1>1, <1>3 DEF Leaves, Goes, TypeOK, ProcessesOK, Steps, Ended
  <2>3. lock' \in [File -> Commands \cup {None}]
    BY FreesBoth DEF Leaves
  <2>4. ProcessesOK'
    BY <1>3, <2>2, <2>3, Roles DEF Leaves, TypeOK, ProcessesOK
  <2>5. QED
    BY <1>2, <2>1, <2>4 DEF TypeOK
<1>6. Passes(p)
  BY <1>2, <1>3 DEF Passes, Leaves
<1>7. QED
  BY <1>4, <1>5, <1>6, PassKeepsInv

\* A lock that is busy, a step that fails and an error an analysis tolerates.
LEMMA GivingUpKeepsInv ==
    ASSUME StoresInv, NEW p \in Commands,
           Busy(p) \/ Fail(p) \/ (p \in Analyses /\ Tolerate(p))
    PROVE  StoresInv'
<1>1. CASE Busy(p)
  <2>1. Leaves(p, "failed")
    BY <1>1 DEF Busy, Leaves, store, world, local, Ended
  <2>2. QED
    BY <2>1, LeaveKeepsInv
<1>2. CASE Fail(p)
  <2>1. Leaves(p, "failed")
    BY <1>2 DEF Fail, Leaves, store, local, Ended
  <2>2. QED
    BY <2>1, LeaveKeepsInv
<1>3. CASE p \in Analyses /\ Tolerate(p)
  <2> USE <1>3 DEF Tolerate
  <2>1. /\ p \notin Deletes /\ {p} \cap Analyses = {p} /\ past \in Past
        /\ pc[p] \notin {"analyze", "choose"} \cup Ended
    BY Roles DEF StoresInv, TypeOK, Waiting, Critical, Ended
  <2>2. p \in past.wrote \cup past'.unwritten
    <3>1. CASE pc[p] = "legacy file"
      BY <3>1 DEF StoresInv, WriteInv, WriteAt
    <3>2. CASE pc[p] # "legacy file"
      BY <2>1, <3>2 DEF Past
    <3>3. QED
      BY <3>1, <3>2
  <2>3. Leaves(p, "done") \/ Leaves(p, "stable")
    BY <2>1, <2>2 DEF Leaves, Continues, store, local
  <2>4. QED
    BY <2>3, LeaveKeepsInv
<1>4. QED
  BY <1>1, <1>2, <1>3

-----------------------------------------------------------------------------
\* The state file cannot be read: the index is left.
LEMMA StateUnreadable ==
    ASSUME StoresInv, NEW p \in Commands, UpdateState(p), "state" \in unreadable
    PROVE  StoresInv'
<1> USE DEF UpdateState
<1>1. /\ pc[p] = "state file"
      /\ past' = [past EXCEPT !.unwritten = @ \cup ({p} \cap Analyses)]
      /\ Continues(p)
      /\ UNCHANGED <<claims, records, index, world, on, source, local>>
  OBVIOUS
<1>2. p \in Analyses => p \in past'.unwritten
  BY <1>1 DEF StoresInv, TypeOK, Past
<1>3. Leaves(p, "remove") \/ Leaves(p, "done") \/ Leaves(p, "stable")
  BY <1>1, <1>2, Roles DEF Leaves, Continues, world, local, Ended
<1>4. QED
  BY <1>3, LeaveKeepsInv

\* An analysis puts its entry into the state file.
LEMMA AnalysisWritesState ==
    ASSUME StoresInv, NEW p \in Analyses, UpdateState(p), "state" \notin unreadable
    PROVE  StoresInv'
<1> USE DEF StoresInv
<1> DEFINE new == [universe |-> saw[p].universe, by |-> p]
<1>1. /\ p \in Proc /\ p \in Commands /\ p \notin Deletes /\ on[p] \in Child /\ past \in Past
      /\ pc[p] = "state file"
  BY Roles DEF TypeOK, ProcessesOK, UpdateState
<1>2. /\ saw[p] \in Found /\ saw[p].universe \in Universe
      /\ new \in Entry /\ new # None /\ new.universe = saw[p].universe /\ new.by = p
  <2>1. saw[p] \in Found
    BY <1>1 DEF WriteInv, WriteAt
  <2>2. saw[p].universe \in Universe
    BY <2>1 DEF Found
  <2>3. new \in Entry
    BY <2>2 DEF Entry
  <2>4. new # None
    BY <2>3, NoneIsNothing
  <2>5. QED
    BY <2>1, <2>2, <2>3, <2>4
<1> HIDE DEF new
<1>3. /\ index' = [index EXCEPT !["state"][on[p]] = new]
      /\ pc' = [pc EXCEPT ![p] = "legacy file"]
      /\ past' = [past EXCEPT !.wrote = @ \cup {p}, !.found[on[p]] = saw[p].universe]
      /\ UNCHANGED <<claims, records, lock, world, on, source, local>>
  BY <1>1 DEF UpdateState, NewEntry, Goes, new
<1>4. /\ index' \in [File -> [Child -> Entry \cup {None}]]
      /\ index'["legacy"] = index["legacy"]
      /\ index'["state"][on[p]] = new
      /\ \A c \in Child : c # on[p] => index'["state"][c] = index["state"][c]
  BY <1>1, <1>2, <1>3, SecondIsLegacy DEF TypeOK, StoresOK
<1>5. /\ pc' \in [Proc -> Steps] /\ pc'[p] = "legacy file"
      /\ \A q \in Proc : q # p => pc'[q] = pc[q]
  BY <1>1, <1>3 DEF TypeOK, ProcessesOK, Steps, Critical
<1>6. /\ past' \in Past
      /\ past'.wrote = past.wrote \cup {p} /\ past'.found[on[p]] = saw[p].universe
      /\ \A c \in Child : c # on[p] => past'.found[c] = past.found[c]
      /\ UNCHANGED <<past.unwritten, past.leftover, past.stripped, past.cleared, past.seen>>
  BY <1>1, <1>2, <1>3 DEF Past
<1>7. TypeOK'
  <2>1. WorldOK' /\ StoresOK'
    BY <1>3, <1>4 DEF TypeOK, WorldOK, StoresOK, world
  <2>2. ProcessesOK'
    BY <1>1, <1>3, <1>5, Roles DEF TypeOK, ProcessesOK, local
  <2>3. QED
    BY <1>6, <2>1, <2>2 DEF TypeOK
<1>8. LockInv'
  BY <1>1, <1>3, <1>5, Roles DEF LockInv, LockAt, Holding, Critical
<1>9. \A q \in Commands : q # p => pc[q] # "legacy file"
  BY <1>1, FilesAreExclusive DEF Critical
<1>10. WriteInv'
  <2> SUFFICES ASSUME NEW q \in Analyses PROVE WriteAt(q)'
    BY DEF WriteInv
  <2>1. WriteAt(q) /\ WriteAt(p) /\ on[q] \in Child /\ UNCHANGED <<on, saw>>
    BY <1>3, Roles DEF WriteInv, TypeOK, ProcessesOK, local
  <2>2. CASE q = p
    BY <1>1, <1>2, <1>4, <1>5, <1>6, <2>1, <2>2 DEF WriteAt
  <2>3. CASE q # p
    BY <1>2, <1>4, <1>5, <1>6, <2>1, <2>3, Roles DEF WriteAt
  <2>4. QED
    BY <2>2, <2>3
<1>11. DeleteInv'
  <2> SUFFICES ASSUME NEW d \in Deletes PROVE DeleteAt(d)' /\ RemovalAt(d)'
    BY DEF DeleteInv
  <2>1. /\ DeleteAt(d) /\ RemovalAt(d) /\ on[d] \in Child /\ d # p
        /\ pc'[d] = pc[d] /\ pc[d] # "legacy file" /\ UNCHANGED <<on, source, records>>
    BY <1>1, <1>3, <1>5, <1>9, Roles DEF DeleteInv, TypeOK, ProcessesOK
  <2>2. DeleteAt(d)'
    BY <1>6, <2>1 DEF DeleteAt, Inferred
  <2>3. d \in past.cleared => p \notin past.seen[d]
    <3>1. p \notin past.wrote /\ p # Earlier
      BY <1>1, Roles DEF WriteInv, WriteAt, Ended
    <3>2. QED
      BY <2>1, <3>1 DEF DeleteAt
  <2>4. RemovalAt(d)'
    BY <1>2, <1>4, <1>6, <2>1, <2>3 DEF RemovalAt
  <2>5. QED
    BY <2>2, <2>4
<1>12. RecordInv'
  <2> SUFFICES ASSUME NEW c \in Child PROVE RecordAt(c)'
    BY DEF RecordInv
  <2>1. RecordAt(c) /\ UNCHANGED <<on, source, records>>
    BY <1>3 DEF RecordInv
  <2>2. \A f \in File : index[f][c] # None => index'[f][c] # None
    BY <1>2, <1>4 DEF File
  <2>3. QED
    BY <1>6, <2>1, <2>2 DEF RecordAt, Inferred
<1>13. FoundInv'
  <2> SUFFICES ASSUME NEW c \in Child PROVE FoundAt(c)'
    BY DEF FoundInv
  <2>1. FoundAt(c) /\ on' = on
    BY <1>3 DEF FoundInv
  <2>2. CASE c = on[p]
    BY <1>1, <1>2, <1>4, <1>5, <1>6, <2>1, <2>2 DEF FoundAt
  <2>3. CASE c # on[p]
    <3>1. ~ \E q \in Analyses : pc[q] = "legacy file" /\ on[q] = c
      BY <1>1, <1>9, <2>3, Roles
    <3>2. QED
      BY <1>4, <1>6, <2>1, <2>3, <3>1 DEF FoundAt
  <2>4. QED
    BY <2>2, <2>3
<1>14. SessionInv'
  <2> SUFFICES ASSUME NEW s \in Sessions PROVE SessionAt(s)'
    BY DEF SessionInv
  <2>1. SessionAt(s) /\ pc'[s] = pc[s] /\ UNCHANGED <<on, saw, verdict>>
    BY <1>1, <1>3, <1>5, Roles DEF SessionInv, local
  <2>2. QED
    BY <1>4, <1>6, <2>1 DEF SessionAt
<1>15. QED
  BY <1>7, <1>8, <1>10, <1>11, <1>12, <1>13, <1>14

\* A deletion takes the child's entry out of the state file.
LEMMA DeletionTakesState ==
    ASSUME StoresInv, NEW p \in Deletes, UpdateState(p), "state" \notin unreadable
    PROVE  StoresInv'
<1> USE DEF StoresInv
<1>1. /\ p \in Proc /\ p \in Commands /\ p \notin Analyses /\ on[p] \in Child /\ past \in Past
      /\ pc[p] = "state file"
  BY Roles DEF TypeOK, ProcessesOK, UpdateState
<1>2. /\ index' = [index EXCEPT !["state"][on[p]] = None]
      /\ pc' = [pc EXCEPT ![p] = "legacy file"]
      /\ past' = IF index["state"][on[p]] = None THEN past
                 ELSE [past EXCEPT !.stripped = @ \cup {p}]
      /\ UNCHANGED <<claims, records, lock, world, on, source, local>>
  BY <1>1 DEF UpdateState, NewEntry, Goes
<1>3. /\ index' \in [File -> [Child -> Entry \cup {None}]]
      /\ index'["legacy"] = index["legacy"]
      /\ index'["state"][on[p]] = None
      /\ \A c \in Child : c # on[p] => index'["state"][c] = index["state"][c]
  BY <1>1, <1>2, SecondIsLegacy DEF TypeOK, StoresOK
<1>4. /\ pc' \in [Proc -> Steps] /\ pc'[p] = "legacy file"
      /\ \A q \in Proc : q # p => pc'[q] = pc[q]
  BY <1>1, <1>2 DEF TypeOK, ProcessesOK, Steps, Critical
<1>5. /\ past' \in Past
      /\ past.stripped \subseteq past'.stripped /\ past'.stripped \subseteq past.stripped \cup {p}
      /\ index["state"][on[p]] # None => p \in past'.stripped
      /\ UNCHANGED <<past.found, past.wrote, past.unwritten, past.leftover, past.cleared,
                     past.seen>>
  BY <1>1, <1>2 DEF Past
<1>6. TypeOK'
  <2>1. WorldOK' /\ StoresOK'
    BY <1>2, <1>3 DEF TypeOK, WorldOK, StoresOK, world
  <2>2. ProcessesOK'
    BY <1>1, <1>2, <1>4, Roles DEF TypeOK, ProcessesOK, local
  <2>3. QED
    BY <1>5, <2>1, <2>2 DEF TypeOK
<1>7. LockInv'
  BY <1>1, <1>2, <1>4, Roles DEF LockInv, LockAt, Holding, Critical
<1>8. \A q \in Commands : q # p => pc[q] # "legacy file"
  BY <1>1, FilesAreExclusive DEF Critical
<1>9. DeleteAt(p)
  BY DEF DeleteInv
<1>10. WriteInv'
  <2> SUFFICES ASSUME NEW q \in Analyses PROVE WriteAt(q)'
    BY DEF WriteInv
  <2>1. /\ WriteAt(q) /\ on[q] \in Child /\ UNCHANGED <<on, saw>>
        /\ pc'[q] = pc[q] /\ pc[q] # "legacy file"
    BY <1>1, <1>2, <1>4, <1>8, Roles DEF WriteInv, TypeOK, ProcessesOK, local
  <2>2. QED
    BY <1>3, <1>5, <2>1 DEF WriteAt
<1>11. DeleteInv'
  <2> SUFFICES ASSUME NEW d \in Deletes PROVE DeleteAt(d)' /\ RemovalAt(d)'
    BY DEF DeleteInv
  <2>1. DeleteAt(d) /\ RemovalAt(d) /\ on[d] \in Child /\ UNCHANGED <<on, source, records>>
    BY <1>2, Roles DEF DeleteInv, TypeOK, ProcessesOK
  <2>2. CASE d = p
    BY <1>1, <1>3, <1>4, <1>5, <2>1, <2>2 DEF DeleteAt, RemovalAt, Inferred, Critical
  <2>3. CASE d # p
    <3>1. pc'[d] = pc[d] /\ pc[d] # "legacy file"
      BY <1>4, <1>8, <2>3, Roles
    <3>2. QED
      BY <1>3, <1>5, <2>1, <2>3, <3>1 DEF DeleteAt, RemovalAt, Inferred
  <2>4. QED
    BY <2>2, <2>3
<1>12. RecordInv'
  <2> SUFFICES ASSUME NEW c \in Child PROVE RecordAt(c)'
    BY DEF RecordInv
  <2>1. RecordAt(c) /\ UNCHANGED <<on, source, records>>
    BY <1>2 DEF RecordInv
  <2>2. \A f \in File : index[f][c] # None =>
           \/ index'[f][c] # None
           \/ f = "state" /\ c = on[p]
    BY <1>3 DEF File
  <2>3. c = on[p] /\ records[c] # None /\ records[c].by = Earlier => Inferred(p)
    BY <1>1, <1>9 DEF DeleteAt, Critical
  <2>4. QED
    BY <1>5, <2>1, <2>2, <2>3 DEF RecordAt, Inferred
<1>13. FoundInv'
  <2> SUFFICES ASSUME NEW c \in Child PROVE FoundAt(c)'
    BY DEF FoundInv
  <2>1. FoundAt(c) /\ on' = on /\ \A q \in Analyses : pc'[q] = pc[q]
    BY <1>1, <1>2, <1>4, Roles DEF FoundInv
  <2>2. index'["state"][c] \in {index["state"][c], None}
    BY <1>3
  <2>3. QED
    BY <1>3, <1>5, <2>1, <2>2 DEF FoundAt
<1>14. SessionInv'
  <2> SUFFICES ASSUME NEW s \in Sessions PROVE SessionAt(s)'
    BY DEF SessionInv
  <2>1. SessionAt(s) /\ pc'[s] = pc[s] /\ UNCHANGED <<on, saw, verdict>>
    BY <1>1, <1>2, <1>4, Roles DEF SessionInv, local
  <2>2. QED
    BY <1>3, <1>5, <2>1 DEF SessionAt
<1>15. QED
  BY <1>6, <1>7, <1>10, <1>11, <1>12, <1>13, <1>14

\* The legacy file cannot be read: the index is left, half migrated if an
\* analysis was at it and an entry is there.
LEMMA LegacyUnreadable ==
    ASSUME StoresInv, NEW p \in Commands, UpdateLegacy(p), "legacy" \in unreadable
    PROVE  StoresInv'
<1>1. /\ pc[p] = "legacy file" /\ past' = Leftover(p) /\ Continues(p)
      /\ UNCHANGED <<claims, records, index, world, on, source, local>>
  BY DEF UpdateLegacy
<1>2. p \in Analyses => p \in past.wrote
  BY <1>1 DEF StoresInv, WriteInv, WriteAt
<1>3. Leaves(p, "remove") \/ Leaves(p, "done") \/ Leaves(p, "stable")
  BY <1>1, <1>2, Roles DEF Leaves, Continues, world, local, Ended
<1>4. QED
  BY <1>3, LeaveKeepsInv

\* A command takes the child's entry out of the legacy file: an analysis ends
\* its migration, a deletion completes its removal.
LEMMA PopsLegacy ==
    ASSUME StoresInv, NEW p \in Commands, UpdateLegacy(p), "legacy" \notin unreadable
    PROVE  StoresInv'
<1> USE DEF StoresInv
<1>1. /\ p \in Proc /\ on[p] \in Child /\ past \in Past /\ pc[p] = "legacy file"
      /\ past.wrote \cup {Earlier} \subseteq Universe \cup {None} \cup Analyses \cup {Earlier}
  BY Roles DEF TypeOK, ProcessesOK, UpdateLegacy, Past
<1>2. /\ index' = [index EXCEPT !["legacy"] = [index["legacy"] EXCEPT ![on[p]] = None]]
      /\ past' = IF p \in Deletes
                 THEN [past EXCEPT !.cleared = @ \cup {p},
                                   !.seen[p] = past.wrote \cup {Earlier}]
                 ELSE past
      /\ Continues(p)
      /\ UNCHANGED <<claims, records, world, on, source, local>>
  BY DEF UpdateLegacy, Popped
<1>3. /\ index' \in [File -> [Child -> Entry \cup {None}]]
      /\ index'["state"] = index["state"]
      /\ index'["legacy"][on[p]] = None
      /\ \A c \in Child : c # on[p] => index'["legacy"][c] = index["legacy"][c]
  BY <1>1, <1>2, SecondIsLegacy DEF TypeOK, StoresOK
<1>4. /\ pc' \in [Proc -> Steps] /\ pc'[p] \in {"remove", "done", "stable"}
      /\ p \in Deletes => pc'[p] = "remove"
      /\ p \in Analyses => pc'[p] # "remove"
      /\ \A q \in Proc : q # p => pc'[q] = pc[q]
  BY <1>1, <1>2, Roles DEF TypeOK, ProcessesOK, Steps, Ended, Continues, Goes
<1>5. /\ past' \in Past
      /\ past'.cleared = past.cleared \cup ({p} \cap Deletes)
      /\ \A q \in Deletes \cup Sessions : q # p => past'.seen[q] = past.seen[q]
      /\ p \in Deletes => past'.seen[p] = past.wrote \cup {Earlier}
      /\ UNCHANGED <<past.found, past.wrote, past.unwritten, past.leftover, past.stripped>>
  <2>1. CASE p \in Deletes
    BY <1>1, <1>2, <2>1 DEF Past
  <2>2. CASE p \notin Deletes
    BY <1>1, <1>2, <2>2 DEF Past
  <2>3. QED
    BY <2>1, <2>2
<1>6. LockInv'
  BY <1>2, <1>4, FreesKeepsLocks DEF Continues, Holding, Critical
<1>7. TypeOK'
  <2>1. WorldOK' /\ StoresOK'
    BY <1>2, <1>3 DEF TypeOK, WorldOK, StoresOK, world
  <2>2. lock' \in [File -> Commands \cup {None}]
    BY <1>2, FreesBoth DEF Continues
  <2>3. ProcessesOK'
    BY <1>1, <1>2, <1>4, <2>2, Roles DEF TypeOK, ProcessesOK, local
  <2>4. QED
    BY <1>5, <2>1, <2>3 DEF TypeOK
<1>8. /\ p \in Analyses => index["state"][on[p]] # None
      /\ p \in Deletes => index["state"][on[p]] = None /\ DeleteAt(p)
  BY <1>1 DEF WriteInv, WriteAt, DeleteInv, DeleteAt
<1>9. WriteInv'
  <2> SUFFICES ASSUME NEW q \in Analyses PROVE WriteAt(q)'
    BY DEF WriteInv
  <2>1. WriteAt(q) /\ UNCHANGED <<on, saw>>
    BY <1>2 DEF WriteInv, local
  <2>2. CASE q = p
    BY <1>1, <1>3, <1>4, <1>5, <2>1, <2>2 DEF WriteAt, Ended
  <2>3. CASE q # p
    <3>1. pc'[q] = pc[q] /\ index'["state"][on[q]] = index["state"][on[q]]
      BY <1>3, <1>4, <2>3, Roles
    <3>2. UNCHANGED <<past.wrote, past.unwritten, past.stripped>>
      BY <1>5
    <3>3. QED
      BY <2>1, <3>1, <3>2 DEF WriteAt
  <2>4. QED
    BY <2>2, <2>3
<1>10. DeleteInv'
  <2> SUFFICES ASSUME NEW d \in Deletes PROVE DeleteAt(d)' /\ RemovalAt(d)'
    BY DEF DeleteInv
  <2>1. DeleteAt(d) /\ RemovalAt(d) /\ on[d] \in Child /\ UNCHANGED <<on, source, records>>
    BY <1>2, Roles DEF DeleteInv, TypeOK, ProcessesOK
  <2>2. CASE d = p
    BY <1>3, <1>4, <1>5, <1>8, <2>1, <2>2 DEF DeleteAt, RemovalAt, Waiting, Critical
  <2>3. CASE d # p
    <3>1. pc'[d] = pc[d] /\ past'.seen[d] = past.seen[d]
          /\ (d \in past'.cleared <=> d \in past.cleared)
      BY <1>4, <1>5, <2>3, Roles
    <3>2. index'["legacy"][on[d]] \in {index["legacy"][on[d]], None}
      BY <1>3, <2>1
    <3>3. QED
      BY <1>3, <1>5, <2>1, <3>1, <3>2 DEF DeleteAt, RemovalAt, Inferred
  <2>4. QED
    BY <2>2, <2>3
<1>11. RecordInv'
  <2> SUFFICES ASSUME NEW c \in Child PROVE RecordAt(c)'
    BY DEF RecordInv
  <2>1. RecordAt(c) /\ UNCHANGED <<on, source, records>>
    BY <1>2 DEF RecordInv
  <2>2. \A f \in File : index[f][c] # None => index'[f][c] # None \/ c = on[p]
    BY <1>3 DEF File
  <2>3. CASE c # on[p]
    BY <1>5, <2>1, <2>2, <2>3 DEF RecordAt, Inferred
  <2>4. CASE c = on[p] /\ p \in Analyses
    BY <1>3, <1>5, <1>8, <2>1, <2>4 DEF RecordAt, Inferred, File
  <2>5. CASE c = on[p] /\ p \in Deletes
    <3>1. p \in past'.cleared
      BY <1>5, <2>5
    <3>2. records[c] # None /\ records[c].by = Earlier => Inferred(p)
      BY <1>1, <1>8, <2>5 DEF DeleteAt, Critical
    <3>3. QED
      BY <1>5, <2>1, <2>5, <3>1, <3>2 DEF RecordAt, Inferred
  <2>6. QED
    BY <2>3, <2>4, <2>5, Roles
<1>12. FoundInv'
  <2> SUFFICES ASSUME NEW c \in Child PROVE FoundAt(c)'
    BY DEF FoundInv
  <2>1. FoundAt(c) /\ on' = on
    BY <1>2 DEF FoundInv
  <2>2. CASE c = on[p]
    BY <1>3, <1>5, <2>1, <2>2 DEF FoundAt
  <2>3. CASE c # on[p]
    <3>1. \A q \in Analyses : on[q] = c => pc'[q] = pc[q]
      BY <1>4, <2>3, Roles
    <3>2. QED
      BY <1>3, <1>5, <2>1, <2>3, <3>1 DEF FoundAt
  <2>4. QED
    BY <2>2, <2>3
<1>13. SessionInv'
  <2> SUFFICES ASSUME NEW s \in Sessions PROVE SessionAt(s)'
    BY DEF SessionInv
  <2>1. /\ SessionAt(s) /\ pc'[s] = pc[s] /\ UNCHANGED <<on, saw, verdict>>
        /\ past'.seen[s] = past.seen[s] /\ on[s] \in Child
    BY <1>2, <1>4, <1>5, Roles DEF SessionInv, local, TypeOK, ProcessesOK
  <2>2. index'["legacy"][on[s]] \in {index["legacy"][on[s]], None}
    BY <1>3, <2>1
  <2>3. QED
    BY <1>5, <2>1, <2>2 DEF SessionAt
<1>14. QED
  BY <1>6, <1>7, <1>9, <1>10, <1>11, <1>12, <1>13

-----------------------------------------------------------------------------
\* At the start nobody holds a lock, and what was recorded earlier has its
\* entry in one of the files and was found then.
LEMMA InitStores == Init => StoresInv
<1> SUFFICES ASSUME Init PROVE StoresInv
  OBVIOUS
<1>1. PICK o \in Origins :
         /\ records = [c \in Child |->
               IF o[c].recorded
               THEN [universe |-> corpus[c].universe, sources |-> 0,
                     listing |-> 0, by |-> Earlier]
               ELSE None]
         /\ index = [f \in File |-> [c \in Child |->
               IF o[c].recorded /\ o[c].migrated = (f = "state")
               THEN [universe |-> corpus[c].universe, by |-> Earlier]
               ELSE None]]
  BY DEF Init
<1>2. /\ 0 \in 0..MaxChanges
      /\ claims \subseteq Child
      /\ on \in [Proc -> Child]
      /\ \A c \in Child : o[c].recorded \in BOOLEAN /\ o[c].migrated \in BOOLEAN
  BY LineageAssumption DEF Init, LineageAssumption
<1>3. \A c \in Child :
         /\ corpus[c] \in [universe : Universe, sources : {0}]
         /\ [universe |-> corpus[c].universe, by |-> Earlier] \in Entry
         /\ [universe |-> corpus[c].universe, sources |-> 0, listing |-> 0,
             by |-> Earlier] \in Found
  BY <1>2 DEF Init, Entry, Found
<1>4. \A c \in Child :
         \/ /\ records[c] = None /\ index["state"][c] = None /\ index["legacy"][c] = None
         \/ /\ records[c] \in Found /\ records[c] # None /\ records[c].by = Earlier
            /\ index["state"][c] # None \/ index["legacy"][c] # None
            /\ \A f \in File : index[f][c] # None => index[f][c].universe = corpus[c].universe
  <2> SUFFICES ASSUME NEW c \in Child
               PROVE  \/ /\ records[c] = None /\ index["state"][c] = None
                         /\ index["legacy"][c] = None
                      \/ /\ records[c] \in Found /\ records[c] # None
                         /\ records[c].by = Earlier
                         /\ index["state"][c] # None \/ index["legacy"][c] # None
                         /\ \A f \in File : index[f][c] # None =>
                               index[f][c].universe = corpus[c].universe
    OBVIOUS
  <2>1. CASE ~o[c].recorded
    BY <1>1, <2>1, SecondIsLegacy
  <2>2. CASE o[c].recorded
    <3> DEFINE entry == [universe |-> corpus[c].universe, by |-> Earlier]
    <3>1. records[c] \in Found /\ records[c] # None /\ records[c].by = Earlier
      BY <1>1, <1>3, <2>2, NoneIsNothing
    <3>2. entry # None /\ entry.universe = corpus[c].universe
      BY <1>3, NoneIsNothing
    <3> HIDE DEF entry
    <3>3. \A f \in File : index[f][c] = IF o[c].migrated = (f = "state") THEN entry ELSE None
      BY <1>1, <2>2 DEF entry
    <3>4. index["state"][c] # None \/ index["legacy"][c] # None
      BY <1>2, <3>2, <3>3, SecondIsLegacy
    <3>5. QED
      BY <3>1, <3>2, <3>3, <3>4
  <2>3. QED
    BY <2>1, <2>2
<1>5. TypeOK
  <2>1. WorldOK
    BY <1>2 DEF Init, WorldOK
  <2>2. StoresOK
    BY <1>1, <1>2, <1>3 DEF StoresOK
  <2>3. /\ pc \in [Proc -> Steps]
        /\ \A p \in Proc : pc[p] \in {"analyze", "choose", "claim"}
        /\ \A p \in Analyses : pc[p] = "analyze"
        /\ \A p \in Deletes : pc[p] = "choose"
        /\ \A p \in Sessions : pc[p] = "claim"
    BY Roles DEF Init, Steps, Proc
  <2>4. ProcessesOK
    BY <1>2, <2>3, Roles DEF Init, ProcessesOK, Waiting, Critical
  <2>5. past \in Past
    <3>1. \A c \in Child : corpus[c].universe \in Universe
      BY <1>3
    <3>2. QED
      BY <3>1 DEF Init, Past
  <2>6. QED
    BY <2>1, <2>2, <2>4, <2>5 DEF TypeOK
<1>6. LockInv
  <2>1. \A p \in Commands : pc[p] \notin Holding /\ pc[p] \notin Critical /\ p # None
    BY Roles DEF Init, Holding, Critical
  <2>2. lock["state"] = None /\ lock["legacy"] = None
    BY SecondIsLegacy DEF Init
  <2>3. QED
    BY <2>1, <2>2 DEF LockInv, LockAt
<1>7. WriteInv
  <2>1. \A p \in Analyses : pc[p] = "analyze" /\ past.wrote = {}
    BY Roles DEF Init
  <2>2. QED
    BY <2>1 DEF WriteInv, WriteAt
<1>8. DeleteInv
  <2>1. \A d \in Deletes : pc[d] = "choose" /\ past.stripped = {} /\ past.cleared = {}
    BY Roles DEF Init
  <2>2. QED
    BY <2>1 DEF DeleteInv, DeleteAt, RemovalAt, Waiting, Critical
<1>9. RecordInv
  BY <1>4, SecondIsLegacy DEF RecordInv, RecordAt
<1>10. FoundInv
  <2>1. \A c \in Child : records[c] # None => past.found[c] = corpus[c].universe
    BY DEF Init
  <2>2. QED
    BY <1>4, <2>1, SecondIsLegacy DEF FoundInv, FoundAt
<1>11. SessionInv
  <2>1. \A s \in Sessions : pc[s] = "claim" /\ verdict[s] = None
    BY Roles DEF Init
  <2>2. None # "current"
    BY NoneIsNothing DEF Verdict
  <2>3. QED
    BY <2>1, <2>2 DEF SessionInv, SessionAt
<1>12. QED
  BY <1>5, <1>6, <1>7, <1>8, <1>9, <1>10, <1>11 DEF StoresInv

\* Every step of every command, of Claude and of whoever meddles keeps it.
LEMMA NextStores == StoresInv /\ [Next]_vars => StoresInv'
<1> SUFFICES ASSUME StoresInv, [Next]_vars PROVE StoresInv'
  OBVIOUS
<1>1. ASSUME NEW p \in Commands,
             \/ TakeFirst(p) \/ TakeSecond(p) \/ Busy(p)
             \/ UpdateState(p) \/ UpdateLegacy(p) \/ Fail(p)
      PROVE  StoresInv'
  <2>1. CASE TakeFirst(p) \/ TakeSecond(p)
    BY <2>1, TakeKeepsInv
  <2>2. CASE Busy(p) \/ Fail(p)
    BY <2>2, GivingUpKeepsInv
  <2>3. CASE UpdateState(p)
    BY <2>3, StateUnreadable, AnalysisWritesState, DeletionTakesState, Roles
  <2>4. CASE UpdateLegacy(p)
    BY <2>4, LegacyUnreadable, PopsLegacy
  <2>5. QED
    BY <1>1, <2>1, <2>2, <2>3, <2>4
<1>2. ASSUME NEW p \in Analyses, Analyze(p) \/ Tolerate(p) \/ Stable(p) \/ AddInference(p)
      PROVE  StoresInv'
  BY <1>2, AnalysisKeepsInv, GivingUpKeepsInv, Roles
<1>3. ASSUME NEW p \in Deletes, Choose(p) \/ Consent(p) \/ Survivor(p) \/ Remove(p)
      PROVE  StoresInv'
  BY <1>3, DeletionKeepsInv
<1>4. ASSUME NEW s \in Sessions, \/ ReadClaim(s) \/ ReadRecord(s) \/ CheckSources(s)
                                 \/ SeeState(s) \/ SeeLegacy(s)
      PROVE  StoresInv'
  BY <1>4, InspectionKeepsInv
<1>5. ASSUME NEW c \in Active, Write(c) PROVE StoresInv'
  BY <1>5, WriteKeepsInv
<1>6. CASE \/ \E c \in Active : Plan(c)
           \/ \E f \in File : Meddle(f)
           \/ UNCHANGED vars
  BY <1>6, OthersKeepInv
<1>7. QED
  BY <1>1, <1>2, <1>3, <1>4, <1>5, <1>6 DEF Next, Commands

\* The inductive invariant, for any sessions, universes and commands.
THEOREM StoresInvariant == Spec => []StoresInv
BY InitStores, NextStores, PTL DEF Spec

\* No two commands ever wait for each other's lock: only a command that waits
\* for nothing holds the second one.
THEOREM LocksNeverCross == Spec => []NoCircularWait
<1>1. StoresInv => NoCircularWait
  <2> SUFFICES ASSUME StoresInv, NEW p \in Commands, NEW q \in Commands,
                      lock["legacy"] = q, pc[q] = "legacy lock"
               PROVE  FALSE
    BY SecondIsLegacy DEF NoCircularWait, Commands
  <2>1. QED
    BY DEF StoresInv, LockInv, LockAt, Critical
<1>2. QED
  BY <1>1, StoresInvariant, PTL

\* A removal that read both files took the child out of both for good, up to
\* analyses that wrote after it.
THEOREM RemovalIsComplete == Spec => []ReportedRemovalIsComplete
<1>1. StoresInv => ReportedRemovalIsComplete
  BY DEF StoresInv, TypeOK, Past, DeleteInv, RemovalAt, ReportedRemovalIsComplete
<1>2. QED
  BY <1>1, StoresInvariant, PTL

\* A record without an entry never had one written, or lost it to a deletion
\* of its own child; no migration, refresh or deletion of another costs it any.
THEOREM CorroborationIsKept == Spec => []CorroborationIsNotLost
<1>1. StoresInv => CorroborationIsNotLost
  <2> SUFFICES ASSUME StoresInv, NEW c \in Child, records[c] # None,
                      \A f \in File : index[f][c] = None
               PROVE  \/ records[c].by \in past.unwritten
                      \/ \E d \in past.stripped \cup past.cleared :
                            on[d] = c /\ (Inferred(d) \/ records[c].by # Earlier)
    BY DEF CorroborationIsNotLost
  <2>1. RecordAt(c)
    BY DEF StoresInv, RecordInv
  <2>2. CASE records[c].by \in past.wrote \cup past.unwritten /\ on[records[c].by] = c
    <3>1. records[c].by \in Analyses /\ records[c].by # Earlier
      BY <2>2, Roles DEF StoresInv, TypeOK, Past
    <3>2. WriteAt(records[c].by)
      BY <3>1 DEF StoresInv, WriteInv
    <3>3. QED
      BY <2>2, <3>1, <3>2, SecondIsLegacy DEF WriteAt
  <2>3. CASE records[c].by = Earlier
    BY <2>1, <2>3, Roles DEF RecordAt, StoresInv, TypeOK, Past
  <2>4. QED
    BY <2>1, <2>2, <2>3 DEF RecordAt
<1>2. QED
  BY <1>1, StoresInvariant, PTL

\* What an inspection calls current was what the last analysis that reached
\* the index had found, or a migration of the child stopped half way.
THEOREM RejectedIsNotRevived == Spec => []RejectedStaysRejected
<1>1. StoresInv => RejectedStaysRejected
  BY DEF StoresInv, SessionInv, SessionAt, RejectedStaysRejected
<1>2. QED
  BY <1>1, StoresInvariant, PTL

=============================================================================
