--------------------------- MODULE SettingsProofs ---------------------------
(***************************************************************************)
(* Proofs about Settings, for any number of files, runs of `config set`,   *)
(* drafts, requests, environments and command lines: the loop over the     *)
(* sources gives what the highest deciding source says, and `config set`   *)
(* keeps what it is not asked to change.                                   *)
(***************************************************************************)
EXTENDS Settings, TLAPS

USE FilesAssumption

-----------------------------------------------------------------------------
(***************************************************************************)
(* Loading and rewriting a table gives a table.                            *)
(***************************************************************************)
LEMMA NothingIsTyped == Typed(Nothing)
BY DEF Nothing, Typed, Key

\* Loading a file gives typed settings.
LEMMA LoadedIsTyped ==
    ASSUME NEW t, Typed(t) PROVE Typed(Loaded(t))
BY DEF Typed, Loaded, Key

\* A file rewritten by config set is a typed one.
LEMMA RewrittenIsTyped ==
    ASSUME NEW t, Typed(t), NEW r \in Requests
    PROVE  Typed(Rewritten(t, r.key, r.value))
<1> DEFINE u == [t EXCEPT ![r.key] = r.value]
<1>1. Typed(u)
  BY RequestsAssumption DEF Typed, Key
<1> QED
  BY <1>1, LoadedIsTyped DEF Rewritten

(* Loading changes no key a table sets. *)
LEMMA LoadedKeeps ==
    ASSUME NEW t, Typed(t), NEW k \in Key, t[k] # Unset
    PROVE  Loaded(t)[k] = t[k]
BY DEF Typed, Loaded

(* Rewriting sets the key asked for and keeps the other keys that are set. *)
LEMMA RewrittenKeeps ==
    ASSUME NEW t, Typed(t), NEW r \in Requests, NEW k \in Key
    PROVE  /\ Rewritten(t, r.key, r.value)[r.key] = r.value
           /\ k # r.key /\ t[k] # Unset => Rewritten(t, r.key, r.value)[k] = t[k]
<1> DEFINE u == [t EXCEPT ![r.key] = r.value]
<1>1. Typed(u)
  BY RequestsAssumption DEF Typed, Key
<1>2. r.key \in Key /\ u[r.key] = r.value /\ r.value # Unset
  BY RequestsAssumption DEF Typed
<1>3. k # r.key => u[k] = t[k]
  BY DEF Typed
<1> QED
  BY <1>1, <1>2, <1>3, LoadedKeeps DEF Rewritten
(* What lies below a text adds keys to those it sets and changes none. *)
LEMMA OverlaidKeeps ==
    ASSUME NEW own, Typed(own), NEW f, \A d \in Beneath(f) : Typed(d),
           NEW t \in Overlaid(own, f)
    PROVE  /\ Typed(t)
           /\ \A k \in Key : own[k] # Unset => t[k] = own[k]
<1>1. PICK tail \in SUBSET {k \in Key : own[k] = Unset}, below \in Beneath(f) :
         t = [k \in Key |-> IF k \in tail THEN below[k] ELSE own[k]]
  BY DEF Overlaid
<1>2. Typed(below)
  OBVIOUS
<1>3. Typed(t)
  BY <1>1, <1>2 DEF Typed, Key
<1> QED BY <1>1, <1>3
-----------------------------------------------------------------------------
(***************************************************************************)
(* Before any source every key has its default, and one source more        *)
(* overrides exactly the keys it decides.                                  *)
(***************************************************************************)
LEMMA DeclaredByNone == ASSUME NEW S PROVE Declared(S, 0) = Default
<1>1. \A k \in Key : Deciding(S, 0, k) = {}
  BY DEF Deciding
<1> QED
  BY <1>1 DEF Declared, Default, Key

\* One more source decides the keys it has something to say of, and no others.
LEMMA DeclaredByOneMore ==
    ASSUME NEW S, NEW n \in Nat, NEW k \in Key
    PROVE  Declared(S, n + 1)[k] = IF Decides(S[n + 1], k) THEN Says(S[n + 1], k)
                                   ELSE Declared(S, n)[k]
<1> DEFINE new == Deciding(S, n + 1, k)
           old == Deciding(S, n, k)
           Top(D) == CHOOSE i \in D : \A j \in D : j <= i
<1>1. CASE Decides(S[n + 1], k)
  <2>1. n + 1 \in new /\ \A j \in new : j \in Nat /\ j <= n + 1
    BY <1>1 DEF Deciding
  <2>2. Top(new) \in new /\ \A j \in new : j <= Top(new)
    BY <2>1
  <2>3. Top(new) = n + 1
    <3>1. Top(new) \in Nat /\ Top(new) <= n + 1 /\ n + 1 <= Top(new)
      BY <2>1, <2>2
    <3> QED BY <3>1
  <2>4. Declared(S, n + 1)[k] = Says(S[Top(new)], k)
    BY <2>1 DEF Declared
  <2> QED BY <1>1, <2>3, <2>4
<1>2. CASE ~Decides(S[n + 1], k)
  <2>1. new = old
    BY <1>2 DEF Deciding
  <2>2. ASSUME NEW N
        PROVE  Declared(S, N)[k] = IF Deciding(S, N, k) = {} THEN Default[k]
                                   ELSE Says(S[Top(Deciding(S, N, k))], k)
    BY Zenon DEF Declared
  <2>3. Declared(S, n + 1)[k] = IF new = {} THEN Default[k] ELSE Says(S[Top(new)], k)
    BY <2>2
  <2>4. Declared(S, n)[k] = IF old = {} THEN Default[k] ELSE Says(S[Top(old)], k)
    BY <2>2
  <2>5. Declared(S, n + 1)[k] = Declared(S, n)[k]
    <3> HIDE DEF new, old, Top
    <3> QED BY <2>1, <2>3, <2>4
  <2> QED BY <1>2, <2>5
<1> QED BY <1>1, <1>2

(***************************************************************************)
(* One turn of the loop adds one source to what the sources declare.       *)
(***************************************************************************)
LEMMA OverlayDeclares ==
    ASSUME NEW S, NEW n \in Nat, Typed(S[n + 1]),
           Declared(S, n)["with_state"] \in BOOLEAN,
           Declared(S, n)["with_ignored"] \in BOOLEAN
    PROVE  /\ Overlay(Declared(S, n), S[n + 1]) = Declared(S, n + 1)
           /\ Declared(S, n + 1)["with_state"] \in BOOLEAN
           /\ Declared(S, n + 1)["with_ignored"] \in BOOLEAN
<1> DEFINE m == Declared(S, n)
           s == S[n + 1]
<1>1. \A k \in Key : Declared(S, n + 1)[k] =
                       IF Decides(s, k) THEN Says(s, k) ELSE m[k]
  BY DeclaredByOneMore
<1>2. /\ s["with_state"] \in BOOLEAN \cup {Unset}
      /\ s["with_ignored"] \in BOOLEAN \cup {Unset}
  BY DEF Typed
<1>3. ASSUME NEW k \in Key
      PROVE  Overlay(m, s)[k] = IF Decides(s, k) THEN Says(s, k) ELSE m[k]
  <2>1. CASE k = "with_state"
    BY <2>1, <1>2, UnsetAssumption DEF Overlay, Decides, Says, Key
  <2>2. CASE k = "with_ignored"
    BY <2>2, <1>2, UnsetAssumption DEF Overlay, Decides, Says, Key
  <2>3. CASE k = "branch_prefix"
    BY <2>3, UnsetAssumption DEF Overlay, Decides, Says, Key
  <2>4. CASE k \notin {"with_state", "with_ignored", "branch_prefix"}
    BY <2>4 DEF Overlay, Decides, Says, Key
  <2> QED BY <2>1, <2>2, <2>3, <2>4
<1>4. Overlay(m, s) = Declared(S, n + 1)
  BY <1>1, <1>3 DEF Overlay, Declared
<1>5. Declared(S, n + 1)["with_state"] \in BOOLEAN
  BY <1>1 DEF Decides, Says, Key
<1>6. Declared(S, n + 1)["with_ignored"] \in BOOLEAN
  BY <1>1 DEF Decides, Says, Key
<1> QED BY <1>4, <1>5, <1>6
-----------------------------------------------------------------------------
(***************************************************************************)
(* What every reachable state is made of.                                  *)
(***************************************************************************)
IsRun(x) ==
    /\ x = [at |-> x.at, file |-> x.file, key |-> x.key, value |-> x.value,
            loaded |-> x.loaded, stale |-> x.stale]
    /\ Typed(x.loaded)
    /\ x.stale \in BOOLEAN
    /\ x.at \in {"loaded", "writing"} =>
         \E r \in Requests : x.file = r.file /\ x.key = r.key /\ x.value = r.value

Types ==
    /\ DOMAIN is = File /\ DOMAIN text = File /\ DOMAIN owed = File
    /\ \A f \in File : /\ Typed(text[f])
                       /\ is[f] \in {"absent", "bad", "good"}
                       /\ is[f] # "good" => text[f] = Nothing
    /\ \A f \in File : Typed(owed[f])
    /\ found \subseteq File /\ (at = "find" => next \in File)
    /\ sources = [i \in Source |-> sources[i]] /\ \A i \in Source : Typed(sources[i])
    /\ DOMAIN setter = Setter /\ \A s \in Setter : IsRun(setter[s])

\* Marking runs as outdated changes nothing else of them.
LEMMA OutdatedRuns ==
    ASSUME Types, NEW f, NEW S \in SUBSET Setter
    PROVE  /\ DOMAIN Outdated(f, S) = Setter
           /\ \A s \in Setter : IsRun(Outdated(f, S)[s])
           /\ \A s \in Setter : /\ Outdated(f, S)[s].at = setter[s].at
                                /\ Outdated(f, S)[s].file = setter[s].file
                                /\ Outdated(f, S)[s].loaded = setter[s].loaded
                                /\ ~Outdated(f, S)[s].stale =>
                                     ~setter[s].stale /\ ~(s \in S /\ setter[s].file = f)
<1>1. DOMAIN Outdated(f, S) = Setter
  BY DEF Outdated
<1>2. ASSUME NEW s \in Setter
      PROVE  /\ IsRun(Outdated(f, S)[s])
             /\ Outdated(f, S)[s].at = setter[s].at
             /\ Outdated(f, S)[s].file = setter[s].file
             /\ Outdated(f, S)[s].loaded = setter[s].loaded
             /\ ~Outdated(f, S)[s].stale =>
                  ~setter[s].stale /\ ~(s \in S /\ setter[s].file = f)
  <2> DEFINE x == setter[s]
             y == Outdated(f, S)[s]
  <2>1. IsRun(x)
    BY DEF Types
  <2>2. y = IF s \in S /\ x.file = f THEN [x EXCEPT !.stale = TRUE] ELSE x
    BY DEF Outdated
  <2>3. CASE s \in S /\ x.file = f
    <3>1. y = [at |-> x.at, file |-> x.file, key |-> x.key, value |-> x.value,
               loaded |-> x.loaded, stale |-> TRUE]
      BY <2>1, <2>2, <2>3 DEF IsRun
    <3> HIDE DEF y
    <3>2. /\ y.at = x.at /\ y.file = x.file /\ y.key = x.key /\ y.value = x.value
          /\ y.loaded = x.loaded /\ y.stale = TRUE
      BY <3>1
    <3>3. IsRun(y)
      BY <2>1, <3>1, <3>2 DEF IsRun
    <3> QED BY <2>3, <3>2, <3>3 DEF y
  <2>4. CASE ~(s \in S /\ x.file = f)
    BY <2>1, <2>2, <2>4 DEF IsRun
  <2> QED BY <2>3, <2>4
<1> QED BY <1>1, <1>2

\* A run that goes on is a run.
LEMMA RunsAreRuns ==
    ASSUME NEW x, IsRun(x), NEW a, 
           a \notin {"loaded", "writing"} \/ (a = "writing" /\ x.at = "loaded")
    PROVE  IsRun([x EXCEPT !.at = a])
<1> DEFINE y == [x EXCEPT !.at = a]
<1>1. y = [at |-> a, file |-> x.file, key |-> x.key, value |-> x.value,
           loaded |-> x.loaded, stale |-> x.stale]
  BY DEF IsRun
<1> HIDE DEF y
<1>2. /\ y.at = a /\ y.file = x.file /\ y.key = x.key /\ y.value = x.value
      /\ y.loaded = x.loaded /\ y.stale = x.stale
  BY <1>1
<1>3. IsRun(y)
  BY <1>1, <1>2 DEF IsRun
<1> QED BY <1>3 DEF y

\* A run that loses the file it has open stays what it was, and does not write it.
LEMMA AdriftRuns ==
    ASSUME Types, NEW f
    PROVE  /\ DOMAIN Adrift(f) = Setter
           /\ \A s \in Setter : IsRun(Adrift(f)[s])
           /\ \A s \in Setter :
                IF setter[s].file = f /\ setter[s].at = "writing"
                THEN Adrift(f)[s].at = "adrift"
                ELSE Adrift(f)[s] = Outdated(f, Setter)[s]
<1>1. ASSUME NEW s \in Setter, setter[s].file = f, setter[s].at = "writing"
      PROVE  IsRun(Adrift(f)[s]) /\ Adrift(f)[s].at = "adrift"
  <2>1. IsRun([setter[s] EXCEPT !.at = "adrift"])
    BY RunsAreRuns DEF Types
  <2>2. Adrift(f)[s] = [setter[s] EXCEPT !.at = "adrift"]
    BY <1>1 DEF Adrift
  <2>3. [setter[s] EXCEPT !.at = "adrift"].at = "adrift"
    BY DEF Types, IsRun
  <2> QED BY <2>1, <2>2, <2>3
<1>2. ASSUME NEW s \in Setter, ~(setter[s].file = f /\ setter[s].at = "writing")
      PROVE  IsRun(Adrift(f)[s]) /\ Adrift(f)[s] = Outdated(f, Setter)[s]
  <2>1. Adrift(f)[s] = Outdated(f, Setter)[s]
    BY <1>2 DEF Adrift
  <2> QED BY <2>1, OutdatedRuns
<1>3. DOMAIN Adrift(f) = Setter
  BY DEF Adrift
<1> QED BY <1>1, <1>2, <1>3

\* Everything begins well typed.
LEMMA InitTypes == Init => Types
<1> SUFFICES ASSUME Init PROVE Types
  OBVIOUS
<1>1. \A f \in File : Typed(text[f]) /\ (is[f] # "good" => text[f] = Nothing)
  BY NothingIsTyped, TextsAssumption DEF Init
<1>2. \A s \in Setter : IsRun(setter[s])
  BY NothingIsTyped DEF Init, Idle, IsRun
<1> QED
  BY <1>1, <1>2, NothingIsTyped DEF Init, Types

(* What each step leaves of the files, the sources and the runs. *)
LEMMA ChangeTypes ==
    ASSUME Types, NEW f \in File, NEW what \in {"absent", "bad", "good"}, NEW t,
           Typed(t), what # "good" => t = Nothing, Change(f, what, t)
    PROVE  /\ DOMAIN is' = File /\ DOMAIN text' = File
           /\ \A g \in File : /\ Typed(text'[g])
                              /\ is'[g] \in {"absent", "bad", "good"}
                              /\ is'[g] # "good" => text'[g] = Nothing
BY DEF Types, Change

\* Every step of the command, of config set and of the user keeps the types.
LEMMA TypesStep == Types /\ [Next]_vars => Types'
<1> SUFFICES ASSUME Types, [Next]_vars PROVE Types'
  OBVIOUS
<1>1. CASE Start
  <2>1. \A e \in Outputs : Typed([Nothing EXCEPT !["output"] = e])
    BY DEF Nothing, Typed, Key
  <2>2. PICK e \in Outputs, fl \in FlagSets :
          sources' = [sources EXCEPT ![Env] = [Nothing EXCEPT !["output"] = e],
                                     ![Flags] = fl]
    BY <1>1 DEF Start
  <2>3. Typed(fl)
    BY TextsAssumption
  <2>4. sources' = [i \in Source |-> sources'[i]] /\ \A i \in Source : Typed(sources'[i])
    BY <2>1, <2>2, <2>3 DEF Types
  <2>5. found' \subseteq File /\ (at' = "find" => next' \in File)
    BY <1>1 DEF Start, File
  <2> QED BY <1>1, <2>4, <2>5 DEF Start, Types, files
<1>2. CASE Find
  <2>1. found' \subseteq File /\ (at' = "find" => next' \in File)
    <3>1. next \in File /\ found \subseteq File
      BY <1>2 DEF Find, Types
    <3>2. found' \subseteq File
      BY <1>2, <3>1 DEF Find
    <3>3. at' = "find" => next < Files
      BY <1>2 DEF Find
    <3>4. next < Files => next' = next + 1 /\ next + 1 \in File
      BY <1>2, <3>1 DEF Find, File
    <3> QED BY <3>2, <3>3, <3>4
  <2> QED BY <1>2, <2>1 DEF Find, Types, files
<1>3. CASE Load
  <2>1. \A f \in File : Typed(Loaded(text[f]))
    BY LoadedIsTyped DEF Types
  <2>2. PICK f \in found : /\ found' = found \ {f}
                          /\ \/ UNCHANGED sources
                             \/ sources' = [sources EXCEPT ![f] = Loaded(text[f])]
                          /\ at' # "find"
    BY <1>3 DEF Load
  <2>3. f \in File
    BY <2>2 DEF Types
  <2>4. sources' = [i \in Source |-> sources'[i]] /\ \A i \in Source : Typed(sources'[i])
    BY <2>1, <2>2, <2>3 DEF Types
  <2> QED BY <1>3, <2>2, <2>4 DEF Load, Types, files
<1>4. CASE Merge
  BY <1>4 DEF Merge, Types, files
<1>5. ASSUME NEW s \in Setter, SetLoads(s) PROVE Types'
  <2>1. PICK r \in Requests :
          setter' = [setter EXCEPT ![s] =
             [at |-> IF is[r.file] = "bad" THEN "refused" ELSE "loaded",
              file |-> r.file, key |-> r.key, value |-> r.value,
              loaded |-> Loaded(text[r.file]),
              stale |-> FALSE]]
    BY <1>5 DEF SetLoads
  <2>2. Typed(Loaded(text[r.file]))
    BY RequestsAssumption, LoadedIsTyped DEF Types
  <2> DEFINE x == [at |-> IF is[r.file] = "bad" THEN "refused" ELSE "loaded",
              file |-> r.file, key |-> r.key, value |-> r.value,
              loaded |-> Loaded(text[r.file]),
              stale |-> FALSE]
  <2>3. IsRun(x)
    BY <2>2 DEF IsRun
  <2> HIDE DEF x
  <2>4. DOMAIN setter' = Setter /\ \A u \in Setter : IsRun(setter'[u])
    BY <2>1, <2>3 DEF Types, x
  <2> QED BY <1>5, <2>4 DEF SetLoads, Types, files, reader
<1>6. ASSUME NEW s \in Setter, SetTruncates(s) PROVE Types'
  <2> DEFINE f == setter[s].file
             out == Outdated(f, Setter \ {s})
  <2>1. f \in File
    BY <1>6, RequestsAssumption DEF SetTruncates, Types, IsRun
  <2>2. /\ DOMAIN out = Setter /\ \A u \in Setter : IsRun(out[u])
        /\ out[s].at = "loaded"
    BY <1>6, OutdatedRuns DEF SetTruncates
  <2>3. setter' = [out EXCEPT ![s] = [out[s] EXCEPT !.at = "writing"]]
    BY <1>6 DEF SetTruncates
  <2> HIDE DEF out
  <2>4. DOMAIN setter' = Setter /\ \A u \in Setter : IsRun(setter'[u])
    BY <2>2, <2>3, RunsAreRuns
  <2>5. /\ DOMAIN is' = File /\ DOMAIN text' = File
        /\ \A g \in File : /\ Typed(text'[g])
                           /\ is'[g] \in {"absent", "bad", "good"}
                           /\ is'[g] # "good" => text'[g] = Nothing
    BY <1>6, <2>1, ChangeTypes, NothingIsTyped DEF SetTruncates
  <2> QED BY <1>6, <2>4, <2>5 DEF SetTruncates, Types, reader
<1>7. ASSUME NEW s \in Setter, SetWrites(s) PROVE Types'
  <2> DEFINE f == setter[s].file
             k == setter[s].key
             v == setter[s].value
             own == Rewritten(setter[s].loaded, k, v)
             out == Outdated(f, Setter \ {s})
  <2>0. IsRun(setter[s]) /\ setter[s].at = "writing"
    BY <1>7 DEF SetWrites, Types
  <2>1. PICK r \in Requests : f = r.file /\ k = r.key /\ v = r.value
    BY <2>0 DEF IsRun
  <2>2. f \in File /\ k \in Key
    BY <2>1, RequestsAssumption
  <2>3. Typed(own) /\ \A d \in Beneath(f) : Typed(d)
    BY <2>0, <2>1, <2>2, RewrittenIsTyped, NothingIsTyped, TextsAssumption
       DEF IsRun, Beneath, Types
  <2>4. /\ DOMAIN out = Setter /\ \A u \in Setter : IsRun(out[u])
    BY OutdatedRuns
  <2>5. setter' = [out EXCEPT ![s] = [out[s] EXCEPT !.at = "done"]]
    BY <1>7 DEF SetWrites
  <2>6. DOMAIN setter' = Setter /\ \A u \in Setter : IsRun(setter'[u])
    <3> HIDE DEF out
    <3>1. IsRun([out[s] EXCEPT !.at = "done"])
      BY <2>4, RunsAreRuns
    <3> QED BY <2>4, <2>5, <3>1
  <2>7. PICK what, t : /\ what \in {"good", "bad"} /\ Change(f, what, t) /\ Typed(t)
                       /\ (what # "good" => t = Nothing)
    <3>1. \A t \in Overlaid(own, f) : Typed(t)
      <4> HIDE DEF own, f
      <4> QED BY <2>3, OverlaidKeeps
    <3>2. (\E t \in Overlaid(own, f) : Change(f, "good", t)) \/ Change(f, "bad", Nothing)
      BY <1>7 DEF SetWrites
    <3> QED BY <3>1, <3>2, NothingIsTyped
  <2>8. /\ DOMAIN is' = File /\ DOMAIN text' = File
        /\ \A g \in File : /\ Typed(text'[g])
                           /\ is'[g] \in {"absent", "bad", "good"}
                           /\ is'[g] # "good" => text'[g] = Nothing
    <3> HIDE DEF f
    <3> QED BY <2>2, <2>7, ChangeTypes
  <2>9. \/ owed' = [owed EXCEPT ![f] =
                      [(IF setter[s].stale THEN Nothing ELSE owed[f]) EXCEPT ![k] = v]]
        \/ owed' = [owed EXCEPT ![f] = Nothing]
    BY <1>7 DEF SetWrites
  <2>10. \A o : Typed(o) => Typed([o EXCEPT ![k] = v])
    BY <2>1, RequestsAssumption DEF Typed, Key
  <2>11. DOMAIN owed' = File /\ \A g \in File : Typed(owed'[g])
    <3> HIDE DEF f, k, v
    <3> QED BY <2>2, <2>9, <2>10, NothingIsTyped DEF Types
  <2> QED BY <1>7, <2>6, <2>8, <2>11 DEF SetWrites, Types, reader
<1>8. ASSUME NEW s \in Setter, SetDies(s) PROVE Types'
  <2>1. DOMAIN setter' = Setter /\ \A u \in Setter : IsRun(setter'[u])
    <3>1. setter' = [setter EXCEPT ![s] = [setter[s] EXCEPT !.at = "dead"]]
      BY <1>8 DEF SetDies
    <3>2. IsRun([setter[s] EXCEPT !.at = "dead"])
      BY RunsAreRuns DEF Types
    <3> QED BY <3>1, <3>2 DEF Types
  <2>2. DOMAIN owed' = File /\ \A g \in File : Typed(owed'[g])
    BY <1>8, NothingIsTyped DEF SetDies, Types
  <2> QED BY <1>8, <2>1, <2>2 DEF SetDies, Types, files, reader
<1>9. CASE Edit
  <2>1. PICK f \in File, t \in Drafts \cup {Nothing} :
          /\ \/ t # Nothing /\ Change(f, "good", t)
             \/ t = Nothing /\ \E what \in {"absent", "bad"} : Change(f, what, t)
          /\ setter' = Outdated(f, Setter) \/ setter' = Adrift(f)
          /\ owed' = [owed EXCEPT ![f] = t]
    BY <1>9 DEF Edit
  <2>2. Typed(t)
    BY NothingIsTyped, TextsAssumption
  <2>3. PICK what \in {"absent", "bad", "good"} :
          Change(f, what, t) /\ (what # "good" => t = Nothing)
    BY <2>1
  <2>4. /\ DOMAIN is' = File /\ DOMAIN text' = File
        /\ \A g \in File : /\ Typed(text'[g])
                           /\ is'[g] \in {"absent", "bad", "good"}
                           /\ is'[g] # "good" => text'[g] = Nothing
    BY <2>2, <2>3, ChangeTypes
  <2>5. DOMAIN setter' = Setter /\ \A u \in Setter : IsRun(setter'[u])
    BY <2>1, OutdatedRuns, AdriftRuns
  <2>6. DOMAIN owed' = File /\ \A g \in File : Typed(owed'[g])
    BY <2>1, <2>2 DEF Types
  <2> QED BY <1>9, <2>4, <2>5, <2>6 DEF Edit, Types, reader
<1>10. ASSUME NEW s \in Setter, SetWritesAside(s) PROVE Types'
  <2>1. setter' = [setter EXCEPT ![s] = [setter[s] EXCEPT !.at = "done"]]
    BY <1>10 DEF SetWritesAside
  <2>2. IsRun([setter[s] EXCEPT !.at = "done"])
    BY RunsAreRuns DEF Types
  <2>3. DOMAIN setter' = Setter /\ \A u \in Setter : IsRun(setter'[u])
    BY <2>1, <2>2 DEF Types
  <2> QED BY <1>10, <2>3 DEF SetWritesAside, Types, files, reader
<1>11. CASE UNCHANGED vars
  BY <1>11 DEF vars, files, reader, Types
<1> QED
  BY <1>1, <1>2, <1>3, <1>4, <1>5, <1>6, <1>7, <1>8, <1>9, <1>10, <1>11
     DEF Next, Reads, Sets
-----------------------------------------------------------------------------
(***************************************************************************)
(* The resolving command.  While no file has changed, the files it is      *)
(* through with are those not to be loaded any more: of each of them it    *)
(* holds what is on disk.                                                  *)
(***************************************************************************)
Current(f) ==
    /\ sources[f] = IF f \in Given THEN Loaded(text[f]) ELSE Nothing
    /\ f \in Given => is[f] # "bad" /\ (named # 0 => is[f] # "absent")

Finding ==
    /\ named = 0 /\ next \in File /\ found \subseteq 1 .. (next - 1)
    /\ \A f \in File : sources[f] = Nothing
    /\ calm => \A f \in File : /\ f < next /\ f \notin found => is[f] = "absent"
                               /\ f \in found => is[f] # "absent"

Loading ==
    /\ found \subseteq Given /\ next = 1
    /\ calm => \A f \in File :
         IF f \in found THEN sources[f] = Nothing /\ (named = 0 => is[f] # "absent")
         ELSE Current(f)

Merging ==
    /\ next \in Source
    /\ merged = Declared(sources, next - 1)
    /\ merged["with_state"] \in BOOLEAN /\ merged["with_ignored"] \in BOOLEAN
    /\ calm => \A f \in File : Current(f)

Reading ==
    /\ at \in {"start", "find", "load", "merge", "done"}
    /\ named \in 0 .. Files
    /\ at \in {"start", "find", "load"} => merged = Default
    /\ at # "done" => outcome = Refused
    /\ at = "start" => \A f \in File : sources[f] = Nothing
    /\ at = "find" => Finding
    /\ at = "load" => Loading
    /\ at = "merge" => Merging
    /\ SettingsAreLayered

\* A file without settings loads as one.
LEMMA LoadedNothing == Loaded(Nothing) = Nothing
BY DEF Loaded, Nothing, Key

\* Before the first source is merged the defaults are what is declared.
LEMMA MergingStarts ==
    ASSUME merged = Default, next = 1, calm => \A f \in File : Current(f)
    PROVE  Merging
<1>1. merged = Declared(sources, next - 1)
  BY DeclaredByNone
<1>2. merged["with_state"] \in BOOLEAN /\ merged["with_ignored"] \in BOOLEAN
  BY DEF Default
<1>3. next \in Source
  BY DEF Source, Flags
<1> QED BY <1>1, <1>2, <1>3 DEF Merging

(* What has been read when every file is current is what is on disk. *)
LEMMA CurrentIsOnDisk ==
    ASSUME Types, named \in 0 .. Files, \A f \in File : Current(f)
    PROVE  sources = OnDisk /\ ~Unreadable
<1>1. Given \subseteq File
  BY DEF File, Given
<1>2. \A i \in Source : sources[i] = OnDisk[i]
  BY DEF OnDisk, Current
<1>3. sources = OnDisk
  BY <1>2 DEF OnDisk, Types
<1>4. ~Unreadable
  BY <1>1 DEF Unreadable, Current
<1> QED BY <1>3, <1>4

(* Other steps: the command is where it was, and may have been disturbed. *)
LEMMA ReadingUndisturbed ==
    ASSUME Reading, UNCHANGED <<files, reader, calm>> PROVE Reading'
BY DEF Reading, Finding, Loading, Merging, Current, SettingsAreLayered, Given,
       OnDisk, Unreadable, files, reader

\* A change to a file ends the calm, and nothing more is claimed of the reader.
LEMMA ReadingDisturbed ==
    ASSUME Reading, UNCHANGED reader, calm' = FALSE PROVE Reading'
<1>1. Merging => next \in Source /\ merged = Declared(sources, next - 1)
  BY DEF Merging
<1>2. /\ at = "merge" => Merging'
      /\ at = "load" => Loading'
      /\ at = "find" => Finding'
  BY DEF Reading, Merging, Loading, Finding, Given, reader
<1> QED
  BY <1>2 DEF Reading, SettingsAreLayered, reader

\* Nothing has been looked for in the beginning.
LEMMA InitReading == Init => Reading
<1> SUFFICES ASSUME Init PROVE Reading
  OBVIOUS
<1>1. \A f \in File : f \in Source
  BY DEF File, Source, Flags
<1> QED
  BY <1>1 DEF Init, Reading, SettingsAreLayered

\* Every step keeps what is known of the reading command.
LEMMA ReadingStep == Types /\ Reading /\ [Next]_vars => Reading'
<1> SUFFICES ASSUME Types, Reading, [Next]_vars PROVE Reading'
  OBVIOUS
<1>0. \A f \in File : f \in Source /\ f # Env /\ f # Flags
  BY DEF File, Source, Env, Flags
<1>1. CASE Start
  <2>1. \A f \in File : sources'[f] = Nothing
    BY <1>0, <1>1 DEF Start, Reading, Types
  <2>2. merged' = Default /\ outcome' = Refused /\ named' \in 0 .. Files
    BY <1>1 DEF Start, Reading, File
  <2>3. CASE at' = "find"
    <3>1. named' = 0 /\ next' = 1 /\ found' = {}
      BY <1>1, <2>3 DEF Start
    <3>2. Finding'
      BY <2>1, <3>1 DEF Finding, File
    <3> QED BY <2>2, <2>3, <3>2 DEF Reading, SettingsAreLayered
  <2>4. CASE at' = "load"
    <3>1. named' # 0 /\ next' = 1 /\ found' = {named'}
      BY <1>1, <2>4 DEF Start, File
    <3>2. Loading'
      BY <2>1, <3>1 DEF Loading, Current, Given
    <3> QED BY <2>2, <2>4, <3>2 DEF Reading, SettingsAreLayered
  <2> QED BY <1>1, <2>3, <2>4 DEF Start
<1>2. CASE Find
  <2>1. Finding /\ merged = Default /\ outcome = Refused
    BY <1>2 DEF Find, Reading
  <2>2. UNCHANGED <<files, named, sources, merged, outcome, calm>>
    BY <1>2 DEF Find
  <2>3. found' = IF is[next] = "absent" THEN found ELSE found \cup {next}
    BY <1>2 DEF Find
  <2>4. found' \subseteq 1 .. next /\ next \in 1 .. Files /\ Given' = File
    BY <2>1, <2>2, <2>3 DEF Finding, File, Given
  <2>5. calm => \A f \in File : /\ f <= next /\ f \notin found' => is[f] = "absent"
                                /\ f \in found' => is[f] # "absent"
    BY <2>1, <2>3 DEF Finding, File
  <2>6. CASE next < Files
    <3>1. at' = "find" /\ next' = next + 1
      BY <1>2, <2>6 DEF Find, Finding
    <3>2. Finding'
      BY <2>1, <2>2, <2>4, <2>5, <2>6, <3>1 DEF Finding, files, File
    <3> QED BY <2>1, <2>2, <3>1, <3>2 DEF Reading, SettingsAreLayered
  <2>7. CASE next = Files
    <3>1. next' = 1 /\ at' = IF found' = {} THEN "merge" ELSE "load"
      BY <1>2, <2>7 DEF Find
    <3>2. ASSUME calm, NEW f \in File
          PROVE  IF f \in found' THEN sources[f] = Nothing /\ is[f] # "absent"
                 ELSE Current(f)
      <4>1. f <= next
        BY <2>7 DEF File
      <4>2. f \notin found' => is[f] = "absent" /\ text[f] = Nothing
        BY <2>5, <3>2, <4>1 DEF Types
      <4> QED
        BY <2>1, <2>5, <3>2, <4>2, LoadedNothing DEF Finding, Current
    <3>3. CASE found' = {}
      <4>1. calm' => \A f \in File : Current(f)'
        BY <2>2, <3>2, <3>3 DEF Current, files, Given
      <4>2. Merging'
        BY <2>1, <2>2, <3>1, <4>1, MergingStarts, DeclaredByNone
           DEF Merging, Default, Source, Flags
      <4> QED BY <2>1, <2>2, <3>1, <3>3, <4>2 DEF Reading, SettingsAreLayered
    <3>4. CASE found' # {}
      <4>1. Loading'
        BY <2>2, <2>4, <3>1, <3>2, <2>7 DEF Loading, Current, files, Given, File
      <4> QED BY <2>1, <2>2, <3>1, <3>4, <4>1 DEF Reading, SettingsAreLayered
    <3> QED BY <3>3, <3>4
  <2> QED BY <2>4, <2>6, <2>7
<1>3. CASE Load
  <2>1. Loading /\ merged = Default /\ outcome = Refused
    BY <1>3 DEF Load, Reading
  <2>2. UNCHANGED <<files, named, merged, outcome, calm>> /\ next' = 1
    BY <1>3 DEF Load
  <2>3. PICK f \in found :
          /\ found' = found \ {f}
          /\ \/ /\ is[f] # "good"
                /\ at' = "done" /\ UNCHANGED sources
             \/ /\ is[f] = "good"
                /\ sources' = [sources EXCEPT ![f] = Loaded(text[f])]
                /\ at' = IF found' = {} THEN "merge" ELSE at
    BY <1>3 DEF Load
  <2>4. f \in Given /\ f \in File /\ Given' = Given
    BY <2>1, <2>2 DEF Loading, Given, Reading, File
  <2>5. CASE is[f] # "good"
    <3>1. calm => Unreadable
      BY <2>1, <2>4, <2>5 DEF Loading, Unreadable, Types
    <3>2. calm' => Unreadable'
      BY <2>2, <3>1 DEF Unreadable, Given, files
    <3> QED BY <2>1, <2>2, <2>3, <2>5, <3>2 DEF Reading, SettingsAreLayered
  <2>6. CASE is[f] = "good"
    <3>1. sources' = [sources EXCEPT ![f] = Loaded(text[f])]
      BY <2>3, <2>6
    <3>2. ASSUME calm, NEW g \in File
          PROVE  IF g \in found' THEN sources'[g] = Nothing /\ (named = 0 => is[g] # "absent")
                 ELSE Current(g)'
      <4>1. CASE g = f
        BY <1>0, <2>2, <2>3, <2>4, <2>6, <3>1, <4>1 DEF Current, files, Types
      <4>2. CASE g # f
        BY <1>0, <2>1, <2>2, <2>3, <2>4, <3>1, <3>2, <4>2 DEF Loading, Current, files, Types
      <4> QED BY <4>1, <4>2
    <3>3. CASE found' = {}
      <4>1. at' = "merge" /\ (calm' => \A g \in File : Current(g)')
        BY <2>2, <2>3, <2>6, <3>2, <3>3
      <4>2. Merging'
        BY <2>1, <2>2, <4>1, DeclaredByNone DEF Merging, Default, Source, Flags
      <4> QED BY <2>1, <2>2, <4>1, <4>2 DEF Reading, SettingsAreLayered
    <3>4. CASE found' # {}
      <4>1. at' = "load"
        BY <1>3, <2>3, <2>6, <3>4 DEF Load
      <4>2. Loading'
        BY <2>1, <2>2, <2>3, <2>4, <3>2 DEF Loading, files
      <4> QED BY <2>1, <2>2, <4>1, <4>2 DEF Reading, SettingsAreLayered
    <3> QED BY <3>3, <3>4
  <2> QED BY <2>5, <2>6
<1>4. CASE Merge
  <2>1. Merging /\ outcome = Refused
    BY <1>4 DEF Merge, Reading
  <2>2. UNCHANGED <<files, named, found, sources, calm>> /\ next' = next + 1
    BY <1>4 DEF Merge
  <2> DEFINE n == next - 1
  <2>3. n \in Nat /\ n + 1 = next /\ Typed(sources[n + 1])
    BY <2>1 DEF Merging, Source, Flags, Types
  <2>4. merged = Declared(sources, n)
    BY <2>1 DEF Merging
  <2>5. /\ Overlay(merged, sources[next]) = Declared(sources, next)
        /\ Declared(sources, next)["with_state"] \in BOOLEAN
        /\ Declared(sources, next)["with_ignored"] \in BOOLEAN
    <3> HIDE DEF n
    <3>1. /\ Declared(sources, n)["with_state"] \in BOOLEAN
          /\ Declared(sources, n)["with_ignored"] \in BOOLEAN
      BY <2>1, <2>4 DEF Merging
    <3> QED BY <2>3, <2>4, <3>1, OverlayDeclares
  <2>6. merged' = Declared(sources, next)
    BY <1>4, <2>5 DEF Merge
  <2>7. calm' => \A f \in File : Current(f)'
    BY <2>1, <2>2 DEF Merging, Current, Given, files
  <2>8. CASE next < Flags
    <3>1. at' = "merge" /\ outcome' = Refused
      BY <1>4, <2>1, <2>8 DEF Merge, Flags
    <3>2. Merging'
      <4>1. next' \in Source /\ next' - 1 = next
        BY <2>1, <2>2, <2>8 DEF Merging, Source, Flags
      <4> QED BY <2>2, <2>5, <2>6, <2>7, <4>1 DEF Merging
    <3> QED BY <2>2, <3>1, <3>2 DEF Reading, SettingsAreLayered
  <2>9. CASE next = Flags
    <3>1. at' = "done" /\ outcome' = Resolved(Declared(sources, Flags))
      BY <1>4, <2>6, <2>9 DEF Merge, Flags
    <3>2. calm => sources = OnDisk /\ ~Unreadable
      BY <2>1, CurrentIsOnDisk DEF Merging, Reading
    <3>3. OnDisk' = OnDisk /\ Unreadable' = Unreadable
      BY <2>2 DEF OnDisk, Unreadable, Given, files
    <3>4. SettingsAreLayered'
      BY <2>2, <3>1, <3>2, <3>3 DEF SettingsAreLayered
    <3> QED BY <2>2, <3>1, <3>4 DEF Reading
  <2> QED BY <2>1, <2>8, <2>9 DEF Merging, Source, Flags
<1>5. ASSUME NEW s \in Setter, Sets(s) PROVE Reading'
  <2>1. UNCHANGED reader /\ (calm' = FALSE \/ UNCHANGED <<files, calm>>)
    BY <1>5 DEF Sets, SetLoads, SetTruncates, SetWrites, SetWritesAside, SetDies,
            Change
  <2> QED BY <2>1, ReadingDisturbed, ReadingUndisturbed
<1>6. CASE Edit
  <2>1. UNCHANGED reader /\ calm' = FALSE
    BY <1>6 DEF Edit, Change
  <2> QED BY <2>1, ReadingDisturbed
<1>7. CASE UNCHANGED vars
  <2>1. UNCHANGED <<files, reader, calm>>
    BY <1>7 DEF vars
  <2> QED BY <2>1, ReadingUndisturbed
<1> QED
  BY <1>1, <1>2, <1>3, <1>4, <1>5, <1>6, <1>7 DEF Next, Reads

(***************************************************************************)
(* resolve_config gives each key what its highest deciding source says, for*)
(* any number of files: a command during which no file changes has the     *)
(* settings its files, its environment and its flags declare.              *)
(***************************************************************************)
THEOREM SettingsAreLayeredTheorem == Spec => []SettingsAreLayered
<1>1. Init => Types /\ Reading
  BY InitTypes, InitReading
<1>2. Types /\ Reading /\ [Next]_vars => (Types /\ Reading)'
  BY TypesStep, ReadingStep
<1>3. Types /\ Reading => SettingsAreLayered
  BY DEF Reading
<1> QED
  BY <1>1, <1>2, <1>3, PTL DEF Spec
-----------------------------------------------------------------------------
(***************************************************************************)
(* `config set`.  A run that is not out of date has loaded what the file   *)
(* should hold, unless another is in the middle of writing the file: that  *)
(* one makes it out of date, or dies and leaves the file without promises. *)
(***************************************************************************)
Writing(s, f) == setter[s].at = "writing" /\ setter[s].file = f
Agrees(f, t) == \A k \in Key : owed[f][k] # Unset => t[k] = owed[f][k]

Keeping ==
    \A f \in File :
        /\ (\E s \in Setter : Writing(s, f)) \/ Agrees(f, text[f])
        /\ \A s \in Setter :
              /\ setter[s].file = f /\ setter[s].at \in {"loaded", "writing"}
              /\ ~setter[s].stale
              => \/ Agrees(f, setter[s].loaded)
                 \/ \E u \in Setter \ {s} : Writing(u, f)

\* No run of config set has loaded anything in the beginning.
LEMMA InitKeeping == Init => Keeping
<1> SUFFICES ASSUME Init PROVE Keeping
  OBVIOUS
<1>1. \A f \in File : Agrees(f, text[f])
  BY DEF Init, Agrees
<1>2. \A s \in Setter : setter[s].at = "start"
  BY DEF Init, Idle
<1> QED BY <1>1, <1>2 DEF Keeping

(* A run that changes a file moves on and outdates the others that loaded it. *)
Overtakes(s, h, a) ==
    setter' = [Outdated(h, Setter \ {s}) EXCEPT ![s] = [@ EXCEPT !.at = a]]

\* A write makes the other runs on its file outdated, and changes no run but its own.
LEMMA OthersOutdated ==
    ASSUME Types, NEW s \in Setter, NEW h, NEW a, Overtakes(s, h, a)
    PROVE  /\ setter'[s].at = a /\ setter'[s].file = setter[s].file
           /\ setter'[s].loaded = setter[s].loaded
           /\ ~setter'[s].stale => ~setter[s].stale
           /\ \A u \in Setter \ {s} :
                /\ setter'[u].at = setter[u].at /\ setter'[u].file = setter[u].file
                /\ setter'[u].loaded = setter[u].loaded
                /\ ~setter'[u].stale => ~setter[u].stale /\ setter[u].file # h
<1> DEFINE out == Outdated(h, Setter \ {s})
<1>1. /\ DOMAIN out = Setter
      /\ \A u \in Setter : IsRun(out[u])
      /\ \A u \in Setter : /\ out[u].at = setter[u].at
                           /\ out[u].file = setter[u].file
                           /\ out[u].loaded = setter[u].loaded
                           /\ ~out[u].stale => ~setter[u].stale /\
                                ~(u \in Setter \ {s} /\ setter[u].file = h)
  BY OutdatedRuns
<1>2. out[s] = [at |-> out[s].at, file |-> out[s].file, key |-> out[s].key,
                value |-> out[s].value, loaded |-> out[s].loaded,
                stale |-> out[s].stale]
  BY <1>1 DEF IsRun
<1>3. ~out[s].stale => ~setter[s].stale
  BY <1>1
<1>4. setter' = [out EXCEPT ![s] = [out[s] EXCEPT !.at = a]]
  BY <1>1 DEF Overtakes
<1> HIDE DEF out
<1>5. setter'[s] = [at |-> a, file |-> out[s].file, key |-> out[s].key,
                    value |-> out[s].value, loaded |-> out[s].loaded,
                    stale |-> out[s].stale]
  BY <1>1, <1>2, <1>4
<1>6. \A u \in Setter \ {s} : setter'[u] = out[u]
  BY <1>1, <1>4
<1>7. /\ setter'[s].at = a /\ setter'[s].file = out[s].file
      /\ setter'[s].loaded = out[s].loaded
  BY <1>5
<1>8. setter'[s].stale = out[s].stale
  BY <1>5
<1>9. ~setter'[s].stale => ~setter[s].stale
  BY <1>3, <1>8
<1> QED BY <1>1, <1>6, <1>7, <1>9

\* Every step keeps what the runs owe the files.
LEMMA KeepingStep == Types /\ Keeping /\ [Next]_vars => Keeping'
<1> SUFFICES ASSUME Types, Keeping, [Next]_vars PROVE Keeping'
  OBVIOUS
<1>1. CASE UNCHANGED <<text, setter, owed>>
  BY <1>1 DEF Keeping, Writing, Agrees
<1>2. ASSUME NEW s \in Setter, SetLoads(s) PROVE Keeping'
  <2>1. PICK r \in Requests :
          setter' = [setter EXCEPT ![s] =
             [at |-> IF is[r.file] = "bad" THEN "refused" ELSE "loaded",
              file |-> r.file, key |-> r.key, value |-> r.value,
              loaded |-> Loaded(text[r.file]),
              stale |-> FALSE]]
    BY <1>2 DEF SetLoads
  <2>2. UNCHANGED <<text, owed>> /\ setter[s].at = "start"
    BY <1>2 DEF SetLoads, files
  <2>3. /\ setter'[s].at \in {"refused", "loaded"} /\ setter'[s].file = r.file
        /\ setter'[s].loaded = Loaded(text[r.file])
        /\ \A u \in Setter \ {s} : setter'[u] = setter[u]
    BY <2>1 DEF Types
  <2>4. \A u \in Setter, f \in File : Writing(u, f) <=> Writing(u, f)'
    BY <2>2, <2>3 DEF Writing
  <2>5. \A u \in Setter, f \in File : Writing(u, f) => u # s
    BY <2>2 DEF Writing
  <2>6. \A f \in File : Agrees(f, text[f]) => Agrees(f, Loaded(text[f]))
    <3>1. ASSUME NEW f \in File, Agrees(f, text[f]), NEW k \in Key, owed[f][k] # Unset
          PROVE  Loaded(text[f])[k] = owed[f][k]
      BY <3>1, LoadedKeeps DEF Agrees, Types
    <3> QED BY <3>1 DEF Agrees
  <2>7. \A f \in File : \A t : Agrees(f, t)' <=> Agrees(f, t')
    BY <2>2 DEF Agrees
  <2>8. ASSUME NEW f \in File
        PROVE  /\ (\E u \in Setter : Writing(u, f)') \/ Agrees(f, text[f])'
               /\ \A u \in Setter :
                     /\ setter'[u].file = f /\ setter'[u].at \in {"loaded", "writing"}
                     /\ ~setter'[u].stale
                     => \/ Agrees(f, setter[u].loaded)'
                        \/ \E w \in Setter \ {u} : Writing(w, f)'
    <3>1. (\E u \in Setter : Writing(u, f)') \/ Agrees(f, text[f])'
      BY <2>2, <2>4 DEF Keeping, Agrees
    <3>2. ASSUME NEW u \in Setter, setter'[u].file = f,
                 setter'[u].at \in {"loaded", "writing"}, ~setter'[u].stale
          PROVE  Agrees(f, setter[u].loaded)' \/ \E w \in Setter \ {u} : Writing(w, f)'
      <4>1. CASE u = s
        <5>1. Agrees(f, text[f]) => Agrees(f, setter[u].loaded)'
          BY <2>2, <2>3, <2>6, <3>2, <4>1 DEF Agrees
        <5>2. (\E w \in Setter : Writing(w, f)) => \E w \in Setter \ {u} : Writing(w, f)'
          BY <2>4, <2>5, <4>1
        <5> QED BY <5>1, <5>2 DEF Keeping
      <4>2. CASE u # s
        <5>1. setter'[u] = setter[u]
          BY <2>3, <4>2
        <5>2. Agrees(f, setter[u].loaded) \/ \E w \in Setter \ {u} : Writing(w, f)
          BY <3>2, <5>1 DEF Keeping
        <5>3. Agrees(f, setter[u].loaded) => Agrees(f, setter[u].loaded)'
          BY <2>2, <5>1 DEF Agrees
        <5> QED BY <2>4, <5>2, <5>3
      <4> QED BY <4>1, <4>2
    <3> QED BY <3>1, <3>2
  <2> QED BY <2>8 DEF Keeping
<1>3. ASSUME NEW s \in Setter, SetTruncates(s) PROVE Keeping'
  <2>1. PICK h : h = setter[s].file
    OBVIOUS
  <2>2. /\ setter'[s].at = "writing" /\ setter'[s].file = h
        /\ setter'[s].loaded = setter[s].loaded
        /\ ~setter'[s].stale => ~setter[s].stale
        /\ \A u \in Setter \ {s} :
             /\ setter'[u].at = setter[u].at /\ setter'[u].file = setter[u].file
             /\ setter'[u].loaded = setter[u].loaded
             /\ ~setter'[u].stale => ~setter[u].stale /\ setter[u].file # h
    <3>1. Overtakes(s, h, "writing")
      BY <1>3, <2>1 DEF SetTruncates, Overtakes
    <3> QED BY <2>1, <3>1, OthersOutdated
  <2>3. /\ UNCHANGED owed /\ setter[s].at = "loaded"
        /\ text' = [text EXCEPT ![h] = Nothing]
    BY <1>3, <2>1 DEF SetTruncates, Change
  <2>4. \A u \in Setter, f \in File : Writing(u, f) => Writing(u, f)'
    BY <2>1, <2>2, <2>3 DEF Writing
  <2>5. Writing(s, h)'
    BY <2>2 DEF Writing
  <2>6. ASSUME NEW f \in File
        PROVE  (\E u \in Setter : Writing(u, f)') \/ Agrees(f, text[f])'
    <3>1. CASE f = h
      BY <2>5, <3>1
    <3>2. CASE f # h
      BY <2>3, <2>4, <3>2 DEF Keeping, Agrees, Types
    <3> QED BY <3>1, <3>2
  <2>7. ASSUME NEW f \in File, NEW u \in Setter, setter'[u].file = f,
                setter'[u].at \in {"loaded", "writing"}, ~setter'[u].stale
         PROVE  Agrees(f, setter[u].loaded)' \/ \E w \in Setter \ {u} : Writing(w, f)'
    <3>1. /\ setter[u].file = f /\ setter[u].at \in {"loaded", "writing"}
          /\ ~setter[u].stale /\ setter'[u].loaded = setter[u].loaded
      BY <2>1, <2>2, <2>3, <2>7
    <3>2. Agrees(f, setter[u].loaded) \/ \E w \in Setter \ {u} : Writing(w, f)
      BY <3>1 DEF Keeping
    <3> QED BY <2>3, <2>4, <3>1, <3>2 DEF Agrees
  <2> QED BY <2>6, <2>7 DEF Keeping
<1>4. ASSUME NEW s \in Setter, SetWrites(s) PROVE Keeping'
  <2>0. IsRun(setter[s]) /\ setter[s].at = "writing"
    BY <1>4 DEF SetWrites, Types
  <2>1. PICK r \in Requests :
          setter[s].file = r.file /\ setter[s].key = r.key /\ setter[s].value = r.value
    BY <2>0 DEF IsRun
  <2>2. PICK h \in File : h = setter[s].file
    BY <2>1, RequestsAssumption
  <2>3. /\ setter'[s].at = "done" /\ setter'[s].file = h
        /\ setter'[s].loaded = setter[s].loaded
        /\ ~setter'[s].stale => ~setter[s].stale
        /\ \A u \in Setter \ {s} :
             /\ setter'[u].at = setter[u].at /\ setter'[u].file = setter[u].file
             /\ setter'[u].loaded = setter[u].loaded
             /\ ~setter'[u].stale => ~setter[u].stale /\ setter[u].file # h
    <3>1. Overtakes(s, h, "done")
      BY <1>4, <2>2 DEF SetWrites, Overtakes
    <3> QED BY <2>2, <3>1, OthersOutdated
  <2>4. PICK own : own = Rewritten(setter[s].loaded, r.key, r.value)
    OBVIOUS
  <2>5. PICK o : o = IF setter[s].stale THEN Nothing ELSE owed[h]
    OBVIOUS
  <2>11. PICK t, promise :
          /\ text' = [text EXCEPT ![h] = t] /\ owed' = [owed EXCEPT ![h] = promise]
          /\ \/ t \in Overlaid(own, h) /\ promise = [o EXCEPT ![r.key] = r.value]
             \/ promise = Nothing
    BY <1>4, <2>1, <2>2, <2>4, <2>5 DEF SetWrites, Change
  <2>6. /\ \A u \in Setter, f \in File : Writing(u, f) /\ u # s => Writing(u, f)'
        /\ \A u \in Setter : Writing(u, h)' => Writing(u, h) /\ u # s
    BY <2>3 DEF Writing
  <2>7. \A f \in File \ {h} : text'[f] = text[f] /\ owed'[f] = owed[f] /\ ~Writing(s, f)
    BY <2>2, <2>11 DEF Types, Writing
  <2>8. ASSUME \A u \in Setter \ {s} : ~Writing(u, h)
        PROVE  Agrees(h, text[h])'
    <3>1. \A k \in Key : o[k] # Unset => setter[s].loaded[k] = o[k]
      <4>1. CASE setter[s].stale
        BY <2>5, <4>1 DEF Nothing
      <4>2. CASE ~setter[s].stale
        BY <2>0, <2>2, <2>5, <2>8, <4>2 DEF Keeping, Agrees
      <4> QED BY <4>1, <4>2
    <3>2. Typed(o) /\ Typed(setter[s].loaded)
      BY <2>0, <2>5, NothingIsTyped DEF IsRun, Types
    <3>3. owed'[h] = promise /\ text'[h] = t
      BY <2>11 DEF Types
    <3>4. ASSUME t \in Overlaid(own, h), promise = [o EXCEPT ![r.key] = r.value],
                 NEW k \in Key, promise[k] # Unset
          PROVE  t[k] = promise[k]
      <4>1. own[k] = promise[k]
        <5>1. CASE k = r.key
          BY <2>4, <3>2, <3>4, <5>1, RewrittenKeeps DEF Typed
        <5>2. CASE k # r.key
          <6>1. promise[k] = o[k]
            BY <3>2, <3>4, <5>2 DEF Typed
          <6>2. setter[s].loaded[k] = o[k] /\ o[k] # Unset
            BY <3>1, <3>4, <6>1
          <6> QED BY <2>4, <3>2, <5>2, <6>1, <6>2, RewrittenKeeps
        <5> QED BY <5>1, <5>2
      <4>2. Typed(own) /\ \A d \in Beneath(h) : Typed(d)
        BY <2>4, <3>2, RewrittenIsTyped, NothingIsTyped, TextsAssumption
           DEF Beneath, Types
      <4> QED BY <3>4, <4>1, <4>2, OverlaidKeeps
    <3>5. promise = Nothing => \A k \in Key : promise[k] = Unset
      BY DEF Nothing
    <3> QED BY <2>11, <3>3, <3>4, <3>5 DEF Agrees
  <2>9. ASSUME NEW f \in File
        PROVE  (\E u \in Setter : Writing(u, f)') \/ Agrees(f, text[f])'
    <3>1. CASE f = h
      BY <2>6, <2>8, <3>1
    <3>2. CASE f # h
      <4>1. (\E u \in Setter : Writing(u, f)) \/ Agrees(f, text[f])
        BY DEF Keeping
      <4>2. Agrees(f, text[f]) => Agrees(f, text[f])'
        BY <2>7, <3>2 DEF Agrees
      <4> QED BY <2>6, <2>7, <3>2, <4>1, <4>2
    <3> QED BY <3>1, <3>2
  <2>10. ASSUME NEW f \in File, NEW u \in Setter, setter'[u].file = f,
                setter'[u].at \in {"loaded", "writing"}, ~setter'[u].stale
         PROVE  Agrees(f, setter[u].loaded)' \/ \E w \in Setter \ {u} : Writing(w, f)'
    <3>1. u # s /\ f # h
      BY <2>2, <2>3, <2>10
    <3>2. /\ setter[u].file = f /\ setter[u].at \in {"loaded", "writing"}
          /\ ~setter[u].stale /\ setter'[u].loaded = setter[u].loaded
      BY <2>3, <2>10, <3>1
    <3>3. Agrees(f, setter[u].loaded) \/ \E w \in Setter \ {u} : Writing(w, f)
      BY <3>2 DEF Keeping
    <3>4. Agrees(f, setter[u].loaded) => Agrees(f, setter[u].loaded)'
      BY <2>7, <3>1, <3>2 DEF Agrees
    <3> QED BY <2>6, <2>7, <3>1, <3>3, <3>4
  <2> QED BY <2>9, <2>10 DEF Keeping
<1>5. ASSUME NEW s \in Setter, SetDies(s) PROVE Keeping'
  <2>1. PICK h : h = setter[s].file
    OBVIOUS
  <2>2. /\ setter'[s].at = "dead"
        /\ \A u \in Setter \ {s} : setter'[u] = setter[u]
        /\ UNCHANGED text
    BY <1>5 DEF SetDies, Types, files, IsRun
  <2>3. owed' = IF setter[s].at = "loaded" THEN owed ELSE [owed EXCEPT ![h] = Nothing]
    BY <1>5, <2>1 DEF SetDies
  <2>4. \A u \in Setter \ {s}, f \in File : Writing(u, f) => Writing(u, f)'
    BY <2>2 DEF Writing
  <2>5. \A f \in File : Writing(s, f) => \A t : Agrees(f, t)'
    BY <2>1, <2>3 DEF Writing, Agrees, Types, Nothing
  <2>6. \A f \in File : \A t : Agrees(f, t) => \A k \in Key : owed'[f][k] # Unset => t[k] = owed'[f][k]
    BY <2>3 DEF Agrees, Types, Nothing
  <2>7. ASSUME NEW f \in File
        PROVE  (\E u \in Setter : Writing(u, f)') \/ Agrees(f, text[f])'
    <3>1. (\E u \in Setter : Writing(u, f)) \/ Agrees(f, text[f])
      BY DEF Keeping
    <3>2. Agrees(f, text[f]) => Agrees(f, text[f])'
      BY <2>2, <2>6 DEF Agrees
    <3> QED BY <2>4, <2>5, <3>1, <3>2
  <2>8. ASSUME NEW f \in File, NEW u \in Setter, setter'[u].file = f,
               setter'[u].at \in {"loaded", "writing"}, ~setter'[u].stale
        PROVE  Agrees(f, setter[u].loaded)' \/ \E w \in Setter \ {u} : Writing(w, f)'
    <3>1. u # s /\ setter'[u] = setter[u]
      BY <2>2, <2>8
    <3>2. Agrees(f, setter[u].loaded) \/ \E w \in Setter \ {u} : Writing(w, f)
      BY <2>8, <3>1 DEF Keeping
    <3>3. Agrees(f, setter[u].loaded) => Agrees(f, setter[u].loaded)'
      BY <2>6, <3>1 DEF Agrees
    <3> QED BY <2>4, <2>5, <3>2, <3>3
  <2> QED BY <2>7, <2>8 DEF Keeping
<1>6. CASE Edit
  <2>1. PICK h \in File, t \in Drafts \cup {Nothing} :
            /\ text' = [text EXCEPT ![h] = t]
            /\ setter' = Outdated(h, Setter) \/ setter' = Adrift(h)
            /\ owed' = [owed EXCEPT ![h] = t]
    BY <1>6 DEF Edit, Change
  <2>2. \A u \in Setter :
           \/ /\ setter'[u].at = setter[u].at
              /\ setter'[u].file = setter[u].file
              /\ setter'[u].loaded = setter[u].loaded
              /\ ~setter'[u].stale => ~setter[u].stale /\ setter[u].file # h
           \/ setter[u].file = h /\ setter'[u].at = "adrift"
    BY <2>1, OutdatedRuns, AdriftRuns
  <2>3. \A u \in Setter, f \in File : f # h /\ Writing(u, f) => Writing(u, f)'
    BY <2>2 DEF Writing
  <2>4. /\ text'[h] = owed'[h]
        /\ \A f \in File \ {h} : text'[f] = text[f] /\ owed'[f] = owed[f]
    BY <2>1 DEF Types
  <2>5. ASSUME NEW f \in File
        PROVE  (\E u \in Setter : Writing(u, f)') \/ Agrees(f, text[f])'
    BY <2>3, <2>4 DEF Keeping, Agrees
  <2>6. ASSUME NEW f \in File, NEW u \in Setter, setter'[u].file = f,
               setter'[u].at \in {"loaded", "writing"}, ~setter'[u].stale
        PROVE  Agrees(f, setter[u].loaded)' \/ \E w \in Setter \ {u} : Writing(w, f)'
    <3>1. f # h /\ setter[u].file = f /\ ~setter[u].stale
      BY <2>2, <2>6
    <3>2. Agrees(f, setter[u].loaded) \/ \E w \in Setter \ {u} : Writing(w, f)
      BY <2>2, <2>6, <3>1 DEF Keeping
    <3> QED BY <2>2, <2>3, <2>4, <3>1, <3>2 DEF Agrees
  <2> QED BY <2>5, <2>6 DEF Keeping
<1>9. ASSUME NEW s \in Setter, SetWritesAside(s) PROVE Keeping'
  <2>1. setter[s].at = "adrift" /\ UNCHANGED <<text, owed>>
    BY <1>9 DEF SetWritesAside, files
  <2>2. /\ setter'[s].at = "done"
        /\ \A u \in Setter \ {s} : setter'[u] = setter[u]
    BY <1>9 DEF SetWritesAside, Types, IsRun
  <2>3. \A u \in Setter, f \in File : Writing(u, f) => u # s /\ Writing(u, f)'
    BY <2>1, <2>2 DEF Writing
  <2>4. ASSUME NEW f \in File, NEW u \in Setter, setter'[u].file = f,
               setter'[u].at \in {"loaded", "writing"}, ~setter'[u].stale
        PROVE  Agrees(f, setter[u].loaded)' \/ \E w \in Setter \ {u} : Writing(w, f)'
    <3>1. setter'[u] = setter[u]
      BY <2>2, <2>4
    <3>2. Agrees(f, setter[u].loaded) \/ \E w \in Setter \ {u} : Writing(w, f)
      BY <2>4, <3>1 DEF Keeping
    <3>3. Agrees(f, setter[u].loaded) => Agrees(f, setter[u].loaded)'
      BY <2>1, <3>1 DEF Agrees
    <3> QED BY <2>3, <3>2, <3>3
  <2>5. ASSUME NEW f \in File
        PROVE  (\E u \in Setter : Writing(u, f)') \/ Agrees(f, text[f])'
    BY <2>1, <2>3 DEF Keeping, Agrees
  <2> QED BY <2>4, <2>5 DEF Keeping
<1>7. Reads => UNCHANGED <<text, setter, owed>>
  BY DEF Reads, Start, Find, Load, Merge, files
<1>8. UNCHANGED vars => UNCHANGED <<text, setter, owed>>
  BY DEF vars, files
<1> QED
  BY <1>1, <1>2, <1>3, <1>4, <1>5, <1>6, <1>7, <1>8, <1>9 DEF Next, Sets

(***************************************************************************)
(* Whatever runs of `config set` a file goes through, a key it holds keeps *)
(* its value until it is set or edited, except when two of them overlap on *)
(* the file or one dies while it writes it.                                *)
(***************************************************************************)
THEOREM SetsKeepTheRestTheorem == Spec => []SetsKeepTheRest
<1>1. Init => Types /\ Keeping
  BY InitTypes, InitKeeping
<1>2. Types /\ Keeping /\ [Next]_vars => (Types /\ Keeping)'
  BY TypesStep, KeepingStep
<1>3. Keeping => SetsKeepTheRest
  BY DEF Keeping, SetsKeepTheRest, Writing, Agrees
<1> QED
  BY <1>1, <1>2, <1>3, PTL DEF Spec
=============================================================================
