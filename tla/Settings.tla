------------------------------ MODULE Settings ------------------------------
(***************************************************************************)
(* Where a command's settings come from (config.py).  Files layered from   *)
(* the system's to the project's, the environment and the command's flags  *)
(* each set some keys; resolve_config folds them from the lowest to the    *)
(* highest.  Meanwhile `config set` rewrites a whole file after reading it,*)
(* under no lock and in place: it truncates the file and then writes it    *)
(* from its start, so that a reader may find the file empty, one that is   *)
(* killed leaves it empty, and of two that overlap the shorter text may lie*)
(* over the longer.  People edit the files too.                            *)
(*                                                                         *)
(* The keys are those the code treats apart: the three that depend on each *)
(* other, one whose blank value stands for its default, one the            *)
(* environment can set, and the two of the [agents.codex] table.           *)
(***************************************************************************)
EXTENDS Naturals, FiniteSets

CONSTANTS
    Files,       \* how many configuration files there are, the highest last
    Setter,      \* runs of `config set`
    Drafts,      \* what people write into the files
    Requests,    \* the [file, key, value] that `config set` is given
    Outputs,     \* what AGENT_FORK_OUTPUT may be, Unset included
    FlagSets,    \* what the command line may set
    MaxFaults,   \* how often files are edited by hand and sets are killed
    Unset,       \* the value of a key a source does not set
    Refused      \* a command that ends with a configuration error

File  == 1 .. Files
Env   == Files + 1
Flags == Files + 2
Source == 1 .. Flags

Key == {"with_state", "with_ignored", "with_submodules", "branch_prefix",
        "output", "codex_extra_args", "codex_session_name_resolution"}

Default == [with_state |-> TRUE, with_ignored |-> FALSE, with_submodules |-> TRUE,
            branch_prefix |-> "fork/", output |-> "text",
            codex_extra_args |-> "[]", codex_session_name_resolution |-> TRUE]

Nothing == [k \in Key |-> Unset]

(* A source's two keys that depend on each other are checked for type. *)
Typed(t) ==
    /\ DOMAIN t = Key
    /\ {t["with_state"], t["with_ignored"]} \subseteq BOOLEAN \cup {Unset}

ASSUME FilesAssumption == Files \in Nat \ {0}
ASSUME UnsetAssumption == Unset \notin BOOLEAN /\ Unset # " "
ASSUME TextsAssumption ==
    \A d \in Drafts \cup FlagSets : Typed(d)
ASSUME RequestsAssumption ==
    \A r \in Requests :
        /\ r.file \in File /\ r.key \in Key /\ r.value # Unset
        /\ r.key \in {"with_state", "with_ignored"} => r.value \in BOOLEAN

VARIABLES
    is,        \* file -> "absent", "bad" (load_config refuses it) or "good"
    text,      \* file -> the keys it sets, none when it is not good
    at,        \* where the reading command is
    named,     \* the one file it was given, 0 when it looks for them
    found,     \* the files it has found and not loaded yet
    sources,   \* source -> the keys it sets, as loaded
    next,      \* the next file it looks for, or the next source it merges
    merged,    \* the settings as merged so far
    outcome,   \* what it resolves to: settings, or Refused
    setter,    \* Setter -> the state of its run
    calm,      \* history: no file has changed since the command started
    owed,      \* history: file -> what it should still hold
    faults

reader == <<at, named, found, sources, next, merged, outcome>>
files == <<is, text>>
vars == <<files, reader, setter, calm, owed, faults>>
-----------------------------------------------------------------------------
(***************************************************************************)
(* load_config: a table [agents.codex] without extra_args counts as one    *)
(* with none.                                                              *)
(***************************************************************************)
Loaded(t) ==
    [t EXCEPT !["codex_extra_args"] =
        IF @ = Unset /\ t["codex_session_name_resolution"] # Unset THEN "[]" ELSE @]

(***************************************************************************)
(* Mutant of Overlay: keeping the state behind also turns submodules off   *)
(* for the sources above, as an earlier version did.                       *)
(***************************************************************************)
Zeroing(m, s) ==
    [k \in Key |->
       CASE k = "with_state" /\ s["with_ignored"] = TRUE -> TRUE
         [] k = "with_ignored" /\ s[k] = Unset -> m[k] /\ s["with_state"] # FALSE
         [] k = "with_submodules" /\ s[k] = Unset -> m[k] /\ s["with_state"] # FALSE
         [] k = "branch_prefix" /\ s[k] = " " -> Default[k]
         [] OTHER -> IF s[k] = Unset THEN m[k] ELSE s[k]]

(***************************************************************************)
(* One turn of resolve_config's loop: source s over the settings m.        *)
(***************************************************************************)
Overlay(m, s) ==
    LET Ordinary(k) == IF s[k] = Unset THEN m[k] ELSE s[k]
    IN  [k \in Key |->
           CASE k = "with_state" -> s["with_ignored"] = TRUE \/ Ordinary(k)
             [] k = "with_ignored" ->
                  IF s[k] = Unset THEN m[k] /\ s["with_state"] # FALSE ELSE s[k]
             [] k = "branch_prefix" /\ s[k] = " " -> Default[k]
             [] OTHER -> Ordinary(k)]

(* What the loop leaves: submodules travel with the state only. *)
Settled(m) == [m EXCEPT !["with_submodules"] = @ /\ m["with_state"]]

(* validate_values, on the merged values. *)
Lawful(m) == m["branch_prefix"] # "~" /\ m["output"] # "xml"

Resolved(m) == IF Lawful(m) THEN Settled(m) ELSE Refused

(***************************************************************************)
(* Mutant of Rewritten: the table [agents.codex] is written from its       *)
(* extra_args alone.                                                       *)
(***************************************************************************)
ArgsOnly(t, k, v) ==
    [t EXCEPT ![k] = v,
              !["codex_session_name_resolution"] =
                 IF k = "codex_session_name_resolution" THEN v ELSE Unset]

(***************************************************************************)
(* The file `config set` writes over the one it has loaded.                *)
(***************************************************************************)
Rewritten(t, k, v) == Loaded([t EXCEPT ![k] = v])
-----------------------------------------------------------------------------
Idle == [at |-> "start", file |-> 0, key |-> "output", value |-> Unset,
         loaded |-> Nothing, stale |-> FALSE]

Init ==
    /\ is \in [File -> {"absent", "bad", "good"}]
    /\ text \in [File -> Drafts \cup {Nothing}]
    /\ \A f \in File : is[f] = "good" <=> text[f] # Nothing
    /\ at = "start" /\ found = {} /\ next = 0 /\ named = 0
    /\ sources = [i \in Source |-> Nothing]
    /\ merged = Default /\ outcome = Refused
    /\ setter = [s \in Setter |-> Idle]
    /\ calm = TRUE /\ faults = 0
    /\ owed = text

(* File f changes. *)
Change(f, what, t) ==
    /\ is' = [is EXCEPT ![f] = what]
    /\ text' = [text EXCEPT ![f] = t]
    /\ calm' = FALSE

(* The runs in S that have loaded f are out of date. *)
Outdated(f, S) ==
    [s \in Setter |-> IF s \in S /\ setter[s].file = f
                        THEN [setter[s] EXCEPT !.stale = TRUE] ELSE setter[s]]
-----------------------------------------------------------------------------
(***************************************************************************)
(* The command that resolves its settings (resolve_discovered_config).  A  *)
(* file named with --config or AGENT_FORK_CONFIG is the only one; else each*)
(* layer is looked for in turn, the project's in a work tree only.         *)
(***************************************************************************)
Start ==
    /\ at = "start"
    /\ \E e \in Outputs, fl \in FlagSets :
         sources' = [sources EXCEPT ![Env] = [Nothing EXCEPT !["output"] = e],
                                    ![Flags] = fl]
    /\ calm' = TRUE
    /\ \/ \E f \in File : at' = "load" /\ named' = f /\ found' = {f} /\ next' = 1
       \/ at' = "find" /\ named' = 0 /\ found' = {} /\ next' = 1
    /\ UNCHANGED <<files, merged, outcome, setter, owed, faults>>

Find ==
    /\ at = "find"
    /\ found' = IF is[next] = "absent" THEN found ELSE found \cup {next}
    /\ next' = IF next = Files THEN 1 ELSE next + 1
    /\ at' = IF next < Files THEN "find" ELSE IF found' = {} THEN "merge" ELSE "load"
    /\ UNCHANGED <<files, named, sources, merged, outcome, setter, calm, owed, faults>>

(* The next file found is read: gone or refused, the command ends. *)
Load ==
    /\ at = "load"
    /\ next' = 1
    /\ \E f \in found :
         /\ \A g \in found : f <= g
         /\ found' = found \ {f}
         /\ \/ /\ is[f] # "good"
               /\ at' = "done" /\ UNCHANGED sources
            \/ /\ is[f] = "good"
               /\ sources' = [sources EXCEPT ![f] = Loaded(text[f])]
               /\ at' = IF found' = {} THEN "merge" ELSE at
    /\ UNCHANGED <<files, named, merged, outcome, setter, calm, owed, faults>>

(* One turn of the loop, and what follows the last one. *)
Merge ==
    /\ at = "merge"
    /\ merged' = Overlay(merged, sources[next])
    /\ next' = next + 1
    /\ \/ next < Flags /\ UNCHANGED <<at, outcome>>
       \/ next = Flags /\ at' = "done" /\ outcome' = Resolved(merged')
    /\ UNCHANGED <<files, named, found, sources, setter, calm, owed, faults>>
-----------------------------------------------------------------------------
(***************************************************************************)
(* `config set key value` (set_user_value): the file is loaded, truncated  *)
(* and written.                                                            *)
(***************************************************************************)
SetLoads(s) ==
    /\ setter[s].at = "start"
    /\ \E r \in Requests :
         setter' = [setter EXCEPT ![s] =
             [at |-> IF is[r.file] = "bad" THEN "refused" ELSE "loaded",
              file |-> r.file, key |-> r.key, value |-> r.value,
              loaded |-> Loaded(text[r.file]),
              stale |-> FALSE]]
    /\ UNCHANGED <<files, reader, calm, owed, faults>>

SetTruncates(s) ==
    LET f == setter[s].file IN
    /\ setter[s].at = "loaded"
    /\ Change(f, "good", Nothing)
    /\ setter' = [Outdated(f, Setter \ {s}) EXCEPT ![s].at = "writing"]
    /\ UNCHANGED <<reader, owed, faults>>

(***************************************************************************)
(* The text is written at the start of the file.  Found as it was left,    *)
(* empty, the file then holds that text.  If another has written into it   *)
(* meanwhile, the tail of a longer text stays below: its lines may still   *)
(* set keys this text does not set, any draft's if the file was refused, or*)
(* they make the file one that load_config refuses.                        *)
(***************************************************************************)
Emptied(f) == is[f] = "good" /\ text[f] = Nothing

Beneath(f) == IF is[f] = "good" THEN {text[f]} ELSE Drafts \cup {Nothing}

Overlaid(own, f) ==
    {[k \in Key |-> IF k \in tail THEN below[k] ELSE own[k]] :
        tail \in SUBSET {k \in Key : own[k] = Unset}, below \in Beneath(f)}

SetWrites(s) ==
    LET f == setter[s].file
        k == setter[s].key
        v == setter[s].value
    IN  /\ setter[s].at = "writing"
        /\ \/ /\ \E t \in Overlaid(Rewritten(setter[s].loaded, k, v), f) :
                    Change(f, "good", t)
              /\ owed' = [owed EXCEPT ![f] =
                            [(IF setter[s].stale THEN Nothing ELSE @) EXCEPT ![k] = v]]
           \/ /\ ~Emptied(f) /\ Change(f, "bad", Nothing)
              /\ owed' = [owed EXCEPT ![f] = Nothing]
        /\ setter' = [Outdated(f, Setter \ {s}) EXCEPT ![s].at = "done"]
        /\ UNCHANGED <<reader, faults>>

(* What it writes into a file that has been replaced is lost. *)
SetWritesAside(s) ==
    /\ setter[s].at = "adrift"
    /\ setter' = [setter EXCEPT ![s].at = "done"]
    /\ UNCHANGED <<files, reader, calm, owed, faults>>

(* Killed, or out of disk: a file it had truncated stays as it is. *)
SetDies(s) ==
    /\ setter[s].at \in {"loaded", "writing"} /\ faults < MaxFaults
    /\ faults' = faults + 1
    /\ setter' = [setter EXCEPT ![s].at = "dead"]
    /\ owed' = IF setter[s].at = "loaded" THEN owed
                 ELSE [owed EXCEPT ![setter[s].file] = Nothing]
    /\ UNCHANGED <<files, reader, calm>>

(***************************************************************************)
(* A person saves, spoils or removes a file.  An editor writes into the    *)
(* file or puts another in its place, and a run that has it open is then   *)
(* left with one that nobody reads.                                        *)
(***************************************************************************)
Adrift(f) ==
    [s \in Setter |-> IF setter[s].file = f /\ setter[s].at = "writing"
                        THEN [setter[s] EXCEPT !.at = "adrift"]
                        ELSE Outdated(f, Setter)[s]]

Edit ==
    /\ faults < MaxFaults /\ faults' = faults + 1
    /\ \E f \in File, t \in Drafts \cup {Nothing} :
         /\ \/ t # Nothing /\ Change(f, "good", t)
            \/ t = Nothing /\ \E what \in {"absent", "bad"} : Change(f, what, t)
         /\ \/ is'[f] # "absent" /\ setter' = Outdated(f, Setter)
            \/ setter' = Adrift(f)
         /\ owed' = [owed EXCEPT ![f] = t]
    /\ UNCHANGED reader

Reads == Start \/ Find \/ Load \/ Merge
Sets(s) == SetLoads(s) \/ SetTruncates(s) \/ SetWrites(s) \/ SetWritesAside(s)
           \/ SetDies(s)

Next == Reads \/ (\E s \in Setter : Sets(s)) \/ Edit

Spec == Init /\ [][Next]_vars
-----------------------------------------------------------------------------
(***************************************************************************)
(* What the layers mean, said without the loop: the highest source that    *)
(* decides a key gives its value.  A source decides whether state travels  *)
(* by saying so or by asking for ignored files, which cannot travel without*)
(* it, and decides whether ignored files do by saying so or by keeping the *)
(* state behind.                                                           *)
(***************************************************************************)
Decides(s, k) ==
    \/ s[k] # Unset
    \/ k = "with_state" /\ s["with_ignored"] = TRUE
    \/ k = "with_ignored" /\ s["with_state"] = FALSE

Says(s, k) ==
    CASE k = "with_state" -> s["with_ignored"] = TRUE \/ s[k] = TRUE
      [] k = "with_ignored" -> s[k] = TRUE
      [] k = "branch_prefix" /\ s[k] = " " -> Default[k]
      [] OTHER -> s[k]

Deciding(S, n, k) == {i \in 1 .. n : Decides(S[i], k)}

Declared(S, n) ==
    [k \in Key |->
        IF Deciding(S, n, k) = {} THEN Default[k]
        ELSE Says(S[CHOOSE i \in Deciding(S, n, k) :
                      \A j \in Deciding(S, n, k) : j <= i], k)]

(* The files the command looks at, and the sources as they now are. *)
Given == IF named = 0 THEN File ELSE {named}

OnDisk ==
    [i \in Source |-> IF i \notin File THEN sources[i]
                      ELSE IF i \in Given THEN Loaded(text[i]) ELSE Nothing]

Unreadable ==
    \E f \in Given : is[f] = "bad" \/ (named # 0 /\ is[f] = "absent")

(***************************************************************************)
(* A command that resolves its settings while no file changes has what the *)
(* highest deciding source of each key says, and is refused exactly when a *)
(* file it looks at cannot be read or what they say is not lawful: layers  *)
(* it does not find change nothing, and neither does the order in which a  *)
(* source's keys are looked at.                                            *)
(***************************************************************************)
SettingsAreLayered ==
    at = "done" /\ calm =>
        outcome = IF Unreadable THEN Refused ELSE Resolved(Declared(OnDisk, Flags))

(***************************************************************************)
(* A run of `config set` that overlaps no other change of its file changes *)
(* no setting but its own and, when its own is one of them, those that     *)
(* depend on it: whichever the other layers are, a command that looks for  *)
(* its files would resolve every other key as before.  The code says       *)
(* otherwise: with session_name_resolution it writes extra_args = [], which*)
(* hides the arguments a lower layer gives.                                *)
(***************************************************************************)
Layers(t) == [f \in File |-> Loaded(t[f])]

Related == {"with_state", "with_ignored", "with_submodules"}

SetsSpareOtherSettings ==
    [][\A s \in Setter :
          SetWrites(s) /\ ~setter[s].stale
            => LET before == Declared([Layers(text) EXCEPT
                                          ![setter[s].file] = setter[s].loaded], Files)
                   after  == Declared(Layers(text'), Files)
               IN  \A k \in Key \ ({setter[s].key}
                               \cup IF setter[s].key \in Related THEN Related ELSE {}) :
                       after[k] = before[k]]_vars

(***************************************************************************)
(* What a file holds survives runs of `config set` for other keys: a key   *)
(* set by hand or by an earlier run keeps its value unless it is edited    *)
(* again, two runs overlap on the file, or one dies while it writes it.  Of*)
(* runs that overlap, the last to write leaves the key it was given, unless*)
(* what lies below its text makes the file one that load_config refuses.   *)
(***************************************************************************)
SetsKeepTheRest ==
    \A f \in File :
        \/ \E s \in Setter : setter[s].at = "writing" /\ setter[s].file = f
        \/ \A k \in Key : owed[f][k] # Unset => text[f][k] = owed[f][k]
=============================================================================
