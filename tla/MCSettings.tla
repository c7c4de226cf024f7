---------------------------- MODULE MCSettings ----------------------------
(***************************************************************************)
(* Two files and two runs of `config set`, over the drafts in which the    *)
(* keys that depend on each other meet.                                    *)
(***************************************************************************)
EXTENDS Settings, TLC

CONSTANTS s1, s2

Sets2(k, v, l, w) == [Nothing EXCEPT ![k] = v, ![l] = w]

People == {[Sets2("with_ignored", TRUE, "codex_extra_args", "[--full-auto]")
              EXCEPT !["with_submodules"] = FALSE],
           Sets2("with_state", FALSE, "output", "json")}

Wanted == {[file |-> 2, key |-> "branch_prefix", value |-> " "],
           [file |-> 2, key |-> "codex_session_name_resolution", value |-> TRUE]}

Environments == {Unset, "xml"}

CommandLines == {Nothing, Sets2("with_ignored", TRUE, "output", "json")}

Interchangeable == Permutations(Setter)
=============================================================================
