--------------------------- MODULE MCRegistryFile ---------------------------
(***************************************************************************)
(* A small registry for TLC: one name in one repository, forked at two     *)
(* paths, at one of them twice in succession, and one version-1 row.       *)
(***************************************************************************)
EXTENDS RegistryFile, TLC

CONSTANTS n, r, p1, p2, b, i1, i2, i3

Row(repo, path, inst) ==
    [name |-> n, repo |-> repo, path |-> path, branch |-> b, inst |-> inst]

MCEntry == {Row(r, p1, i1), Row(r, p1, i2), Row(r, p2, i3), Row(NoRepo, p1, i1)}

=============================================================================
