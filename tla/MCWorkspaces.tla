---------------------------- MODULE MCWorkspaces ----------------------------
(* Small instances of Workspaces for TLC. *)
EXTENDS Workspaces

CONSTANTS w1, w2, w3, s1, s2, s3, here, there

ThreeWorkspaces == {w1, w2, w3}
TwoWorkspaces == {w1, w2}
ThreeScopes == {s1, s2, s3}
TwoScopes == {s1, s2}
OneScope == {s1}

\* Which model values are interchangeable: identifiers are only compared.
IdSymmetry == Permutations(WorkspaceIds) \cup Permutations(ScopeIds)

NumberOf == [w \in {"0", "1", "2"} |->
               CASE w = "0" -> 0 [] w = "1" -> 1 [] w = "2" -> 2]

\* One variable the shell inherited, one it did not; a value of two words, the
\* first of them a path in the home directory, and the empty one.
Inherited == [k \in Keys |-> IF k = "TOOL" THEN "~/a b" ELSE Unset]
Words2 == [v \in Values |-> IF v = "" THEN <<>> ELSE <<"/home/u/a", "b">>]
First2 == [v \in Values |-> IF v = "" THEN "" ELSE "~/a"]

=============================================================================
