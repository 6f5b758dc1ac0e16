-------------------------- MODULE MCConfiguration --------------------------
(* Small instances of Configuration for TLC. *)
EXTENDS Configuration, TLC

CONSTANTS sh1, sh2, i1, i2, i3, home, work

OneShell == {sh1}
TwoShells == {sh1, sh2}
ThreeInodes == {i1, i2, i3}

\* Shells and files are only compared.
InodeSymmetry == Permutations(Inodes)
ShellSymmetry == Permutations(Shells) \cup Permutations(Inodes)

=============================================================================
