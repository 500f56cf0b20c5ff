---------------------------- MODULE MCWorkspace ----------------------------
EXTENDS Workspace, TLC

MCSymmetry == Permutations(Conns) \union Permutations(Roots) \union Permutations(Paths)
=============================================================================
