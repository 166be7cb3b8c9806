---------------------------- MODULE MCPatchParser ----------------------------
(* Values for model checking PatchParser.                                    *)
EXTENDS PatchParser, TLC

\* Paths are only compared with one another.
Symmetry == Permutations(Paths)
=============================================================================
