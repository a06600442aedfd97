----------------------------- MODULE MCCodebook -----------------------------
(* Values for model-checking Codebook.                                     *)
EXTENDS Codebook

Alike == Permutations(Dirs) \union Permutations(Editors)

=============================================================================
