--------------------------- MODULE MCLspDocuments ---------------------------
(* Instance of LspDocuments for TLC.                                       *)
EXTENDS LspDocuments, TLC

Symmetry == Permutations(Files) \cup Permutations(Slots) \cup Permutations(Texts)
=============================================================================
