--------------------------- MODULE MCFileHandler ---------------------------
(* Two names of which one may be announced with two sizes, two sessions.    *)
EXTENDS FileHandler, TLC

Symmetry == Permutations(Names) \cup Permutations(Sessions)
=============================================================================
