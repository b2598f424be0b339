-------------------------- MODULE MCDebugSessions --------------------------
(* Small instances of DebugSessions for TLC.                               *)
EXTENDS DebugSessions, TLC

CONSTANTS s1, s2

Symmetry == Permutations(Sessions)
=============================================================================
