----------------------------- MODULE MCLspClient -----------------------------
(* Small instances of LspClient for TLC.                                   *)
EXTENDS LspClient

CONSTANTS r1, r2, n1
=============================================================================
