---------------------------- MODULE MCLspServers ----------------------------
(* Small instances of LspServers for TLC.                                  *)
EXTENDS LspServers, TLC

CONSTANTS f1, f2, f3, k1, k2, w1

(* Two servers in one workspace: f1 and f2 share the first, f3 can ask for *)
(* both, as the server configured for it changes.                          *)
MCWorkspaceOf == [k \in Keys |-> w1]
MCKeysOf == [f \in Files |-> IF f = f3 THEN Keys ELSE {k1}]
=============================================================================
