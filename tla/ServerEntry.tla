---------------------------- MODULE ServerEntry -----------------------------
(***************************************************************************)
(* One entry of the table of language servers, as its files rely on it:    *)
(* whether a server is there, its reference count and the files it tracks. *)
(* A start counts a file on the server that is there, or enters a new one  *)
(* in place of whatever is there; a stop takes one count and one file, and *)
(* the server with the last count; anything else that happens to the entry *)
(* is that the whole server leaves it.                                     *)
(***************************************************************************)
EXTENDS Naturals

CONSTANTS Files   \* the files whose editors ask for a server

VARIABLE entry

Absent == [up |-> FALSE, refs |-> 0, files |-> {}]
Serving(n, fs) == [up |-> TRUE, refs |-> n, files |-> fs]

(* A file's start finds a server.                                          *)
Track(f) ==
  /\ entry.up
  /\ entry' = Serving(entry.refs + 1, entry.files \cup {f})

(* The server of a file's start, or of a workspace's, enters the table.    *)
Enter(f) == entry' = Serving(1, {f})
EnterIdle == entry' = Serving(0, {})

(* A tracked file is stopped.                                              *)
Release(f) ==
  /\ entry.up /\ f \in entry.files
  /\ entry' = IF entry.refs = 1 THEN Absent
              ELSE Serving(entry.refs - 1, entry.files \ {f})

(* The server exits, is shut down or found dead.                           *)
Leave == entry.up /\ entry' = Absent

Init == entry = Absent

Next ==
  \/ \E f \in Files : Track(f) \/ Enter(f) \/ Release(f)
  \/ EnterIdle
  \/ Leave

Spec == Init /\ [][Next]_entry
=============================================================================
