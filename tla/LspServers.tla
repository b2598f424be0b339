----------------------------- MODULE LspServers -----------------------------
(***************************************************************************)
(* The language servers of the window: one process per workspace and       *)
(* server, shared by the files that need it and counted by reference.      *)
(*                                                                         *)
(* The commands run on a thread pool.  The table of servers is behind a    *)
(* mutex, but starting a server releases it: the table is looked up, then  *)
(* the process is spawned and the initialize request awaited, and only     *)
(* then is the table written.                                              *)
(***************************************************************************)
EXTENDS Naturals, FiniteSets

CONSTANTS
  Files,        \* the files whose editors ask for a server
  Keys,         \* the pairs of a workspace and a server name
  Workspaces,   \* the workspaces
  WorkspaceOf,  \* the workspace of a key
  KeysOf,       \* the keys a file can ask for, as its project root changes
  None,         \* null
  MaxProcs,     \* bound: how many processes are ever spawned
  MaxRef        \* bound: the reference count up to which starts are explored

Procs == 1 .. MaxProcs

ASSUME ConstantsAssumption ==
  /\ IsFiniteSet(Files)
  /\ WorkspaceOf \in [Keys -> Workspaces]
  /\ KeysOf \in [Files -> SUBSET Keys]
  /\ MaxProcs \in Nat /\ MaxRef \in Nat
  /\ None \notin Files

VARIABLES
  clients,   \* WorkspaceClients: the instance of each key, or None
  starting,  \* the start calls that await the answer to initialize
  checked,   \* of these, the ones that are answered and found no other server
  alive,     \* the server processes that run
  running,   \* of these, the ones whose client has is_running set
  orphaned,  \* ghost: running processes whose handle the code dropped
  nextProc   \* the next process

vars == <<clients, starting, checked, alive, running, orphaned, nextProc>>

Instance == [proc : Procs, ref : Nat, files : SUBSET Files]
Start == [proc : Procs, key : Keys, file : Files \cup {None}]

ASSUME NoneAssumption == None \notin Instance

Held(c) == {k \in Keys : c[k] # None}
ProcsIn(c) == {c[k].proc : k \in Held(c)}
Awaited(ss) == {s.proc : s \in ss}

-----------------------------------------------------------------------------
(* prune_dead_instances: forget the servers that exited or stopped         *)
(* answering.  The latter are not killed.                                  *)
Pruned == [k \in Keys |-> IF clients[k] # None /\ clients[k].proc \notin running
                          THEN None ELSE clients[k]]
Orphan(ps) == orphaned' = orphaned \cup (ps \cap alive)
PruneOrphans == ProcsIn(clients) \ ProcsIn(Pruned)

Serving(p, n, fs) == [proc |-> p, ref |-> n, files |-> fs]

Track(c, k, f) ==
  [c EXCEPT ![k] = Serving(c[k].proc, c[k].ref + 1, c[k].files \cup {f})]

(* stop_file at the key that tracks the file; saturating_sub keeps the     *)
(* count from going below 0.                                               *)
Fewer(n) == IF n = 0 THEN 0 ELSE n - 1

(* Mutant of Released: leaves the file among the tracked ones.             *)
ReleasedButTracked(c, k, f) ==
  [c EXCEPT ![k] = IF Fewer(c[k].ref) = 0 THEN None
                   ELSE Serving(c[k].proc, Fewer(c[k].ref), c[k].files)]

(* Mutant of Released: stops the server one file too early.                *)
ReleasedEarly(c, k, f) ==
  [c EXCEPT ![k] = IF Fewer(c[k].ref) <= 1 THEN None
                   ELSE Serving(c[k].proc, Fewer(c[k].ref), c[k].files \ {f})]

Released(c, k, f) ==
  [c EXCEPT ![k] = IF Fewer(c[k].ref) = 0 THEN None
                   ELSE Serving(c[k].proc, Fewer(c[k].ref), c[k].files \ {f})]

Kill(ps) == alive' = alive \ ps /\ running' = running \ ps

Spawn(k, f) ==
  /\ nextProc \in Procs
  /\ nextProc' = nextProc + 1
  /\ alive' = alive \cup {nextProc}
  /\ running' = running \cup {nextProc}
  /\ starting' = starting \cup {[proc |-> nextProc, key |-> k, file |-> f]}

-----------------------------------------------------------------------------
(* start_lsp_for_file finds the server in the table and shares it.         *)
StartReuses(f, k) ==
  /\ k \in KeysOf[f]
  /\ Pruned[k] # None
  /\ Pruned[k].ref < MaxRef
  /\ clients' = Track(Pruned, k, f)
  /\ Orphan(PruneOrphans)
  /\ UNCHANGED <<starting, checked, alive, running, nextProc>>

(* It does not find one: spawn a process and send it initialize.           *)
StartSpawns(f, k) ==
  /\ k \in KeysOf[f]
  /\ Pruned[k] = None
  /\ Spawn(k, f)
  /\ clients' = Pruned
  /\ Orphan(PruneOrphans)
  /\ UNCHANGED checked

(* start_lsp_for_workspace spawns before it looks at the table.            *)
StartWorkspace(k) ==
  /\ Spawn(k, None)
  /\ UNCHANGED <<clients, checked, orphaned>>

(* The server of a start enters the table, whatever is there: a server     *)
(* that another start entered meanwhile is dropped, still running, with    *)
(* its files.                                                              *)
Enter(s, n, fs) ==
  /\ starting' = starting \ {s}
  /\ checked' = checked \ {s}
  /\ clients' = [clients EXCEPT ![s.key] = Serving(s.proc, n, fs)]
  /\ Orphan(IF clients[s.key] = None THEN {} ELSE {clients[s.key].proc})
  /\ UNCHANGED <<alive, running, nextProc>>

(* The initialize request of a file's start is answered.                   *)
FileServerReady(s) ==
  /\ s \in starting
  /\ s.file # None
  /\ Enter(s, 1, {s.file})

(* That of a workspace's start is: it looks for another server of its key, *)
(* gives way to it (then the new process is the one that is dropped) or    *)
(* releases the table and enters it in a step of its own.                  *)
WorkspaceServerRedundant(s) ==
  /\ s \in starting \ checked
  /\ s.file = None
  /\ Pruned[s.key] # None
  /\ starting' = starting \ {s}
  /\ clients' = Pruned
  /\ Orphan(PruneOrphans \cup {s.proc})
  /\ UNCHANGED <<checked, alive, running, nextProc>>

WorkspaceServerWanted(s) ==
  /\ s \in starting \ checked
  /\ s.file = None
  /\ Pruned[s.key] = None
  /\ checked' = checked \cup {s}
  /\ clients' = Pruned
  /\ Orphan(PruneOrphans)
  /\ UNCHANGED <<starting, alive, running, nextProc>>

WorkspaceServerReady(s) ==
  /\ s \in checked
  /\ Enter(s, 0, {})

(* Mutant of StartFails: the client is dropped, its answer still awaited,  *)
(* as a timeout that cancels nothing would do.                             *)
StartFailsAwaited(s) ==
  /\ s \in starting \ checked
  /\ Orphan({s.proc})
  /\ UNCHANGED <<clients, starting, checked, alive, running, nextProc>>

(* initialize is answered with an error, or the server's output ends: the  *)
(* process, if it still runs, is dropped.                                  *)
StartFails(s) ==
  /\ s \in starting \ checked
  /\ starting' = starting \ {s}
  /\ Orphan({s.proc})
  /\ UNCHANGED <<clients, checked, alive, running, nextProc>>

-----------------------------------------------------------------------------
(* stop_lsp_for_file.  A file tracked at two keys is released at the one   *)
(* the hash map yields first.                                              *)
StopTracked(f) ==
  \E k \in Held(Pruned) :
    /\ f \in Pruned[k].files
    /\ clients' = Released(Pruned, k, f)
    /\ Kill(IF clients'[k] = None THEN {Pruned[k].proc} ELSE {})
    /\ Orphan(PruneOrphans)
    /\ UNCHANGED <<starting, checked, nextProc>>

(* Every other command looks a client up for its file and prunes the table *)
(* on the way; so does a stop for a file that is not tracked.              *)
Lookup ==
  /\ clients' = Pruned
  /\ Orphan(PruneOrphans)
  /\ UNCHANGED <<starting, checked, alive, running, nextProc>>

(* Mutant of ShutdownWorkspace: forgets the servers instead of killing     *)
(* them.                                                                   *)
ForgetWorkspace(w) ==
  /\ clients' = [k \in Keys |-> IF WorkspaceOf[k] = w THEN None ELSE Pruned[k]]
  /\ Orphan(PruneOrphans)
  /\ UNCHANGED <<starting, checked, alive, running, nextProc>>

ShutdownWorkspace(w) ==
  LET here == {k \in Keys : WorkspaceOf[k] = w} IN
  /\ clients' = [k \in Keys |-> IF k \in here THEN None ELSE Pruned[k]]
  /\ Kill({Pruned[k].proc : k \in here \cap Held(Pruned)})
  /\ Orphan(PruneOrphans)
  /\ UNCHANGED <<starting, checked, nextProc>>

(* shutdown_all, when the application is asked to exit and when it exits.  *)
Shutdown ==
  /\ clients' = [k \in Keys |-> None]
  /\ Kill(ProcsIn(clients))
  /\ UNCHANGED <<starting, checked, orphaned, nextProc>>

-----------------------------------------------------------------------------
(* Mutant of Exits: the reader thread does not clear is_running.           *)
ExitsUnnoticed(p) ==
  /\ p \in alive
  /\ alive' = alive \ {p}
  /\ orphaned' = orphaned \ {p}
  /\ UNCHANGED <<clients, starting, checked, running, nextProc>>

(* A server exits by itself, or closes its output without exiting; the     *)
(* reader thread of the client then clears is_running.                     *)
Exits(p) ==
  /\ p \in alive
  /\ Kill({p})
  /\ orphaned' = orphaned \ {p}
  /\ UNCHANGED <<clients, starting, checked, nextProc>>

OutputEnds(p) ==
  /\ p \in running
  /\ running' = running \ {p}
  /\ UNCHANGED <<clients, starting, checked, alive, orphaned, nextProc>>

-----------------------------------------------------------------------------
Init ==
  /\ clients = [k \in Keys |-> None]
  /\ starting = {}
  /\ checked = {}
  /\ alive = {}
  /\ running = {}
  /\ orphaned = {}
  /\ nextProc = 1

Next ==
  \/ \E f \in Files, k \in Keys : StartReuses(f, k) \/ StartSpawns(f, k)
  \/ \E k \in Keys : StartWorkspace(k)
  \/ \E s \in starting :
       \/ FileServerReady(s)
       \/ WorkspaceServerRedundant(s)
       \/ WorkspaceServerWanted(s)
       \/ WorkspaceServerReady(s)
       \/ StartFails(s)
  \/ \E f \in Files : StopTracked(f)
  \/ Lookup
  \/ \E w \in Workspaces : ShutdownWorkspace(w)
  \/ Shutdown
  \/ \E p \in Procs : Exits(p) \/ OutputEnds(p)

Spec == Init /\ [][Next]_vars

-----------------------------------------------------------------------------
(* Every variable has its type; only spawned processes run.                *)
TypeOK ==
  /\ clients \in [Keys -> Instance \cup {None}]
  /\ starting \in SUBSET Start
  /\ checked \in SUBSET starting
  /\ alive \in SUBSET Procs
  /\ running \in SUBSET alive
  /\ orphaned \in SUBSET alive
  /\ nextProc \in 1 .. MaxProcs + 1

(* No process has two owners: it serves one key, or belongs to one start   *)
(* that is under way, or was dropped, so killing it for one owner takes it *)
(* from no other.  The next process has no owner yet.                      *)
OneOwner ==
  /\ \A j, k \in Held(clients) : clients[j].proc = clients[k].proc => j = k
  /\ \A s, t \in starting : s.proc = t.proc => s = t
  /\ ProcsIn(clients) \cap Awaited(starting) = {}
  /\ orphaned \cap (ProcsIn(clients) \cup Awaited(starting)) = {}
  /\ \A p \in ProcsIn(clients) \cup Awaited(starting) \cup alive : p < nextProc

(* The reference count of a server is never less than the number of files  *)
(* it tracks, although starts of one file count again and again, stops of  *)
(* a file it does not track must not count, and a start that completes     *)
(* replaces the whole instance: a server with tracked files keeps a count  *)
(* above zero.                                                             *)
CountCoversFiles ==
  \A k \in Held(clients) : Cardinality(clients[k].files) <= clients[k].ref

(* Every running process can still be stopped: it is in the table or its   *)
(* start is under way, unless its handle was dropped in one of these ways: *)
(*   - its output ended and a lookup pruned it (Pruned);                   *)
(*   - a start for the same key completed after it (Enter);               *)
(*   - its workspace had such a server already (WorkspaceServerRedundant);  *)
(*   - its initialize failed (StartFails).                                 *)
(* In particular stops and shutdowns kill all they take out of the table.  *)
NoOtherOrphans ==
  alive \subseteq ProcsIn(clients) \cup Awaited(starting) \cup orphaned

(* Closing a file takes a server away from no other file: a stop kills a   *)
(* process only when no file but the stopped one is tracked there.         *)
StopSparesOthers ==
  [][\A f \in Files : StopTracked(f) =>
       \A k \in Held(clients) :
         clients[k].proc \in alive \ alive' => clients[k].files \subseteq {f}]_vars

=============================================================================
