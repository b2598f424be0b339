---------------------------- MODULE LspDocuments ----------------------------
(***************************************************************************)
(* What a language server is told about the files of the editor: the       *)
(* editor component of a pane (the hook useLspIntegration) starts the      *)
(* server for a file, opens, changes and closes the document; the store of *)
(* the buffers stops the server for a file it closes; the client of the    *)
(* window can restart it.                                                  *)
(*                                                                         *)
(* One pane and the files of one language, all served by one server.  The  *)
(* component lives as long as the pane shows one of these files, and is    *)
(* the same for all of them; another kind of buffer, or none, unmounts it. *)
(* Starting a server is the only command that takes time: the others are   *)
(* synchronous and arrive in the order they were sent.                     *)
(***************************************************************************)
EXTENDS Naturals, FiniteSets

CONSTANTS
  Files, Texts,
  None,         \* no file shown, no text, no document
  Slots,        \* bound: the starts that may be in flight together
  MaxShows,     \* bound: how often the pane comes to show a file
  MaxVersion,   \* bound: the versions of a document
  MaxFaults     \* bound: failing starts, exits and restarts of the server

ASSUME ConstantsAssumption ==
  /\ None \notin Files \cup Texts
  /\ None \notin [ver : Nat, text : Texts \cup {None}]
  /\ IsFiniteSet(Files)
  /\ MaxShows \in Nat /\ MaxVersion \in Nat \ {0, 1} /\ MaxFaults \in Nat

VARIABLES
  open,         \* the files with a buffer
  shown,        \* the file in front, if any
  text,         \* the contents of the buffers, None without one
  opened, ver,  \* openedDocumentsRef and documentVersionsRef of the component
  timer,        \* documentChangeTimerRef is set, for the file shown
  start,        \* the starts in flight: initLsp and restartForFile
  tracked,      \* activeServerFiles of the window's client
  failed,       \* failedLanguageServers of the window's client
  srv,          \* the server in the table of the language server manager
  doc,          \* the documents the server has open
  shows, faults,  \* the bounds' counters
  missed,       \* ghost: files with an edit the server may not have
  leaked,       \* ghost: files closed in a way that may leave them behind
  doubled       \* ghost: a file was counted twice since the server started

editorVars == <<open, shown, text, opened, ver, timer, shows>>
serverVars == <<srv, doc>>
vars == <<editorVars, start, tracked, failed, serverVars, faults, missed,
          leaked, doubled>>

Idle == [pc |-> "idle"]
Down == [up |-> FALSE, refs |-> 0, files |-> {}]
NoVersions == [f \in Files |-> 0]
NoDocuments == [f \in Files |-> None]

(* A start of initLsp is live while its component is mounted, and takes    *)
(* the text from it when the server is there; a restart, and a start whose *)
(* component is gone, have the text of an earlier moment.                  *)
Start(f) == [pc |-> "start", file |-> f, live |-> TRUE,
             text |-> None, fresh |-> TRUE, repaired |-> FALSE]
Restarted(f, t) == [Start(f) EXCEPT !.live = FALSE, !.text = t,
                                    !.fresh = (t # None)]

InFlight(f) == \E s \in Slots : start[s] # Idle /\ start[s].file = f

-----------------------------------------------------------------------------
(* The server's side.                                                      *)

(* get_client_for_file: any tracked file with the same extension will do.  *)
Served(sv) == sv.files # {}

(* Mutants of Stopped: the file stays in the list; the server is killed    *)
(* one stop too late.                                                      *)
StoppedKeepsFile(sv, f) ==
  IF f \notin sv.files THEN sv
  ELSE IF sv.refs = 1 THEN Down
  ELSE [sv EXCEPT !.refs = @ - 1]

StoppedLate(sv, f) ==
  IF f \notin sv.files THEN sv
  ELSE IF sv.refs = 0 THEN Down
  ELSE [sv EXCEPT !.refs = @ - 1, !.files = @ \ {f}]

(* stop_file: counts and forgets a tracked file, and kills at zero.        *)
Stopped(sv, f) ==
  IF f \notin sv.files THEN sv
  ELSE IF sv.refs = 1 THEN Down
  ELSE [sv EXCEPT !.refs = @ - 1, !.files = @ \ {f}]

(* What becomes of the documents when a server makes way for another.      *)
Kept(sv, docs) == IF sv.up THEN docs ELSE NoDocuments
LostBy(sv) == IF srv.up /\ ~sv.up THEN Files ELSE {}

-----------------------------------------------------------------------------
(* The editor component.                                                   *)

(* The effects that run when the component comes to show g, given its refs *)
(* and the starts in flight: initLsp, unless the document counts as open;  *)
(* startForFile gives up at once after an earlier failure.                 *)
Shows(g, ops, vers, sts) ==
  /\ shows < MaxShows /\ shows' = shows + 1
  /\ shown' = g /\ timer' = FALSE
  /\ opened' = ops
  /\ IF g \in ops THEN ver' = vers /\ start' = sts
     ELSE /\ ver' = [vers EXCEPT ![g] = 1]
          /\ IF failed THEN start' = sts
             ELSE \E s \in Slots :
                    sts[s] = Idle /\ start' = [sts EXCEPT ![s] = Start(g)]

(* Mutant of Frozen: a start goes on with the refs of a component that is  *)
(* gone.                                                                   *)
FrozenNot(sts) == [s \in Slots |-> sts[s]]

(* The component unmounts: its refs are gone, and the starts it made keep  *)
(* the last text they could see.                                           *)
Frozen(sts) ==
  [s \in Slots |->
     IF sts[s] # Idle /\ sts[s].live
     THEN [sts[s] EXCEPT !.live = FALSE, !.text = text[shown],
                         !.fresh = (sts[s].file = shown)]
     ELSE sts[s]]

Unmounts ==
  /\ shown' = None /\ timer' = FALSE
  /\ opened' = {} /\ ver' = NoVersions
  /\ start' = Frozen(start)
  /\ UNCHANGED shows

(* The text of g changes: starts that hold an earlier one are out of date. *)
Outdated(sts, g) ==
  [s \in Slots |->
     IF sts[s] # Idle /\ sts[s].file = g /\ ~sts[s].live
     THEN [sts[s] EXCEPT !.fresh = FALSE] ELSE sts[s]]

(* Switching files clears the timer, whose text is then never sent.        *)
CutOff == IF timer THEN {shown} ELSE {}

(* Mutant of Select: the version begins anew for an open document too.     *)
SelectAnew(g) ==
  /\ g \in open \ {shown}
  /\ Shows(g, opened, [ver EXCEPT ![g] = 1], start)
  /\ missed' = missed \cup CutOff
  /\ UNCHANGED <<open, text, tracked, failed, serverVars, faults, leaked, doubled>>

(* A tab of an open file is selected.                                      *)
Select(g) ==
  /\ g \in open \ {shown}
  /\ Shows(g, opened, ver, start)
  /\ missed' = missed \cup CutOff
  /\ UNCHANGED <<open, text, tracked, failed, serverVars, faults, leaked, doubled>>

(* A file is opened and shown.  If the component still counts it as open,  *)
(* from before it was closed in the background, nothing is started; and a  *)
(* start made before it was closed may open it with its earlier text.      *)
Reopened(g) == IF g \in opened \/ InFlight(g) THEN {g} \ open ELSE {}

OpenFile(g, t) ==
  /\ g \notin open
  /\ open' = open \cup {g}
  /\ text' = [text EXCEPT ![g] = t]
  /\ Shows(g, opened, ver, Outdated(start, g))
  /\ missed' = missed \cup CutOff \cup Reopened(g)
  /\ UNCHANGED <<tracked, failed, serverVars, faults, leaked, doubled>>

(* A buffer of another kind comes to the front.                            *)
Hide ==
  /\ shown # None
  /\ Unmounts
  /\ missed' = missed \cup CutOff
  /\ UNCHANGED <<open, text, tracked, failed, serverVars, faults, leaked, doubled>>

(* The buffer of f goes away.  Closing it has the store stop the server    *)
(* for f; a replaced preview or an evicted buffer has nothing from the     *)
(* store.  If f is shown, cleanupDocument closes the document and stops    *)
(* the server for f once more, provided the document counts as open; the   *)
(* store's stop may come first.                                            *)
Released(f, viaStore, storeFirst) ==
  LET viaHook == shown = f /\ f \in opened
      closing == IF storeFirst THEN Stopped(srv, f) ELSE srv
      docs    == IF viaHook /\ Served(closing) THEN [doc EXCEPT ![f] = None] ELSE doc
  IN
  /\ srv' = IF viaHook \/ viaStore THEN Stopped(srv, f) ELSE srv
  /\ doc' = Kept(srv', docs)
  /\ IF (viaHook \/ viaStore) /\ f \in tracked
     THEN tracked' = tracked \ {f} /\ failed' = FALSE
     ELSE UNCHANGED <<tracked, failed>>
  /\ leaked' = IF viaHook /\ Served(closing) /\ ~InFlight(f)
               THEN leaked \ {f} ELSE leaked \cup {f}

(* What the pane shows next: another open file, a buffer of another kind,  *)
(* or the file for which a preview or an evicted buffer made way.          *)
Remove(f, viaStore, storeFirst) ==
  /\ f \in open
  /\ storeFirst => viaStore /\ shown = f
  /\ Released(f, viaStore, storeFirst)
  /\ doubled' = (doubled /\ srv'.up)
  /\ UNCHANGED faults
  /\ \/ /\ shown # f
        /\ open' = open \ {f}
        /\ missed' = missed \cup LostBy(srv')
        /\ text' = [text EXCEPT ![f] = None]
        /\ UNCHANGED <<shown, opened, ver, timer, shows, start>>
     \/ /\ shown = f /\ Unmounts
        /\ open' = open \ {f}
        /\ missed' = missed \cup LostBy(srv')
        /\ text' = [text EXCEPT ![f] = None]
     \/ \E g \in (open \ {f}) \cup (IF viaStore THEN {} ELSE Files \ {f}) :
          /\ shown = f
          /\ Shows(g, opened \ {f}, [ver EXCEPT ![f] = 0],
                   IF g \in open THEN start ELSE Outdated(start, g))
          /\ open' = (open \ {f}) \cup {g}
          /\ missed' = missed \cup LostBy(srv') \cup Reopened(g)
          /\ \E t \in IF g \in open THEN {text[g]} ELSE Texts :
               text' = [text EXCEPT ![f] = None, ![g] = t]

(* Mutant of Type: the timer is cleared and not set again.                 *)
TypeClears(t) ==
  /\ shown # None /\ t # text[shown]
  /\ ver[shown] < MaxVersion
  /\ text' = [text EXCEPT ![shown] = t]
  /\ timer' = (shown \in opened /\ ~timer)
  /\ start' = Outdated(start, shown)
  /\ UNCHANGED <<open, shown, shows, opened, ver, tracked, failed, serverVars,
                 faults, missed, leaked, doubled>>

(* The user types, or the buffer is reloaded: the change is sent later, if *)
(* the document counts as open.                                            *)
Type(t) ==
  /\ shown # None /\ t # text[shown]
  /\ ver[shown] < MaxVersion
  /\ text' = [text EXCEPT ![shown] = t]
  /\ timer' = (shown \in opened)
  /\ start' = Outdated(start, shown)
  /\ missed' = IF \E s \in Slots : /\ start[s] # Idle /\ start[s].pc = "opening"
                                   /\ start[s].file = shown /\ shown \notin opened
               THEN missed \cup {shown} ELSE missed
  /\ UNCHANGED <<open, shown, shows, opened, ver, tracked, failed, serverVars,
                 faults, leaked, doubled>>

(* The timer goes off: a new version, sent if a server is found; a server  *)
(* that does not have the document open makes nothing of it.               *)
TimerFires ==
  /\ timer /\ timer' = FALSE
  /\ LET v == (IF ver[shown] = 0 THEN 1 ELSE ver[shown]) + 1
     IN
     /\ ver' = [ver EXCEPT ![shown] = v]
     /\ \/ /\ Served(srv) /\ doc[shown] # None
           /\ doc' = [doc EXCEPT ![shown] = [ver |-> v, text |-> text[shown]]]
           /\ missed' = missed \ {shown}
        \/ /\ Served(srv) /\ doc[shown] = None
           /\ UNCHANGED <<doc, missed>>
        \/ /\ ~Served(srv)
           /\ missed' = missed \cup {shown}
           /\ UNCHANGED doc
  /\ UNCHANGED <<open, shown, shows, text, opened, start, tracked, failed, srv, faults,
                 leaked, doubled>>

-----------------------------------------------------------------------------
(* Starting the server.                                                    *)

(* track_file: the server that is there is used, and counted once more.    *)
Lookup(s) ==
  /\ start[s].pc = "start"
  /\ LET f == start[s].file IN
     IF srv.up
     THEN /\ srv' = [srv EXCEPT !.refs = @ + 1, !.files = @ \cup {f}]
          /\ doubled' = (doubled \/ f \in srv.files)
          /\ start' = [start EXCEPT ![s].pc = "started"]
     ELSE /\ start' = [start EXCEPT ![s].pc = "spawn"]
          /\ UNCHANGED <<srv, doubled>>
  /\ UNCHANGED <<editorVars, tracked, failed, doc, faults, missed, leaked>>

(* The server is initialized and inserted, in place of any that was there. *)
Spawned(s) ==
  /\ start[s].pc = "spawn"
  /\ srv' = [up |-> TRUE, refs |-> 1, files |-> {start[s].file}]
  /\ doc' = NoDocuments
  /\ missed' = IF srv.up THEN Files ELSE missed
  /\ doubled' = FALSE
  /\ start' = [start EXCEPT ![s].pc = "started"]
  /\ UNCHANGED <<editorVars, tracked, failed, faults, leaked>>

(* The start fails, for good or until the tool is repaired, once.          *)
SpawnFails(s) ==
  /\ start[s].pc = "spawn"
  /\ faults < MaxFaults /\ faults' = faults + 1
  /\ failed' = TRUE
  /\ \/ start' = [start EXCEPT ![s] = Idle]
     \/ ~start[s].repaired /\ start' = [start EXCEPT ![s].pc = "repair"]
  /\ UNCHANGED <<editorVars, tracked, serverVars, missed, leaked, doubled>>

Repair(s) ==
  /\ start[s].pc = "repair"
  /\ \/ /\ start' = [start EXCEPT ![s] = Idle]
        /\ UNCHANGED failed
     \/ /\ start' = [start EXCEPT ![s].pc = "start", ![s].repaired = TRUE]
        /\ failed' = FALSE
  /\ UNCHANGED <<editorVars, tracked, serverVars, faults, missed, leaked, doubled>>

(* startForFile returns: the file is tracked, and the document opened with *)
(* the text the component shows by then, be it another file's.             *)
OpenSent(s) ==
  /\ start[s].pc = "started"
  /\ LET f    == start[s].file
         sent == IF start[s].live THEN text[shown] ELSE start[s].text
         own  == IF start[s].live THEN shown = f ELSE start[s].fresh
     IN
     /\ tracked' = tracked \cup {f}
     /\ IF Served(srv)
        THEN /\ doc' = [doc EXCEPT ![f] = [ver |-> 1, text |-> sent]]
             /\ missed' = IF own THEN missed \ {f} ELSE missed \cup {f}
        ELSE missed' = missed \cup {f} /\ UNCHANGED doc
  /\ failed' = FALSE
  /\ start' = [start EXCEPT ![s].pc = "opening"]
  /\ UNCHANGED <<editorVars, srv, faults, leaked, doubled>>

(* The document counts as open, in the component that asked for it.        *)
OpenReturns(s) ==
  /\ start[s].pc = "opening"
  /\ opened' = IF start[s].live THEN opened \cup {start[s].file} ELSE opened
  /\ start' = [start EXCEPT ![s] = Idle]
  /\ UNCHANGED <<open, shown, shows, text, ver, timer, tracked, failed, serverVars,
                 faults, missed, leaked, doubled>>

(* The user restarts the servers: of each server, one tracked file is      *)
(* closed, stopped and started again, with the text of its buffer.         *)
Restart(f, s) ==
  /\ f \in tracked /\ start[s] = Idle
  /\ faults < MaxFaults /\ faults' = faults + 1
  /\ srv' = Stopped(srv, f)
  /\ doc' = Kept(srv', IF Served(srv) THEN [doc EXCEPT ![f] = None] ELSE doc)
  /\ tracked' = tracked \ {f} /\ failed' = FALSE
  /\ start' = [start EXCEPT ![s] = Restarted(f, text[f])]
  /\ missed' = missed \cup {f} \cup LostBy(srv')
  /\ doubled' = (doubled /\ srv'.up)
  /\ UNCHANGED <<editorVars, leaked>>

(* The server exits; the next look-up prunes it.                           *)
ServerExits ==
  /\ srv.up
  /\ faults < MaxFaults /\ faults' = faults + 1
  /\ srv' = Down /\ doc' = NoDocuments
  /\ missed' = Files
  /\ doubled' = FALSE
  /\ UNCHANGED <<editorVars, start, tracked, failed, leaked>>

-----------------------------------------------------------------------------
Init ==
  /\ open = {} /\ shown = None
  /\ text = [f \in Files |-> None]
  /\ opened = {} /\ ver = NoVersions
  /\ timer = FALSE
  /\ start = [s \in Slots |-> Idle]
  /\ tracked = {} /\ failed = FALSE
  /\ srv = Down /\ doc = NoDocuments
  /\ shows = 0 /\ faults = 0
  /\ missed = {} /\ leaked = {} /\ doubled = FALSE

EditorStep ==
  \/ \E g \in Files : Select(g)
  \/ \E g \in Files, t \in Texts : OpenFile(g, t)
  \/ Hide
  \/ \E f \in Files, viaStore, storeFirst \in BOOLEAN :
       Remove(f, viaStore, storeFirst)
  \/ \E t \in Texts : Type(t)
  \/ TimerFires

StartStep(s) ==
  Lookup(s) \/ Spawned(s) \/ SpawnFails(s) \/ Repair(s) \/ OpenSent(s) \/ OpenReturns(s)

Next ==
  \/ EditorStep
  \/ \E s \in Slots : start[s] # Idle /\ StartStep(s)
  \/ \E f \in Files, s \in Slots : Restart(f, s)
  \/ ServerExits

Spec == Init /\ [][Next]_vars

-----------------------------------------------------------------------------
(* Every variable has its type.                                            *)
TypeOK ==
  /\ open \subseteq Files /\ shown \in open \cup {None}
  /\ \A f \in Files : IF f \in open THEN text[f] \in Texts ELSE text[f] = None
  /\ opened \subseteq Files
  /\ ver \in [Files -> 0..MaxVersion]
  /\ timer \in BOOLEAN
  /\ \A s \in Slots : start[s] # Idle =>
       /\ start[s].pc \in {"start", "spawn", "repair", "started", "opening"}
       /\ start[s].file \in Files
       /\ start[s].text \in Texts \cup {None}
       /\ start[s].live \in BOOLEAN
       /\ start[s].live => shown # None
  /\ tracked \subseteq Files /\ failed \in BOOLEAN
  /\ srv.up \in BOOLEAN /\ srv.refs \in Nat /\ srv.files \subseteq Files
  /\ srv.up \/ srv = Down
  /\ \A f \in Files : doc[f] # None =>
       /\ doc[f].ver \in 1..MaxVersion
       /\ doc[f].text \in Texts \cup {None}
  /\ shows \in 0..MaxShows /\ faults \in 0..MaxFaults
  /\ missed \subseteq Files /\ leaked \subseteq Files /\ doubled \in BOOLEAN

(* The server sees what the user sees: of the file shown, once it counts   *)
(* as open and no change is waiting, it has the very text.  The ways to    *)
(* miss an edit, until the next change that is heard or the next open:     *)
(*   - switching away within the delay of the change timer;                *)
(*   - typing between the opening of a document and its return;            *)
(*   - another file in front when the server is ready (its text is sent    *)
(*     for this one), or a restart with a text that has changed since;     *)
(*   - a file closed in the background and opened again;                   *)
(*   - a server that went away with its documents.                         *)
ServerSeesShown ==
  (shown \in opened /\ ~timer /\ shown \notin missed) =>
    doc[shown] # None /\ doc[shown].text = text[shown]

(* A file that is closed, with no start of it in flight, is neither        *)
(* tracked nor a document of the server, unless it was closed while it was *)
(* not shown, before its document counted as open, with a start under way, *)
(* or when no server was found for it.                                     *)
ClosedIsReleased ==
  \A f \in Files \ (open \cup leaked) :
    ~InFlight(f) => f \notin srv.files /\ doc[f] = None

(* With every file closed and no start in flight the server is gone,       *)
(* unless a file was left behind or counted twice: stops by the hook and   *)
(* by the store for one close count once, whatever their order.            *)
NoIdleServer ==
  (open = {} /\ (\A s \in Slots : start[s] = Idle) /\ srv.up) =>
    doubled \/ srv.files \cap leaked # {}

(* Versions rise: the code's comment says that servers "need monotonically *)
(* increasing versions".  A change the server hears has a higher version   *)
(* than what it had, whatever opened the document and whenever the         *)
(* component's own count began anew, unless the file was left behind: a    *)
(* server that kept the document of a closed file, with no file of its own *)
(* left, is not found when the file is opened again, and the next change   *)
(* then counts from 1 (with MaxShows = 4, 2 follows 2).                    *)
VersionsRise ==
  [][TimerFires =>
       \A f \in Files \ leaked : doc'[f] # doc[f] => doc'[f].ver > doc[f].ver]_vars

=============================================================================
