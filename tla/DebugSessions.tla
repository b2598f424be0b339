--------------------------- MODULE DebugSessions ---------------------------
(***************************************************************************)
(* Debug sessions: adapter processes with their threads on one side, the   *)
(* debugger store of the window on the other.                              *)
(*                                                                         *)
(* An adapter has a reader thread, which turns its output into events, and *)
(* an exit watcher, which holds the lock of the child while it waits for   *)
(* it.  The events of all threads reach the window in one order.  The      *)
(* answer of a command (invoke) travels apart from them, so it may come    *)
(* before or after the events it caused.  The store has one active         *)
(* session, and one table of pending requests keyed by sequence number.    *)
(***************************************************************************)
EXTENDS Naturals, Sequences

CONSTANTS
  Sessions,     \* the adapter sessions; each is started at most once
  Terminal,     \* a session that runs in a terminal and has no adapter
  None,         \* null
  UserCmds,     \* the requests the user makes, a subset of Cmds
  OnStop,       \* what a stopped event makes the window ask for: "stackTrace"
                \* if it names its thread, "threads" if it does not
  Handshake,    \* how many requests startDebugLaunchSession sends
  MaxRequests,  \* bound: the requests of a session
  MaxEvents,    \* bound: the events the adapters send of their own accord
  MaxQueue,     \* bound: the events under way beyond which an adapter waits
  MaxFaults,    \* bound: the exits of adapters that nobody stopped, the read
                \* errors of the readers and the requests refused
  MaxActions    \* bound: the commands the user gives once a session started

(* The requests whose answer the store waits for, and continue (or a step) *)
(* and pause, whose answer it does not.                                    *)
Asking == {"threads", "stackTrace", "scopes", "variables", "evaluate"}
Cmds == Asking \cup {"continue", "pause"}
Panels == {"stopped", "threads", "frames", "scopes", "variables", "watch"}
Seqs == 1 .. MaxRequests

ASSUME ConstantsAssumption ==
  /\ Terminal \notin Sessions /\ None \notin Sessions /\ None # Terminal
  /\ UserCmds \subseteq Cmds /\ OnStop \subseteq {"stackTrace", "threads"}
  /\ Handshake \in Nat /\ MaxRequests \in Nat /\ MaxEvents \in Nat
  /\ MaxQueue \in Nat /\ MaxFaults \in Nat /\ MaxActions \in Nat

VARIABLES
  launch,    \* how far startDebugging is: "no", "spawned", "inserted",
             \* "handshake", "shown" (startSession was called) or "failed"
  todo,      \* the requests of the handshake that are left to send
  adapter,   \* the process: "none", "running" or "exited"
  table,     \* DebugManager.sessions: its keys
  counter,   \* request_counter
  reader,    \* the reader thread: "none", "on" or "done"
  watcher,   \* the exit watcher: "none", "starting", "waiting" (it holds
             \* the lock of the child), "reaped" or "done"
  stopper,   \* stop_session: "no", "asked", "locking" or "done"
  wire,      \* the requests the adapter has yet to answer
  events,    \* the events on their way to the window, in order
  asked,     \* the window's debug_send_request commands yet to run
  returned,  \* of these, the ones that ran and whose answer is under way
  active,    \* activeSession: its id and status
  pending,   \* pendingRequests
  shown,     \* the session whose data each panel shows
  budget,    \* how much of each bound is spent
  wanted,    \* ghost: the sessions the user stopped
  crossed,   \* ghost: another session's message or answer was handled
             \* since the active session began
  overtaken, \* ghost: the pending requests answered before they were
             \* registered
  exposed    \* ghost: the sessions that met a race of ActiveIsAlive

backend == <<adapter, table, counter, reader, watcher>>
starts  == <<launch, todo>>
calls   == <<asked, returned>>
store   == <<active, pending, shown>>
ghosts  == <<crossed, overtaken, exposed>>
vars == <<starts, backend, stopper, wire, events, calls, store, budget,
          wanted, ghosts>>

NoSession == [id |-> None, status |-> "idle"]
NoContext == [of |-> None, cmd |-> "none"]
Unasked == [c \in Cmds |-> 0]
Request == [of : Sessions, seq : Seqs, cmd : Cmds \cup {"handshake"}]
Event == [of : Sessions, type : {"stopped", "continued", "terminated",
            "ended", "response", "refused"},
          seq : Seqs \cup {0}, cmd : Cmds \cup {"handshake", "none"}]

Notice(s, t) == [of |-> s, type |-> t, seq |-> 0, cmd |-> "none"]
Emit(e) == events' = Append(events, e)
Queued(s, types) ==
  {events[i] : i \in {j \in DOMAIN events : events[j].of = s /\ events[j].type \in types}}
Answered(s, q) == \E e \in Queued(s, {"response", "refused"}) : e.seq = q

(* All that will ever be said of the end of the session has been said.     *)
Quiet(s) ==
  /\ s \in Sessions
  /\ reader[s] = "done" /\ watcher[s] = "done" /\ stopper[s] # "locking"
  /\ Queued(s, {"ended"}) = {}

IsActive == active.status \in {"running", "paused"}
Crossed(s) == crossed' = (crossed \/ s # active.id)

-----------------------------------------------------------------------------
(* The debugger store.                                                     *)

(* setSessionStatus: whatever session is active.                           *)
SetStatus(st) == active' = IF active.id = None THEN active
                           ELSE [active EXCEPT !.status = st]
ExposeActive == exposed' = IF Quiet(active.id) THEN exposed \cup {active.id}
                           ELSE exposed

Show(p, s) == shown' = [shown EXCEPT ![p] = s]

(* Mutant of StartSession: keeps the pending requests.                     *)
StartKeepsPending(id) ==
  /\ active' = [id |-> id, status |-> "running"]
  /\ shown' = [p \in Panels |-> None]
  /\ crossed' = FALSE /\ overtaken' = {}
  /\ exposed' = IF Quiet(id) THEN exposed \cup {id} ELSE exposed
  /\ UNCHANGED pending

(* Mutant of StartSession: keeps what the panels show.                     *)
StartKeepsShown(id) ==
  /\ active' = [id |-> id, status |-> "running"]
  /\ pending' = [q \in Seqs |-> NoContext]
  /\ crossed' = FALSE /\ overtaken' = {}
  /\ exposed' = IF Quiet(id) THEN exposed \cup {id} ELSE exposed
  /\ UNCHANGED shown

StartSession(id) ==
  /\ active' = [id |-> id, status |-> "running"]
  /\ shown' = [p \in Panels |-> None]
  /\ pending' = [q \in Seqs |-> NoContext]
  /\ crossed' = FALSE /\ overtaken' = {}
  /\ exposed' = IF Quiet(id) THEN exposed \cup {id} ELSE exposed

StopSession == SetStatus("idle")

(* Mutant of RecordSessionEnded: overlooks a session that is paused.       *)
RecordEndedRunning(s) ==
  /\ active' = IF active.id = s /\ active.status = "running"
               THEN [active EXCEPT !.status = "idle"] ELSE active
  /\ shown' = [shown EXCEPT !["stopped"] = None, !["watch"] = None]
  /\ UNCHANGED pending

(* recordSessionEnded clears the stopped state and the watch results of    *)
(* whatever session is active, the status only of the one that ended.      *)
RecordSessionEnded(s) ==
  /\ active' = IF active.id = s THEN [active EXCEPT !.status = "idle"] ELSE active
  /\ shown' = [shown EXCEPT !["stopped"] = None, !["watch"] = None]
  /\ UNCHANGED pending

Spend(what) == budget' = [budget EXCEPT ![what] = @ + 1]
UserActs == budget.actions < MaxActions /\ Spend("actions")
Faults == budget.faults < MaxFaults /\ Spend("faults")

Ask(s, c) == asked' = [asked EXCEPT ![s][c] = @ + 1]

-----------------------------------------------------------------------------
(* Starting.  startDebugging asks for a process and shakes hands; the      *)
(* store hears of the session when all of that has returned.               *)

(* start_session up to the table: the process and its threads but one.     *)
Spawn(s) ==
  /\ launch[s] = "no" /\ ~IsActive
  /\ launch' = [launch EXCEPT ![s] = "spawned"]
  /\ adapter' = [adapter EXCEPT ![s] = "running"]
  /\ reader' = [reader EXCEPT ![s] = "on"]
  /\ counter' = [counter EXCEPT ![s] = 1]
  /\ UNCHANGED <<todo, table, watcher, stopper, wire, events, calls, store,
                 budget, wanted, ghosts>>

Insert(s) ==
  /\ launch[s] = "spawned"
  /\ launch' = [launch EXCEPT ![s] = "inserted"]
  /\ table' = table \cup {s}
  /\ UNCHANGED <<todo, adapter, counter, reader, watcher, stopper, wire, events,
                 calls, store, budget, wanted, ghosts>>

(* spawn_exit_watcher, and start_session returns.                          *)
Watch(s) ==
  /\ launch[s] = "inserted"
  /\ launch' = [launch EXCEPT ![s] = "handshake"]
  /\ watcher' = [watcher EXCEPT ![s] = "starting"]
  /\ UNCHANGED <<todo, adapter, table, counter, reader, stopper, wire, events,
                 calls, store, budget, wanted, ghosts>>

(* send_request: the number is drawn and the message queued under one      *)
(* lock.                                                                   *)
Sent(s, c) ==
  /\ s \in table /\ counter[s] <= MaxRequests
  /\ wire' = wire \cup {[of |-> s, seq |-> counter[s], cmd |-> c]}
  /\ counter' = [counter EXCEPT ![s] = @ + 1]

(* One request of the handshake: sent, or refused because the adapter has  *)
(* left the table or closed its input.  A failed start stops nothing.      *)
HandshakeSends(s) ==
  /\ launch[s] = "handshake" /\ todo[s] > 0
  /\ Sent(s, "handshake")
  /\ todo' = [todo EXCEPT ![s] = @ - 1]
  /\ UNCHANGED <<launch, adapter, table, reader, watcher, stopper, events, calls,
                 store, budget, wanted, ghosts>>

HandshakeFails(s) ==
  /\ launch[s] = "handshake" /\ todo[s] > 0
  /\ s \notin table \/ adapter[s] = "exited"
  /\ launch' = [launch EXCEPT ![s] = "failed"]
  /\ UNCHANGED <<todo, backend, stopper, wire, events, calls, store, budget,
                 wanted, ghosts>>

SessionShown(s) ==
  /\ launch[s] = "handshake" /\ todo[s] = 0
  /\ launch' = [launch EXCEPT ![s] = "shown"]
  /\ StartSession(s)
  /\ UNCHANGED <<todo, backend, stopper, wire, events, calls, budget, wanted>>

(* startGeneratedDebugSession, and startDebugging without an adapter: the  *)
(* command does not look whether a session is active.                      *)
StartInTerminal ==
  /\ UserActs
  /\ StartSession(Terminal)
  /\ UNCHANGED <<starts, backend, stopper, wire, events, calls, wanted>>

-----------------------------------------------------------------------------
(* The adapter and its threads.                                            *)

(* The adapter writes and its reader emits, here in one step: what it had  *)
(* written before it exited lies in the pipe and may be emitted after the  *)
(* exit, also after the exit watcher has reported the end.  A request sent *)
(* after the exit may be answered in the model, in the code it never is.   *)
Speaks(s) == reader[s] = "on" /\ Len(events) < MaxQueue

(* A request is answered, with success or without.                         *)
AdapterAnswers(s) ==
  /\ Speaks(s)
  /\ \E r \in wire, t \in {"response", "refused"} :
       /\ r.of = s
       /\ IF t = "refused" THEN Faults ELSE UNCHANGED budget
       /\ wire' = wire \ {r}
       /\ Emit([of |-> s, type |-> t, seq |-> r.seq, cmd |-> r.cmd])
  /\ UNCHANGED <<starts, backend, stopper, calls, store, wanted, ghosts>>

AdapterNotifies(s) ==
  /\ Speaks(s) /\ budget.events < MaxEvents
  /\ \E t \in {"stopped", "continued", "terminated"} : Emit(Notice(s, t))
  /\ Spend("events")
  /\ UNCHANGED <<starts, backend, stopper, wire, calls, store, wanted, ghosts>>

AdapterExits(s) ==
  /\ adapter[s] = "running" /\ Faults
  /\ adapter' = [adapter EXCEPT ![s] = "exited"]
  /\ UNCHANGED <<starts, table, counter, reader, watcher, stopper, wire, events,
                 calls, store, wanted, ghosts>>

(* The reader thread ends: at the end of the output, or at a message it    *)
(* cannot read, with the adapter alive.                                    *)
ReaderEnds(s) ==
  /\ reader[s] = "on"
  /\ \/ adapter[s] = "exited" /\ UNCHANGED budget
     \/ adapter[s] = "running" /\ Faults
  /\ reader' = [reader EXCEPT ![s] = "done"]
  /\ Emit(Notice(s, "ended"))
  /\ UNCHANGED <<starts, adapter, table, counter, watcher, stopper, wire, calls,
                 store, wanted, ghosts>>

WatcherLocks(s) ==
  /\ watcher[s] = "starting"
  /\ watcher' = [watcher EXCEPT ![s] = "waiting"]
  /\ UNCHANGED <<starts, adapter, table, counter, reader, stopper, wire, events,
                 calls, store, budget, wanted, ghosts>>

(* Mutant of WatcherReaps: waits for a session that is still in the table. *)
WatcherReapsTabled(s) ==
  /\ watcher[s] = "waiting" /\ adapter[s] = "exited" /\ s \in table
  /\ watcher' = [watcher EXCEPT ![s] = "reaped"]
  /\ UNCHANGED <<starts, adapter, table, counter, reader, stopper, wire, events,
                 calls, store, budget, wanted, ghosts>>

WatcherReaps(s) ==
  /\ watcher[s] = "waiting" /\ adapter[s] = "exited"
  /\ watcher' = [watcher EXCEPT ![s] = "reaped"]
  /\ UNCHANGED <<starts, adapter, table, counter, reader, stopper, wire, events,
                 calls, store, budget, wanted, ghosts>>

(* Mutant of WatcherEnds: leaves the session in the table.                 *)
WatcherForgets(s) ==
  /\ watcher[s] = "reaped"
  /\ watcher' = [watcher EXCEPT ![s] = "done"]
  /\ Emit(Notice(s, "ended"))
  /\ UNCHANGED <<starts, adapter, table, counter, reader, stopper, wire, calls,
                 store, budget, wanted, ghosts>>

(* The exit watcher removes the session and tells the window.              *)
WatcherEnds(s) ==
  /\ watcher[s] = "reaped"
  /\ watcher' = [watcher EXCEPT ![s] = "done"]
  /\ table' = table \ {s}
  /\ Emit(Notice(s, "ended"))
  /\ UNCHANGED <<starts, adapter, counter, reader, stopper, wire, calls, store,
                 budget, wanted, ghosts>>

-----------------------------------------------------------------------------
(* Stopping.                                                               *)

(* stopDebugging, the Stop button: the store does not wait for the stop.   *)
StopDebugging ==
  /\ UserActs
  /\ IsActive
  /\ StopSession
  /\ IF active.id \in Sessions
     THEN /\ stopper' = [stopper EXCEPT ![active.id] = IF @ = "no" THEN "asked" ELSE @]
          /\ wanted' = wanted \cup {active.id}
     ELSE UNCHANGED <<stopper, wanted>>
  /\ UNCHANGED <<starts, backend, wire, events, calls, pending, shown, ghosts>>

(* stopDebugSession, the command: it closes a terminal, never an adapter.  *)
StopCommand ==
  /\ UserActs
  /\ StopSession
  /\ wanted' = wanted \cup ({active.id} \cap Sessions)
  /\ UNCHANGED <<starts, backend, stopper, wire, events, calls, pending, shown,
                 ghosts>>

(* clearAdapterTranscript ("Clear console") forgets the pending requests   *)
(* too.  It is offered while the active adapter has output to clear.       *)
ClearTranscript ==
  /\ UserActs
  /\ active.id \in Sessions
  /\ pending' = [q \in Seqs |-> NoContext]
  /\ UNCHANGED <<starts, backend, stopper, wire, events, calls, active, shown,
                 wanted, ghosts>>

(* stop_session takes the session from the table, or finds none.           *)
StopRemoves(s) ==
  /\ stopper[s] = "asked"
  /\ stopper' = [stopper EXCEPT ![s] = IF s \in table THEN "locking" ELSE "done"]
  /\ table' = table \ {s}
  /\ UNCHANGED <<starts, adapter, counter, reader, watcher, wire, events, calls,
                 store, budget, wanted, ghosts>>

(* It locks the child, which the exit watcher may hold, and kills it.      *)
StopKills(s) ==
  /\ stopper[s] = "locking" /\ watcher[s] # "waiting"
  /\ stopper' = [stopper EXCEPT ![s] = "done"]
  /\ adapter' = [adapter EXCEPT ![s] = "exited"]
  /\ Emit(Notice(s, "ended"))
  /\ UNCHANGED <<starts, table, counter, reader, watcher, wire, calls, store,
                 budget, wanted, ghosts>>

-----------------------------------------------------------------------------
(* Requests of the window.                                                 *)

CanAsk(c) ==
  \/ c \in {"continue", "evaluate"} /\ active.status = "paused"
  \/ c = "pause" /\ active.status = "running"
  \/ c = "scopes" /\ shown["frames"] # None
  \/ c = "variables" /\ shown["scopes"] # None

ThreadKnown == shown["stopped"] # None \/ shown["threads"] # None

(* The user continues or steps, pauses, evaluates a watch expression,      *)
(* selects a frame or expands a variable of the active session.            *)
UserAsks(c) ==
  LET s == active.id IN
  /\ UserActs
  /\ s \in Sessions /\ CanAsk(c)
  /\ c \in {"continue", "pause"} => ThreadKnown
  /\ Ask(s, c)
  /\ UNCHANGED <<starts, backend, stopper, wire, events, returned, store, wanted,
                 ghosts>>

(* debug_send_request runs: the request is on its way, its number returns. *)
InvokeRuns(s, c) ==
  /\ asked[s][c] > 0
  /\ Sent(s, c)
  /\ asked' = [asked EXCEPT ![s][c] = @ - 1]
  /\ returned' = returned \cup {[of |-> s, seq |-> counter[s], cmd |-> c]}
  /\ UNCHANGED <<starts, adapter, table, reader, watcher, stopper, events, store,
                 budget, wanted, ghosts>>

(* Or it fails: only the watch panel shows that.                           *)
InvokeFails(s, c) ==
  /\ asked[s][c] > 0
  /\ s \notin table \/ adapter[s] = "exited"
  /\ asked' = [asked EXCEPT ![s][c] = @ - 1]
  /\ IF c = "evaluate" THEN Show("watch", s) /\ Crossed(s)
     ELSE UNCHANGED <<shown, crossed>>
  /\ UNCHANGED <<starts, backend, stopper, wire, events, returned, active,
                 pending, budget, wanted, overtaken, exposed>>

(* Mutant of Registers: registers whatever was sent.                       *)
RegistersAny(r) ==
  /\ returned' = returned \ {r}
  /\ pending' = [pending EXCEPT ![r.seq] = [of |-> r.of, cmd |-> r.cmd]]
  /\ Crossed(r.of)
  /\ overtaken' = IF r \in wire \/ Answered(r.of, r.seq)
                  THEN overtaken \ {r.seq} ELSE overtaken \cup {r.seq}
  /\ UNCHANGED <<starts, backend, stopper, wire, events, asked, active, shown,
                 budget, wanted, exposed>>

(* registerAdapterRequest, after the await: the answer of the adapter may  *)
(* have been handled already, and another session may be the active one.   *)
Registers(r) ==
  /\ r.cmd \in Asking
  /\ returned' = returned \ {r}
  /\ pending' = [pending EXCEPT ![r.seq] = [of |-> r.of, cmd |-> r.cmd]]
  /\ Crossed(r.of)
  /\ overtaken' = IF r \in wire \/ Answered(r.of, r.seq)
                  THEN overtaken \ {r.seq} ELSE overtaken \cup {r.seq}
  /\ UNCHANGED <<starts, backend, stopper, wire, events, asked, active, shown,
                 budget, wanted, exposed>>

(* sendAdapterThreadRequest after its await: the status of the session     *)
(* that is active by then is set, unless the request was a pause.          *)
Resumes(r) ==
  /\ r.cmd \in {"continue", "pause"}
  /\ returned' = returned \ {r}
  /\ IF r.cmd = "continue" THEN SetStatus("running") /\ ExposeActive
     ELSE UNCHANGED <<active, exposed>>
  /\ UNCHANGED <<starts, backend, stopper, wire, events, asked, pending, shown,
                 budget, wanted, crossed, overtaken>>

-----------------------------------------------------------------------------
(* Events at the window, handled one at a time.                            *)
Arrives(types) == events # <<>> /\ Head(events).type \in types
Sender == Head(events).of
Handled == events' = Tail(events)

(* The stack trace, or the threads when the event names none, are asked    *)
(* for on behalf of the sender, whatever session is active.                *)
StoppedArrives ==
  /\ Arrives({"stopped"}) /\ Handled
  /\ SetStatus("paused") /\ ExposeActive
  /\ Show("stopped", Sender)
  /\ Crossed(Sender)
  /\ \E c \in OnStop : Ask(Sender, c)
  /\ UNCHANGED <<starts, backend, stopper, wire, returned, pending, budget,
                 wanted, overtaken>>

ContinuedArrives ==
  /\ Arrives({"continued"}) /\ Handled
  /\ SetStatus("running") /\ ExposeActive
  /\ Show("stopped", None)
  /\ UNCHANGED <<starts, backend, stopper, wire, calls, pending, budget, wanted,
                 crossed, overtaken>>

EndArrives ==
  /\ Arrives({"terminated", "ended"}) /\ Handled
  /\ RecordSessionEnded(Sender)
  /\ UNCHANGED <<starts, backend, stopper, wire, calls, budget, wanted, ghosts>>

Context == pending[Head(events).seq]

(* Mutant of Settle: only an answer with success ends the wait.            *)
SettleSuccess ==
  pending' = IF Head(events).type = "response"
             THEN [pending EXCEPT ![Head(events).seq] = NoContext] ELSE pending

(* clearAdapterRequest *)
Settle == pending' = [pending EXCEPT ![Head(events).seq] = NoContext]

RefusalArrives ==
  /\ Arrives({"refused"}) /\ Handled
  /\ Settle
  /\ IF Context.cmd = "evaluate" THEN Show("watch", Sender) /\ Crossed(Sender)
     ELSE UNCHANGED <<shown, crossed>>
  /\ UNCHANGED <<starts, backend, stopper, wire, calls, active, budget, wanted,
                 overtaken, exposed>>

(* What the answer to a request fills, and what is asked for next when it  *)
(* is not empty.  Each scope has its variables asked for; one is modelled. *)
PanelOf == [threads |-> "threads", stackTrace |-> "frames", scopes |-> "scopes",
            variables |-> "variables", evaluate |-> "watch"]
NextOf == [threads |-> "stackTrace", stackTrace |-> "scopes", scopes |-> "variables"]

(* handleDebugResponse: variables and watch results need the context of    *)
(* the request, which is looked up by the number alone.                    *)
ResponseArrives ==
  LET c == Head(events).cmd IN
  /\ Arrives({"response"}) /\ Handled
  /\ Settle
  /\ IF \/ c \in DOMAIN NextOf
        \/ c \in {"variables", "evaluate"} /\ Context.cmd = c
     THEN Show(PanelOf[c], Sender) /\ Crossed(Sender)
     ELSE UNCHANGED <<shown, crossed>>
  /\ \/ c \in DOMAIN NextOf /\ Ask(Sender, NextOf[c])
     \/ UNCHANGED asked
  /\ UNCHANGED <<starts, backend, stopper, wire, returned, active, budget, wanted,
                 overtaken, exposed>>

-----------------------------------------------------------------------------
Init ==
  /\ launch = [s \in Sessions |-> "no"]
  /\ todo = [s \in Sessions |-> Handshake]
  /\ adapter = [s \in Sessions |-> "none"]
  /\ table = {}
  /\ counter = [s \in Sessions |-> 1]
  /\ reader = [s \in Sessions |-> "none"]
  /\ watcher = [s \in Sessions |-> "none"]
  /\ stopper = [s \in Sessions |-> "no"]
  /\ wire = {} /\ events = <<>>
  /\ asked = [s \in Sessions |-> Unasked] /\ returned = {}
  /\ active = NoSession
  /\ pending = [q \in Seqs |-> NoContext]
  /\ shown = [p \in Panels |-> None]
  /\ budget = [events |-> 0, faults |-> 0, actions |-> 0]
  /\ wanted = {} /\ crossed = FALSE /\ overtaken = {} /\ exposed = {}

Starting(s) ==
  \/ Spawn(s) \/ Insert(s) \/ Watch(s)
  \/ HandshakeSends(s) \/ HandshakeFails(s) \/ SessionShown(s)

Adapter(s) ==
  \/ AdapterAnswers(s) \/ AdapterNotifies(s) \/ AdapterExits(s)
  \/ ReaderEnds(s)
  \/ WatcherLocks(s) \/ WatcherReaps(s) \/ WatcherEnds(s)
  \/ StopRemoves(s) \/ StopKills(s)

Arrival ==
  \/ StoppedArrives \/ ContinuedArrives \/ EndArrives
  \/ RefusalArrives \/ ResponseArrives

Next ==
  \/ \E s \in Sessions : Starting(s) \/ Adapter(s)
  \/ StartInTerminal \/ StopDebugging \/ StopCommand \/ ClearTranscript
  \/ \E c \in UserCmds : UserAsks(c)
  \/ \E s \in Sessions, c \in Cmds : InvokeRuns(s, c) \/ InvokeFails(s, c)
  \/ \E r \in returned : Registers(r) \/ Resumes(r)
  \/ Arrival

Spec == Init /\ [][Next]_vars

(* Threads run, commands return and events are delivered.  Nothing is      *)
(* assumed of the user or of the adapter.                                  *)
Fairness ==
  /\ \A s \in Sessions :
       /\ WF_vars(Insert(s)) /\ WF_vars(Watch(s))
       /\ WF_vars(reader[s] = "on" /\ adapter[s] = "exited" /\ ReaderEnds(s))
       /\ WF_vars(WatcherLocks(s)) /\ WF_vars(WatcherReaps(s)) /\ WF_vars(WatcherEnds(s))
       /\ WF_vars(StopRemoves(s)) /\ WF_vars(StopKills(s))
  /\ WF_vars(Arrival)

FairSpec == Spec /\ Fairness

-----------------------------------------------------------------------------
(* Every variable has its type.                                            *)
TypeOK ==
  /\ launch \in [Sessions -> {"no", "spawned", "inserted", "handshake", "shown", "failed"}]
  /\ todo \in [Sessions -> 0 .. Handshake]
  /\ adapter \in [Sessions -> {"none", "running", "exited"}]
  /\ table \in SUBSET Sessions
  /\ counter \in [Sessions -> 1 .. MaxRequests + 1]
  /\ reader \in [Sessions -> {"none", "on", "done"}]
  /\ watcher \in [Sessions -> {"none", "starting", "waiting", "reaped", "done"}]
  /\ stopper \in [Sessions -> {"no", "asked", "locking", "done"}]
  /\ wire \in SUBSET Request
  /\ events \in Seq(Event)
  /\ asked \in [Sessions -> [Cmds -> Nat]]
  /\ returned \in SUBSET [of : Sessions, seq : Seqs, cmd : Cmds]
  /\ active \in [id : Sessions \cup {Terminal, None}, status : {"idle", "running", "paused"}]
  /\ pending \in [Seqs -> {NoContext} \cup [of : Sessions, cmd : Asking]]
  /\ shown \in [Panels -> Sessions \cup {None}]
  /\ budget \in [{"events", "faults", "actions"} -> Nat]
  /\ wanted \in SUBSET Sessions /\ crossed \in BOOLEAN
  /\ overtaken \in SUBSET Seqs /\ exposed \in SUBSET Sessions

(* DebugManager's table and its threads agree, although they take its lock *)
(* one by one: no adapter runs outside the table unless it is being        *)
(* started or stopped, and none that was reaped and reported is in it, to  *)
(* be sent requests for ever.                                              *)
TableTracksAdapters ==
  \A s \in Sessions :
    /\ adapter[s] = "running" /\ s \notin table
         => launch[s] = "spawned" \/ stopper[s] \in {"locking", "done"}
    /\ watcher[s] = "done" => s \notin table /\ adapter[s] = "exited"

(* An answer that finds a pending request under its number finds the one   *)
(* it answers, although the numbers start at 1 in every session: true as   *)
(* long as nothing of another session has been handled since the active    *)
(* one began.                                                              *)
AnswersFindRequests ==
  \A i \in DOMAIN events :
    LET e == events[i] IN
    /\ e.type \in {"response", "refused"} /\ e.of = active.id /\ ~crossed
    /\ pending[e.seq] # NoContext
    => pending[e.seq] = [of |-> e.of, cmd |-> e.cmd]

(* What the panels show is of the active session, under the same proviso.  *)
ShownOfActive ==
  ~crossed => \A p \in Panels : shown[p] \in {active.id, None}

(* A request the store waits for ("Evaluating...", "Loading variable") is  *)
(* still to be answered, as long as the adapter is heard: unless its       *)
(* answer overtook the return of the command that sent it.                 *)
PendingIsAwaited ==
  \A q \in Seqs \ overtaken :
    LET p == pending[q] IN
    p # NoContext /\ reader[p.of] = "on"
      => [of |-> p.of, seq |-> q, cmd |-> p.cmd] \in wire \/ Answered(p.of, q)

(* A session whose adapter ended, and whose end has been told, is not      *)
(* shown as running or paused, unless it met one of these races:           *)
(*   - it ended before startDebugging was done with it (SessionShown);     *)
(*   - the answer to a continue or step came after the end (Resumes);      *)
(*   - another session stopped or continued (StoppedArrives,               *)
(*     ContinuedArrives).                                                  *)
ActiveIsAlive ==
  IsActive /\ Quiet(active.id) => active.id \in exposed

(* A stop that waits for the child, or is about to, does not hang once the *)
(* adapter is gone, and the adapter leaves the table.                      *)
StopReturns ==
  \A s \in Sessions :
    (stopper[s] # "no" /\ adapter[s] = "exited")
      ~> (stopper[s] = "done" /\ s \notin table)

(* The window hears of the end of an adapter by itself.                    *)
EndReachesWindow ==
  \A s \in Sessions :
    (active.id = s /\ adapter[s] = "exited")
      ~> (active.id # s \/ ~IsActive \/ s \in exposed)

(* "Stop Debugging": an adapter that the user stopped ends.                *)
StopEndsAdapter ==
  \A s \in Sessions : (s \in wanted) ~> (adapter[s] = "exited")

=============================================================================
