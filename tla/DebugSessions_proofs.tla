------------------------ MODULE DebugSessions_proofs -----------------------
(***************************************************************************)
(* The invariants of DebugSessions, for any number of sessions, requests   *)
(* and events.                                                             *)
(***************************************************************************)
EXTENDS DebugSessions, TLAPS

-----------------------------------------------------------------------------
(* Types.  Emitting an event keeps the type of the queue; so does handling *)
(* one, and what is handled has the type of an event.                      *)
LEMMA NoticeType ==
  ASSUME NEW s \in Sessions, NEW t \in {"stopped", "continued", "terminated", "ended"}
  PROVE  Notice(s, t) \in Event
  BY DEF Notice, Event

LEMMA EmitType ==
  ASSUME TypeOK, NEW e \in Event, Emit(e)
  PROVE  events' \in Seq(Event)
  BY DEF Emit, TypeOK

LEMMA ArrivalType ==
  ASSUME TypeOK, NEW types, Arrives(types), Handled
  PROVE  /\ Head(events) \in Event /\ Sender \in Sessions
         /\ events' \in Seq(Event)
  <1>1. events \in Seq(Event) /\ events # <<>> /\ events' = Tail(events)
    BY DEF TypeOK, Arrives, Handled
  <1>2. Head(events) \in Event
    BY <1>1
  <1>3. Tail(events) \in Seq(Event)
    BY <1>1
  <1> QED BY <1>1, <1>2, <1>3 DEF Sender, Event

Bounds == {"events", "faults", "actions"}

LEMMA SpendType ==
  ASSUME TypeOK, NEW w \in Bounds, Spend(w)
  PROVE  budget' \in [Bounds -> Nat]
  BY DEF TypeOK, Spend, Bounds

LEMMA AskType ==
  ASSUME TypeOK, NEW s \in Sessions, NEW c \in Cmds, Ask(s, c)
  PROVE  asked' \in [Sessions -> [Cmds -> Nat]]
  BY DEF TypeOK, Ask

Actives == [id : Sessions \cup {Terminal, None}, status : {"idle", "running", "paused"}]

LEMMA StatusType ==
  ASSUME TypeOK, NEW st \in {"idle", "running", "paused"}, SetStatus(st)
  PROVE  active' \in Actives /\ active'.id = active.id
  BY DEF TypeOK, SetStatus, Actives

LEMMA ExposeType ==
  ASSUME TypeOK, ExposeActive
  PROVE  exposed' \in SUBSET Sessions
  BY DEF TypeOK, ExposeActive, Quiet

LEMMA ShowType ==
  ASSUME TypeOK, NEW p \in Panels, NEW s \in Sessions \cup {None}, Show(p, s)
  PROVE  shown' \in [Panels -> Sessions \cup {None}]
  BY DEF TypeOK, Show

LEMMA SentType ==
  ASSUME TypeOK, NEW s \in Sessions, NEW c \in Cmds \cup {"handshake"}, Sent(s, c)
  PROVE  /\ wire' \in SUBSET Request
         /\ counter' \in [Sessions -> 1 .. MaxRequests + 1]
         /\ counter[s] \in Seqs
  <1>1. counter[s] \in Seqs
    BY ConstantsAssumption DEF TypeOK, Sent, Seqs
  <1>2. [of |-> s, seq |-> counter[s], cmd |-> c] \in Request
    BY <1>1 DEF Request
  <1>3. counter[s] + 1 \in 1 .. MaxRequests + 1
    BY <1>1, ConstantsAssumption DEF Seqs
  <1> QED BY <1>1, <1>2, <1>3 DEF TypeOK, Sent

Contexts == {NoContext} \cup [of : Sessions, cmd : Asking]

LEMMA StartType ==
  ASSUME TypeOK, NEW id \in Sessions \cup {Terminal}, StartSession(id)
  PROVE  /\ active' \in Actives /\ shown' \in [Panels -> Sessions \cup {None}]
         /\ pending' \in [Seqs -> Contexts] /\ crossed' \in BOOLEAN
         /\ overtaken' \in SUBSET Seqs /\ exposed' \in SUBSET Sessions
  BY DEF TypeOK, StartSession, Actives, Contexts, Quiet

LEMMA EndedType ==
  ASSUME TypeOK, NEW s \in Sessions, RecordSessionEnded(s)
  PROVE  /\ active' \in Actives /\ active'.id = active.id
         /\ shown' \in [Panels -> Sessions \cup {None}]
         /\ pending' = pending
  BY DEF TypeOK, RecordSessionEnded, Actives, Panels

LEMMA SettleType ==
  ASSUME TypeOK, Settle
  PROVE  pending' \in [Seqs -> Contexts]
  BY DEF TypeOK, Settle, Contexts

LEMMA CommandTypes ==
  /\ UserCmds \subseteq Cmds /\ OnStop \subseteq Cmds
  /\ \A c \in DOMAIN NextOf : PanelOf[c] \in Panels /\ NextOf[c] \in Cmds
  /\ \A c \in {"variables", "evaluate"} : PanelOf[c] \in Panels
  BY ConstantsAssumption DEF Cmds, Asking, NextOf, PanelOf, Panels

LEMMA InitType == Init => TypeOK
  <1> SUFFICES ASSUME Init PROVE TypeOK
    OBVIOUS
  <1>1. counter \in [Sessions -> 1 .. MaxRequests + 1] /\ todo \in [Sessions -> 0 .. Handshake]
    BY ConstantsAssumption DEF Init
  <1>2. asked \in [Sessions -> [Cmds -> Nat]]
    BY DEF Init, Unasked
  <1>3. active \in [id : Sessions \cup {Terminal, None}, status : {"idle", "running", "paused"}]
    BY DEF Init, NoSession
  <1>4. /\ pending \in [Seqs -> {NoContext} \cup [of : Sessions, cmd : Asking]]
        /\ shown \in [Panels -> Sessions \cup {None}]
        /\ budget \in [{"events", "faults", "actions"} -> Nat]
        /\ events \in Seq(Event)
    BY DEF Init
  <1> QED BY <1>1, <1>2, <1>3, <1>4 DEF Init, TypeOK

LEMMA SpawnType ==
  ASSUME TypeOK, NEW s \in Sessions, Spawn(s)
  PROVE  TypeOK'
  BY ConstantsAssumption DEF TypeOK, Spawn, starts, backend, calls, store, ghosts

LEMMA InsertType ==
  ASSUME TypeOK, NEW s \in Sessions, Insert(s)
  PROVE  TypeOK'
  BY DEF TypeOK, Insert, starts, backend, calls, store, ghosts

LEMMA WatchType ==
  ASSUME TypeOK, NEW s \in Sessions, Watch(s)
  PROVE  TypeOK'
  BY DEF TypeOK, Watch, starts, backend, calls, store, ghosts

LEMMA HandshakeSendsType ==
  ASSUME TypeOK, NEW s \in Sessions, HandshakeSends(s)
  PROVE  TypeOK'
  <1>0. todo \in [Sessions -> 0 .. Handshake] /\ todo[s] > 0 /\ Handshake \in Nat
    BY ConstantsAssumption DEF TypeOK, HandshakeSends
  <1>1. todo' \in [Sessions -> 0 .. Handshake]
    <2>1. todo[s] - 1 \in 0 .. Handshake
      BY <1>0
    <2> QED BY <1>0, <2>1 DEF HandshakeSends
  <1>2. wire' \in SUBSET Request /\ counter' \in [Sessions -> 1 .. MaxRequests + 1]
    BY SentType DEF HandshakeSends
  <1> QED BY <1>1, <1>2 DEF TypeOK, HandshakeSends, calls, store, ghosts

LEMMA HandshakeFailsType ==
  ASSUME TypeOK, NEW s \in Sessions, HandshakeFails(s)
  PROVE  TypeOK'
  BY DEF TypeOK, HandshakeFails, starts, backend, calls, store, ghosts

LEMMA SessionShownType ==
  ASSUME TypeOK, NEW s \in Sessions, SessionShown(s)
  PROVE  TypeOK'
  BY StartType DEF TypeOK, SessionShown, Actives, Contexts, starts, backend, calls, store, ghosts

LEMMA StartInTerminalType ==
  ASSUME TypeOK, StartInTerminal
  PROVE  TypeOK'
  BY StartType, SpendType
     DEF TypeOK, StartInTerminal, Actives, Contexts, UserActs, Bounds, starts, backend, calls,
     store, ghosts

LEMMA AdapterAnswersType ==
  ASSUME TypeOK, NEW s \in Sessions, AdapterAnswers(s)
  PROVE  TypeOK'
  BY EmitType, SpendType
     DEF TypeOK, AdapterAnswers, Faults, Bounds, Request, Event, starts, backend, calls, store,
     ghosts

LEMMA AdapterNotifiesType ==
  ASSUME TypeOK, NEW s \in Sessions, AdapterNotifies(s)
  PROVE  TypeOK'
  BY EmitType, NoticeType, SpendType
     DEF TypeOK, AdapterNotifies, Bounds, starts, backend, calls, store, ghosts

LEMMA AdapterExitsType ==
  ASSUME TypeOK, NEW s \in Sessions, AdapterExits(s)
  PROVE  TypeOK'
  BY SpendType DEF TypeOK, AdapterExits, Faults, Bounds, starts, backend, calls, store, ghosts

LEMMA ReaderEndsType ==
  ASSUME TypeOK, NEW s \in Sessions, ReaderEnds(s)
  PROVE  TypeOK'
  BY EmitType, NoticeType, SpendType
     DEF TypeOK, ReaderEnds, Faults, Bounds, starts, backend, calls, store, ghosts

LEMMA WatcherLocksType ==
  ASSUME TypeOK, NEW s \in Sessions, WatcherLocks(s)
  PROVE  TypeOK'
  BY DEF TypeOK, WatcherLocks, starts, backend, calls, store, ghosts

LEMMA WatcherReapsType ==
  ASSUME TypeOK, NEW s \in Sessions, WatcherReaps(s)
  PROVE  TypeOK'
  BY DEF TypeOK, WatcherReaps, starts, backend, calls, store, ghosts

LEMMA WatcherEndsType ==
  ASSUME TypeOK, NEW s \in Sessions, WatcherEnds(s)
  PROVE  TypeOK'
  BY EmitType, NoticeType DEF TypeOK, WatcherEnds, starts, backend, calls, store, ghosts

(* The Stop button turns "no" into "asked", nothing else.                  *)
LEMMA StopAsked ==
  ASSUME TypeOK, StopDebugging
  PROVE  /\ stopper' \in [Sessions -> {"no", "asked", "locking", "done"}]
         /\ \A s \in Sessions :
              \/ stopper'[s] = stopper[s]
              \/ stopper[s] = "no" /\ stopper'[s] = "asked"
  <1> DEFINE a == active.id
  <1>0. stopper \in [Sessions -> {"no", "asked", "locking", "done"}]
    BY DEF TypeOK
  <1>1. CASE a \notin Sessions
    BY <1>0, <1>1 DEF StopDebugging
  <1>2. CASE a \in Sessions /\ stopper[a] = "no"
    <2>1. stopper' = [stopper EXCEPT ![a] = "asked"]
      BY <1>2 DEF StopDebugging
    <2> HIDE DEF a
    <2> QED BY <1>0, <1>2, <2>1
  <1>3. CASE a \in Sessions /\ stopper[a] # "no"
    <2>1. stopper' = [stopper EXCEPT ![a] = stopper[a]]
      BY <1>3 DEF StopDebugging
    <2> HIDE DEF a
    <2> QED BY <1>0, <1>3, <2>1
  <1> HIDE DEF a
  <1> QED BY <1>1, <1>2, <1>3

LEMMA StopDebuggingType ==
  ASSUME TypeOK, StopDebugging
  PROVE  TypeOK'
  <1>1. active' \in Actives /\ budget' \in [Bounds -> Nat]
    BY StatusType, SpendType DEF StopDebugging, StopSession, UserActs, Bounds
  <1>2. stopper' \in [Sessions -> {"no", "asked", "locking", "done"}]
    BY StopAsked
  <1>3. wanted' \in SUBSET Sessions
    BY DEF TypeOK, StopDebugging
  <1> QED BY <1>1, <1>2, <1>3 DEF TypeOK, StopDebugging, Bounds, Actives, starts, backend,
         calls, ghosts

LEMMA StopCommandType ==
  ASSUME TypeOK, StopCommand
  PROVE  TypeOK'
  BY StatusType, SpendType
     DEF TypeOK, StopCommand, StopSession, UserActs, Bounds, Actives, starts, backend, calls,
     store, ghosts

LEMMA ClearTranscriptType ==
  ASSUME TypeOK, ClearTranscript
  PROVE  TypeOK'
  BY SpendType DEF TypeOK, ClearTranscript, UserActs, Bounds, starts, backend, calls, ghosts

LEMMA StopRemovesType ==
  ASSUME TypeOK, NEW s \in Sessions, StopRemoves(s)
  PROVE  TypeOK'
  BY DEF TypeOK, StopRemoves, starts, backend, calls, store, ghosts

LEMMA StopKillsType ==
  ASSUME TypeOK, NEW s \in Sessions, StopKills(s)
  PROVE  TypeOK'
  BY EmitType, NoticeType DEF TypeOK, StopKills, starts, backend, calls, store, ghosts

LEMMA UserAsksType ==
  ASSUME TypeOK, NEW c \in UserCmds, UserAsks(c)
  PROVE  TypeOK'
  BY CommandTypes, AskType, SpendType
     DEF TypeOK, UserAsks, UserActs, Bounds, starts, backend, calls, store, ghosts

LEMMA InvokeRunsType ==
  ASSUME TypeOK, NEW s \in Sessions, NEW c \in Cmds, InvokeRuns(s, c)
  PROVE  TypeOK'
  <1>1. asked' \in [Sessions -> [Cmds -> Nat]]
    BY DEF TypeOK, InvokeRuns
  <1>2. /\ wire' \in SUBSET Request /\ counter' \in [Sessions -> 1 .. MaxRequests + 1]
        /\ counter[s] \in Seqs
    BY SentType DEF InvokeRuns
  <1>3. returned' \in SUBSET [of : Sessions, seq : Seqs, cmd : Cmds]
    BY <1>2 DEF TypeOK, InvokeRuns
  <1> QED BY <1>1, <1>2, <1>3 DEF TypeOK, InvokeRuns, starts, store, ghosts

LEMMA InvokeFailsType ==
  ASSUME TypeOK, NEW s \in Sessions, NEW c \in Cmds, InvokeFails(s, c)
  PROVE  TypeOK'
  <1>1. asked' \in [Sessions -> [Cmds -> Nat]]
    BY DEF TypeOK, InvokeFails
  <1>2. shown' \in [Panels -> Sessions \cup {None}] /\ crossed' \in BOOLEAN
    BY ShowType DEF TypeOK, InvokeFails, Crossed, Panels
  <1> QED BY <1>1, <1>2 DEF TypeOK, InvokeFails, starts, backend

LEMMA RegistersType ==
  ASSUME TypeOK, NEW r \in returned, Registers(r)
  PROVE  TypeOK'
  BY DEF TypeOK, Registers, Crossed, Contexts, starts, backend, calls, store, ghosts

LEMMA ResumesType ==
  ASSUME TypeOK, NEW r \in returned, Resumes(r)
  PROVE  TypeOK'
  BY StatusType, ExposeType DEF TypeOK, Resumes, Actives, starts, backend, calls, store, ghosts

LEMMA StoppedArrivesType ==
  ASSUME TypeOK, StoppedArrives
  PROVE  TypeOK'
  BY ArrivalType, StatusType, ExposeType, ShowType, AskType, CommandTypes
     DEF TypeOK, StoppedArrives, Crossed, Panels, Actives, starts, backend, calls, store, ghosts

LEMMA ContinuedArrivesType ==
  ASSUME TypeOK, ContinuedArrives
  PROVE  TypeOK'
  BY ArrivalType, StatusType, ExposeType, ShowType
     DEF TypeOK, ContinuedArrives, Panels, Actives, starts, backend, calls, store, ghosts

LEMMA EndArrivesType ==
  ASSUME TypeOK, EndArrives
  PROVE  TypeOK'
  BY ArrivalType, EndedType DEF TypeOK, EndArrives, Actives, starts, backend, calls, store, ghosts

LEMMA RefusalArrivesType ==
  ASSUME TypeOK, RefusalArrives
  PROVE  TypeOK'
  BY ArrivalType, SettleType, ShowType
     DEF TypeOK, RefusalArrives, Crossed, Panels, Contexts, starts, backend, calls, store,
     ghosts

LEMMA ResponseArrivesType ==
  ASSUME TypeOK, ResponseArrives
  PROVE  TypeOK'
  <1>1. Sender \in Sessions /\ events' \in Seq(Event)
    BY ArrivalType DEF ResponseArrives
  <1>2. pending' \in [Seqs -> Contexts]
    BY SettleType DEF ResponseArrives
  <1>3. shown' \in [Panels -> Sessions \cup {None}] /\ crossed' \in BOOLEAN
    BY <1>1, ShowType, CommandTypes DEF TypeOK, ResponseArrives, Crossed
  <1>4. asked' \in [Sessions -> [Cmds -> Nat]]
    BY <1>1, AskType, CommandTypes DEF TypeOK, ResponseArrives
  <1> QED BY <1>1, <1>2, <1>3, <1>4 DEF TypeOK, ResponseArrives, Contexts, starts, backend

LEMMA StutterType == TypeOK /\ UNCHANGED vars => TypeOK'
  BY DEF TypeOK, vars, starts, backend, calls, store, ghosts

LEMMA NextType == TypeOK /\ [Next]_vars => TypeOK'
  <1> SUFFICES ASSUME TypeOK, [Next]_vars PROVE TypeOK'
    OBVIOUS
  <1>1. CASE UNCHANGED vars
    BY <1>1, StutterType
  <1>2. ASSUME NEW s \in Sessions, Starting(s) PROVE TypeOK'
    BY <1>2, SpawnType, InsertType, WatchType, HandshakeSendsType, HandshakeFailsType,
       SessionShownType DEF Starting
  <1>3. ASSUME NEW s \in Sessions, Adapter(s) PROVE TypeOK'
    BY <1>3, AdapterAnswersType, AdapterNotifiesType, AdapterExitsType, ReaderEndsType,
       WatcherLocksType, WatcherReapsType, WatcherEndsType, StopRemovesType, StopKillsType
       DEF Adapter
  <1>4. CASE StartInTerminal \/ StopDebugging \/ StopCommand \/ ClearTranscript
    BY <1>4, StartInTerminalType, StopDebuggingType, StopCommandType, ClearTranscriptType
  <1>5. ASSUME NEW c \in UserCmds, UserAsks(c) PROVE TypeOK'
    BY <1>5, UserAsksType
  <1>6. ASSUME NEW s \in Sessions, NEW c \in Cmds, InvokeRuns(s, c) \/ InvokeFails(s, c)
        PROVE TypeOK'
    BY <1>6, InvokeRunsType, InvokeFailsType
  <1>7. ASSUME NEW r \in returned, Registers(r) \/ Resumes(r) PROVE TypeOK'
    BY <1>7, RegistersType, ResumesType
  <1>8. CASE Arrival
    BY <1>8, StoppedArrivesType, ContinuedArrivesType, EndArrivesType, RefusalArrivesType,
       ResponseArrivesType DEF Arrival
  <1> QED BY <1>1, <1>2, <1>3, <1>4, <1>5, <1>6, <1>7, <1>8 DEF Next

(* Every variable has its type.                                            *)
THEOREM TypeCorrect == Spec => []TypeOK
  BY InitType, NextType, PTL DEF Spec

-----------------------------------------------------------------------------
(* The table and the threads.  TableTracksAdapters is not inductive: that  *)
(* a spawned adapter has no exit watcher yet, that the table holds only    *)
(* sessions past that point, and that the watcher reaps only what has      *)
(* exited must be known.                                                   *)
ThreadsFollow ==
  \A s \in Sessions :
    /\ launch[s] \in {"no", "spawned", "inserted"} => watcher[s] = "none"
    /\ launch[s] \in {"no", "spawned"} => s \notin table
    /\ watcher[s] \in {"reaped", "done"} => adapter[s] = "exited"

TableInv == TypeOK /\ ThreadsFollow /\ TableTracksAdapters

LEMMA InitTable == Init => TableInv
  BY InitType DEF Init, TableInv, ThreadsFollow, TableTracksAdapters

(* The steps that touch neither the table nor a thread.                    *)
LEMMA OtherTable ==
  ASSUME TableInv, UNCHANGED <<launch, adapter, table, watcher, stopper>>
  PROVE  ThreadsFollow' /\ TableTracksAdapters'
  BY DEF TableInv, ThreadsFollow, TableTracksAdapters

LEMMA StartingTable ==
  ASSUME TableInv, NEW s \in Sessions, Starting(s)
  PROVE  ThreadsFollow' /\ TableTracksAdapters'
  <1>1. CASE Spawn(s)
    BY <1>1 DEF TableInv, TypeOK, ThreadsFollow, TableTracksAdapters, Spawn
  <1>2. CASE Insert(s)
    BY <1>2 DEF TableInv, TypeOK, ThreadsFollow, TableTracksAdapters, Insert
  <1>3. CASE Watch(s)
    BY <1>3 DEF TableInv, TypeOK, ThreadsFollow, TableTracksAdapters, Watch
  <1>4. CASE HandshakeSends(s)
    BY <1>4, OtherTable DEF HandshakeSends
  <1>5. CASE HandshakeFails(s)
    BY <1>5 DEF TableInv, TypeOK, ThreadsFollow, TableTracksAdapters, HandshakeFails, backend
  <1>6. CASE SessionShown(s)
    BY <1>6 DEF TableInv, TypeOK, ThreadsFollow, TableTracksAdapters, SessionShown, backend
  <1> QED BY <1>1, <1>2, <1>3, <1>4, <1>5, <1>6 DEF Starting

LEMMA AdapterTable ==
  ASSUME TableInv, NEW s \in Sessions, Adapter(s)
  PROVE  ThreadsFollow' /\ TableTracksAdapters'
  <1>1. CASE AdapterAnswers(s) \/ AdapterNotifies(s) \/ ReaderEnds(s)
    BY <1>1, OtherTable DEF AdapterAnswers, AdapterNotifies, ReaderEnds, starts, backend
  <1>2. CASE AdapterExits(s)
    BY <1>2 DEF TableInv, TypeOK, ThreadsFollow, TableTracksAdapters, AdapterExits, starts
  <1>3. CASE WatcherLocks(s)
    BY <1>3 DEF TableInv, TypeOK, ThreadsFollow, TableTracksAdapters, WatcherLocks, starts
  <1>4. CASE WatcherReaps(s)
    BY <1>4 DEF TableInv, TypeOK, ThreadsFollow, TableTracksAdapters, WatcherReaps, starts
  <1>5. CASE WatcherEnds(s)
    BY <1>5 DEF TableInv, TypeOK, ThreadsFollow, TableTracksAdapters, WatcherEnds, starts
  <1>6. CASE StopRemoves(s)
    BY <1>6 DEF TableInv, TypeOK, ThreadsFollow, TableTracksAdapters, StopRemoves, starts
  <1>7. CASE StopKills(s)
    BY <1>7 DEF TableInv, TypeOK, ThreadsFollow, TableTracksAdapters, StopKills, starts
  <1> QED BY <1>1, <1>2, <1>3, <1>4, <1>5, <1>6, <1>7 DEF Adapter

(* The Stop button only asks for a stop.                                   *)
LEMMA StopDebuggingTable ==
  ASSUME TableInv, StopDebugging
  PROVE  ThreadsFollow' /\ TableTracksAdapters'
  <1>1. UNCHANGED <<launch, adapter, table, watcher>>
    BY DEF StopDebugging, starts, backend
  <1>2. \A s \in Sessions : stopper[s] \in {"locking", "done"} => stopper'[s] = stopper[s]
    BY StopAsked DEF TableInv
  <1> QED BY <1>1, <1>2 DEF TableInv, ThreadsFollow, TableTracksAdapters

LEMMA NextTable == TableInv /\ [Next]_vars => TableInv'
  <1> SUFFICES ASSUME TableInv, [Next]_vars PROVE TableInv'
    OBVIOUS
  <1>0. TypeOK'
    BY NextType DEF TableInv
  <1> SUFFICES ThreadsFollow' /\ TableTracksAdapters'
    BY <1>0 DEF TableInv
  <1>1. CASE UNCHANGED vars
    BY <1>1, OtherTable DEF vars, starts, backend
  <1>2. CASE \E s \in Sessions : Starting(s) \/ Adapter(s)
    BY <1>2, StartingTable, AdapterTable
  <1>3. CASE StopDebugging
    BY <1>3, StopDebuggingTable
  <1>4. CASE StartInTerminal \/ StopCommand \/ ClearTranscript
    BY <1>4, OtherTable DEF StartInTerminal, StopCommand, ClearTranscript, starts, backend
  <1>5. ASSUME NEW c \in UserCmds, UserAsks(c)
        PROVE  ThreadsFollow' /\ TableTracksAdapters'
    BY <1>5, OtherTable DEF UserAsks, starts, backend
  <1>6. ASSUME NEW s \in Sessions, NEW c \in Cmds, InvokeRuns(s, c) \/ InvokeFails(s, c)
        PROVE  ThreadsFollow' /\ TableTracksAdapters'
    BY <1>6, OtherTable DEF InvokeRuns, InvokeFails, starts, backend
  <1>7. ASSUME NEW r \in returned, Registers(r) \/ Resumes(r)
        PROVE  ThreadsFollow' /\ TableTracksAdapters'
    BY <1>7, OtherTable DEF Registers, Resumes, starts, backend
  <1>8. CASE Arrival
    BY <1>8, OtherTable DEF Arrival, StoppedArrives, ContinuedArrives, EndArrives,
       RefusalArrives, ResponseArrives, starts, backend
  <1> QED BY <1>1, <1>2, <1>3, <1>4, <1>5, <1>6, <1>7, <1>8 DEF Next

(* The table of sessions and the threads agree.                            *)
THEOREM TableTracksAdaptersHolds == Spec => []TableTracksAdapters
  <1>1. TableInv => TableTracksAdapters
    BY DEF TableInv
  <1> QED BY <1>1, InitTable, NextTable, PTL DEF Spec

-----------------------------------------------------------------------------
(* The panels, and the contexts of pending requests, belong to the active  *)
(* session: what is shown or registered for another one sets "crossed".    *)
PendingOfActive ==
  ~crossed => \A q \in Seqs : pending[q] = NoContext \/ pending[q].of = active.id

StoreInv == ShownOfActive /\ PendingOfActive

LEMMA InitStore == Init => StoreInv
  BY DEF Init, StoreInv, ShownOfActive, PendingOfActive

(* The steps that register and show nothing, whatever the status becomes.  *)
LEMMA SameStore ==
  ASSUME StoreInv, UNCHANGED <<pending, shown, crossed>>, active'.id = active.id
  PROVE  StoreInv'
  BY DEF StoreInv, ShownOfActive, PendingOfActive

LEMMA StartStore ==
  ASSUME NEW id, StartSession(id)
  PROVE  StoreInv'
  BY DEF StartSession, StoreInv, ShownOfActive, PendingOfActive

LEMMA SettleStore ==
  ASSUME TypeOK, PendingOfActive, Settle, active' = active, crossed' \/ crossed' = crossed
  PROVE  PendingOfActive'
  <1> DEFINE n == Head(events).seq
  <1>1. \A q \in Seqs : pending'[q] = pending[q] \/ pending'[q] = NoContext
    BY DEF Settle, TypeOK
  <1> QED BY <1>1 DEF PendingOfActive

LEMMA ShowStore ==
  ASSUME TypeOK, ShownOfActive, active'.id = active.id,
         NEW p, NEW s, Show(p, s), Crossed(s) \/ (s = None /\ crossed' = crossed)
  PROVE  ShownOfActive' /\ (crossed' \/ crossed' = crossed)
  BY DEF TypeOK, ShownOfActive, Show, Crossed

LEMMA NextStore ==
  ASSUME TypeOK, StoreInv, [Next]_vars
  PROVE  StoreInv'
  <1>1. CASE UNCHANGED vars
    BY <1>1, SameStore DEF vars, store, ghosts
  <1>2. ASSUME NEW s \in Sessions, Starting(s) PROVE StoreInv'
    <2>1. CASE SessionShown(s)
      BY <2>1, StartStore DEF SessionShown
    <2>2. CASE Spawn(s) \/ Insert(s) \/ Watch(s) \/ HandshakeSends(s) \/ HandshakeFails(s)
      BY <2>2, SameStore DEF Spawn, Insert, Watch, HandshakeSends, HandshakeFails, store, ghosts
    <2> QED BY <1>2, <2>1, <2>2 DEF Starting
  <1>3. ASSUME NEW s \in Sessions, Adapter(s) PROVE StoreInv'
    BY <1>3, SameStore DEF Adapter, AdapterAnswers, AdapterNotifies, AdapterExits, ReaderEnds,
       WatcherLocks, WatcherReaps, WatcherEnds, StopRemoves, StopKills, store, ghosts
  <1>4. CASE StartInTerminal
    BY <1>4, StartStore DEF StartInTerminal
  <1>5. CASE StopDebugging \/ StopCommand
    <2>1. active'.id = active.id
      BY <1>5, StatusType DEF StopDebugging, StopCommand, StopSession
    <2> QED BY <1>5, <2>1, SameStore DEF StopDebugging, StopCommand, ghosts
  <1>5a. CASE ClearTranscript
    BY <1>5a DEF ClearTranscript, StoreInv, ShownOfActive, PendingOfActive, ghosts
  <1>6. ASSUME NEW c \in UserCmds, UserAsks(c) PROVE StoreInv'
    BY <1>6, SameStore DEF UserAsks, store, ghosts
  <1>7. ASSUME NEW s \in Sessions, NEW c \in Cmds, InvokeRuns(s, c) PROVE StoreInv'
    BY <1>7, SameStore DEF InvokeRuns, store, ghosts
  <1>8. ASSUME NEW s \in Sessions, NEW c \in Cmds, InvokeFails(s, c) PROVE StoreInv'
    <2>1. CASE c = "evaluate"
      BY <1>8, <2>1, ShowStore DEF InvokeFails, StoreInv, PendingOfActive
    <2>2. CASE c # "evaluate"
      BY <1>8, <2>2, SameStore DEF InvokeFails
    <2> QED BY <2>1, <2>2
  <1>9. ASSUME NEW r \in returned, Registers(r) PROVE StoreInv'
    <2>1. \A q \in Seqs : pending'[q] = pending[q] \/ pending'[q].of = r.of
      BY <1>9 DEF Registers, TypeOK
    <2>2. ~crossed' => ~crossed /\ r.of = active.id
      BY <1>9 DEF Registers, Crossed
    <2> QED BY <1>9, <2>1, <2>2 DEF Registers, StoreInv, ShownOfActive, PendingOfActive
  <1>10. ASSUME NEW r \in returned, Resumes(r) PROVE StoreInv'
    <2>1. active'.id = active.id
      BY <1>10, StatusType DEF Resumes
    <2> QED BY <1>10, <2>1, SameStore DEF Resumes
  <1>11. CASE StoppedArrives
    <2>1. active'.id = active.id
      BY <1>11, StatusType DEF StoppedArrives
    <2> QED BY <1>11, <2>1, ShowStore DEF StoppedArrives, StoreInv, PendingOfActive
  <1>12. CASE ContinuedArrives
    <2>1. active'.id = active.id
      BY <1>12, StatusType DEF ContinuedArrives
    <2> QED BY <1>12, <2>1, ShowStore DEF ContinuedArrives, StoreInv, PendingOfActive
  <1>13. CASE EndArrives
    <2>1. Sender \in Sessions /\ RecordSessionEnded(Sender)
      BY <1>13, ArrivalType DEF EndArrives
    <2>2. active'.id = active.id /\ pending' = pending
      BY <2>1, EndedType
    <2>3. \A p \in Panels : shown'[p] \in {shown[p], None}
      BY <2>1 DEF RecordSessionEnded, TypeOK
    <2> QED BY <1>13, <2>2, <2>3 DEF EndArrives, StoreInv, ShownOfActive, PendingOfActive, ghosts
  <1>14. CASE RefusalArrives
    <2>1. CASE Context.cmd = "evaluate"
      BY <1>14, <2>1, SettleStore, ShowStore DEF RefusalArrives, StoreInv
    <2>2. CASE Context.cmd # "evaluate"
      BY <1>14, <2>2, SettleStore DEF RefusalArrives, StoreInv, ShownOfActive
    <2> QED BY <2>1, <2>2
  <1>15. CASE ResponseArrives
    <2>1. \/ \E p : Show(p, Sender) /\ Crossed(Sender)
          \/ UNCHANGED <<shown, crossed>>
      BY <1>15 DEF ResponseArrives
    <2>2. ShownOfActive' /\ (crossed' \/ crossed' = crossed)
      BY <1>15, <2>1, ShowStore DEF ResponseArrives, StoreInv, ShownOfActive
    <2> QED BY <1>15, <2>2, SettleStore DEF ResponseArrives, StoreInv
  <1> QED BY <1>1, <1>2, <1>3, <1>4, <1>5, <1>5a, <1>6, <1>7, <1>8, <1>9, <1>10, <1>11, <1>12,
             <1>13, <1>14, <1>15 DEF Next, Arrival

(* The panels show data of the active session, as long as nothing of       *)
(* another one was handled since it began.                                 *)
THEOREM ShownOfActiveHolds == Spec => []ShownOfActive
  <1>1. Init => TypeOK /\ StoreInv
    BY InitType, InitStore
  <1>2. (TypeOK /\ StoreInv) /\ [Next]_vars => (TypeOK /\ StoreInv)'
    BY NextType, NextStore
  <1>3. StoreInv => ShownOfActive
    BY DEF StoreInv
  <1> QED BY <1>1, <1>2, <1>3, PTL DEF Spec

-----------------------------------------------------------------------------
(* Request numbers.  A request is on the wire, its number on the way back, *)
(* its answer queued, or it is waited for, in any combination.  All that   *)
(* bears one number in one session is of one command, and the counter is   *)
(* past it.                                                                *)
Replies == {"response", "refused"}
AnswersIn(ev) == {[of |-> ev[i].of, seq |-> ev[i].seq, cmd |-> ev[i].cmd] :
                    i \in {j \in DOMAIN ev : ev[j].type \in Replies}}
Waits == {[of |-> pending[q].of, seq |-> q, cmd |-> pending[q].cmd] :
            q \in {x \in Seqs : pending[x] # NoContext}}
Issued == wire \cup returned \cup AnswersIn(events) \cup Waits

OneCommand == \A a, b \in Issued : a.of = b.of /\ a.seq = b.seq => a.cmd = b.cmd
BelowCounter == \A a \in Issued : a.of \in Sessions /\ a.seq \in Seqs /\ a.seq < counter[a.of]
CounterFresh == \A s \in Sessions : launch[s] = "no" => counter[s] = 1

Numbered == OneCommand /\ BelowCounter /\ CounterFresh
NumInv == TableInv /\ StoreInv /\ Numbered

LEMMA AnswersAppend ==
  ASSUME NEW ev \in Seq(Event), NEW e \in Event
  PROVE  /\ e.type \notin Replies => AnswersIn(Append(ev, e)) \subseteq AnswersIn(ev)
         /\ AnswersIn(Append(ev, e))
              \subseteq AnswersIn(ev) \cup {[of |-> e.of, seq |-> e.seq, cmd |-> e.cmd]}
  <1>1. /\ DOMAIN Append(ev, e) = 1 .. Len(ev) + 1 /\ Len(ev) \in Nat
        /\ DOMAIN ev = 1 .. Len(ev)
        /\ Append(ev, e)[Len(ev) + 1] = e
        /\ \A i \in 1 .. Len(ev) : Append(ev, e)[i] = ev[i]
    OBVIOUS
  <1>2. \A i \in 1 .. Len(ev) + 1 : i \in 1 .. Len(ev) \/ i = Len(ev) + 1
    BY <1>1
  <1> QED BY <1>1, <1>2 DEF AnswersIn

LEMMA AnswersTail ==
  ASSUME NEW ev \in Seq(Event), ev # <<>>
  PROVE  AnswersIn(Tail(ev)) \subseteq AnswersIn(ev)
  <1>1. \A i \in DOMAIN Tail(ev) : i + 1 \in DOMAIN ev /\ Tail(ev)[i] = ev[i + 1]
    OBVIOUS
  <1> QED BY <1>1 DEF AnswersIn

LEMMA InitNumbered == Init => Numbered
  <1> SUFFICES ASSUME Init PROVE Numbered
    OBVIOUS
  <1>1. AnswersIn(events) = {}
    BY DEF Init, AnswersIn
  <1>2. Waits = {}
    BY DEF Init, Waits
  <1>3. Issued = {}
    BY <1>1, <1>2 DEF Init, Issued
  <1> QED BY <1>3 DEF Init, Numbered, OneCommand, BelowCounter, CounterFresh

(* A step that issues nothing and leaves the counters.                     *)
LEMMA IssuedShrinks ==
  ASSUME Numbered, Issued' \subseteq Issued, UNCHANGED counter,
         \A s \in Sessions : launch'[s] = "no" => launch[s] = "no"
  PROVE  Numbered'
  BY DEF Numbered, OneCommand, BelowCounter, CounterFresh

(* A step that issues one request, with the number of the counter.         *)
LEMMA IssuedGrows ==
  ASSUME TableInv, Numbered, NEW s \in Sessions, NEW c \in Cmds \cup {"handshake"}, Sent(s, c),
         Issued' \subseteq Issued \cup {[of |-> s, seq |-> counter[s], cmd |-> c]},
         UNCHANGED launch
  PROVE  Numbered'
  <1> DEFINE r == [of |-> s, seq |-> counter[s], cmd |-> c]
  <1>1. counter \in [Sessions -> Nat] /\ counter[s] \in Seqs
    <2>1. counter \in [Sessions -> 1 .. MaxRequests + 1] /\ MaxRequests \in Nat
      BY ConstantsAssumption DEF TableInv, TypeOK
    <2>2. counter[s] \in 1 .. MaxRequests + 1 /\ counter[s] <= MaxRequests
      BY <2>1 DEF Sent
    <2> QED BY <2>1, <2>2 DEF Seqs
  <1>2. \A x \in Sessions : counter'[x] = IF x = s THEN counter[x] + 1 ELSE counter[x]
    BY <1>1 DEF Sent
  <1>3. \A a \in Issued : a.of = s => a.seq < counter[s]
    BY DEF Numbered, BelowCounter
  <1>4. BelowCounter'
    <2>1. ASSUME NEW a \in Issued
          PROVE  a.of \in Sessions /\ a.seq \in Seqs /\ a.seq < counter'[a.of]
      BY <1>1, <1>2 DEF Numbered, BelowCounter, Seqs
    <2>2. r.of \in Sessions /\ r.seq \in Seqs /\ r.seq < counter'[r.of]
      BY <1>1, <1>2
    <2> QED BY <2>1, <2>2 DEF BelowCounter
  <1>5. OneCommand'
    <2> SUFFICES ASSUME NEW a \in Issued', NEW b \in Issued', a.of = b.of, a.seq = b.seq
                 PROVE  a.cmd = b.cmd
      BY DEF OneCommand
    <2>1. (a \in Issued \/ a = r) /\ (b \in Issued \/ b = r)
      OBVIOUS
    <2>2. \A x \in Issued : ~(x.of = r.of /\ x.seq = r.seq)
      BY <1>1, <1>3 DEF Numbered, BelowCounter, Seqs
    <2> QED BY <2>1, <2>2 DEF Numbered, OneCommand
  <1>6. CounterFresh'
    BY <1>2 DEF Numbered, CounterFresh, Sent, TableInv, ThreadsFollow
  <1> QED BY <1>4, <1>5, <1>6 DEF Numbered

(* The wire, the answers and the waits may each lose elements.             *)
LEMMA PartsShrink ==
  ASSUME wire' \subseteq wire, returned' \subseteq returned,
         AnswersIn(events)' \subseteq AnswersIn(events), Waits' \subseteq Waits
  PROVE  Issued' \subseteq Issued
  BY DEF Issued

LEMMA NoticeAnswers ==
  ASSUME TypeOK, NEW s \in Sessions,
         NEW t \in {"stopped", "continued", "terminated", "ended"}, Emit(Notice(s, t))
  PROVE  AnswersIn(events)' \subseteq AnswersIn(events)
  <1>1. Notice(s, t) \in Event /\ Notice(s, t).type \notin Replies
    BY DEF Notice, Event, Replies
  <1>2. events \in Seq(Event) /\ events' = Append(events, Notice(s, t))
    BY DEF TypeOK, Emit
  <1> QED BY <1>1, <1>2, AnswersAppend

LEMMA SameWaits == UNCHANGED pending => Waits' = Waits
  BY DEF Waits

LEMMA SettleWaits == TypeOK /\ Settle => Waits' \subseteq Waits
  <1> SUFFICES ASSUME TypeOK, Settle PROVE Waits' \subseteq Waits
    OBVIOUS
  <1>1. \A q \in Seqs : pending'[q] = pending[q] \/ pending'[q] = NoContext
    BY DEF Settle, TypeOK
  <1> QED BY <1>1 DEF Waits

LEMMA StartWaits == ASSUME NEW id, StartSession(id) PROVE Waits' \subseteq Waits
  BY DEF StartSession, Waits

LEMMA StartingNumbered ==
  ASSUME NumInv, NEW s \in Sessions, Starting(s)
  PROVE  Numbered'
  <1>0. TypeOK /\ Numbered /\ TableInv
    BY DEF NumInv, TableInv
  <1>1. CASE Spawn(s)
    <2>1. counter[s] = 1 /\ counter' = counter
      BY <1>0, <1>1 DEF Spawn, Numbered, CounterFresh, TypeOK
    <2>2. Issued' \subseteq Issued
      BY <1>1, PartsShrink, SameWaits DEF Spawn, calls, store
    <2>3. \A x \in Sessions : launch'[x] = "no" => launch[x] = "no"
      BY <1>0, <1>1 DEF Spawn, TypeOK
    <2> QED BY <1>0, <2>1, <2>2, <2>3, IssuedShrinks
  <1>2. CASE Insert(s) \/ Watch(s) \/ HandshakeFails(s)
    <2>1. Issued' \subseteq Issued /\ counter' = counter
      BY <1>2, PartsShrink, SameWaits DEF Insert, Watch, HandshakeFails, backend, calls, store
    <2>2. \A x \in Sessions : launch'[x] = "no" => launch[x] = "no"
      BY <1>0, <1>2 DEF Insert, Watch, HandshakeFails, TypeOK
    <2> QED BY <1>0, <2>1, <2>2, IssuedShrinks
  <1>3. CASE SessionShown(s)
    <2>1. Issued' \subseteq Issued /\ counter' = counter
      BY <1>3, PartsShrink, StartWaits DEF SessionShown, backend, calls
    <2>2. \A x \in Sessions : launch'[x] = "no" => launch[x] = "no"
      BY <1>0, <1>3 DEF SessionShown, TypeOK
    <2> QED BY <1>0, <2>1, <2>2, IssuedShrinks
  <1>4. CASE HandshakeSends(s)
    <2>1. Issued' \subseteq Issued \cup {[of |-> s, seq |-> counter[s], cmd |-> "handshake"]}
      BY <1>4, SameWaits DEF HandshakeSends, Sent, Issued, calls, store
    <2> QED BY <1>0, <1>4, <2>1, IssuedGrows DEF HandshakeSends
  <1> QED BY <1>1, <1>2, <1>3, <1>4 DEF Starting

LEMMA AdapterNumbered ==
  ASSUME NumInv, NEW s \in Sessions, Adapter(s)
  PROVE  Numbered'
  <1>0. TypeOK /\ Numbered
    BY DEF NumInv, TableInv
  <1>1. counter' = counter /\ launch' = launch /\ returned' = returned /\ Waits' = Waits
    BY SameWaits DEF Adapter, AdapterAnswers, AdapterNotifies, AdapterExits, ReaderEnds,
       WatcherLocks, WatcherReaps, WatcherEnds, StopRemoves, StopKills, starts, backend, calls,
       store
  <1>2. Issued' \subseteq Issued
    <2>1. CASE AdapterAnswers(s)
      <3>1. PICK r \in wire, t \in Replies :
              /\ wire' = wire \ {r}
              /\ Emit([of |-> s, type |-> t, seq |-> r.seq, cmd |-> r.cmd]) /\ r.of = s
        BY <2>1 DEF AdapterAnswers, Replies
      <3>2. [of |-> s, type |-> t, seq |-> r.seq, cmd |-> r.cmd] \in Event
        BY <1>0 DEF TypeOK, Request, Event, Replies
      <3>3. AnswersIn(events)'
              \subseteq AnswersIn(events) \cup {[of |-> s, seq |-> r.seq, cmd |-> r.cmd]}
        BY <1>0, <3>1, <3>2, AnswersAppend DEF Emit, TypeOK
      <3>4. [of |-> s, seq |-> r.seq, cmd |-> r.cmd] = r
        BY <1>0, <3>1 DEF TypeOK, Request
      <3> QED BY <1>1, <3>1, <3>3, <3>4 DEF Issued
    <2>2. CASE AdapterNotifies(s) \/ ReaderEnds(s) \/ WatcherEnds(s) \/ StopKills(s)
      <3>1. AnswersIn(events)' \subseteq AnswersIn(events) /\ wire' = wire
        BY <1>0, <2>2, NoticeAnswers DEF AdapterNotifies, ReaderEnds, WatcherEnds, StopKills
      <3> QED BY <1>1, <3>1, PartsShrink
    <2>3. CASE AdapterExits(s) \/ WatcherLocks(s) \/ WatcherReaps(s) \/ StopRemoves(s)
      <3>1. wire' = wire /\ events' = events
        BY <2>3 DEF AdapterExits, WatcherLocks, WatcherReaps, StopRemoves
      <3> QED BY <1>1, <3>1, PartsShrink
    <2> QED BY <2>1, <2>2, <2>3 DEF Adapter
  <1> QED BY <1>0, <1>1, <1>2, IssuedShrinks

LEMMA ArrivalNumbered ==
  ASSUME NumInv, Arrival
  PROVE  Numbered'
  <1>0. TypeOK /\ Numbered
    BY DEF NumInv, TableInv
  <1>1. counter' = counter /\ launch' = launch /\ returned' = returned /\ wire' = wire
    BY DEF Arrival, StoppedArrives, ContinuedArrives, EndArrives, RefusalArrives,
       ResponseArrives, starts, backend, calls
  <1>2. AnswersIn(events)' \subseteq AnswersIn(events)
    BY <1>0, AnswersTail DEF TypeOK, Arrival, StoppedArrives, ContinuedArrives, EndArrives,
       RefusalArrives, ResponseArrives, Arrives, Handled
  <1>3. Waits' \subseteq Waits
    BY <1>0, SameWaits, SettleWaits DEF Arrival, StoppedArrives, ContinuedArrives, EndArrives,
       RecordSessionEnded, RefusalArrives, ResponseArrives
  <1> QED BY <1>0, <1>1, <1>2, <1>3, PartsShrink, IssuedShrinks

LEMMA RegistersNumbered ==
  ASSUME NumInv, NEW r \in returned, Registers(r)
  PROVE  Numbered'
  <1>0. TypeOK /\ Numbered
    BY DEF NumInv, TableInv
  <1>1. r.seq \in Seqs /\ r = [of |-> r.of, seq |-> r.seq, cmd |-> r.cmd]
    BY <1>0 DEF TypeOK
  <1>2. \A q \in Seqs : pending'[q] = IF q = r.seq THEN [of |-> r.of, cmd |-> r.cmd]
                                      ELSE pending[q]
    BY <1>0 DEF Registers, TypeOK
  <1>3. Waits' \subseteq Waits \cup {r}
    BY <1>1, <1>2 DEF Waits
  <1>4. Issued' \subseteq Issued
    BY <1>3 DEF Registers, Issued
  <1> QED BY <1>0, <1>4, IssuedShrinks DEF Registers, starts, backend

LEMMA NextNumbered == NumInv /\ [Next]_vars => NumInv'
  <1> SUFFICES ASSUME NumInv, [Next]_vars PROVE NumInv'
    OBVIOUS
  <1>0. TypeOK /\ TableInv /\ StoreInv /\ Numbered
    BY DEF NumInv, TableInv
  <1> SUFFICES Numbered'
    BY <1>0, NextTable, NextStore DEF NumInv
  <1>1. CASE UNCHANGED vars
    BY <1>0, <1>1, SameWaits, PartsShrink, IssuedShrinks DEF vars, starts, backend, calls, store
  <1>2. CASE \E s \in Sessions : Starting(s) \/ Adapter(s)
    BY <1>2, StartingNumbered, AdapterNumbered
  <1>3. CASE StartInTerminal
    BY <1>0, <1>3, StartWaits, PartsShrink, IssuedShrinks DEF StartInTerminal, starts, backend,
       calls
  <1>4. CASE StopDebugging \/ StopCommand
    BY <1>0, <1>4, SameWaits, PartsShrink, IssuedShrinks DEF StopDebugging, StopCommand, starts,
       backend, calls
  <1>4a. CASE ClearTranscript
    <2>1. Waits' = {}
      BY <1>4a DEF ClearTranscript, Waits
    <2> QED BY <1>0, <1>4a, <2>1, PartsShrink, IssuedShrinks DEF ClearTranscript, starts, backend,
            calls
  <1>5. ASSUME NEW c \in UserCmds, UserAsks(c) PROVE Numbered'
    BY <1>0, <1>5, SameWaits, PartsShrink, IssuedShrinks DEF UserAsks, starts, backend, store
  <1>6. ASSUME NEW s \in Sessions, NEW c \in Cmds, InvokeRuns(s, c) PROVE Numbered'
    <2>1. Issued' \subseteq Issued \cup {[of |-> s, seq |-> counter[s], cmd |-> c]}
      BY <1>6, SameWaits DEF InvokeRuns, Sent, Issued, store
    <2> QED BY <1>0, <1>6, <2>1, IssuedGrows DEF InvokeRuns, starts
  <1>7. ASSUME NEW s \in Sessions, NEW c \in Cmds, InvokeFails(s, c) PROVE Numbered'
    BY <1>0, <1>7, SameWaits, PartsShrink, IssuedShrinks DEF InvokeFails, starts, backend
  <1>8. ASSUME NEW r \in returned, Registers(r) PROVE Numbered'
    BY <1>8, RegistersNumbered
  <1>9. ASSUME NEW r \in returned, Resumes(r) PROVE Numbered'
    BY <1>0, <1>9, SameWaits, PartsShrink, IssuedShrinks DEF Resumes, starts, backend
  <1>10. CASE Arrival
    BY <1>10, ArrivalNumbered
  <1> QED BY <1>1, <1>2, <1>3, <1>4, <1>4a, <1>5, <1>6, <1>7, <1>8, <1>9, <1>10 DEF Next

(* A queued answer and the request waited for under its number are both    *)
(* issued by the active session, so they are of one command.               *)
LEMMA NumberedAnswers == NumInv => AnswersFindRequests
  <1> SUFFICES ASSUME NumInv, NEW i \in DOMAIN events,
                      events[i].type \in Replies, events[i].of = active.id, ~crossed,
                      pending[events[i].seq] # NoContext
               PROVE  pending[events[i].seq] = [of |-> events[i].of, cmd |-> events[i].cmd]
    BY DEF AnswersFindRequests, Replies
  <1> DEFINE e == events[i]
             p == pending[e.seq]
             a == [of |-> e.of, seq |-> e.seq, cmd |-> e.cmd]
             w == [of |-> p.of, seq |-> e.seq, cmd |-> p.cmd]
  <1>1. a \in Issued
    BY DEF Issued, AnswersIn
  <1>2. e.seq \in Seqs
    BY <1>1 DEF NumInv, Numbered, BelowCounter
  <1>3. w \in Issued
    BY <1>2 DEF Issued, Waits
  <1>4. p.of = active.id
    BY <1>2 DEF NumInv, StoreInv, PendingOfActive
  <1>5. p.cmd = e.cmd
    BY <1>1, <1>3, <1>4 DEF NumInv, Numbered, OneCommand
  <1>6. p = [of |-> p.of, cmd |-> p.cmd]
    BY <1>2 DEF NumInv, TableInv, TypeOK
  <1> QED BY <1>4, <1>5, <1>6

(* An answer that finds a pending request finds its own.                   *)
THEOREM AnswersFindRequestsHolds == Spec => []AnswersFindRequests
  <1>1. Init => NumInv
    BY InitTable, InitStore, InitNumbered DEF NumInv
  <1> QED BY <1>1, NextNumbered, NumberedAnswers, PTL DEF Spec

-----------------------------------------------------------------------------
(* The queue of events, by session and type: an event that is emitted      *)
(* joins it, and the one that is handled leaves it.                        *)
LEMMA QueuedEmit ==
  ASSUME TypeOK, NEW e \in Event, Emit(e), NEW s, NEW types
  PROVE  /\ Queued(s, types) \subseteq Queued(s, types)'
         /\ e.of = s /\ e.type \in types => e \in Queued(s, types)'
  <1>1. events \in Seq(Event) /\ events' = Append(events, e)
    BY DEF TypeOK, Emit
  <1>2. /\ DOMAIN events' = 1 .. Len(events) + 1 /\ Len(events) \in Nat
        /\ DOMAIN events = 1 .. Len(events)
        /\ events'[Len(events) + 1] = e
        /\ \A i \in DOMAIN events : i \in DOMAIN events' /\ events'[i] = events[i]
    BY <1>1
  <1>3. Queued(s, types) \subseteq Queued(s, types)'
    BY <1>2 DEF Queued
  <1>4. Len(events) + 1 \in DOMAIN events'
    BY <1>2
  <1>5. e.of = s /\ e.type \in types => e \in Queued(s, types)'
    BY <1>2, <1>4 DEF Queued
  <1> QED BY <1>3, <1>5

LEMMA QueuedTail ==
  ASSUME TypeOK, events # <<>>, Handled, NEW s, NEW types
  PROVE  \A e \in Queued(s, types) : e \in Queued(s, types)' \/ e = Head(events)
  <1>1. events \in Seq(Event) /\ events' = Tail(events) /\ events # <<>>
    BY DEF TypeOK, Handled
  <1>2. \A i \in DOMAIN events \ {1} : i - 1 \in DOMAIN events' /\ events'[i - 1] = events[i]
    BY <1>1
  <1>3. Head(events) = events[1]
    BY <1>1
  <1>4. ASSUME NEW i \in DOMAIN events, events[i].of = s, events[i].type \in types, i # 1
        PROVE  events[i] \in Queued(s, types)'
    <2>1. i - 1 \in DOMAIN events' /\ events'[i - 1] = events[i]
      BY <1>2, <1>4
    <2> QED BY <1>4, <2>1 DEF Queued
  <1> QED BY <1>3, <1>4 DEF Queued

-----------------------------------------------------------------------------
(* What the store waits for.  A registered request moves from the wire to  *)
(* the queue of events, and the handling of its answer clears it; the      *)
(* numbers are needed because a session that is only now started has no    *)
(* request of its own registered.                                          *)

(* The steps that register nothing and take nothing off the wire: what is  *)
(* answered stays so, or its handling clears the number.                   *)
LEMMA KeepsAwaited ==
  ASSUME NumInv, PendingIsAwaited, wire \subseteq wire', overtaken' = overtaken,
         \A s \in Sessions : reader'[s] = "on" => reader[s] = "on",
         \A q \in Seqs : pending'[q] \in {pending[q], NoContext},
         \A q \in Seqs, s \in Sessions :
           Answered(s, q) => Answered(s, q)' \/ pending'[q] = NoContext
  PROVE  PendingIsAwaited'
  <1>1. TypeOK
    BY DEF NumInv, TableInv
  <1>2. ASSUME NEW q \in Seqs \ overtaken, pending'[q] # NoContext,
               reader'[pending'[q].of] = "on"
        PROVE  \/ [of |-> pending'[q].of, seq |-> q, cmd |-> pending'[q].cmd] \in wire'
               \/ Answered(pending[q].of, q)'
    <2>1. pending'[q] = pending[q] /\ pending[q].of \in Sessions
      BY <1>1, <1>2 DEF TypeOK
    <2> QED BY <1>2, <2>1 DEF PendingIsAwaited
  <1>3. \A q \in Seqs \ overtaken : pending'[q] # NoContext => pending'[q] = pending[q]
    OBVIOUS
  <1> QED BY <1>2, <1>3 DEF PendingIsAwaited, Answered

LEMMA SameAnswered ==
  ASSUME UNCHANGED events, NEW s, NEW q
  PROVE  Answered(s, q)' = Answered(s, q)
  BY DEF Answered, Queued

LEMMA EmitAnswered ==
  ASSUME TypeOK, NEW e \in Event, Emit(e), NEW s, NEW q, Answered(s, q)
  PROVE  Answered(s, q)'
  BY QueuedEmit DEF Answered

LEMMA SettleKeeps ==
  ASSUME TypeOK, Settle
  PROVE  /\ \A q \in Seqs : pending'[q] \in {pending[q], NoContext}
         /\ \A q \in Seqs : q = Head(events).seq => pending'[q] = NoContext
  BY DEF TypeOK, Settle

LEMMA InitAwaited == Init => PendingIsAwaited
  BY DEF Init, PendingIsAwaited

LEMMA SpawnAwaited ==
  ASSUME NumInv, PendingIsAwaited, NEW s \in Sessions, Spawn(s)
  PROVE  PendingIsAwaited'
  <1>0. TypeOK /\ Numbered
    BY DEF NumInv, TableInv
  <1>1. counter[s] = 1
    BY <1>0 DEF Spawn, Numbered, CounterFresh
  <1>2. \A q \in Seqs : pending[q] # NoContext => pending[q].of # s
    <2> SUFFICES ASSUME NEW q \in Seqs, pending[q] # NoContext, pending[q].of = s
                 PROVE  FALSE
      OBVIOUS
    <2>1. [of |-> pending[q].of, seq |-> q, cmd |-> pending[q].cmd] \in Issued
      BY DEF Issued, Waits
    <2>2. q < 1
      BY <1>0, <1>1, <2>1 DEF Numbered, BelowCounter
    <2> QED BY <2>2 DEF Seqs
  <1>3. \A x \in Sessions \ {s} : reader'[x] = reader[x]
    BY <1>0 DEF Spawn, TypeOK
  <1>4. UNCHANGED <<pending, overtaken, wire, events>>
    BY DEF Spawn, calls, store, ghosts
  <1>5. \A q \in Seqs : pending[q] # NoContext => pending[q].of \in Sessions
    BY <1>0 DEF TypeOK
  <1> QED BY <1>2, <1>3, <1>4, <1>5 DEF PendingIsAwaited, Answered, Queued

LEMMA AdapterAwaited ==
  ASSUME NumInv, PendingIsAwaited, NEW s \in Sessions, Adapter(s)
  PROVE  PendingIsAwaited'
  <1>0. TypeOK
    BY DEF NumInv, TableInv
  <1>1. /\ UNCHANGED <<pending, overtaken>>
        /\ \A x \in Sessions : reader'[x] = "on" => reader[x] = "on"
    BY <1>0 DEF TypeOK, Adapter, AdapterAnswers, AdapterNotifies, AdapterExits, ReaderEnds,
       WatcherLocks, WatcherReaps, WatcherEnds, StopRemoves, StopKills, backend, store, ghosts
  <1>2. CASE AdapterAnswers(s)
    <2>1. PICK r \in wire, t \in Replies :
            /\ wire' = wire \ {r} /\ r.of = s
            /\ Emit([of |-> s, type |-> t, seq |-> r.seq, cmd |-> r.cmd])
      BY <1>2 DEF AdapterAnswers, Replies
    <2> DEFINE e == [of |-> s, type |-> t, seq |-> r.seq, cmd |-> r.cmd]
    <2>2. e \in Event /\ e.of = s /\ e.seq = r.seq /\ e.type \in Replies
      BY <1>0, <2>1 DEF TypeOK, Request, Event, Replies
    <2>3. Answered(s, r.seq)'
      BY <1>0, <2>1, <2>2, QueuedEmit DEF Answered, Replies
    <2>4. ASSUME NEW q \in Seqs \ overtaken, pending[q] # NoContext,
                 reader'[pending[q].of] = "on"
          PROVE  \/ [of |-> pending[q].of, seq |-> q, cmd |-> pending[q].cmd] \in wire'
                 \/ \E d \in Queued(pending[q].of, Replies)' : d.seq = q
      <3>1. PICK x \in Sessions : x = pending[q].of
        BY <1>0, <2>4 DEF TypeOK
      <3>2. reader[x] = "on"
        BY <1>1, <2>4, <3>1
      <3>3. CASE Answered(x, q)
        BY <1>0, <1>1, <2>1, <2>2, <3>1, <3>3, EmitAnswered DEF Answered, Replies
      <3>4. CASE [of |-> x, seq |-> q, cmd |-> pending[q].cmd] \in wire
        BY <1>1, <2>1, <2>3, <3>1, <3>4 DEF Answered, Replies
      <3> QED BY <2>4, <3>1, <3>2, <3>3, <3>4 DEF PendingIsAwaited
    <2> QED BY <1>1, <2>4 DEF PendingIsAwaited, Answered, Replies
  <1>3. CASE AdapterNotifies(s) \/ ReaderEnds(s) \/ WatcherEnds(s) \/ StopKills(s)
    <2>1. wire' = wire /\ \E e \in Event : Emit(e)
      BY <1>3, NoticeType DEF AdapterNotifies, ReaderEnds, WatcherEnds, StopKills
    <2>2. \A q \in Seqs, x \in Sessions : Answered(x, q) => Answered(x, q)'
      BY <1>0, <2>1, EmitAnswered
    <2> QED BY <1>1, <2>1, <2>2, KeepsAwaited
  <1>4. CASE AdapterExits(s) \/ WatcherLocks(s) \/ WatcherReaps(s) \/ StopRemoves(s)
    <2>1. UNCHANGED <<wire, events>>
      BY <1>4 DEF AdapterExits, WatcherLocks, WatcherReaps, StopRemoves
    <2> QED BY <1>1, <2>1, SameAnswered, KeepsAwaited
  <1> QED BY <1>2, <1>3, <1>4 DEF Adapter

(* Registers looks where the answer is: if it is neither to come nor under *)
(* way, it has overtaken the registration.                                 *)
LEMMA RegistersAwaited ==
  ASSUME NumInv, PendingIsAwaited, NEW r \in returned, Registers(r)
  PROVE  PendingIsAwaited'
  <1>0. TypeOK
    BY DEF NumInv, TableInv
  <1>1. r = [of |-> r.of, seq |-> r.seq, cmd |-> r.cmd] /\ r.seq \in Seqs
    BY <1>0 DEF TypeOK
  <1>2. /\ UNCHANGED <<reader, wire, events>>
        /\ overtaken' = IF r \in wire \/ Answered(r.of, r.seq)
                        THEN overtaken \ {r.seq} ELSE overtaken \cup {r.seq}
    BY DEF Registers, backend
  <1>3. \A q \in Seqs : pending'[q] = IF q = r.seq THEN [of |-> r.of, cmd |-> r.cmd]
                                      ELSE pending[q]
    BY <1>0 DEF Registers, TypeOK
  <1>4. ASSUME NEW q \in Seqs \ overtaken', pending'[q] # NoContext,
               reader[pending'[q].of] = "on"
        PROVE  \/ [of |-> pending'[q].of, seq |-> q, cmd |-> pending'[q].cmd] \in wire
               \/ \E d \in Queued(pending'[q].of, Replies) : d.seq = q
    <2>1. CASE q = r.seq
      BY <1>1, <1>2, <1>3, <1>4, <2>1 DEF Answered, Replies
    <2>2. CASE q # r.seq
      BY <1>2, <1>3, <1>4, <2>2 DEF PendingIsAwaited, Answered, Replies
    <2> QED BY <2>1, <2>2
  <1> QED BY <1>2, <1>4 DEF PendingIsAwaited, Answered, Queued, Replies

LEMMA ArrivalAwaited ==
  ASSUME NumInv, PendingIsAwaited, Arrival
  PROVE  PendingIsAwaited'
  <1>0. TypeOK /\ events # <<>> /\ Handled
    BY DEF NumInv, TableInv, Arrival, StoppedArrives, ContinuedArrives, EndArrives,
       RefusalArrives, ResponseArrives, Arrives
  <1>1. UNCHANGED <<reader, wire, overtaken>>
    BY DEF Arrival, StoppedArrives, ContinuedArrives, EndArrives, RefusalArrives,
       ResponseArrives, backend, ghosts
  <1>2. CASE StoppedArrives \/ ContinuedArrives \/ EndArrives
    <2>1. pending' = pending /\ Head(events).type \notin Replies
      BY <1>2 DEF StoppedArrives, ContinuedArrives, EndArrives, RecordSessionEnded, Arrives,
         Replies
    <2>2. ASSUME NEW q \in Seqs, NEW s \in Sessions, Answered(s, q) PROVE Answered(s, q)'
      <3>1. Head(events) \notin Queued(s, Replies)
        BY <2>1 DEF Queued
      <3> QED BY <1>0, <2>2, <3>1, QueuedTail DEF Answered, Replies
    <2> QED BY <1>1, <2>1, <2>2, KeepsAwaited
  <1>3. CASE RefusalArrives \/ ResponseArrives
    <2>1. Settle
      BY <1>3 DEF RefusalArrives, ResponseArrives
    <2>2. ASSUME NEW q \in Seqs, NEW s \in Sessions, Answered(s, q), q # Head(events).seq
          PROVE  Answered(s, q)'
      BY <1>0, <2>2, QueuedTail DEF Answered
    <2> QED BY <1>0, <1>1, <2>1, <2>2, SettleKeeps, KeepsAwaited
  <1> QED BY <1>2, <1>3 DEF Arrival

(* A session begins with nothing to wait for.                              *)
LEMMA StartAwaited ==
  ASSUME NEW id, StartSession(id)
  PROVE  PendingIsAwaited'
  BY DEF StartSession, PendingIsAwaited

LEMMA NextAwaited == NumInv /\ PendingIsAwaited /\ [Next]_vars => PendingIsAwaited'
  <1> SUFFICES ASSUME NumInv, PendingIsAwaited, [Next]_vars PROVE PendingIsAwaited'
    OBVIOUS
  <1>1. CASE UNCHANGED vars
    BY <1>1, SameAnswered, KeepsAwaited DEF vars, backend, store, ghosts
  <1>2. ASSUME NEW s \in Sessions, Starting(s) PROVE PendingIsAwaited'
    <2>1. CASE SessionShown(s)
      BY <2>1, StartAwaited DEF SessionShown
    <2>2. CASE Insert(s) \/ Watch(s) \/ HandshakeSends(s) \/ HandshakeFails(s)
      BY <2>2, SameAnswered, KeepsAwaited DEF Insert, Watch, HandshakeSends, Sent, HandshakeFails,
         backend, calls, store, ghosts
    <2> QED BY <1>2, <2>1, <2>2, SpawnAwaited DEF Starting
  <1>3. ASSUME NEW s \in Sessions, Adapter(s) PROVE PendingIsAwaited'
    BY <1>3, AdapterAwaited
  <1>4. CASE StartInTerminal
    BY <1>4, StartAwaited DEF StartInTerminal
  <1>5. CASE StopDebugging \/ StopCommand
    BY <1>5, SameAnswered, KeepsAwaited DEF StopDebugging, StopCommand, backend, ghosts
  <1>6. CASE ClearTranscript
    BY <1>6 DEF ClearTranscript, PendingIsAwaited
  <1>7. ASSUME NEW c \in UserCmds, UserAsks(c) PROVE PendingIsAwaited'
    BY <1>7, SameAnswered, KeepsAwaited DEF UserAsks, backend, store, ghosts
  <1>8. ASSUME NEW s \in Sessions, NEW c \in Cmds, InvokeRuns(s, c) \/ InvokeFails(s, c)
        PROVE  PendingIsAwaited'
    BY <1>8, SameAnswered, KeepsAwaited DEF InvokeRuns, Sent, InvokeFails, backend, store, ghosts
  <1>9. ASSUME NEW r \in returned, Registers(r) PROVE PendingIsAwaited'
    BY <1>9, RegistersAwaited
  <1>10. ASSUME NEW r \in returned, Resumes(r) PROVE PendingIsAwaited'
    BY <1>10, SameAnswered, KeepsAwaited DEF Resumes, backend
  <1>11. CASE Arrival
    BY <1>11, ArrivalAwaited
  <1> QED BY <1>1, <1>2, <1>3, <1>4, <1>5, <1>6, <1>7, <1>8, <1>9, <1>10, <1>11 DEF Next

(* A request the store waits for is still to be answered, while the        *)
(* adapter is heard, or its answer overtook its registration: also with    *)
(* several sessions, whose requests bear the same numbers.                 *)
THEOREM PendingIsAwaitedHolds == Spec => []PendingIsAwaited
  <1>1. Init => NumInv /\ PendingIsAwaited
    BY InitTable, InitStore, InitNumbered, InitAwaited DEF NumInv
  <1>2. (NumInv /\ PendingIsAwaited) /\ [Next]_vars => (NumInv /\ PendingIsAwaited)'
    BY NextNumbered, NextAwaited
  <1> QED BY <1>1, <1>2, PTL DEF Spec

-----------------------------------------------------------------------------
(* The end of a session.  A session becomes quiet only when the window     *)
(* handles its last "ended", which is when the store takes it for idle.    *)
LEMMA QuietBegins ==
  ASSUME TypeOK, [Next]_vars, NEW s \in Sessions, Quiet(s)', ~Quiet(s)
  PROVE  EndArrives /\ Sender = s
  <1>0. reader'[s] = "done" /\ watcher'[s] = "done" /\ stopper'[s] # "locking"
        /\ Queued(s, {"ended"})' = {}
    BY DEF Quiet
  <1>1. CASE UNCHANGED <<reader, watcher, stopper, events>>
    BY <1>1 DEF Quiet, Queued
  <1>2. ASSUME NEW x \in Sessions, Starting(x) PROVE FALSE
    <2>1. CASE HandshakeSends(x) \/ HandshakeFails(x) \/ SessionShown(x) \/ Insert(x)
      BY <1>1, <2>1 DEF HandshakeSends, HandshakeFails, SessionShown, Insert, backend, Quiet, Queued
    <2>2. CASE Spawn(x)
      BY <1>0, <2>2 DEF Spawn, TypeOK, Quiet, Queued
    <2>3. CASE Watch(x)
      BY <1>0, <2>3 DEF Watch, TypeOK, Quiet, Queued
    <2> QED BY <1>2, <2>1, <2>2, <2>3 DEF Starting
  <1>3. ASSUME NEW x \in Sessions, Adapter(x) PROVE FALSE
    <2>1. CASE AdapterAnswers(x) \/ AdapterNotifies(x)
      <3>1. /\ UNCHANGED <<reader, watcher, stopper>>
            /\ \E e \in Event : Emit(e)
        BY <2>1, NoticeType DEF AdapterAnswers, AdapterNotifies, backend, TypeOK, Request, Event
      <3> QED BY <1>0, <3>1, QueuedEmit DEF Quiet
    <2>2. CASE ReaderEnds(x) \/ WatcherEnds(x) \/ StopKills(x)
      <3>1. Emit(Notice(x, "ended")) /\ Notice(x, "ended") \in Event
        BY <2>2, NoticeType DEF ReaderEnds, WatcherEnds, StopKills
      <3>2. x # s
        BY <1>0, <3>1, QueuedEmit DEF Notice
      <3>3. reader'[s] = reader[s] /\ watcher'[s] = watcher[s] /\ stopper'[s] = stopper[s]
        BY <2>2, <3>2 DEF TypeOK, ReaderEnds, WatcherEnds, StopKills
      <3> QED BY <1>0, <3>1, <3>3, QueuedEmit DEF Quiet
    <2>3. CASE AdapterExits(x) \/ WatcherLocks(x) \/ WatcherReaps(x) \/ StopRemoves(x)
      <3>1. /\ UNCHANGED <<reader, events>>
            /\ watcher'[s] = "done" => watcher[s] = "done"
            /\ stopper[s] = "locking" => stopper'[s] = "locking"
        BY <2>3 DEF TypeOK, AdapterExits, WatcherLocks, WatcherReaps, StopRemoves
      <3> QED BY <1>0, <3>1 DEF Quiet, Queued
    <2> QED BY <1>3, <2>1, <2>2, <2>3 DEF Adapter
  <1>4. CASE StopDebugging
    <2>1. stopper[s] = "locking" => stopper'[s] = "locking"
      BY <1>4, StopAsked
    <2> QED BY <1>0, <1>4, <2>1 DEF StopDebugging, backend, Quiet, Queued
  <1>5. CASE Arrival
    <2>1. UNCHANGED <<reader, watcher, stopper>> /\ Handled /\ events # <<>>
      BY <1>5 DEF Arrival, StoppedArrives, ContinuedArrives, EndArrives, RefusalArrives,
         ResponseArrives, backend, Arrives
    <2>2. Queued(s, {"ended"}) # {}
      BY <1>0, <2>1 DEF Quiet
    <2>3. Head(events) \in Queued(s, {"ended"})
      BY <1>0, <2>1, <2>2, QueuedTail
    <2>4. Head(events).type = "ended" /\ Sender = s
      BY <2>3 DEF Queued, Sender
    <2> QED BY <1>5, <2>4 DEF Arrival, StoppedArrives, ContinuedArrives, RefusalArrives,
           ResponseArrives, Arrives
  <1>6. CASE StartInTerminal \/ StopCommand \/ ClearTranscript
    BY <1>1, <1>6 DEF StartInTerminal, StopCommand, ClearTranscript, backend
  <1>7. ASSUME NEW c \in UserCmds, UserAsks(c) PROVE FALSE
    BY <1>1, <1>7 DEF UserAsks, backend, Quiet, Queued
  <1>8. ASSUME NEW x \in Sessions, NEW c \in Cmds, InvokeRuns(x, c) \/ InvokeFails(x, c)
        PROVE  FALSE
    BY <1>1, <1>8 DEF InvokeRuns, InvokeFails, backend, Quiet, Queued
  <1>9. ASSUME NEW r \in returned, Registers(r) \/ Resumes(r) PROVE FALSE
    BY <1>1, <1>9 DEF Registers, Resumes, backend, Quiet, Queued
  <1>10. CASE UNCHANGED vars
    BY <1>1, <1>10 DEF vars, backend
  <1> QED BY <1>2, <1>3, <1>4, <1>5, <1>6, <1>7, <1>8, <1>9, <1>10 DEF Next

(* A step that makes a session active exposes it, if it is quiet.          *)
LEMMA StatusExposes ==
  ASSUME TypeOK, NEW st \in {"running", "paused"}, SetStatus(st), ExposeActive
  PROVE  /\ active'.id = active.id /\ exposed \subseteq exposed'
         /\ \A s \in Sessions : active.id = s /\ Quiet(s) => s \in exposed'
  BY StatusType DEF ExposeActive

LEMMA IdleStatus ==
  ASSUME TypeOK, SetStatus("idle")
  PROVE  active'.id = active.id /\ (active'.id # None => active'.status = "idle")
  BY DEF TypeOK, SetStatus

(* A quiet session that is active after a step was so before, or is        *)
(* exposed.                                                                *)
LEMMA ActiveBegins ==
  ASSUME TypeOK, [Next]_vars, NEW s \in Sessions, Quiet(s), active'.id = s, IsActive'
  PROVE  /\ exposed \subseteq exposed'
         /\ s \in exposed' \/ (active.id = s /\ IsActive)
  <1>0. s # None /\ s # Terminal
    BY ConstantsAssumption
  <1>1. CASE UNCHANGED <<active, exposed>>
    BY <1>1 DEF IsActive
  <1>2. CASE \E st \in {"running", "paused"} : SetStatus(st) /\ ExposeActive
    BY <1>2, StatusExposes
  <1>3. CASE \E id \in Sessions \cup {Terminal} : StartSession(id)
    BY <1>0, <1>3 DEF StartSession
  <1>4. ASSUME NEW x \in Sessions, Starting(x)
        PROVE  UNCHANGED <<active, exposed>> \/ StartSession(x)
    BY <1>4 DEF Starting, Spawn, Insert, Watch, HandshakeSends, HandshakeFails, SessionShown,
       store, ghosts
  <1>5. ASSUME NEW x \in Sessions, Adapter(x) PROVE UNCHANGED <<active, exposed>>
    BY <1>5 DEF Adapter, AdapterAnswers, AdapterNotifies, AdapterExits, ReaderEnds,
       WatcherLocks, WatcherReaps, WatcherEnds, StopRemoves, StopKills, store, ghosts
  <1>6. CASE StartInTerminal
    BY <1>3, <1>6 DEF StartInTerminal
  <1>7. CASE StopDebugging \/ StopCommand
    <2>1. active'.id = active.id /\ (active'.id # None => active'.status = "idle")
      BY <1>7, IdleStatus DEF StopDebugging, StopCommand, StopSession
    <2> QED BY <1>0, <2>1 DEF IsActive
  <1>8. CASE ClearTranscript
    BY <1>1, <1>8 DEF ClearTranscript, ghosts
  <1>9. ASSUME NEW c \in UserCmds, UserAsks(c) PROVE UNCHANGED <<active, exposed>>
    BY <1>9 DEF UserAsks, store, ghosts
  <1>10. ASSUME NEW x \in Sessions, NEW c \in Cmds, InvokeRuns(x, c) \/ InvokeFails(x, c)
         PROVE  UNCHANGED <<active, exposed>>
    BY <1>10 DEF InvokeRuns, InvokeFails, store, ghosts
  <1>11. ASSUME NEW r \in returned, Registers(r) \/ Resumes(r)
         PROVE  \/ UNCHANGED <<active, exposed>>
                \/ SetStatus("running") /\ ExposeActive
    BY <1>11 DEF Registers, Resumes
  <1>12. CASE Arrival
    <2>1. CASE EndArrives
      BY <2>1 DEF EndArrives, RecordSessionEnded, TypeOK, IsActive, ghosts
    <2>2. CASE StoppedArrives \/ ContinuedArrives
      BY <1>2, <2>2 DEF StoppedArrives, ContinuedArrives
    <2>3. CASE RefusalArrives \/ ResponseArrives
      BY <1>1, <2>3 DEF RefusalArrives, ResponseArrives
    <2> QED BY <1>12, <2>1, <2>2, <2>3 DEF Arrival
  <1>13. CASE UNCHANGED vars
    BY <1>1, <1>13 DEF vars, store, ghosts
  <1> QED BY <1>1, <1>2, <1>3, <1>4, <1>5, <1>6, <1>7, <1>8, <1>9, <1>10, <1>11, <1>12, <1>13
          DEF Next

LEMMA NextAlive == TypeOK /\ ActiveIsAlive /\ [Next]_vars => ActiveIsAlive'
  <1> SUFFICES ASSUME TypeOK, ActiveIsAlive, [Next]_vars, NEW s \in Sessions,
                      active'.id = s, IsActive', Quiet(s)'
               PROVE  s \in exposed'
    BY DEF ActiveIsAlive, Quiet
  <1>1. CASE Quiet(s)
    BY <1>1, ActiveBegins DEF ActiveIsAlive
  <1>2. CASE ~Quiet(s)
    <2>1. RecordSessionEnded(s)
      BY <1>2, QuietBegins DEF EndArrives
    <2>2. active'.id = s => active'.status = "idle"
      BY <2>1 DEF RecordSessionEnded, TypeOK
    <2> QED BY <2>2 DEF IsActive
  <1> QED BY <1>1, <1>2

(* A session whose end has been told is not shown as running or paused,    *)
(* unless it met one of the races that "exposed" records.                  *)
THEOREM ActiveIsAliveHolds == Spec => []ActiveIsAlive
  <1>1. Init => TypeOK /\ ActiveIsAlive
    BY InitType DEF Init, ActiveIsAlive, IsActive, NoSession
  <1>2. (TypeOK /\ ActiveIsAlive) /\ [Next]_vars => (TypeOK /\ ActiveIsAlive)'
    BY NextType, NextAlive
  <1> QED BY <1>1, <1>2, PTL DEF Spec

=============================================================================
