----------------------------- MODULE AgentBridge -----------------------------
(***************************************************************************)
(* The bridge to an agent that speaks the Agent Client Protocol.  The      *)
(* window's calls run side by side: each puts a command into the channel   *)
(* of the one worker, awaits its answer and goes on (start_agent installs  *)
(* the permission sender, stop_agent clears it).  The worker executes one  *)
(* command at a time and owns the agent process.  Beside it handlers wait  *)
(* for the user's answers to the agent's permission requests, which come   *)
(* through the sender into a bounded channel of the agent's client.        *)
(*                                                                         *)
(* The agent and the protocol library are outside the repository: the      *)
(* agent answers, asks, exits or falls silent as it likes; the library     *)
(* runs Handlers handlers of the agent's messages at once, and hands on no *)
(* message, answers included, while none is free.                          *)
(***************************************************************************)
EXTENDS Naturals, Sequences

CONSTANTS
  Offers,      \* the kinds of options each permission request offers
  Handlers,    \* handlers of the agent's messages that run at once
  Cap,         \* the bound of a client's permission channel: 32 in the code
  MaxCalls,    \* bound: calls that send a command
  MaxAsks,     \* bound: permission requests
  MaxReplies,  \* bound: answers of the user
  MaxSpawns,   \* bound: agent processes
  MaxFaults    \* bound: processes that exit or fall silent by themselves

ASSUME ConstantsAssumption ==
  /\ Offers \in [1 .. MaxAsks -> SUBSET {"allow", "reject"}]
  /\ Handlers \in Nat \ {0} /\ Cap \in Nat \ {0}
  /\ MaxCalls \in Nat /\ MaxAsks \in Nat /\ MaxReplies \in Nat
  /\ MaxSpawns \in Nat /\ MaxFaults \in Nat

Calls      == 1 .. MaxCalls
Asks       == 1 .. MaxAsks
Agents     == 1 .. MaxSpawns
MaybeAgent == 0 .. MaxSpawns  \* 0 for none
Says       == {"allow", "refuse", "deny"}
Answers    == [ask : Asks, say : Says]
NoAnswer   == [ask |-> 0, say |-> "none"]
Commands   == {"start", "stop", "send", "query"}

(* What an answer says: the button Allow; an option that refuses, or a     *)
(* cancel; or a refusal that names no option, which the window sends for a *)
(* request that offers none or that nothing is there to show.              *)

VARIABLES
  call,     \* how far each call is: none, its command, done, returned
  got,      \* the agent the worker answered a start with, or 0
  queue,    \* the command channel; the worker executes its head
  stage,    \* what the worker awaits within a command
  agent,    \* the worker's agent
  spawned,  \* how many processes were spawned; the last one may be booting
  alive,    \* the processes that run
  mute,     \* the processes that answer nothing any more
  status,   \* AcpAgentBridge.status
  sender,   \* permission_tx: the agent whose channel it leads to
  held,     \* the answer whose sender holds the lock of permission_tx
  chan,     \* the permission channel of the agent's client
  ask,      \* the permission requests
  line,     \* requests at the lock of permission_rx; the head has it
  replies,  \* how many answers the user gave
  faults,   \* how many processes failed by themselves
  said,     \* ghost: the answers given that choose no refusal
  crossed   \* ghost: the last start overlapped another start or a stop

callVars   == <<call, got, queue>>
agentVars  == <<agent, spawned, alive, mute, status>>
workerVars == <<callVars, stage, agentVars, faults>>
askVars    == <<ask, line, chan>>
userVars   == <<replies, said>>
vars == <<workerVars, sender, held, askVars, userVars, crossed>>

Init ==
  /\ call = [x \in Calls |-> "none"] /\ got = [x \in Calls |-> 0] /\ queue = <<>>
  /\ stage = "rest" /\ agent = 0 /\ spawned = 0 /\ alive = {} /\ mute = {}
  /\ status = 0 /\ sender = 0 /\ held = NoAnswer /\ chan = <<>>
  /\ ask = [q \in Asks |-> "new"] /\ line = <<>>
  /\ replies = 0 /\ faults = 0 /\ said = {} /\ crossed = FALSE

-----------------------------------------------------------------------------
(* Calls that have not returned and end by changing the sender.  A call's  *)
(* command is what call says until the worker answered; then the call is   *)
(* started, stopped or done until its own code went on.                    *)
Switching == {x \in Calls : call[x] \in {"start", "stop", "started", "stopped"}}

AfterAnswer == [start |-> "started", stop |-> "stopped", send |-> "done", query |-> "done"]

(* The worker answers the command it executes.                             *)
Answer(p) ==
  LET x == Head(queue) IN
  /\ queue' = Tail(queue)
  /\ call' = [call EXCEPT ![x] = AfterAnswer[call[x]]]
  /\ got' = [got EXCEPT ![x] = p]

Executes(commands) == queue # <<>> /\ call[Head(queue)] \in commands

(* The agent's next message is handed on.                                  *)
Free == Len(line) < Handlers
Responds(p) == p \in alive /\ p \notin mute /\ Free

-----------------------------------------------------------------------------
(* start_agent, stop_agent, send_prompt or cancel_prompt, and the requests *)
(* set_mode, set_config_option and list_sessions.                          *)
Issue(x, command) ==
  /\ call[x] = "none" /\ \A y \in Calls : y < x => call[y] # "none"
  /\ call' = [call EXCEPT ![x] = command]
  /\ queue' = Append(queue, x)
  /\ crossed' = IF command = "start" THEN Switching # {}
                ELSE crossed \/ (command = "stop" /\ Switching # {})
  /\ UNCHANGED <<got, stage, agentVars, faults, sender, held, askVars, userVars>>

(* Mutant of StartReturns: a sender that is there already is kept.         *)
StartReturnsOnce(x) ==
  /\ call[x] = "started"
  /\ IF got[x] = 0 THEN UNCHANGED sender
     ELSE held = NoAnswer /\ sender' = IF sender = 0 THEN got[x] ELSE sender
  /\ call' = [call EXCEPT ![x] = "returned"]
  /\ UNCHANGED <<got, queue, stage, agentVars, faults, held, askVars, userVars, crossed>>

(* start_agent after the worker's answer: under the lock of permission_tx  *)
(* the sender becomes the new agent's.                                     *)
StartReturns(x) ==
  /\ call[x] = "started"
  /\ IF got[x] = 0 THEN UNCHANGED sender ELSE held = NoAnswer /\ sender' = got[x]
  /\ call' = [call EXCEPT ![x] = "returned"]
  /\ UNCHANGED <<got, queue, stage, agentVars, faults, held, askVars, userVars, crossed>>

(* stop_agent: the sender is cleared.                                      *)
StopReturns(x) ==
  /\ call[x] = "stopped" /\ held = NoAnswer
  /\ sender' = 0
  /\ call' = [call EXCEPT ![x] = "returned"]
  /\ UNCHANGED <<got, queue, stage, agentVars, faults, held, askVars, userVars, crossed>>

OtherReturns(x) ==
  /\ call[x] = "done"
  /\ call' = [call EXCEPT ![x] = "returned"]
  /\ UNCHANGED <<got, queue, stage, agentVars, faults, sender, held, askVars, userVars, crossed>>

-----------------------------------------------------------------------------
(* AcpWorker::stop up to the answer to session/close, which it awaits when *)
(* the agent supports that request.                                        *)
AskClose ==
  /\ stage = "rest" /\ Executes({"start", "stop"}) /\ agent # 0
  /\ stage' = "closing"
  /\ UNCHANGED <<callVars, agentVars, faults, sender, held, askVars, userVars, crossed>>

(* It was not asked, it answered, or its connection failed.                *)
Closed == \/ stage = "rest"
          \/ stage = "closing" /\ (Responds(agent) \/ agent \notin alive)

(* Mutant of Forget: requests of the client stay as they are.              *)
ForgetKeeps == agent' = 0 /\ line' = <<>> /\ chan' = <<>> /\ UNCHANGED ask

(* The agent's client goes with its connection: the handlers of its        *)
(* requests are dropped and its channel is closed.                         *)
Forget ==
  /\ agent' = 0
  /\ ask' = [q \in Asks |-> IF ask[q] = "waiting" THEN "dropped" ELSE ask[q]]
  /\ line' = <<>> /\ chan' = <<>>

(* Stop: the process and its group are killed.                             *)
WorkerStops ==
  /\ Executes({"stop"}) /\ Closed
  /\ Forget /\ alive' = alive \ {agent} /\ status' = 0
  /\ stage' = "rest" /\ Answer(0)
  /\ UNCHANGED <<spawned, mute, faults, sender, held, userVars, crossed>>

(* Mutant of WorkerSpawns: initialize does not stop the agent first.       *)
WorkerSpawnsBeside ==
  /\ Executes({"start"}) /\ Closed /\ spawned < MaxSpawns
  /\ Forget /\ spawned' = spawned + 1 /\ alive' = alive \cup {spawned + 1}
  /\ stage' = "booting"
  /\ UNCHANGED <<callVars, mute, status, faults, sender, held, userVars, crossed>>

(* Initialize: the agent is stopped first, then a process is spawned.      *)
WorkerSpawns ==
  /\ Executes({"start"}) /\ Closed /\ spawned < MaxSpawns
  /\ Forget /\ spawned' = spawned + 1
  /\ alive' = (alive \ {agent}) \cup {spawned + 1}
  /\ stage' = "booting"
  /\ UNCHANGED <<callVars, mute, status, faults, sender, held, userVars, crossed>>

(* Initialize: the program cannot be run.                                  *)
SpawnFails ==
  /\ Executes({"start"}) /\ Closed
  /\ Forget /\ alive' = alive \ {agent} /\ status' = 0
  /\ stage' = "rest" /\ Answer(0)
  /\ UNCHANGED <<spawned, mute, faults, sender, held, userVars, crossed>>

(* The agent answered initialize and session/new, load or resume.          *)
Boots ==
  /\ stage = "booting" /\ spawned \in alive /\ spawned \notin mute
  /\ agent' = spawned /\ status' = spawned
  /\ stage' = "rest" /\ Answer(spawned)
  /\ UNCHANGED <<spawned, alive, mute, faults, sender, held, askVars, userVars, crossed>>

(* One of them failed or exceeded its time: the process is killed.         *)
BootFails ==
  /\ stage = "booting"
  /\ alive' = alive \ {spawned} /\ status' = 0
  /\ stage' = "rest" /\ Answer(0)
  /\ UNCHANGED <<agent, spawned, mute, faults, sender, held, askVars, userVars, crossed>>

(* A prompt turn is begun as a task of its own, a cancel is a notification;*)
(* the answer to any other request of the window is awaited.               *)
WorkerSends ==
  /\ stage = "rest" /\ Executes({"send", "query"}) /\ agent \in alive
  /\ IF Executes({"query"}) THEN stage' = "querying" /\ UNCHANGED callVars
     ELSE Answer(0) /\ UNCHANGED stage
  /\ UNCHANGED <<agentVars, faults, sender, held, askVars, userVars, crossed>>

QueryDone ==
  /\ stage = "querying" /\ (Responds(agent) \/ agent \notin alive)
  /\ stage' = "rest" /\ Answer(0)
  /\ UNCHANGED <<agentVars, faults, sender, held, askVars, userVars, crossed>>

(* No active connection.                                                   *)
WorkerRefuses ==
  /\ stage = "rest" /\ Executes({"send", "query"}) /\ agent = 0
  /\ Answer(0)
  /\ UNCHANGED <<stage, agentVars, faults, sender, held, askVars, userVars, crossed>>

(* ensure_process_alive, at the health check of each second or before a    *)
(* command: an agent that exited is forgotten.                             *)
FindsExit ==
  /\ stage = "rest" /\ agent # 0 /\ agent \notin alive
  /\ Forget /\ status' = 0
  /\ \/ UNCHANGED callVars
     \/ Executes({"send", "query"}) /\ Answer(0)
  /\ UNCHANGED <<stage, spawned, alive, mute, faults, sender, held, userVars, crossed>>

-----------------------------------------------------------------------------
(* respond_to_permission: the lock of permission_tx is held while the      *)
(* answer waits for room in the channel.  A channel whose client is gone   *)
(* takes nothing.                                                          *)
Leads == sender # 0 /\ sender = agent
Room  == Len(chan) < Cap

(* The window shows a button for each option, and two of its own, Deny and *)
(* Allow, when a request offers none.  A refusal that names no option is   *)
(* told from the others only where it cannot select one that refuses.      *)
CanSay(q, say) ==
  /\ say = "allow" => "allow" \in Offers[q] \/ Offers[q] = {}
  /\ say = "deny" => "reject" \notin Offers[q]

(* Mutant of Respond: the channel is not bounded.                          *)
RespondAtOnce(q, say) ==
  /\ ask[q] # "new" /\ CanSay(q, say) /\ replies < MaxReplies /\ held = NoAnswer
  /\ replies' = replies + 1
  /\ LET answer == [ask |-> q, say |-> say] IN
     /\ said' = IF say = "refuse" THEN said ELSE said \cup {answer}
     /\ chan' = IF Leads THEN Append(chan, answer) ELSE chan
  /\ UNCHANGED <<workerVars, sender, held, ask, line, crossed>>

(* The user answers a request that was shown, once or again, in time or    *)
(* not.                                                                    *)
Respond(q, say) ==
  /\ ask[q] # "new" /\ CanSay(q, say) /\ replies < MaxReplies /\ held = NoAnswer
  /\ replies' = replies + 1
  /\ LET answer == [ask |-> q, say |-> say] IN
     /\ said' = IF say = "refuse" THEN said ELSE said \cup {answer}
     /\ IF Leads /\ ~Room THEN held' = answer /\ UNCHANGED chan
        ELSE /\ chan' = IF Leads THEN Append(chan, answer) ELSE chan
             /\ UNCHANGED held
  /\ UNCHANGED <<workerVars, sender, ask, line, crossed>>

(* There is room for the answer, or the channel was closed.                *)
Delivers ==
  /\ held # NoAnswer /\ (Leads => Room)
  /\ chan' = IF Leads THEN Append(chan, held) ELSE chan
  /\ held' = NoAnswer
  /\ UNCHANGED <<workerVars, sender, ask, line, userVars, crossed>>

-----------------------------------------------------------------------------
(* request_permission: the request is shown, then its handler waits for    *)
(* the lock of the receiver.                                               *)
AskPermission(q) ==
  /\ ask[q] = "new" /\ \A o \in Asks : o < q => ask[o] # "new"
  /\ Responds(agent)
  /\ ask' = [ask EXCEPT ![q] = "waiting"] /\ line' = Append(line, q)
  /\ UNCHANGED <<workerVars, sender, held, chan, userVars, crossed>>

(* What the agent is told.  A refusal that names no option selects one     *)
(* that refuses, or else the first there is, which allows if all do; an    *)
(* Allow that names none is a cancel, for then none was offered.           *)
Outcome(q, say) ==
  IF \/ say = "allow" /\ Offers[q] # {}
     \/ say = "deny" /\ Offers[q] = {"allow"}
  THEN "allow" ELSE "refuse"

Settle(outcome) == ask' = [ask EXCEPT ![Head(line)] = outcome] /\ line' = Tail(line)

(* Mutant of Receive: the first answer is taken for this request's.        *)
ReceiveAny ==
  /\ line # <<>> /\ chan # <<>>
  /\ Settle(Outcome(Head(line), Head(chan).say)) /\ chan' = Tail(chan)
  /\ UNCHANGED <<workerVars, sender, held, userVars, crossed>>

(* The holder of the receiver takes an answer, and throws it away when it  *)
(* is to another request.                                                  *)
Receive ==
  /\ line # <<>> /\ chan # <<>>
  /\ IF Head(chan).ask = Head(line) THEN Settle(Outcome(Head(line), Head(chan).say))
     ELSE UNCHANGED <<ask, line>>
  /\ chan' = Tail(chan)
  /\ UNCHANGED <<workerVars, sender, held, userVars, crossed>>

(* Mutant of Expire: only a request whose agent is known to hang expires.  *)
ExpireMute ==
  /\ line # <<>> /\ agent \in mute /\ Settle("refuse")
  /\ UNCHANGED <<workerVars, sender, held, chan, userVars, crossed>>

(* Five minutes at the receiver without an answer: it is cancelled.        *)
Expire ==
  /\ line # <<>> /\ Settle("refuse")
  /\ UNCHANGED <<workerVars, sender, held, chan, userVars, crossed>>

-----------------------------------------------------------------------------
(* The process exits, or answers nothing any more.                         *)
AgentExits(p) ==
  /\ p \in alive /\ faults < MaxFaults
  /\ alive' = alive \ {p} /\ faults' = faults + 1
  /\ UNCHANGED <<callVars, stage, agent, spawned, mute, status, sender, held,
                 askVars, userVars, crossed>>

AgentHangs(p) ==
  /\ p \in alive /\ p \notin mute /\ faults < MaxFaults
  /\ mute' = mute \cup {p} /\ faults' = faults + 1
  /\ UNCHANGED <<callVars, stage, agent, spawned, alive, status, sender, held,
                 askVars, userVars, crossed>>

-----------------------------------------------------------------------------
Worker ==
  \/ AskClose \/ WorkerStops \/ WorkerSpawns \/ SpawnFails \/ Boots \/ BootFails
  \/ WorkerSends \/ QueryDone \/ WorkerRefuses \/ FindsExit
Returns(x) == StartReturns(x) \/ StopReturns(x) \/ OtherReturns(x)
User == \E q \in Asks, say \in Says : Respond(q, say)

Next ==
  \/ \E x \in Calls, command \in Commands : Issue(x, command)
  \/ \E x \in Calls : Returns(x)
  \/ Worker \/ User \/ Delivers \/ Receive \/ Expire
  \/ \E q \in Asks : AskPermission(q)
  \/ \E p \in Agents : AgentExits(p) \/ AgentHangs(p)

Spec == Init /\ [][Next]_vars

(* The worker and the code after an await go on, and the timers of booting *)
(* and of permission requests run out.  The user and the agent owe nothing *)
(* but what Responds says of an agent that is not mute.                    *)
Fairness ==
  /\ WF_vars(Worker) /\ WF_vars(Delivers) /\ WF_vars(Receive \/ Expire)
  /\ WF_vars(\E x \in Calls : Returns(x))
FairSpec == Spec /\ Fairness

-----------------------------------------------------------------------------
(* Types, and the bounds of the channel and of the handlers.               *)
TypeOK ==
  /\ call \in [Calls -> Commands \cup {"none", "started", "stopped", "done", "returned"}]
  /\ got \in [Calls -> MaybeAgent] /\ queue \in Seq(Calls)
  /\ stage \in {"rest", "closing", "booting", "querying"}
  /\ agent \in MaybeAgent /\ spawned \in MaybeAgent /\ status \in MaybeAgent
  /\ sender \in MaybeAgent /\ alive \subseteq Agents /\ mute \subseteq Agents
  /\ ask \in [Asks -> {"new", "waiting", "allow", "refuse", "dropped"}]
  /\ line \in Seq(Asks) /\ Len(line) <= Handlers
  /\ chan \in Seq(Answers) /\ Len(chan) <= Cap /\ held \in Answers \cup {NoAnswer}
  /\ replies \in 0 .. MaxReplies /\ faults \in 0 .. MaxFaults
  /\ said \subseteq Answers /\ crossed \in BOOLEAN

(* No agent process runs that the worker has lost: whatever starts, stops, *)
(* fails or exits in whatever order, only the worker's agent and the one   *)
(* it is booting are alive.                                                *)
NoStrayAgent ==
  alive \subseteq {agent} \cup (IF stage = "booting" THEN {spawned} ELSE {})

(* A tool call goes ahead only if the user allowed that very request,      *)
(* whatever answers to expired, dropped or already answered requests are   *)
(* still on their way; or if it was refused without naming an option and   *)
(* every option the agent offered allows, the fallback of                  *)
(* request_permission to the first of them.                                *)
OnlyAllowedRun ==
  \A q \in Asks : ask[q] = "allow" =>
    \/ [ask |-> q, say |-> "allow"] \in said
    \/ Offers[q] = {"allow"} /\ [ask |-> q, say |-> "deny"] \in said

(* Once every start and stop has returned the user's answers reach the     *)
(* running agent, unless the last start overlapped another start or a      *)
(* stop: the code after the worker's answer runs in any order then, and    *)
(* the last of it decides where permission_tx leads.                       *)
AnswersReachAgent == agent # 0 /\ Switching = {} /\ ~crossed => sender = agent

(* Every call returns, unless the worker awaits an agent that never        *)
(* answers session/close or a query, the requests without a timeout, or    *)
(* calls overlapped and an answer waits for room under the lock the caller *)
(* needs: handlers that all wait for the user hold nobody for ever, and    *)
(* such an answer none but those.  The calls are bounded, so that none is  *)
(* pending again and again means that each one returns.                    *)
WorkerStuck == stage \in {"closing", "querying"} /\ agent \in mute
LockStuck   == crossed /\ held # NoAnswer
CallsReturn ==
  []<>((\A x \in Calls : call[x] \in {"none", "returned"}) \/ WorkerStuck \/ LockStuck)

(* Every permission request is settled, even if its answer was lost or its *)
(* agent hangs.                                                            *)
AsksSettle == []<>(\A q \in Asks : ask[q] # "waiting")
=============================================================================
