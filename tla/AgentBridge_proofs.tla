-------------------------- MODULE AgentBridge_proofs -------------------------
(***************************************************************************)
(* The invariants of AgentBridge, for any number of calls, requests,       *)
(* answers and processes, any bound of the permission channel, any number  *)
(* of handlers and any behaviour of the agent.                             *)
(***************************************************************************)
EXTENDS AgentBridge, TLAPS

-----------------------------------------------------------------------------
(* Types.  What the worker awaits tells which command it executes: the     *)
(* head of the queue cannot change under it.                               *)
StageFits ==
  /\ stage = "booting" => agent = 0 /\ Executes({"start"})
  /\ stage = "closing" => agent # 0 /\ Executes({"start", "stop"})
  /\ stage = "querying" => agent # 0 /\ Executes({"query"})

QueuedIsCalled == \A i \in 1 .. Len(queue) : call[queue[i]] # "none"

Typed == TypeOK /\ StageFits /\ QueuedIsCalled

LEMMA InitTyped == Init => Typed
  <1> SUFFICES ASSUME Init PROVE Typed
    OBVIOUS
  <1>1. 0 \in MaybeAgent /\ 0 \in 0 .. MaxReplies /\ 0 \in 0 .. MaxFaults
    BY ConstantsAssumption DEF MaybeAgent
  <1>2. Len(line) = 0 /\ Len(chan) = 0 /\ 0 <= Handlers /\ 0 <= Cap
    BY ConstantsAssumption DEF Init
  <1>3. /\ call \in [Calls -> Commands \cup {"none", "started", "stopped", "done", "returned"}]
        /\ got \in [Calls -> MaybeAgent]
        /\ ask \in [Asks -> {"new", "waiting", "allow", "refuse", "dropped"}]
    BY <1>1 DEF Init
  <1>4. queue \in Seq(Calls) /\ line \in Seq(Asks) /\ chan \in Seq(Answers)
    BY DEF Init
  <1>5. TypeOK
    BY <1>1, <1>2, <1>3, <1>4 DEF Init, TypeOK
  <1> QED BY <1>5 DEF Init, Typed, StageFits, QueuedIsCalled

(* The worker's answer keeps the types of calls and queue, and the next    *)
(* command becomes the head.                                               *)
LEMMA AnswerTyped ==
  ASSUME Typed, NEW p \in MaybeAgent, Answer(p), Executes(Commands)
  PROVE  /\ call' \in [Calls -> Commands \cup {"none", "started", "stopped", "done", "returned"}]
         /\ got' \in [Calls -> MaybeAgent] /\ queue' \in Seq(Calls) /\ QueuedIsCalled'
  <1> DEFINE x == Head(queue)
  <1>1. x \in Calls /\ Tail(queue) \in Seq(Calls) /\ call[x] \in Commands
    BY DEF Typed, TypeOK, Executes
  <1>2. AfterAnswer[call[x]] \in {"started", "stopped", "done"}
    BY <1>1 DEF AfterAnswer, Commands
  <1>3. /\ call' = [call EXCEPT ![x] = AfterAnswer[call[x]]]
        /\ got' = [got EXCEPT ![x] = p] /\ queue' = Tail(queue)
    BY DEF Answer
  <1>4. call' \in [Calls -> Commands \cup {"none", "started", "stopped", "done", "returned"}]
    BY <1>1, <1>2, <1>3 DEF Typed, TypeOK
  <1>5. \A y \in Calls : call[y] # "none" => call'[y] # "none"
    BY <1>1, <1>2, <1>3 DEF Typed, TypeOK
  <1>6. \A i \in 1 .. Len(queue') : i + 1 \in 1 .. Len(queue) /\ queue'[i] = queue[i + 1]
    BY <1>3 DEF Typed, TypeOK, Executes
  <1>7. QueuedIsCalled'
    BY <1>5, <1>6 DEF Typed, TypeOK, QueuedIsCalled
  <1> QED BY <1>1, <1>3, <1>4, <1>7 DEF Typed, TypeOK

LEMMA AppendKeepsHead ==
  ASSUME NEW S, NEW s \in Seq(S), NEW e \in S, s # <<>>
  PROVE  Head(Append(s, e)) = Head(s) /\ Head(s) \in S /\ Append(s, e) # <<>>
  OBVIOUS

(* What the calls do beside the worker leaves its command alone.           *)
LEMMA CallTyped ==
  ASSUME Typed, NEW x \in Calls, Returns(x) \/ \E command \in Commands : Issue(x, command)
  PROVE  Typed'
  <1> USE DEF Typed, TypeOK, StageFits, QueuedIsCalled, Executes, agentVars, askVars, userVars
  <1>1. ASSUME NEW command \in Commands, Issue(x, command) PROVE Typed'
    <2>1. /\ call[x] = "none" /\ call' = [call EXCEPT ![x] = command]
          /\ queue' = Append(queue, x) /\ crossed' \in BOOLEAN
          /\ UNCHANGED <<got, stage, agentVars, faults, sender, held, askVars, userVars>>
      BY <1>1 DEF Issue
    <2>2. queue' \in Seq(Calls)
      BY <2>1
    <2>3. \A y \in Calls : call[y] # "none" => call'[y] = call[y]
      BY <2>1
    <2>4. queue # <<>> => Head(queue') = Head(queue) /\ Head(queue) \in Calls /\ queue' # <<>>
      <3>1. queue \in Seq(Calls) /\ queue' = Append(queue, x)
        BY <2>1
      <3> QED BY <3>1, AppendKeepsHead
    <2>5. QueuedIsCalled'
      BY <2>1, <2>3 DEF Commands
    <2>6. StageFits'
      BY <2>1, <2>3, <2>4
    <2>7. call' \in [Calls -> Commands \cup {"none", "started", "stopped", "done", "returned"}]
      BY <2>1
    <2>8. TypeOK'
      BY <2>1, <2>2, <2>7
    <2> QED BY <2>5, <2>6, <2>8
  <1>2. CASE Returns(x)
    <2>1. /\ call[x] \in {"started", "stopped", "done"}
          /\ call' = [call EXCEPT ![x] = "returned"]
          /\ sender' \in {sender, 0, got[x]}
          /\ UNCHANGED <<got, queue, stage, agentVars, faults, held, askVars, userVars, crossed>>
      BY <1>2 DEF Returns, StartReturns, StopReturns, OtherReturns
    <2>2. QueuedIsCalled'
      BY <2>1
    <2>3. StageFits'
      <3>1. queue # <<>> => Head(queue) \in Calls
        OBVIOUS
      <3> QED BY <2>1, <3>1
    <2>4. sender' \in MaybeAgent
      BY <2>1, ConstantsAssumption DEF MaybeAgent
    <2> QED BY <2>1, <2>2, <2>3, <2>4
  <1> QED BY <1>1, <1>2

LEMMA ForgetTyped ==
  ASSUME Typed, Forget
  PROVE  /\ agent' \in MaybeAgent
         /\ ask' \in [Asks -> {"new", "waiting", "allow", "refuse", "dropped"}]
         /\ line' \in Seq(Asks) /\ Len(line') <= Handlers
         /\ chan' \in Seq(Answers) /\ Len(chan') <= Cap
  BY ConstantsAssumption DEF Typed, TypeOK, Forget, MaybeAgent

(* What has a type beside calls, queue and stage.                          *)
OtherTypes ==
  /\ agent \in MaybeAgent /\ spawned \in MaybeAgent /\ status \in MaybeAgent
  /\ sender \in MaybeAgent /\ alive \subseteq Agents /\ mute \subseteq Agents
  /\ ask \in [Asks -> {"new", "waiting", "allow", "refuse", "dropped"}]
  /\ line \in Seq(Asks) /\ Len(line) <= Handlers
  /\ chan \in Seq(Answers) /\ Len(chan) <= Cap /\ held \in Answers \cup {NoAnswer}
  /\ replies \in 0 .. MaxReplies /\ faults \in 0 .. MaxFaults
  /\ said \subseteq Answers /\ crossed \in BOOLEAN

LEMMA WorkerTyped ==
  ASSUME Typed, Worker
  PROVE  Typed'
  <1>z. 0 \in MaybeAgent /\ {"start"} \subseteq Commands /\ {"stop"} \subseteq Commands
        /\ {"query"} \subseteq Commands /\ {"send", "query"} \subseteq Commands
    BY ConstantsAssumption DEF MaybeAgent, Commands
  <1>e. \A C : C \subseteq Commands /\ Executes(C) => Executes(Commands)
    BY DEF Executes
  <1>s. ASSUME NEW C \in SUBSET Commands, Executes(C), NEW p \in MaybeAgent, Answer(p),
               OtherTypes', stage' = "rest"
        PROVE  Typed'
    BY <1>s, <1>e, AnswerTyped DEF Typed, TypeOK, StageFits, OtherTypes
  <1>1. CASE AskClose
    BY <1>1 DEF Typed, TypeOK, StageFits, QueuedIsCalled, AskClose, Executes, callVars, agentVars,
       askVars, userVars
  <1>2. CASE WorkerStops \/ SpawnFails
    <2>1. /\ Forget /\ alive' = alive \ {agent} /\ status' = 0 /\ stage' = "rest" /\ Answer(0)
          /\ UNCHANGED <<spawned, mute, faults, sender, held, userVars, crossed>>
      BY <1>2 DEF WorkerStops, SpawnFails
    <2>2. \E C \in SUBSET Commands : Executes(C)
      BY <1>2, <1>z DEF WorkerStops, SpawnFails
    <2> QED BY <1>s, <1>z, <2>1, <2>2, ForgetTyped DEF Typed, TypeOK, OtherTypes, userVars
  <1>3. CASE WorkerSpawns
    <2>1. /\ Executes({"start"}) /\ spawned < MaxSpawns
          /\ Forget /\ spawned' = spawned + 1
          /\ alive' = (alive \ {agent}) \cup {spawned + 1} /\ stage' = "booting"
          /\ UNCHANGED <<callVars, mute, status, faults, sender, held, userVars, crossed>>
      BY <1>3 DEF WorkerSpawns
    <2>2. spawned + 1 \in Agents /\ spawned + 1 \in MaybeAgent
      BY <2>1, ConstantsAssumption DEF Typed, TypeOK, Agents, MaybeAgent
    <2>3. agent' = 0
      BY <2>1 DEF Forget
    <2> QED BY <2>1, <2>2, <2>3, ForgetTyped
            DEF Typed, TypeOK, StageFits, QueuedIsCalled, Executes, callVars, userVars
  <1>4. CASE Boots \/ BootFails
    <2>1. stage = "booting" /\ Executes({"start"})
      BY <1>4 DEF Boots, BootFails, Typed, StageFits
    <2>2. \E p \in MaybeAgent : Answer(p)
      BY <1>4, <1>z DEF Boots, BootFails, Typed, TypeOK
    <2> QED BY <1>4, <1>s, <1>z, <2>1, <2>2
            DEF Boots, BootFails, Typed, TypeOK, OtherTypes, askVars, userVars
  <1>5. CASE WorkerSends
    <2>1. CASE Executes({"query"})
      <3>1. stage' = "querying" /\ UNCHANGED <<callVars, agentVars, faults, sender, held, askVars, userVars, crossed>>
        BY <1>5, <2>1 DEF WorkerSends
      <3>2. agent # 0
        BY <1>5 DEF WorkerSends, Typed, TypeOK, Agents
      <3> QED BY <2>1, <3>1, <3>2
              DEF Typed, TypeOK, StageFits, QueuedIsCalled, Executes, callVars, agentVars, askVars, userVars
    <2>2. CASE ~Executes({"query"})
      <3>1. /\ Executes({"send", "query"}) /\ Answer(0) /\ stage = "rest" /\ UNCHANGED stage
            /\ UNCHANGED <<agentVars, faults, sender, held, askVars, userVars, crossed>>
        BY <1>5, <2>2 DEF WorkerSends
      <3> QED BY <1>s, <1>z, <3>1 DEF Typed, TypeOK, OtherTypes, agentVars, askVars, userVars
    <2> QED BY <2>1, <2>2
  <1>6. CASE QueryDone
    <2>1. Executes({"query"})
      BY <1>6 DEF QueryDone, Typed, StageFits
    <2> QED BY <1>6, <1>s, <1>z, <2>1 DEF QueryDone, Typed, TypeOK, OtherTypes, agentVars, askVars, userVars
  <1>7. CASE WorkerRefuses
    BY <1>7, <1>s, <1>z DEF WorkerRefuses, Typed, TypeOK, OtherTypes, agentVars, askVars, userVars
  <1>8. CASE FindsExit
    <2>1. /\ stage = "rest" /\ Forget /\ status' = 0
          /\ UNCHANGED <<stage, spawned, alive, mute, faults, sender, held, userVars, crossed>>
      BY <1>8 DEF FindsExit
    <2>2. CASE UNCHANGED callVars
      BY <1>z, <2>1, <2>2, ForgetTyped
         DEF Typed, TypeOK, StageFits, QueuedIsCalled, callVars, userVars
    <2>3. CASE Executes({"send", "query"}) /\ Answer(0)
      BY <1>s, <1>z, <2>1, <2>3, ForgetTyped DEF Typed, TypeOK, OtherTypes, userVars
    <2> QED BY <1>8, <2>2, <2>3 DEF FindsExit
  <1> QED BY <1>1, <1>2, <1>3, <1>4, <1>5, <1>6, <1>7, <1>8 DEF Worker

(* Answers, permission requests and the agent's failures leave calls and   *)
(* worker alone.                                                           *)
PermissionStep ==
  \/ User \/ Delivers \/ Receive \/ Expire \/ \E q \in Asks : AskPermission(q)
FaultStep == \E p \in Agents : AgentExits(p) \/ AgentHangs(p)

PermissionTypes ==
  /\ held \in Answers \cup {NoAnswer}
  /\ chan \in Seq(Answers) /\ Len(chan) <= Cap
  /\ ask \in [Asks -> {"new", "waiting", "allow", "refuse", "dropped"}]
  /\ line \in Seq(Asks) /\ Len(line) <= Handlers
  /\ replies \in 0 .. MaxReplies /\ said \subseteq Answers

LEMMA PermissionTyped ==
  ASSUME Typed, PermissionStep
  PROVE  Typed'
  <1> SUFFICES PermissionTypes'
    <2>1. UNCHANGED <<workerVars, sender, crossed>>
      BY DEF PermissionStep, User, Respond, Delivers, Receive, Expire, AskPermission
    <2> QED BY <2>1 DEF Typed, TypeOK, StageFits, QueuedIsCalled, Executes,
                        workerVars, callVars, agentVars, PermissionTypes
  <1> USE ConstantsAssumption DEF Typed, TypeOK, PermissionTypes
  <1>1. ASSUME NEW q \in Asks, NEW say \in Says, Respond(q, say) PROVE PermissionTypes'
    <2> DEFINE answer == [ask |-> q, say |-> say]
    <2>1. answer \in Answers
      BY DEF Answers
    <2>2. CASE Leads /\ ~Room
      BY <1>1, <2>1, <2>2 DEF Respond
    <2>3. CASE ~(Leads /\ ~Room)
      <3>1. /\ chan' = IF Leads THEN Append(chan, answer) ELSE chan
            /\ UNCHANGED <<held, ask, line>> /\ replies' = replies + 1 /\ replies < MaxReplies
            /\ said' \in {said, said \cup {answer}}
        BY <1>1, <2>3 DEF Respond
      <3> QED BY <2>1, <2>3, <3>1 DEF Room
    <2> QED BY <2>2, <2>3
  <1>2. CASE Delivers
    <2>1. held \in Answers
      BY <1>2 DEF Delivers
    <2> QED BY <1>2, <2>1 DEF Delivers, Room, userVars
  <1>3. CASE Receive
    <2>1. /\ Head(line) \in Asks /\ Tail(line) \in Seq(Asks) /\ Len(Tail(line)) <= Len(line)
          /\ Head(chan) \in Answers /\ Tail(chan) \in Seq(Answers) /\ Len(Tail(chan)) <= Len(chan)
      BY <1>3 DEF Receive
    <2> DEFINE o == Outcome(Head(line), Head(chan).say)
    <2>2. o \in {"allow", "refuse"}
      BY DEF Outcome
    <2>3. \/ ask' = [ask EXCEPT ![Head(line)] = o] /\ line' = Tail(line)
          \/ UNCHANGED <<ask, line>>
      BY <1>3 DEF Receive, Settle
    <2> HIDE DEF o
    <2>4. chan' = Tail(chan) /\ UNCHANGED <<held, userVars>>
      BY <1>3 DEF Receive
    <2>5. ask' \in [Asks -> {"new", "waiting", "allow", "refuse", "dropped"}]
      BY <2>1, <2>2, <2>3
    <2>6. chan' \in Seq(Answers) /\ Len(chan') <= Cap
      BY <2>1, <2>4
    <2>7. line' \in Seq(Asks) /\ Len(line') <= Handlers
      <3>1. Len(line) \in Nat /\ Len(Tail(line)) \in Nat /\ Len(line) <= Handlers
        BY <2>1
      <3>2. line' \in {line, Tail(line)}
        BY <2>3
      <3>3. CASE line' = line
        BY <3>1, <3>3
      <3>4. CASE line' = Tail(line)
        <4>1. Len(line') <= Handlers
          BY <2>1, <3>1, <3>4
        <4> QED BY <2>1, <3>4, <4>1
      <3> QED BY <3>2, <3>3, <3>4
    <2> QED BY <2>4, <2>5, <2>6, <2>7 DEF userVars
  <1>4. CASE Expire
    <2>1. Head(line) \in Asks /\ Tail(line) \in Seq(Asks) /\ Len(Tail(line)) <= Len(line)
      BY <1>4 DEF Expire
    <2> QED BY <1>4, <2>1 DEF Expire, Settle, userVars
  <1>5. ASSUME NEW q \in Asks, AskPermission(q) PROVE PermissionTypes'
    BY <1>5 DEF AskPermission, Responds, Free, userVars
  <1> QED BY <1>1, <1>2, <1>3, <1>4, <1>5 DEF PermissionStep, User

LEMMA FaultTyped ==
  ASSUME Typed, FaultStep
  PROVE  Typed'
  BY ConstantsAssumption
     DEF Typed, TypeOK, StageFits, QueuedIsCalled, Executes, FaultStep, AgentExits, AgentHangs,
         callVars, askVars, userVars

LEMMA NextTyped ==
  ASSUME Typed, [Next]_vars
  PROVE  Typed'
  <1>1. CASE UNCHANGED vars
    BY <1>1 DEF vars, workerVars, callVars, agentVars, askVars, userVars, Typed, TypeOK, StageFits,
                QueuedIsCalled, Executes
  <1> QED BY <1>1, CallTyped, WorkerTyped, PermissionTyped, FaultTyped
          DEF Next, PermissionStep, FaultStep

LEMMA AlwaysTyped == Spec => []Typed
  BY InitTyped, NextTyped, PTL DEF Spec

(* Every variable keeps its type, the channel and the handlers their       *)
(* bounds.                                                                 *)
THEOREM TypeCorrect == Spec => []TypeOK
  <1>1. Typed => TypeOK
    BY DEF Typed
  <1> QED BY <1>1, AlwaysTyped, PTL

-----------------------------------------------------------------------------
(* The processes.  The worker has no agent while it boots one, so the      *)
(* process it adopts or kills is the only one.                             *)
LEMMA NextNoStray ==
  ASSUME Typed, NoStrayAgent, [Next]_vars
  PROVE  NoStrayAgent'
  <1> USE DEF NoStrayAgent
  <1>1. CASE Worker
    <2> USE DEF callVars, agentVars, askVars, userVars
    <2>1. CASE AskClose \/ WorkerSends \/ QueryDone \/ WorkerRefuses
      <3>1. UNCHANGED <<agent, alive>> /\ stage # "booting"
        BY <2>1 DEF AskClose, WorkerSends, QueryDone, WorkerRefuses
      <3> QED BY <3>1
    <2>2. CASE WorkerStops \/ SpawnFails \/ FindsExit
      <3>1. Closed \/ stage = "rest"
        BY <2>2 DEF WorkerStops, SpawnFails, FindsExit
      <3>2. alive' = alive \ {agent} \/ (alive' = alive /\ agent \notin alive)
        BY <2>2 DEF WorkerStops, SpawnFails, FindsExit
      <3> QED BY <3>1, <3>2 DEF Closed
    <2>3. CASE WorkerSpawns
      <3>1. /\ stage # "booting" /\ stage' = "booting" /\ spawned' = spawned + 1
            /\ alive' = (alive \ {agent}) \cup {spawned + 1}
        BY <2>3 DEF WorkerSpawns, Closed
      <3> QED BY <3>1
    <2>4. CASE Boots
      <3>1. agent \notin alive
        BY <2>4 DEF Boots, Typed, TypeOK, StageFits, Agents
      <3> QED BY <2>4, <3>1 DEF Boots
    <2>5. CASE BootFails
      BY <2>5 DEF BootFails
    <2> QED BY <1>1, <2>1, <2>2, <2>3, <2>4, <2>5 DEF Worker
  <1>2. CASE \E x \in Calls : Returns(x) \/ \E command \in Commands : Issue(x, command)
    <2>1. UNCHANGED <<agent, alive, stage, spawned>>
      BY <1>2 DEF Returns, StartReturns, StopReturns, OtherReturns, Issue, agentVars
    <2> QED BY <2>1
  <1>3. CASE PermissionStep
    <2>1. UNCHANGED <<agent, alive, stage, spawned>>
      BY <1>3 DEF PermissionStep, User, Respond, Delivers, Receive, Expire, AskPermission,
                  workerVars, agentVars
    <2> QED BY <2>1
  <1>4. CASE FaultStep
    <2>1. UNCHANGED <<agent, stage, spawned>> /\ alive' \subseteq alive
      BY <1>4 DEF FaultStep, AgentExits, AgentHangs
    <2> QED BY <2>1
  <1>5. CASE UNCHANGED vars
    BY <1>5 DEF vars, workerVars, agentVars
  <1> QED BY <1>1, <1>2, <1>3, <1>4, <1>5 DEF Next, PermissionStep, FaultStep

(* Whatever starts, stops, fails or exits in whatever order, only the      *)
(* worker's agent and the one it boots run.                                *)
THEOREM NoAgentIsStray == Spec => []NoStrayAgent
  <1>1. Init => NoStrayAgent
    BY DEF Init, NoStrayAgent
  <1> QED BY <1>1, AlwaysTyped, NextNoStray, PTL DEF Spec

-----------------------------------------------------------------------------
(* The answers.  Every answer on its way, in the channel or waiting for    *)
(* room, was given by the user, unless it chooses a refusal.               *)
WasGiven(a) == a.say = "refuse" \/ a \in said

AnswersAreGiven ==
  /\ \A i \in 1 .. Len(chan) : WasGiven(chan[i])
  /\ held # NoAnswer => WasGiven(held)

Given == AnswersAreGiven /\ OnlyAllowedRun

LEMMA AppendGiven ==
  ASSUME NEW c \in Seq(Answers), NEW a \in Answers, NEW S,
         \A i \in 1 .. Len(c) : c[i].say = "refuse" \/ c[i] \in S,
         a.say = "refuse" \/ a \in S
  PROVE  \A i \in 1 .. Len(Append(c, a)) :
           Append(c, a)[i].say = "refuse" \/ Append(c, a)[i] \in S
  <1>1. Len(Append(c, a)) = Len(c) + 1 /\ Append(c, a)[Len(c) + 1] = a
        /\ \A i \in 1 .. Len(c) : Append(c, a)[i] = c[i]
    OBVIOUS
  <1> QED BY <1>1

(* What a request is told to allow was allowed, or denied without naming   *)
(* an option while every option allows.                                    *)
LEMMA OutcomeGiven ==
  ASSUME NEW a \in Answers, WasGiven(a), Outcome(a.ask, a.say) = "allow"
  PROVE  \/ [ask |-> a.ask, say |-> "allow"] \in said
         \/ Offers[a.ask] = {"allow"} /\ [ask |-> a.ask, say |-> "deny"] \in said
  <1>1. a = [ask |-> a.ask, say |-> a.say]
    BY DEF Answers
  <1>2. \/ a.say = "allow"
        \/ a.say = "deny" /\ Offers[a.ask] = {"allow"}
    BY DEF Outcome
  <1>3. a \in said
    BY <1>2 DEF WasGiven
  <1>4. CASE a.say = "allow"
    BY <1>1, <1>3, <1>4
  <1>5. CASE a.say = "deny" /\ Offers[a.ask] = {"allow"}
    BY <1>1, <1>3, <1>5
  <1> QED BY <1>2, <1>4, <1>5

LEMMA NextGiven ==
  ASSUME Typed, Given, [Next]_vars
  PROVE  Given'
  <1> USE DEF Given, AnswersAreGiven, OnlyAllowedRun, WasGiven
  <1>1. CASE PermissionStep
    <2> USE DEF Typed, TypeOK
    <2>1. ASSUME NEW q \in Asks, NEW say \in Says, Respond(q, say) PROVE Given'
      <3> DEFINE answer == [ask |-> q, say |-> say]
      <3>1. /\ said' = IF say = "refuse" THEN said ELSE said \cup {answer}
            /\ chan' \in {chan, Append(chan, answer)}
            /\ held' \in {held, answer} /\ UNCHANGED ask
        BY <2>1 DEF Respond
      <3>2. answer \in Answers /\ answer.say = say
        BY DEF Answers
      <3> HIDE DEF answer
      <3>3. (answer.say = "refuse" \/ answer \in said') /\ said \subseteq said'
        BY <3>1, <3>2
      <3>4. \A i \in 1 .. Len(chan') : chan'[i].say = "refuse" \/ chan'[i] \in said'
        <4>1. CASE chan' = chan
          BY <3>3, <4>1
        <4>2. CASE chan' = Append(chan, answer)
          <5>1. \A i \in 1 .. Len(chan) : chan[i].say = "refuse" \/ chan[i] \in said'
            BY <3>3
          <5> QED BY <3>2, <3>3, <4>2, <5>1, AppendGiven
        <4> QED BY <3>1, <4>1, <4>2
      <3>5. OnlyAllowedRun'
        BY <3>1, <3>3
      <3> QED BY <3>1, <3>3, <3>4, <3>5
    <2>2. CASE Delivers
      <3>1. held \in Answers /\ chan' \in {chan, Append(chan, held)} /\ held' = NoAnswer
        BY <2>2 DEF Delivers
      <3>2. UNCHANGED <<ask, said>>
        BY <2>2 DEF Delivers, userVars
      <3>3. \A i \in 1 .. Len(chan') : chan'[i].say = "refuse" \/ chan'[i] \in said'
        BY <3>1, <3>2, <2>2, AppendGiven DEF Delivers
      <3> QED BY <3>1, <3>2, <3>3
    <2>3. CASE Receive
      <3> DEFINE o == Outcome(Head(line), Head(chan).say)
      <3>1. /\ chan # <<>> /\ chan' = Tail(chan) /\ UNCHANGED <<held, said>>
            /\ \/ UNCHANGED ask
               \/ Head(chan).ask = Head(line) /\ ask' = [ask EXCEPT ![Head(line)] = o]
        BY <2>3 DEF Receive, Settle, userVars
      <3>2. \A i \in 1 .. Len(chan') : i + 1 \in 1 .. Len(chan) /\ chan'[i] = chan[i + 1]
        BY <3>1
      <3>3. Head(chan) \in Answers /\ WasGiven(Head(chan))
        <4>1. 1 \in 1 .. Len(chan) /\ Head(chan) = chan[1]
          BY <3>1
        <4> QED BY <4>1
      <3>4. Head(chan).ask = Head(line) /\ o = "allow" =>
              \/ [ask |-> Head(line), say |-> "allow"] \in said
              \/ Offers[Head(line)] = {"allow"} /\ [ask |-> Head(line), say |-> "deny"] \in said
        BY <3>3, OutcomeGiven
      <3> HIDE DEF o
      <3>5. OnlyAllowedRun'
        BY <3>1, <3>4
      <3>6. AnswersAreGiven'
        BY <3>1, <3>2
      <3> QED BY <3>5, <3>6
    <2>4. CASE Expire
      BY <2>4 DEF Expire, Settle, userVars
    <2>5. ASSUME NEW q \in Asks, AskPermission(q) PROVE Given'
      BY <2>5 DEF AskPermission, userVars
    <2> QED BY <1>1, <2>1, <2>2, <2>3, <2>4, <2>5 DEF PermissionStep, User
  <1>2. CASE Worker
    <2>1. /\ UNCHANGED <<held, userVars>>
          /\ Forget \/ UNCHANGED askVars
      BY <1>2 DEF Worker, AskClose, WorkerStops, WorkerSpawns, SpawnFails, Boots, BootFails, WorkerSends,
                  QueryDone, WorkerRefuses, FindsExit
    <2>2. CASE Forget
      BY <2>1, <2>2 DEF Forget, userVars, Typed, TypeOK
    <2>3. CASE UNCHANGED askVars
      BY <2>1, <2>3 DEF askVars, userVars
    <2> QED BY <2>1, <2>2, <2>3
  <1>3. CASE \/ \E x \in Calls : Returns(x) \/ \E command \in Commands : Issue(x, command)
            \/ FaultStep
    <2>1. UNCHANGED <<held, askVars, userVars>>
      BY <1>3 DEF Returns, StartReturns, StopReturns, OtherReturns, Issue, FaultStep, AgentExits, AgentHangs
    <2> QED BY <2>1 DEF askVars, userVars
  <1>4. CASE UNCHANGED vars
    BY <1>4 DEF vars, askVars, userVars
  <1> QED BY <1>1, <1>2, <1>3, <1>4 DEF Next, PermissionStep, FaultStep

(* A tool call goes ahead only if the user allowed that very request, or   *)
(* denied it without naming an option while every option that the agent    *)
(* offered allows, whatever stale answers are still on their way.          *)
THEOREM NothingRunsUnasked == Spec => []OnlyAllowedRun
  <1>1. Init => Given
    BY DEF Init, Given, AnswersAreGiven, OnlyAllowedRun
  <1>2. Given => OnlyAllowedRun
    BY DEF Given
  <1> QED BY <1>1, <1>2, AlwaysTyped, NextGiven, PTL DEF Spec

-----------------------------------------------------------------------------
(* Where the user's answers lead.  While no start or stop overlaps another *)
(* there is at most one that has not returned; the agent is reached when   *)
(* none is left, since the one that brought it installed its sender.       *)
OneSwitches == ~crossed => \A x, y \in Switching : x = y

SenderFollows ==
  ~crossed /\ agent # 0 =>
    \/ \E x \in Calls : call[x] = "start"
    \/ \E x \in Calls : call[x] = "started" /\ got[x] = agent
    \/ sender = agent /\ \A x \in Switching : call[x] = "stop"

Follows == OneSwitches /\ SenderFollows

LEMMA IssueFollows ==
  ASSUME Typed, Follows, NEW x \in Calls, NEW command \in Commands, Issue(x, command)
  PROVE  Follows'
  <1> USE DEF Follows, OneSwitches, SenderFollows, Switching, Typed, TypeOK
  <1>1. /\ call[x] = "none" /\ call' = [call EXCEPT ![x] = command]
        /\ UNCHANGED <<got, agent, sender>>
    BY DEF Issue, agentVars
  <1>2. CASE command \in {"start", "stop"}
    <2>1. ~crossed' => Switching = {}
      BY <1>2 DEF Issue
    <2>2. ~crossed' => Switching' = {x}
      BY <1>1, <1>2, <2>1
    <2>3. ~crossed' /\ command = "stop" => ~crossed
      BY DEF Issue
    <2>4. ~crossed' => \A y \in Calls : call[y] \notin {"start", "started"}
      BY <2>1
    <2> QED BY <1>1, <1>2, <2>2, <2>3, <2>4
  <1>3. CASE command \notin {"start", "stop"}
    <2>1. crossed' = crossed
      BY <1>3 DEF Issue
    <2>2. Switching' = Switching
      BY <1>1, <1>3 DEF Commands
    <2> QED BY <1>1, <1>3, <2>1, <2>2
  <1> QED BY <1>2, <1>3

LEMMA ReturnsFollows ==
  ASSUME Typed, Follows, NEW x \in Calls, Returns(x)
  PROVE  Follows'
  <1> USE DEF Follows, OneSwitches, SenderFollows, Switching, Typed, TypeOK
  <1>1. /\ call' = [call EXCEPT ![x] = "returned"] /\ UNCHANGED <<got, agent, crossed>>
    BY DEF Returns, StartReturns, StopReturns, OtherReturns, agentVars
  <1>2. Switching' = Switching \ {x}
    BY <1>1
  <1>3. CASE StartReturns(x)
    <2>1. call[x] = "started" /\ sender' = IF got[x] = 0 THEN sender ELSE got[x]
      BY <1>3 DEF StartReturns
    <2>2. ~crossed => Switching' = {}
      BY <1>2, <2>1
    <2>3. ~crossed /\ agent # 0 => got[x] = agent
      BY <2>1
    <2> QED BY <1>1, <2>1, <2>2, <2>3
  <1>4. CASE StopReturns(x)
    <2>1. call[x] = "stopped"
      BY <1>4 DEF StopReturns
    <2>2. ~crossed => agent = 0
      BY <2>1
    <2> QED BY <1>1, <1>2, <2>2
  <1>5. CASE OtherReturns(x)
    BY <1>1, <1>2, <1>5 DEF OtherReturns
  <1> QED BY <1>3, <1>4, <1>5 DEF Returns

LEMMA WorkerFollows ==
  ASSUME Typed, Follows, Worker
  PROVE  Follows'
  <1> USE DEF Follows, OneSwitches, SenderFollows, Switching
  <1>1. UNCHANGED <<sender, crossed>>
    BY DEF Worker, AskClose, WorkerStops, WorkerSpawns, SpawnFails, Boots, BootFails, WorkerSends,
           QueryDone, WorkerRefuses, FindsExit
  <1>2. \/ UNCHANGED <<call, got>>
        \/ \E p \in MaybeAgent : Executes(Commands) /\ Answer(p)
    <2>1. 0 \in MaybeAgent /\ spawned \in MaybeAgent
      BY ConstantsAssumption DEF Typed, TypeOK, MaybeAgent
    <2>2. \A C : C \subseteq Commands /\ Executes(C) => Executes(Commands)
      BY DEF Executes
    <2>3. stage \in {"booting", "querying"} => Executes(Commands)
      BY DEF Typed, StageFits, Executes, Commands
    <2>4. Executes({"stop"}) \/ Executes({"start"}) \/ Executes({"send", "query"}) => Executes(Commands)
      BY DEF Executes, Commands
    <2> QED BY <2>1, <2>3, <2>4
            DEF Worker, AskClose, WorkerStops, WorkerSpawns, SpawnFails, Boots, BootFails, WorkerSends,
                QueryDone, WorkerRefuses, FindsExit, callVars
  <1>3. Switching' \subseteq Switching
    <2>1. ASSUME NEW p \in MaybeAgent, Executes(Commands), Answer(p) PROVE Switching' \subseteq Switching
      <3>1. Head(queue) \in Calls /\ call[Head(queue)] \in Commands
        BY <2>1 DEF Executes, Typed, TypeOK
      <3>2. call' = [call EXCEPT ![Head(queue)] = AfterAnswer[call[Head(queue)]]]
        BY <2>1 DEF Answer
      <3> QED BY <3>1, <3>2 DEF Typed, TypeOK, AfterAnswer, Commands
    <2> QED BY <1>2, <2>1
  <1>4. CASE agent' = 0
    BY <1>1, <1>3, <1>4
  <1>5. CASE Boots
    <2>1. /\ Head(queue) \in Calls /\ call[Head(queue)] = "start" /\ Answer(spawned)
          /\ agent' = spawned
      BY <1>5 DEF Boots, Typed, TypeOK, StageFits, Executes
    <2>2. call'[Head(queue)] = "started" /\ got'[Head(queue)] = spawned
      BY <2>1 DEF Answer, AfterAnswer, Typed, TypeOK
    <2> QED BY <1>1, <1>3, <2>1, <2>2
  <1>6. CASE agent' = agent /\ UNCHANGED <<call, got>>
    BY <1>1, <1>6
  <1>7. CASE agent' = agent /\ Executes({"send", "query"}) /\ Answer(0)
    <2>1. Head(queue) \in Calls /\ call[Head(queue)] \in {"send", "query"}
      BY <1>7 DEF Executes, Typed, TypeOK
    <2>2. AfterAnswer[call[Head(queue)]] = "done"
      BY <2>1 DEF AfterAnswer
    <2>3. /\ call' = [call EXCEPT ![Head(queue)] = "done"]
          /\ got' = [got EXCEPT ![Head(queue)] = 0]
      BY <1>7, <2>2 DEF Answer
    <2>4. Switching' = Switching
      BY <2>1, <2>3 DEF Typed, TypeOK
    <2> QED BY <1>1, <1>7, <2>1, <2>3, <2>4 DEF Typed, TypeOK
  <1>8. \/ agent' = 0 \/ Boots
        \/ agent' = agent /\ UNCHANGED <<call, got>>
        \/ agent' = agent /\ Executes({"send", "query"}) /\ Answer(0)
    <2>1. CASE WorkerStops \/ WorkerSpawns \/ SpawnFails \/ FindsExit
      BY <2>1 DEF WorkerStops, WorkerSpawns, SpawnFails, FindsExit, Forget
    <2>2. CASE BootFails
      BY <2>2 DEF BootFails, Typed, StageFits
    <2>3. CASE AskClose
      BY <2>3 DEF AskClose, callVars, agentVars
    <2>4. CASE WorkerSends \/ WorkerRefuses
      BY <2>4 DEF WorkerSends, WorkerRefuses, callVars, agentVars
    <2>5. CASE QueryDone
      <3>1. Executes({"send", "query"})
        BY <2>5 DEF QueryDone, Typed, StageFits, Executes
      <3> QED BY <2>5, <3>1 DEF QueryDone, agentVars
    <2> QED BY <2>1, <2>2, <2>3, <2>4, <2>5 DEF Worker
  <1> QED BY <1>4, <1>5, <1>6, <1>7, <1>8

LEMMA NextFollows ==
  ASSUME Typed, Follows, [Next]_vars
  PROVE  Follows'
  <1>1. CASE PermissionStep \/ FaultStep \/ UNCHANGED vars
    <2>1. UNCHANGED <<call, got, agent, sender, crossed>>
      BY <1>1 DEF PermissionStep, User, Respond, Delivers, Receive, Expire, AskPermission, FaultStep,
                  AgentExits, AgentHangs, vars, workerVars, callVars, agentVars
    <2> QED BY <2>1 DEF Follows, OneSwitches, SenderFollows, Switching
  <1> QED BY <1>1, IssueFollows, ReturnsFollows, WorkerFollows DEF Next, PermissionStep, FaultStep

(* Once every start and stop has returned the user's answers reach the     *)
(* running agent, unless the last start overlapped another or a stop.      *)
THEOREM AnswersArrive == Spec => []AnswersReachAgent
  <1>1. Init => Follows
    BY DEF Init, Follows, OneSwitches, SenderFollows, Switching
  <1>2. Typed /\ Follows => AnswersReachAgent
    BY DEF Follows, SenderFollows, AnswersReachAgent, Switching
  <1> QED BY <1>1, <1>2, AlwaysTyped, NextFollows, PTL DEF Spec
=============================================================================
