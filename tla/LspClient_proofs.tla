-------------------------- MODULE LspClient_proofs --------------------------
(***************************************************************************)
(* The invariants of LspClient and its refinement of RemoteCalls, for any  *)
(* number of calls, any bounds and any behaviour of the server.            *)
(***************************************************************************)
EXTENDS LspClient, TLAPS

-----------------------------------------------------------------------------
(* Types.                                                                  *)
LEMMA InitTypeOK == Init => TypeOK
  BY ConstantsAssumption DEF Init, TypeOK, Calls, Messages, Output

(* What a call does keeps the types.                                       *)
LEMMA CallTypeOK ==
  ASSUME TypeOK, NEW c \in Calls, CallStep(c)
  PROVE  TypeOK'
  <1>1. CASE Begin(c)
    BY <1>1 DEF TypeOK, Begin, Return, serverVars
  <1>2. CASE Enlist(c)
    BY <1>2 DEF TypeOK, Enlist, serverVars
  <1>3. CASE Send(c)
    <2>1. Append(chan, c) \in Seq(Messages)
      BY DEF TypeOK, Messages
    <2>2. chan' = chan \/ chan' = Append(chan, c)
      BY <1>3 DEF Send
    <2> QED BY <1>3, <2>1, <2>2 DEF TypeOK, Send, Return, ChannelOpen, serverVars
  <1>4. CASE Settle(c)
    BY <1>4 DEF TypeOK, Settle, serverVars
  <1> QED BY <1>1, <1>2, <1>3, <1>4 DEF CallStep

LEMMA WriterTypeOK ==
  ASSUME TypeOK, WriterTakes \/ WriterWrites
  PROVE  TypeOK'
  <1>1. CASE WriterTakes
    <2>1. Head(chan) \in Messages /\ Tail(chan) \in Seq(Messages)
      BY <1>1 DEF TypeOK, WriterTakes
    <2> QED BY <1>1, <2>1 DEF TypeOK, WriterTakes, callVars, serverVars
  <1>2. CASE WriterWrites
    <2>1. Append(sin, hand) \in Seq(Messages) /\ <<>> \in Seq(Messages)
      BY <1>2 DEF TypeOK, WriterWrites
    <2>2. sin' \in {sin, Append(sin, hand)} /\ chan' \in {chan, <<>>} /\ hand' \in {None, Gone}
      BY <1>2 DEF WriterWrites
    <2> QED BY <1>2, <2>1, <2>2 DEF TypeOK, WriterWrites, callVars, serverVars
  <1> QED BY <1>1, <1>2

LEMMA ReaderTypeOK ==
  ASSUME TypeOK, ReaderStep
  PROVE  TypeOK'
  <1>1. CASE HandleResponse
    <2>1. Tail(sout) \in Seq(Output)
      BY <1>1 DEF TypeOK, HandleResponse
    <2>2. pending' \in SUBSET Requests /\ outcome' \in [Calls -> {"none", "ok", "err"}]
      BY <1>1 DEF TypeOK, HandleResponse
    <2> QED BY <1>1, <2>1, <2>2 DEF TypeOK, HandleResponse, serverVars
  <1>2. CASE HandleServerRequest
    <2>1. Tail(sout) \in Seq(Output)
      BY <1>2 DEF TypeOK, HandleServerRequest
    <2> QED BY <1>2, <2>1 DEF TypeOK, HandleServerRequest, callVars, serverVars
  <1>3. CASE SendServerResponse
    <2>1. Append(chan, Ask) \in Seq(Messages)
      BY DEF TypeOK, Messages
    <2>2. chan' = chan \/ chan' = Append(chan, Ask)
      BY <1>3 DEF SendServerResponse
    <2> QED BY <1>3, <2>1, <2>2 DEF TypeOK, SendServerResponse, callVars, serverVars
  <1>4. CASE OutputEnds
    BY <1>4 DEF TypeOK, OutputEnds, callVars, serverVars
  <1>5. CASE Drain
    BY <1>5 DEF TypeOK, Drain, serverVars
  <1> QED BY <1>1, <1>2, <1>3, <1>4, <1>5 DEF ReaderStep

LEMMA ServerTypeOK ==
  ASSUME TypeOK, ServerStep
  PROVE  TypeOK'
  <1>1. CASE ServerReads
    <2>1. Tail(sin) \in Seq(Messages)
      BY <1>1 DEF TypeOK, ServerReads
    <2> QED BY <1>1, <2>1 DEF TypeOK, ServerReads, callVars
  <1>2. ASSUME NEW r \in Replies, ServerReplies(r) PROVE TypeOK'
    BY <1>2 DEF TypeOK, ServerReplies, callVars, Output
  <1>3. CASE ServerAsks
    BY <1>3 DEF TypeOK, ServerAsks, callVars, Output
  <1>4. CASE ServerWrites
    <2>1. todo \in Output
      BY <1>4 DEF TypeOK, ServerWrites
    <2>2. sout' \in Seq(Output)
      BY <1>4, <2>1 DEF TypeOK, ServerWrites
    <2> QED BY <1>4, <2>2 DEF TypeOK, ServerWrites, callVars
  <1>5. CASE ServerMutes
    BY <1>5 DEF TypeOK, ServerMutes, callVars
  <1>6. CASE ServerExits
    BY <1>6 DEF TypeOK, ServerExits, callVars
  <1> QED BY <1>1, <1>2, <1>3, <1>4, <1>5, <1>6 DEF ServerStep

LEMMA NextTypeOK ==
  ASSUME TypeOK, [Next]_vars
  PROVE  TypeOK'
  <1>1. CASE UNCHANGED vars
    BY <1>1 DEF TypeOK, vars
  <1> QED BY <1>1, CallTypeOK, WriterTypeOK, ReaderTypeOK, ServerTypeOK DEF Next

(* Every variable keeps its type.                                          *)
THEOREM TypeCorrect == Spec => []TypeOK
  BY InitTypeOK, NextTypeOK, PTL DEF Spec

-----------------------------------------------------------------------------
(* The callers, the pending table and the reader.  A request waits only    *)
(* while it is in the table, whatever became of the reader; the reader's   *)
(* drain empties it and only a late request can still enter it.            *)
NotYetSet == \A c \in Calls : pc[c] \in {"idle", "tested"} => outcome[c] = "none"
ListedIsIssued == \A c \in pending : pc[c] \notin {"idle", "tested"}
WaitingIsListed == \A c \in Requests : Unsettled(c) => c \in pending
StoppedWhenDrained == running <=> reader \in {"read", "send"}
LateOnly ==
  reader = "gone" => /\ pending \subseteq late
                     /\ \A c \in Requests : pc[c] = "tested" => c \in late

Waits == /\ NotYetSet
         /\ ListedIsIssued
         /\ WaitingIsListed
         /\ StoppedWhenDrained
         /\ LateOnly
         /\ PendingIsAwaited

WaitInv == TypeOK /\ Waits

LEMMA InitWaitInv == Init => WaitInv
  BY InitTypeOK DEF Init, WaitInv, Waits, NotYetSet, ListedIsIssued, WaitingIsListed, Unsettled,
     StoppedWhenDrained, LateOnly, PendingIsAwaited, Calls

LEMMA CallWaitInv ==
  ASSUME WaitInv, NEW c \in Calls, CallStep(c)
  PROVE  Waits'
  <1> USE DEF WaitInv, Waits, TypeOK, NotYetSet, ListedIsIssued, WaitingIsListed, Unsettled,
          StoppedWhenDrained, LateOnly, PendingIsAwaited, Calls
  <1>1. CASE Begin(c)
    BY <1>1 DEF Begin, Return
  <1>2. CASE Enlist(c)
    BY <1>2 DEF Enlist
  <1>3. CASE Send(c)
    <2>1. /\ c \in Requests => pc[c] = "listed"
          /\ UNCHANGED <<pending, running, hand, reader, late>>
      BY <1>3 DEF Send
    <2>2. CASE c \in Requests /\ ChannelOpen
      <3>1. pc' = [pc EXCEPT ![c] = "sent"] /\ UNCHANGED outcome
        BY <1>3, <2>2 DEF Send
      <3> QED BY <2>1, <2>2, <3>1
    <2>3. CASE ~(c \in Requests /\ ChannelOpen)
      <3>1. \E what \in {"ok", "err"} : Return(c, what)
        BY <1>3, <2>3 DEF Send
      <3>2. c \in Requests => hand = Gone
        BY <2>3 DEF ChannelOpen
      <3> QED BY <2>1, <3>1, <3>2 DEF Return
    <2> QED BY <2>2, <2>3
  <1>4. CASE Settle(c)
    BY <1>4 DEF Settle
  <1> QED BY <1>1, <1>2, <1>3, <1>4 DEF CallStep

LEMMA WriterWaitInv ==
  ASSUME WaitInv, WriterTakes \/ WriterWrites
  PROVE  Waits'
  BY ConstantsAssumption
     DEF WaitInv, Waits, TypeOK, NotYetSet, ListedIsIssued, WaitingIsListed, Unsettled, StoppedWhenDrained,
         LateOnly, PendingIsAwaited, WriterTakes, WriterWrites, callVars, Messages

LEMMA ReaderWaitInv ==
  ASSUME WaitInv, ReaderStep
  PROVE  Waits'
  <1> USE DEF WaitInv, Waits, TypeOK, NotYetSet, ListedIsIssued, WaitingIsListed, Unsettled,
          StoppedWhenDrained, LateOnly, PendingIsAwaited, Calls
  <1>1. CASE HandleResponse
    <2> DEFINE c == Head(sout).call
    <2>1. CASE c \in pending
      <3>1. /\ pending' = pending \ {c}
            /\ \E what \in {"ok", "err"} : outcome' = [outcome EXCEPT ![c] = what]
            /\ UNCHANGED <<pc, running, hand, reader, late>>
        BY <1>1, <2>1 DEF HandleResponse
      <3> HIDE DEF c
      <3> QED BY <2>1, <3>1
    <2>2. CASE c \notin pending
      BY <1>1, <2>2 DEF HandleResponse
    <2> QED BY <2>1, <2>2
  <1>2. CASE HandleServerRequest
    BY <1>2 DEF HandleServerRequest, callVars
  <1>3. CASE SendServerResponse
    BY <1>3 DEF SendServerResponse, callVars
  <1>4. CASE OutputEnds
    BY <1>4 DEF OutputEnds, callVars
  <1>5. CASE Drain
    BY <1>5 DEF Drain
  <1> QED BY <1>1, <1>2, <1>3, <1>4, <1>5 DEF ReaderStep

LEMMA ServerWaitInv ==
  ASSUME WaitInv, ServerStep
  PROVE  Waits'
  <1>1. UNCHANGED <<pc, outcome, pending, running, hand, reader, late>>
    BY DEF ServerStep, ServerReads, ServerReplies, ServerAsks, ServerWrites,
       ServerMutes, ServerExits, callVars
  <1> QED BY <1>1 DEF WaitInv, Waits, NotYetSet, ListedIsIssued, WaitingIsListed, Unsettled,
            StoppedWhenDrained, LateOnly, PendingIsAwaited

(* How callers, table and reader stand to each other, in every state of the*)
(* client: a request waits only while it is in the table, or is late.      *)
THEOREM WaitInvariant == Spec => []WaitInv
  <1>1. WaitInv /\ [Next]_vars => WaitInv'
    <2> SUFFICES ASSUME WaitInv, [Next]_vars PROVE WaitInv'
      OBVIOUS
    <2>1. TypeOK'
      BY NextTypeOK DEF WaitInv
    <2>2. CASE UNCHANGED vars
      BY <2>1, <2>2 DEF vars, WaitInv, Waits, NotYetSet, ListedIsIssued, WaitingIsListed, Unsettled,
         StoppedWhenDrained, LateOnly, PendingIsAwaited
    <2> QED BY <2>1, <2>2, CallWaitInv, WriterWaitInv, ReaderWaitInv, ServerWaitInv
            DEF Next, WaitInv
  <1> QED BY <1>1, InitWaitInv, PTL DEF Spec

(* The reader's end strands nobody but the late requests.                  *)
THEOREM StrandedAreLate == Spec => []OnlyLateAreStranded
  <1>1. WaitInv => OnlyLateAreStranded
    BY DEF WaitInv, Waits, WaitingIsListed, LateOnly, OnlyLateAreStranded
  <1> QED BY <1>1, WaitInvariant, PTL

(* The pending table holds awaited requests only, while the writer runs.   *)
THEOREM PendingAwaited == Spec => []PendingIsAwaited
  <1>1. WaitInv => PendingIsAwaited
    BY DEF WaitInv, Waits
  <1> QED BY <1>1, WaitInvariant, PTL

-----------------------------------------------------------------------------
(* The messages.  Membership in a queue, and what sending and receiving    *)
(* do to it.                                                               *)
In(x, s) == \E i \in 1..Len(s) : s[i] = x

LEMMA InAppend ==
  ASSUME NEW S, NEW s \in Seq(S), NEW e \in S, NEW x, In(x, Append(s, e))
  PROVE  In(x, s) \/ x = e
  <1>1. PICK i \in 1..Len(Append(s, e)) : Append(s, e)[i] = x
    BY DEF In
  <1>2. CASE i \in 1..Len(s)
    BY <1>1, <1>2 DEF In
  <1>3. CASE i = Len(s) + 1
    BY <1>1, <1>3
  <1> QED BY <1>2, <1>3

LEMMA InTail ==
  ASSUME NEW S, NEW s \in Seq(S), s # <<>>
  PROVE  /\ In(Head(s), s)
         /\ \A x : In(x, Tail(s)) => In(x, s)
  <1>1. Len(s) \in Nat \ {0} /\ Head(s) = s[1]
    OBVIOUS
  <1>2. ASSUME NEW x, In(x, Tail(s)) PROVE In(x, s)
    <2>1. PICK i \in 1..Len(Tail(s)) : Tail(s)[i] = x
      BY <1>2 DEF In
    <2>2. Tail(s)[i] = s[i + 1] /\ i + 1 \in 1..Len(s)
      BY <1>1
    <2> QED BY <2>1, <2>2 DEF In
  <1> QED BY <1>1, <1>2 DEF In

(* A request that was not sent, or whose send failed, is in no queue and   *)
(* unknown to the server; what the server answers it has read; an entry    *)
(* that outlived its call belongs to one that failed.                      *)
Unsent(c) == pc[c] \in {"idle", "tested", "listed"} \/ (pc[c] = "done" /\ c \in pending)
Unseen(c) == c \notin got /\ ~In(c, chan) /\ hand # c /\ ~In(c, sin)

UnsentIsUnseen == \A c \in Requests : Unsent(c) => Unseen(c)
AnsweredIsRead ==
  /\ \A r \in Replies : In(r, sout) \/ todo = r => r.call \in got
  /\ \A c \in Requests : pc[c] = "listed" => outcome[c] # "ok"
EntryOutcome ==
  \A c \in pending : Unsettled(c) \/ (pc[c] = "done" /\ outcome[c] = "err")

Sent == UnsentIsUnseen /\ AnsweredIsRead /\ EntryOutcome

LEMMA InitSent == Init => Sent
  <1> SUFFICES ASSUME Init PROVE Sent
    OBVIOUS
  <1>1. \A x : ~In(x, <<>>)
    BY DEF In
  <1>2. \A r \in Replies : r # None
    BY ConstantsAssumption DEF Replies
  <1>3. None \notin Requests
    BY ConstantsAssumption DEF Calls
  <1> QED BY <1>1, <1>2, <1>3
          DEF Init, Sent, UnsentIsUnseen, AnsweredIsRead, EntryOutcome, Unseen, Calls

LEMMA CallSent ==
  ASSUME WaitInv, Sent, NEW c \in Calls, CallStep(c)
  PROVE  Sent'
  <1> USE DEF WaitInv, TypeOK, Sent, UnsentIsUnseen, AnsweredIsRead, EntryOutcome,
          Unsent, Unseen, Unsettled, Calls
  <1>1. CASE Begin(c)
    BY <1>1 DEF Begin, Return, serverVars, Waits, ListedIsIssued
  <1>2. CASE Enlist(c)
    BY <1>2 DEF Enlist, serverVars, Waits, NotYetSet
  <1>3. CASE Send(c)
    <2>1. UNCHANGED <<pending, hand, sin, sout, todo, got>>
      BY <1>3 DEF Send, serverVars
    <2>2. CASE c \in Requests /\ ChannelOpen
      <3>1. pc' = [pc EXCEPT ![c] = "sent"] /\ UNCHANGED outcome
        BY <1>3, <2>2 DEF Send
      <3>2. chan' = Append(chan, c)
        BY <1>3, <2>2 DEF Send
      <3>3. \A d \in Requests \ {c} : In(d, chan') => In(d, chan)
        <4>1. c \in Messages /\ chan \in Seq(Messages)
          BY DEF Messages
        <4> QED BY <3>2, <4>1, InAppend
      <3>4. \A d \in Requests : Unsent(d)' => d # c /\ Unsent(d)
        BY <2>1, <3>1
      <3>5. UnsentIsUnseen'
        BY <2>1, <3>3, <3>4
      <3>6. pc[c] = "listed"
        BY <1>3, <2>2 DEF Send
      <3> QED BY <2>1, <3>1, <3>5, <3>6
    <2>3. CASE c \in Requests /\ ~ChannelOpen
      <3>1. Return(c, "err") /\ UNCHANGED chan /\ pc[c] = "listed"
        BY <1>3, <2>3 DEF Send
      <3> QED BY <2>1, <2>3, <3>1 DEF Return
    <2>4. CASE c \notin Requests
      <3>1. \E what \in {"ok", "err"} : Return(c, what)
        BY <1>3, <2>4 DEF Send
      <3>2. chan' = chan \/ chan' = Append(chan, c)
        BY <1>3 DEF Send
      <3>3. \A d \in Requests : In(d, chan') => In(d, chan)
        <4>1. c \in Messages /\ chan \in Seq(Messages)
          BY DEF Messages
        <4>2. CASE chan' = Append(chan, c)
          <5>1. \A d \in Requests : In(d, chan') => In(d, chan) \/ d = c
            BY <4>1, <4>2, InAppend
          <5> QED BY <5>1, <2>4
        <4> QED BY <3>2, <4>2
      <3>4. \A d \in Requests : pc'[d] = pc[d] /\ outcome'[d] = outcome[d]
        BY <2>4, <3>1 DEF Return
      <3> QED BY <2>1, <3>3, <3>4
    <2> QED BY <2>2, <2>3, <2>4
  <1>4. CASE Settle(c)
    BY <1>4 DEF Settle, serverVars
  <1> QED BY <1>1, <1>2, <1>3, <1>4 DEF CallStep

LEMMA WriterSent ==
  ASSUME WaitInv, Sent, WriterTakes \/ WriterWrites
  PROVE  Sent'
  <1> USE DEF WaitInv, TypeOK, Sent, UnsentIsUnseen, AnsweredIsRead, EntryOutcome,
          Unsent, Unseen, Unsettled, Calls
  <1>1. CASE WriterTakes
    <2>1. \A x : In(x, chan') \/ hand' = x => In(x, chan)
      BY <1>1, InTail DEF WriterTakes
    <2> QED BY <1>1, <2>1 DEF WriterTakes, callVars, serverVars
  <1>2. CASE WriterWrites
    <2>1. CASE proc = "down"
      <3>1. hand' = Gone /\ chan' = <<>> /\ UNCHANGED sin
        BY <1>2, <2>1 DEF WriterWrites
      <3>2. Gone \notin Requests /\ \A x : ~In(x, <<>>)
        BY ConstantsAssumption DEF In, Messages
      <3>3. UNCHANGED <<pc, outcome, pending, got, sout, todo>>
        BY <1>2 DEF WriterWrites, callVars, serverVars
      <3> QED BY <3>1, <3>2, <3>3
    <2>2. CASE proc # "down"
      <3>1. sin' = Append(sin, hand) /\ hand' = None /\ hand \in Messages /\ UNCHANGED chan
        BY <1>2, <2>2 DEF WriterWrites
      <3>2. \A x : In(x, sin') => In(x, sin) \/ x = hand
        BY <3>1, InAppend
      <3> QED BY <1>2, <3>1, <3>2, ConstantsAssumption DEF WriterWrites, callVars, serverVars
    <2> QED BY <2>1, <2>2
  <1> QED BY <1>1, <1>2

LEMMA ReaderSent ==
  ASSUME WaitInv, Sent, ReaderStep
  PROVE  Sent'
  <1> USE DEF WaitInv, TypeOK, Sent, UnsentIsUnseen, AnsweredIsRead, EntryOutcome,
          Unsent, Unseen, Unsettled, Calls
  <1>1. CASE HandleResponse
    <2> DEFINE c == Head(sout).call
    <2>1. Head(sout) \in Replies /\ c \in got /\ \A x : In(x, sout') => In(x, sout)
      BY <1>1, InTail DEF HandleResponse
    <2>2. UNCHANGED <<pc, todo, got, chan, hand, sin>>
      BY <1>1 DEF HandleResponse, serverVars
    <2>3. CASE c \in pending
      <3>1. pending' = pending \ {c}
        BY <1>1, <2>3 DEF HandleResponse
      <3>2. \E what \in {"ok", "err"} : outcome' = [outcome EXCEPT ![c] = what]
        BY <1>1, <2>3 DEF HandleResponse
      <3>3. pc[c] # "listed"
        BY <2>1, <2>3
      <3> HIDE DEF c
      <3> QED BY <2>1, <2>2, <2>3, <3>1, <3>2, <3>3
    <2>4. CASE c \notin pending
      <3>1. UNCHANGED <<pending, outcome>>
        BY <1>1, <2>4 DEF HandleResponse
      <3> QED BY <2>1, <2>2, <3>1
    <2> QED BY <2>3, <2>4
  <1>2. CASE HandleServerRequest
    <2>1. \A x : In(x, sout') => In(x, sout)
      BY <1>2, InTail DEF HandleServerRequest
    <2> QED BY <1>2, <2>1 DEF HandleServerRequest, callVars, serverVars
  <1>3. CASE SendServerResponse
    <2>1. chan' = chan \/ chan' = Append(chan, Ask)
      BY <1>3 DEF SendServerResponse
    <2>2. Ask \notin Requests
      BY ConstantsAssumption
    <2>3. \A d \in Requests : In(d, chan') => In(d, chan)
      <3>1. CASE chan' = Append(chan, Ask)
        <4>1. Ask \in Messages /\ chan \in Seq(Messages)
          BY DEF Messages
        <4>2. \A d \in Requests : In(d, chan') => In(d, chan) \/ d = Ask
          BY <3>1, <4>1, InAppend
        <4> QED BY <4>2, <2>2
      <3> QED BY <2>1, <3>1
    <2> QED BY <1>3, <2>3 DEF SendServerResponse, callVars, serverVars
  <1>4. CASE OutputEnds
    BY <1>4 DEF OutputEnds, callVars, serverVars
  <1>5. CASE Drain
    <2>1. /\ pending' = {}
          /\ UNCHANGED <<pc, todo, got, chan, hand, sin, sout>>
          /\ \A c \in Calls : outcome'[c] \in {"err", outcome[c]}
      BY <1>5 DEF Drain, serverVars
    <2> QED BY <2>1
  <1> QED BY <1>1, <1>2, <1>3, <1>4, <1>5 DEF ReaderStep

LEMMA ServerSent ==
  ASSUME WaitInv, Sent, ServerStep
  PROVE  Sent'
  <1> USE DEF WaitInv, TypeOK, Sent, UnsentIsUnseen, AnsweredIsRead, EntryOutcome,
          Unsent, Unseen, Unsettled, Calls
  <1>0. UNCHANGED <<pc, outcome, pending, chan, hand>>
    BY DEF ServerStep, ServerReads, ServerReplies, ServerAsks, ServerWrites,
       ServerMutes, ServerExits, callVars
  <1>00. None \notin Replies /\ Ask \notin Replies
    BY ConstantsAssumption
  <1>1. CASE ServerReads
    <2>1. In(Head(sin), sin) /\ \A x : In(x, sin') => In(x, sin)
      BY <1>1, InTail DEF ServerReads
    <2>2. got' = got \cup ({Head(sin)} \cap Requests) /\ UNCHANGED <<sout, todo>>
      BY <1>1 DEF ServerReads
    <2> QED BY <1>0, <2>1, <2>2
  <1>2. ASSUME NEW r \in Replies, ServerReplies(r) PROVE Sent'
    BY <1>0, <1>2 DEF ServerReplies
  <1>3. CASE ServerAsks
    BY <1>0, <1>00, <1>3 DEF ServerAsks
  <1>4. CASE ServerWrites
    <2>1. todo \in Output /\ sout' = Append(sout, todo) /\ todo' = None
          /\ UNCHANGED <<got, sin>>
      BY <1>4 DEF ServerWrites
    <2>2. \A x : In(x, sout') => In(x, sout) \/ x = todo
      BY <2>1, InAppend
    <2> QED BY <1>0, <1>00, <2>1, <2>2
  <1>5. CASE ServerMutes
    BY <1>0, <1>00, <1>5 DEF ServerMutes
  <1>6. CASE ServerExits
    <2>1. \A x : ~In(x, sin')
      BY <1>6 DEF ServerExits, In
    <2> QED BY <1>0, <1>00, <1>6, <2>1 DEF ServerExits
  <1> QED BY <1>1, <1>2, <1>3, <1>4, <1>5, <1>6 DEF ServerStep

(* What is in the channel, in the pipes or read by the server was sent, and*)
(* an answer is of a request the server has read, in every state.          *)
THEOREM SentInvariant == Spec => []Sent
  <1>1. WaitInv /\ Sent /\ [Next]_vars => Sent'
    <2> SUFFICES ASSUME WaitInv, Sent, [Next]_vars PROVE Sent'
      OBVIOUS
    <2>1. CASE UNCHANGED vars
      BY <2>1 DEF vars, callVars, serverVars, Sent, UnsentIsUnseen, AnsweredIsRead,
         EntryOutcome, Unsent, Unseen, Unsettled
    <2> QED BY <2>1, CallSent, WriterSent, ReaderSent, ServerSent DEF Next
  <1> QED BY <1>1, InitSent, WaitInvariant, PTL DEF Spec

-----------------------------------------------------------------------------
(* The refinement.  States is the abstract state; a step changes it only   *)
(* through pc and outcome.                                                 *)
States == [c \in Requests |-> CallState(c)]

LEMMA SameStates ==
  ASSUME \A c \in Requests : CallState(c)' = CallState(c)
  PROVE  States' = States
  BY DEF States

(* One call that moves, the others staying, is one step of the contract.   *)
LEMMA MovesOne ==
  ASSUME NEW c \in Requests, NEW new,
         CallState(c)' = new,
         \A d \in Requests \ {c} : CallState(d)' = CallState(d)
  PROVE  States' = [States EXCEPT ![c] = new]
  BY DEF States

LEMMA CallRefines ==
  ASSUME WaitInv, Sent, NEW c \in Calls, CallStep(c)
  PROVE  [Remote!Next]_(Remote!vars)
  <1> USE DEF WaitInv, TypeOK, Calls
  <1>1. got' = got
    BY DEF CallStep, Begin, Enlist, Send, Settle, serverVars
  <1>2. \A d \in Requests \ {c} : CallState(d)' = CallState(d)
    BY DEF CallStep, Begin, Enlist, Send, Settle, Return, CallState
  <1>3. CASE c \notin Requests
    <2>1. States' = States
      BY <1>2, <1>3, SameStates
    <2> QED BY <1>1, <2>1 DEF Remote!vars, States
  <1>4. CASE c \in Requests
    <2>1. CASE CallState(c)' = CallState(c)
      <3>1. States' = States
        BY <1>2, <2>1, SameStates
      <3> QED BY <1>1, <3>1 DEF Remote!vars, States
    <2>2. CASE Begin(c)
      <3>1. CallState(c) = "idle" /\ CallState(c)' \in {"waiting", "failed"}
        BY <2>2 DEF Begin, Return, CallState, Waits, NotYetSet
      <3>2. States' = [States EXCEPT ![c] = CallState(c)']
        BY <1>2, <1>4, MovesOne
      <3> QED BY <1>1, <1>4, <3>1, <3>2
              DEF Remote!Next, Remote!Issue, Remote!Refuse, States
    <2>3. CASE Enlist(c) \/ Settle(c)
      BY <2>1, <2>3 DEF Enlist, Settle, CallState
    <2>4. CASE Send(c)
      <3>1. pc[c] = "listed" /\ outcome[c] \in {"none", "err"}
        BY <1>4, <2>4 DEF Send, Sent, AnsweredIsRead
      <3>2. CallState(c)' \in {CallState(c), "failed"}
        BY <1>4, <2>4, <3>1 DEF Send, Return, CallState
      <3>3. CASE CallState(c) = "waiting" /\ CallState(c)' = "failed"
        <4>1. States' = [States EXCEPT ![c] = "failed"]
          BY <1>2, <1>4, <3>3, MovesOne
        <4>2. Remote!Fail({c})
          BY <1>1, <1>4, <3>3, <4>1 DEF Remote!Fail, States
        <4> QED BY <1>4, <4>2 DEF Remote!Next
      <3>4. CallState(c) \in {"waiting", "failed"}
        BY <3>1 DEF CallState
      <3> QED BY <2>1, <3>2, <3>3, <3>4
    <2> QED BY <2>2, <2>3, <2>4 DEF CallStep
  <1> QED BY <1>3, <1>4

LEMMA ReaderRefines ==
  ASSUME WaitInv, Sent, ReaderStep
  PROVE  [Remote!Next]_(Remote!vars)
  <1> USE DEF WaitInv, TypeOK, Calls
  <1>1. got' = got /\ pc' = pc
    BY DEF ReaderStep, HandleResponse, HandleServerRequest, SendServerResponse,
       OutputEnds, Drain, callVars, serverVars
  <1>2. CASE UNCHANGED outcome
    <2>1. States' = States
      BY <1>1, <1>2, SameStates DEF CallState
    <2> QED BY <1>1, <2>1 DEF Remote!vars, States
  <1>3. CASE HandleResponse
    <2>0. PICK c \in Requests : c = Head(sout).call
      BY <1>3 DEF HandleResponse, Replies
    <2>1. c \in got
      BY <1>3, <2>0, InTail DEF HandleResponse, Sent, AnsweredIsRead
    <2>2. CASE c \in pending
      <3>1. CallState(c) = "waiting"
        BY <2>1, <2>2 DEF Sent, EntryOutcome, UnsentIsUnseen, Unsent, Unseen,
           Unsettled, CallState
      <3>2. \E what \in {"ok", "err"} : outcome' = [outcome EXCEPT ![c] = what]
        BY <1>3, <2>0, <2>2 DEF HandleResponse
      <3>3. c \in Requests /\ CallState(c)' \in {"answered", "failed"}
        BY <1>1, <2>2, <3>1, <3>2 DEF CallState
      <3>4. \A d \in Requests \ {c} : CallState(d)' = CallState(d)
        BY <1>1, <2>2, <3>2 DEF CallState
      <3>5. States' = [States EXCEPT ![c] = CallState(c)']
        BY <3>3, <3>4, MovesOne
      <3>6. CASE CallState(c)' = "answered"
        BY <1>1, <2>1, <3>1, <3>3, <3>5, <3>6 DEF Remote!Next, Remote!Answer, States
      <3>7. CASE CallState(c)' = "failed"
        <4>1. Remote!Fail({c})
          BY <1>1, <3>1, <3>3, <3>5, <3>7 DEF Remote!Fail, States
        <4> QED BY <3>3, <4>1 DEF Remote!Next
      <3> QED BY <3>3, <3>6, <3>7
    <2> QED BY <1>2, <1>3, <2>0, <2>2 DEF HandleResponse
  <1>4. CASE Drain
    <2> DEFINE S == {c \in pending : CallState(c) = "waiting"}
    <2>1. outcome' = [c \in Calls |-> IF c \in pending THEN "err" ELSE outcome[c]]
      BY <1>4 DEF Drain
    <2>2. \A c \in pending : CallState(c) \in {"waiting", "failed"} /\ CallState(c)' = "failed"
      BY <1>1, <2>1 DEF Sent, EntryOutcome, Unsettled, CallState
    <2>3. \A c \in Requests \ pending : CallState(c)' = CallState(c)
      BY <1>1, <2>1 DEF CallState
    <2>4. States' = [c \in Requests |-> IF c \in S THEN "failed" ELSE States[c]]
      BY <2>2, <2>3 DEF States
    <2>5. Remote!Fail(S)
      BY <1>1, <2>4 DEF Remote!Fail, States
    <2> QED BY <2>5 DEF Remote!Next
  <1> QED BY <1>2, <1>3, <1>4
          DEF ReaderStep, HandleServerRequest, SendServerResponse, OutputEnds, callVars

LEMMA OthersRefine ==
  ASSUME WaitInv, Sent, WriterTakes \/ WriterWrites \/ ServerStep
  PROVE  [Remote!Next]_(Remote!vars)
  <1> USE DEF WaitInv, TypeOK, Calls
  <1>1. UNCHANGED <<pc, outcome>>
    BY DEF WriterTakes, WriterWrites, ServerStep, ServerReads, ServerReplies,
       ServerAsks, ServerWrites, ServerMutes, ServerExits, callVars
  <1>2. States' = States
    BY <1>1, SameStates DEF CallState
  <1>3. CASE got' = got
    BY <1>2, <1>3 DEF Remote!vars, States
  <1>4. CASE ServerReads /\ Head(sin) \in Requests
    <2>1. In(Head(sin), sin)
      BY <1>4, InTail DEF ServerReads
    <2>2. CallState(Head(sin)) # "idle"
      BY <1>4, <2>1 DEF Sent, UnsentIsUnseen, Unsent, Unseen, CallState
    <2>3. got' = got \cup {Head(sin)}
      BY <1>4 DEF ServerReads
    <2>4. Remote!Take(Head(sin))
      BY <1>2, <1>4, <2>2, <2>3 DEF Remote!Take, States
    <2> QED BY <1>4, <2>4 DEF Remote!Next
  <1>5. ServerReads /\ Head(sin) \notin Requests => got' = got
    BY DEF ServerReads
  <1> QED BY <1>3, <1>4, <1>5
          DEF WriterTakes, WriterWrites, ServerStep, ServerReplies,
              ServerAsks, ServerWrites, ServerMutes, ServerExits, serverVars

(* The client implements the contract of its calls.                        *)
THEOREM ClientRefinesCalls == Spec => KeepsCallContract
  <1>1. Init => Remote!Init
    BY DEF Init, Remote!Init, CallState, Calls
  <1>2. WaitInv /\ Sent /\ [Next]_vars => [Remote!Next]_(Remote!vars)
    <2> SUFFICES ASSUME WaitInv, Sent, [Next]_vars PROVE [Remote!Next]_(Remote!vars)
      OBVIOUS
    <2>1. CASE UNCHANGED vars
      <3>1. States' = States
        BY <2>1, SameStates DEF vars, callVars, CallState
      <3> QED BY <2>1, <3>1 DEF vars, serverVars, Remote!vars, States
    <2> QED BY <2>1, CallRefines, ReaderRefines, OthersRefine DEF Next
  <1> QED BY <1>1, <1>2, WaitInvariant, SentInvariant, PTL
          DEF Spec, KeepsCallContract, Remote!Spec

=============================================================================
