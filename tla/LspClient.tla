------------------------------ MODULE LspClient ------------------------------
(***************************************************************************)
(* The client of one language server: callers on the runtime's threads,    *)
(* a bounded channel to a writer thread that feeds the server's stdin, a   *)
(* reader thread on its stdout, and the table of pending requests that the *)
(* callers and the reader share.                                           *)
(*                                                                         *)
(* Each access of shared state is an action: the test of is_running, the   *)
(* insertion under the lock, the send on the channel, which blocks while   *)
(* it is full.  The server is outside the repository: it reads its stdin   *)
(* only when it has nothing left to write, it may answer a request more    *)
(* than once or never, ask the client something, close its output, or exit.*)
(***************************************************************************)
EXTENDS Naturals, Sequences

CONSTANTS
  Requests,    \* the calls of request()
  Notices,     \* the calls of notify()
  Ask,         \* a request of the server, and the client's answer to it
  None,        \* nothing at hand
  Gone,        \* the writer thread has ended
  Cap,         \* the bound of the channel to the writer: 100 in the code
  Pipe,        \* what a pipe of the operating system holds
  MaxReplies,  \* bound: how many answers the server writes
  MaxAsks      \* bound: how many requests the server writes

Calls    == Requests \cup Notices
Messages == Calls \cup {Ask}
Replies  == [call : Requests, kind : {"result", "error", "neither"}]
Output   == Replies \cup {Ask}

ASSUME ConstantsAssumption ==
  /\ Requests \cap Notices = {}
  /\ Ask \notin Calls /\ None \notin Calls \cup {Ask}
  /\ Gone \notin Messages \cup {None}
  /\ {Ask, None} \cap Replies = {}
  /\ Cap \in Nat \ {0} /\ Pipe \in Nat \ {0}
  /\ MaxReplies \in Nat /\ MaxAsks \in Nat

VARIABLES
  pc,        \* how far each call is
  outcome,   \* what a call returned, or what its oneshot channel holds
  pending,   \* pending_requests
  running,   \* is_running
  chan,      \* the channel stdin_tx
  hand,      \* the message the writer thread has in hand, or Gone
  reader,    \* how far the reader thread is
  proc,      \* the server: up, mute (its output closed) or down
  sin, sout, \* the pipes: stdin and stdout of the server
  todo,      \* what the server is about to write
  got,       \* the requests the server has read
  spent,     \* the bounds' counters
  late       \* ghost: the requests between test and insertion at the drain

vars == <<pc, outcome, pending, running, chan, hand, reader, proc, sin, sout,
          todo, got, spent, late>>
callVars == <<pc, outcome, pending>>
serverVars == <<proc, todo, got, spent>>

Return(c, what) ==
  pc' = [pc EXCEPT ![c] = "done"] /\ outcome' = [outcome EXCEPT ![c] = what]

Room(s, n) == Len(s) < n
ChannelOpen == hand # Gone

-----------------------------------------------------------------------------
(* Mutant of Begin: no test of is_running.                                 *)
BeginUntested(c) ==
  /\ pc[c] = "idle"
  /\ pc' = [pc EXCEPT ![c] = "tested"]
  /\ UNCHANGED <<outcome, pending, running, chan, hand, reader, serverVars,
                 sin, sout, late>>

(* request() and notify(): the test of is_running.                         *)
Begin(c) ==
  /\ pc[c] = "idle"
  /\ IF running THEN pc' = [pc EXCEPT ![c] = "tested"] /\ UNCHANGED outcome
     ELSE Return(c, "err")
  /\ UNCHANGED <<pending, running, chan, hand, reader, serverVars, sin, sout, late>>

(* Mutant of Enlist: a notification enters the table as well.              *)
EnlistAny(c) ==
  /\ pc[c] = "tested"
  /\ pending' = pending \cup {c}
  /\ pc' = [pc EXCEPT ![c] = "listed"]
  /\ UNCHANGED <<outcome, running, chan, hand, reader, serverVars, sin, sout, late>>

(* request(): the sender enters the pending table.                         *)
Enlist(c) ==
  /\ c \in Requests /\ pc[c] = "tested"
  /\ pending' = pending \cup {c}
  /\ pc' = [pc EXCEPT ![c] = "listed"]
  /\ UNCHANGED <<outcome, running, chan, hand, reader, serverVars, sin, sout, late>>

(* stdin_tx.send: blocks while the channel is full, and fails once the     *)
(* writer has ended; a request that fails here leaves its entry behind.    *)
Send(c) ==
  /\ pc[c] = (IF c \in Requests THEN "listed" ELSE "tested")
  /\ IF ~ChannelOpen THEN Return(c, "err") /\ UNCHANGED chan
     ELSE /\ Room(chan, Cap)
          /\ chan' = Append(chan, c)
          /\ IF c \in Requests
             THEN pc' = [pc EXCEPT ![c] = "sent"] /\ UNCHANGED outcome
             ELSE Return(c, "ok")
  /\ UNCHANGED <<pending, running, hand, reader, serverVars, sin, sout, late>>

(* rx.await                                                                *)
Settle(c) ==
  /\ pc[c] = "sent" /\ outcome[c] # "none"
  /\ pc' = [pc EXCEPT ![c] = "done"]
  /\ UNCHANGED <<outcome, pending, running, chan, hand, reader, serverVars,
                 sin, sout, late>>

-----------------------------------------------------------------------------
(* The writer thread: recv, then write_all, which blocks while the pipe is *)
(* full and fails once the server has exited; the receiver is dropped then *)
(* with everything the channel held.                                       *)
WriterTakes ==
  /\ hand = None /\ chan # <<>>
  /\ hand' = Head(chan) /\ chan' = Tail(chan)
  /\ UNCHANGED <<callVars, running, reader, serverVars, sin, sout, late>>

WriterWrites ==
  /\ hand \in Messages
  /\ IF proc = "down" THEN hand' = Gone /\ chan' = <<>> /\ UNCHANGED sin
     ELSE /\ Room(sin, Pipe)
          /\ sin' = Append(sin, hand) /\ hand' = None /\ UNCHANGED chan
  /\ UNCHANGED <<callVars, running, reader, serverVars, sout, late>>

-----------------------------------------------------------------------------
(* Mutants of HandleResponse: the entry is looked up and not removed; the  *)
(* answer goes to whichever request is pending.                            *)
HandleResponseKeeps ==
  /\ reader = "read" /\ sout # <<>> /\ Head(sout) \in Replies
  /\ LET c == Head(sout).call IN
     outcome' = IF c \in pending
                THEN [outcome EXCEPT ![c] =
                        IF Head(sout).kind = "result" THEN "ok" ELSE "err"]
                ELSE outcome
  /\ sout' = Tail(sout)
  /\ UNCHANGED <<pc, pending, running, chan, hand, reader, serverVars, sin, late>>

HandleResponseAny ==
  /\ reader = "read" /\ sout # <<>> /\ Head(sout) \in Replies
  /\ IF pending # {}
     THEN \E c \in pending :
            /\ pending' = pending \ {c}
            /\ outcome' = [outcome EXCEPT ![c] =
                 IF Head(sout).kind = "result" THEN "ok" ELSE "err"]
     ELSE UNCHANGED <<pending, outcome>>
  /\ sout' = Tail(sout)
  /\ UNCHANGED <<pc, running, chan, hand, reader, serverVars, sin, late>>

(* The reader thread.  handle_response: the entry is removed and its       *)
(* sender used, or dropped when the answer has neither result nor error,   *)
(* which the caller sees as an error too.  Unknown numbers are ignored.    *)
HandleResponse ==
  /\ reader = "read" /\ sout # <<>> /\ Head(sout) \in Replies
  /\ LET c == Head(sout).call IN
     IF c \in pending
     THEN /\ pending' = pending \ {c}
          /\ outcome' = [outcome EXCEPT ![c] =
               IF Head(sout).kind = "result" THEN "ok" ELSE "err"]
     ELSE UNCHANGED <<pending, outcome>>
  /\ sout' = Tail(sout)
  /\ UNCHANGED <<pc, running, chan, hand, reader, serverVars, sin, late>>

(* handle_server_request: the reader itself answers, on the channel to the *)
(* writer, and reads nothing until there is room.                          *)
HandleServerRequest ==
  /\ reader = "read" /\ sout # <<>> /\ Head(sout) = Ask
  /\ sout' = Tail(sout)
  /\ reader' = "send"
  /\ UNCHANGED <<callVars, running, chan, hand, serverVars, sin, late>>

(* Mutant of SendServerResponse: retries when the writer has ended.        *)
SendServerResponseRetries ==
  /\ reader = "send"
  /\ ChannelOpen /\ Room(chan, Cap)
  /\ chan' = Append(chan, Ask)
  /\ reader' = "read"
  /\ UNCHANGED <<callVars, running, hand, serverVars, sin, sout, late>>

SendServerResponse ==
  /\ reader = "send"
  /\ IF ~ChannelOpen THEN UNCHANGED chan
     ELSE Room(chan, Cap) /\ chan' = Append(chan, Ask)
  /\ reader' = "read"
  /\ UNCHANGED <<callVars, running, hand, serverVars, sin, sout, late>>

(* mark_stopped, at the end of the output: the flag, then the drain.       *)
OutputEnds ==
  /\ reader = "read" /\ sout = <<>> /\ proc # "up"
  /\ running' = FALSE
  /\ reader' = "drain"
  /\ UNCHANGED <<callVars, chan, hand, serverVars, sin, sout, late>>

(* Mutant of Drain: the table is left as it is.                            *)
DrainForgotten ==
  /\ reader = "drain"
  /\ reader' = "gone"
  /\ late' = {c \in Requests : pc[c] = "tested"}
  /\ UNCHANGED <<callVars, running, chan, hand, serverVars, sin, sout>>

Drain ==
  /\ reader = "drain"
  /\ outcome' = [c \in Calls |-> IF c \in pending THEN "err" ELSE outcome[c]]
  /\ pending' = {}
  /\ reader' = "gone"
  /\ late' = {c \in Requests : pc[c] = "tested"}
  /\ UNCHANGED <<pc, running, chan, hand, serverVars, sin, sout>>

-----------------------------------------------------------------------------
(* The server.                                                             *)
ServerReads ==
  /\ proc # "down" /\ todo = None /\ sin # <<>>
  /\ sin' = Tail(sin)
  /\ got' = got \cup ({Head(sin)} \cap Requests)
  /\ UNCHANGED <<callVars, running, chan, hand, reader, proc, sout, todo, spent, late>>

ServerReplies(r) ==
  /\ proc = "up" /\ todo = None
  /\ r.call \in got /\ spent.replies < MaxReplies
  /\ todo' = r
  /\ spent' = [spent EXCEPT !.replies = @ + 1]
  /\ UNCHANGED <<callVars, running, chan, hand, reader, proc, sin, sout, got, late>>

ServerAsks ==
  /\ proc = "up" /\ todo = None
  /\ spent.asks < MaxAsks
  /\ todo' = Ask
  /\ spent' = [spent EXCEPT !.asks = @ + 1]
  /\ UNCHANGED <<callVars, running, chan, hand, reader, proc, sin, sout, got, late>>

ServerWrites ==
  /\ proc = "up" /\ todo # None /\ Room(sout, Pipe)
  /\ sout' = Append(sout, todo)
  /\ todo' = None
  /\ UNCHANGED <<callVars, running, chan, hand, reader, proc, sin, got, spent, late>>

ServerMutes ==
  /\ proc = "up"
  /\ proc' = "mute" /\ todo' = None
  /\ UNCHANGED <<callVars, running, chan, hand, reader, sin, sout, got, spent, late>>

ServerExits ==
  /\ proc # "down"
  /\ proc' = "down" /\ todo' = None /\ sin' = <<>>
  /\ UNCHANGED <<callVars, running, chan, hand, reader, sout, got, spent, late>>

-----------------------------------------------------------------------------
Init ==
  /\ pc = [c \in Calls |-> "idle"]
  /\ outcome = [c \in Calls |-> "none"]
  /\ pending = {}
  /\ running = TRUE
  /\ chan = <<>> /\ hand = None
  /\ reader = "read"
  /\ proc = "up"
  /\ sin = <<>> /\ sout = <<>>
  /\ todo = None
  /\ got = {}
  /\ spent = [replies |-> 0, asks |-> 0]
  /\ late = {}

CallStep(c) == Begin(c) \/ Enlist(c) \/ Send(c) \/ Settle(c)

ReaderStep ==
  \/ HandleResponse
  \/ HandleServerRequest
  \/ SendServerResponse
  \/ OutputEnds
  \/ Drain

ServerStep ==
  \/ ServerReads
  \/ \E r \in Replies : ServerReplies(r)
  \/ ServerAsks
  \/ ServerWrites
  \/ ServerMutes
  \/ ServerExits

Next ==
  \/ \E c \in Calls : CallStep(c)
  \/ WriterTakes
  \/ WriterWrites
  \/ ReaderStep
  \/ ServerStep

Spec == Init /\ [][Next]_vars

(* The threads run.  The server reads while it has nothing to write and    *)
(* writes when there is room; it is not assumed to answer, nor to exit.    *)
Fairness ==
  /\ \A c \in Calls : WF_vars(Enlist(c)) /\ WF_vars(Send(c)) /\ WF_vars(Settle(c))
  /\ WF_vars(WriterTakes) /\ WF_vars(WriterWrites)
  /\ WF_vars(ReaderStep)
  /\ WF_vars(ServerReads) /\ WF_vars(ServerWrites)

FairSpec == Spec /\ Fairness

-----------------------------------------------------------------------------
(* Every variable has its type.                                            *)
TypeOK ==
  /\ pc \in [Calls -> {"idle", "tested", "listed", "sent", "done"}]
  /\ outcome \in [Calls -> {"none", "ok", "err"}]
  /\ pending \in SUBSET Requests
  /\ running \in BOOLEAN
  /\ chan \in Seq(Messages)
  /\ hand \in Messages \cup {None, Gone}
  /\ reader \in {"read", "send", "drain", "gone"}
  /\ proc \in {"up", "mute", "down"}
  /\ sin \in Seq(Messages)
  /\ sout \in Seq(Output)
  /\ todo \in Output \cup {None}
  /\ got \in SUBSET Requests
  /\ spent \in [{"replies", "asks"} -> Nat]
  /\ late \in SUBSET Requests

Unsettled(c) == pc[c] \in {"listed", "sent"} /\ outcome[c] = "none"

(* Once the reader has drained the table nothing answers any more.  The    *)
(* only requests left waiting then are those that had passed the test of   *)
(* is_running and not yet entered the table: request() does the two        *)
(* without a common lock, and no other order of the three threads strands  *)
(* a caller.                                                               *)
OnlyLateAreStranded ==
  reader = "gone" => \A c \in Requests : Unsettled(c) => c \in late

(* The pending table holds only requests whose caller waits, as long as    *)
(* the writer runs: an entry outlives its call only when the send failed,  *)
(* after the insertion, because the writer had ended.                      *)
PendingIsAwaited ==
  \A c \in pending : Unsettled(c) \/ hand = Gone

(* When the server exits or closes its output, every call that is under    *)
(* way returns, the late ones excepted; calls have no timeout, so this is  *)
(* the only end a request to a silent server has.                          *)
EndSettlesCalls ==
  \A c \in Calls :
    (proc # "up" /\ pc[c] # "idle") ~> (pc[c] = "done" \/ c \in late)

(* The reader waits for room in the channel, the writer for room in the    *)
(* server's stdin, the server for room in its stdout, which only the       *)
(* reader empties.                                                         *)
Jam ==
  /\ reader = "send" /\ ~Room(chan, Cap)
  /\ hand \in Messages /\ ~Room(sin, Pipe)
  /\ todo # None /\ ~Room(sout, Pipe)

(* The reader answers the server's requests itself, on the bounded channel *)
(* it shares with the callers.  It goes on reading, except in that circle: *)
(* no smaller set of full queues blocks it, nor does the end of the        *)
(* writer.                                                                 *)
ReaderMovesOn == (reader = "send") ~> (reader # "send" \/ Jam)

(* The client keeps what RemoteCalls promises of calls, for its requests:  *)
(* settled once and for good, answered only after the server read that     *)
(* very request, whatever the order of answers, drain and failing sends.   *)
CallState(c) ==
  IF pc[c] = "idle" THEN "idle"
  ELSE IF outcome[c] = "none" THEN "waiting"
  ELSE IF outcome[c] = "ok" THEN "answered" ELSE "failed"

Remote == INSTANCE RemoteCalls WITH
  Calls <- Requests,
  state <- [c \in Requests |-> CallState(c)],
  taken <- got

KeepsCallContract == Remote!Spec

=============================================================================
