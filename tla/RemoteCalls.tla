----------------------------- MODULE RemoteCalls -----------------------------
(***************************************************************************)
(* What a caller may rely on when it sends requests to another process: a  *)
(* call is issued once and settled at most once, for good; it is answered  *)
(* only after the other side has taken that very call; and the end of the  *)
(* connection may fail any number of calls together.  Nothing is promised  *)
(* of when a call is settled.                                              *)
(***************************************************************************)
CONSTANT Calls      \* the calls the callers may make

VARIABLES
  state,            \* of each call
  taken             \* the calls the other side has read

vars == <<state, taken>>

States == {"idle", "waiting", "answered", "failed"}

Init == state = [c \in Calls |-> "idle"] /\ taken = {}

Issue(c) ==
  /\ state[c] = "idle"
  /\ state' = [state EXCEPT ![c] = "waiting"]
  /\ UNCHANGED taken

(* The caller is refused: the connection is known to be gone.              *)
Refuse(c) ==
  /\ state[c] = "idle"
  /\ state' = [state EXCEPT ![c] = "failed"]
  /\ UNCHANGED taken

(* The other side reads a call, perhaps one its caller has given up.       *)
Take(c) ==
  /\ state[c] # "idle"
  /\ taken' = taken \cup {c}
  /\ UNCHANGED state

Answer(c) ==
  /\ state[c] = "waiting" /\ c \in taken
  /\ state' = [state EXCEPT ![c] = "answered"]
  /\ UNCHANGED taken

Fail(S) ==
  /\ \A c \in S : state[c] = "waiting"
  /\ state' = [c \in Calls |-> IF c \in S THEN "failed" ELSE state[c]]
  /\ UNCHANGED taken

Next ==
  \/ \E c \in Calls : Issue(c) \/ Refuse(c) \/ Take(c) \/ Answer(c)
  \/ \E S \in SUBSET Calls : Fail(S)

Spec == Init /\ [][Next]_vars

=============================================================================
