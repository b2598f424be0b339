---------------------------- MODULE MCAgentBridge ----------------------------
(* Small instances of AgentBridge for TLC.                                 *)
EXTENDS AgentBridge

(* The first request leaves no way to refuse; the others are as usual.     *)
MCOffers == [q \in Asks |-> IF q = 1 THEN {"allow"} ELSE {"allow", "reject"}]
=============================================================================
