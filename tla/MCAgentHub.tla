------------------------------- MODULE MCAgentHub -------------------------------
(* Instances of AgentHub for TLC.                                                *)
EXTENDS AgentHub, TLC

CONSTANTS a1, k1, k2, q1

OneAgent == [k \in Conns |-> a1]
AllForOne == [q \in Requests |-> a1]

NoPings == [k \in Conns |-> 0]
OnePing == [k \in Conns |-> IF k = k1 THEN 1 ELSE 0]
===============================================================================
