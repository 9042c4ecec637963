----------------------------- MODULE MCAgentDaemon -----------------------------
(* An agent whose daemon reconnects, for TLC.                                    *)
EXTENDS AgentDaemon, TLC

CONSTANTS a1, k1, k2, k3, k4

OneAgent == [k \in Conns |-> a1]
NoTarget == <<>>
OnePing == [k \in Conns |-> IF k = k1 THEN 1 ELSE 0]
===============================================================================
