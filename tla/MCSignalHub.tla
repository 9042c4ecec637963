------------------------------ MODULE MCSignalHub ------------------------------
(* Instances of SignalHub for TLC.                                              *)
EXTENDS SignalHub, TLC

CONSTANTS c1, c2, c3, s1, s2

(* All connections of one session, or the last one of another session. *)
OneSession == [c \in Clients |-> s1]
TwoSessions == [c \in Clients |-> IF c = c3 THEN s2 ELSE s1]

(* How many frames the peers send. *)
None0 == [c \in Clients |-> 0]
Each2 == [c \in Clients |-> 2]
C1Pings == [c \in Clients |-> IF c = c1 THEN 2 ELSE 0]
C2Casts == [c \in Clients |-> IF c = c2 THEN 1 ELSE 0]
C1C3Cast == [c \in Clients |-> CASE c = c1 -> 3 [] c = c3 -> 1 [] OTHER -> 0]
===============================================================================
