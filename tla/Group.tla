--------------------------------- MODULE Group ---------------------------------
(* What a signaling hub promises to the connections of a session: while one is   *)
(* in, what it gets of the others of its session is what they say from then on,  *)
(* each speaker's messages in order, once and without a gap.  When it has missed *)
(* one it is cut off for good; what it still gets then may have gaps, but no     *)
(* message comes twice or after a later one.  Nothing comes from another         *)
(* session, nor from the connection itself.  SignalHub implements it.            *)
EXTENDS Naturals

CONSTANTS Clients,      (* the connections                                       *)
          Session       (* Session[c]: the session of c                          *)

VARIABLES
    state,      (* of a connection: "out", "in", or "cut" off                    *)
    said,       (* said[d]: how many messages d has said; they are numbered      *)
    got         (* got[c][d]: the last message of d that c has got, or that was  *)
                (* said before c came in                                         *)

vars == <<state, said, got>>

Peers(c) == {d \in Clients \ {c} : Session[d] = Session[c]}

Init ==
    /\ state = [c \in Clients |-> "out"]
    /\ said = [c \in Clients |-> 0]
    /\ got = [c \in Clients |-> [d \in Clients |-> 0]]

Join(c) ==
    /\ state[c] = "out"
    /\ state' = [state EXCEPT ![c] = "in"]
    /\ got' = [got EXCEPT ![c] = [d \in Clients |-> IF d \in Peers(c) THEN said[d] ELSE 0]]
    /\ UNCHANGED said

Say(d) ==
    /\ state[d] # "out"
    /\ said' = [said EXCEPT ![d] = @ + 1]
    /\ UNCHANGED <<state, got>>

Hear(c, d) ==
    /\ d \in Peers(c)
    /\ \E n \in got[c][d] + 1 .. said[d] :
          /\ got' = [got EXCEPT ![c][d] = n]
          /\ state[c] = "cut" \/ (state[c] = "in" /\ n = got[c][d] + 1)
    /\ UNCHANGED <<state, said>>

(* A crash of the hub cuts off many at once. *)
Cut(C) ==
    /\ state' = [c \in Clients |-> IF c \in C THEN "cut" ELSE state[c]]
    /\ UNCHANGED <<said, got>>

Next ==
    \/ \E c \in Clients : Join(c) \/ Say(c) \/ \E d \in Clients : Hear(c, d)
    \/ \E C \in SUBSET Clients : Cut(C)

Spec == Init /\ [][Next]_vars

===============================================================================
