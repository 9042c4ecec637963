------------------------------- MODULE Handshake -------------------------------
(* What a host and the viewers of its session agree on when the candidates, the  *)
(* queues and the pages are left out: one offer; a viewer takes it once, not     *)
(* before it was made, and answers once; the host takes at most one answer, of a *)
(* viewer that has sent it, and connects to that viewer.  Signaling implements   *)
(* it.                                                                           *)

CONSTANTS Viewers,
          None      (* not a viewer *)

VARIABLES
    host,       (* "before" its offer, "offered", "gone"                         *)
    viewer,     (* of a viewer: "waiting", "took" the offer, "answered", "gone"  *)
    way,        (* the viewers whose answers are on their way to the host        *)
    peer,       (* the viewer whose answer the host has taken                    *)
    link        (* between the two: "none" yet, "up", "failed"                   *)

vars == <<host, viewer, way, peer, link>>

Init ==
    /\ host = "before"
    /\ viewer = [v \in Viewers |-> "waiting"]
    /\ way = {}
    /\ peer = None
    /\ link = "none"

Becomes(v, st) == viewer' = [viewer EXCEPT ![v] = st]

Offer ==
    /\ host = "before" /\ host' = "offered"
    /\ UNCHANGED <<viewer, way, peer, link>>

Take(v) ==
    /\ host # "before"
    /\ viewer[v] = "waiting" /\ Becomes(v, "took")
    /\ UNCHANGED <<host, way, peer, link>>

(* The answer does not leave a viewer that has lost its connection. *)
Answer(v) ==
    /\ viewer[v] = "took" /\ Becomes(v, "answered")
    /\ v \notin way /\ way' \in {way, way \cup {v}}
    /\ UNCHANGED <<host, peer, link>>

Leave(v) == Becomes(v, "gone") /\ UNCHANGED <<host, way, peer, link>>

(* The first answer that comes counts. *)
Hear(v) ==
    /\ host = "offered"
    /\ v \in way /\ way' = way \ {v}
    /\ peer' = IF peer = None THEN v ELSE peer
    /\ UNCHANGED <<host, viewer, link>>

Lose == way' = {} /\ UNCHANGED <<host, viewer, peer, link>>

Connect ==
    /\ link = "none" /\ link' = "up"
    /\ host = "offered"
    /\ peer \in Viewers /\ viewer[peer] = "answered"
    /\ UNCHANGED <<host, viewer, way, peer>>

Break == link = "up" /\ link' = "failed" /\ UNCHANGED <<host, viewer, way, peer>>

HostGoes ==
    /\ host # "gone" /\ host' = "gone"
    /\ way' \subseteq way
    /\ link' = IF link = "up" THEN "failed" ELSE link
    /\ UNCHANGED <<viewer, peer>>

Next ==
    \/ Offer \/ Lose \/ Connect \/ Break \/ HostGoes
    \/ \E v \in Viewers : Take(v) \/ Answer(v) \/ Leave(v) \/ Hear(v)

Spec == Init /\ [][Next]_vars

===============================================================================
