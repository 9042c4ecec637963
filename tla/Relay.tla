--------------------------------- MODULE Relay ---------------------------------
(* What a proxy between two ends promises: what an end gets is what the other    *)
(* one sent, in order, without a gap and without duplicates, up to some point;   *)
(* or else one message of the proxy itself, which says that it has no connection *)
(* to the other end, and nothing more.  NoVNC implements it.                     *)
EXTENDS Naturals, Sequences

CONSTANTS Ends,         (* the two ends                                          *)
          Other         (* Other[e]: the end opposite e                          *)

VARIABLES
    sent,       (* how many messages an end has sent; they are numbered          *)
    got,        (* those that an end has got                                     *)
    told        (* the ends that have got the proxy's own message                *)

vars == <<sent, got, told>>

Init == sent = [e \in Ends |-> 0] /\ got = [e \in Ends |-> <<>>] /\ told = {}

Send(e) == sent' = [sent EXCEPT ![e] = @ + 1] /\ UNCHANGED <<got, told>>

Deliver(e) ==
    /\ e \notin told
    /\ Len(got[e]) < sent[Other[e]]
    /\ got' = [got EXCEPT ![e] = Append(@, Len(@) + 1)]
    /\ UNCHANGED <<sent, told>>

Tell(e) ==
    /\ e \notin told /\ got[e] = <<>>
    /\ told' = told \cup {e}
    /\ UNCHANGED <<sent, got>>

Next == \E e \in Ends : Send(e) \/ Deliver(e) \/ Tell(e)

Spec == Init /\ [][Next]_vars

===============================================================================
