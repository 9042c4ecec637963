-------------------------------- MODULE Viewing --------------------------------
(* What the Windows client promises of its bridges, but for one that resists     *)
(* Kill: one at most runs, for the session the user chose last; a bridge serves  *)
(* one session in its life and is not started again; it goes when the user logs  *)
(* out or closes the window; and somebody who is logged out is connected only by *)
(* a creation he asked for when he was not.  WindowsClient implements it.        *)

CONSTANTS Bridges, Sessions, Null

VARIABLES
    user,       (* "out", "in", or "gone" with the program                       *)
    asked,      (* he has asked for a new session and has no answer              *)
    current,    (* the session chosen last, or Null                              *)
    live,       (* the bridges that run: none or one                             *)
    serves      (* the session of each bridge, Null until it is started          *)

vars == <<user, asked, current, live, serves>>

Init ==
    /\ user = "out" /\ asked = FALSE
    /\ current = Null /\ live = {}
    /\ serves = [b \in Bridges |-> Null]

Enter == user = "out" /\ user' = "in" /\ UNCHANGED <<asked, current, live, serves>>

Leave ==
    /\ user = "in" /\ user' = "out"
    /\ current' = Null /\ live' = {}
    /\ UNCHANGED <<asked, serves>>

Ask == user = "in" /\ ~asked /\ asked' = TRUE /\ UNCHANGED <<user, current, live, serves>>

GiveUp ==
    /\ user # "gone" /\ asked /\ asked' = FALSE
    /\ UNCHANGED <<user, current, live, serves>>

(* A new bridge for s takes the place of the one there was, or none does. *)
Connect(s) ==
    /\ current' = s
    /\ \/ live' = {} /\ UNCHANGED serves
       \/ \E b \in Bridges :
             /\ serves[b] = Null
             /\ live' = {b}
             /\ serves' = [serves EXCEPT ![b] = s]
    /\ UNCHANGED user

Choose(s) == user = "in" /\ Connect(s) /\ UNCHANGED asked

Answer(s) == user # "gone" /\ asked /\ asked' = FALSE /\ Connect(s)

(* The process ends by itself. *)
End == user # "gone" /\ live # {} /\ live' = {} /\ UNCHANGED <<user, asked, current, serves>>

(* The program ends, be it with an exception. *)
Close ==
    /\ user # "gone" /\ user' = "gone"
    /\ asked' = FALSE /\ current' = Null /\ live' = {}
    /\ UNCHANGED serves

Next ==
    \/ Enter \/ Leave \/ Ask \/ GiveUp
    \/ \E s \in Sessions : Choose(s) \/ Answer(s)
    \/ End \/ Close

Spec == Init /\ [][Next]_vars

===============================================================================
