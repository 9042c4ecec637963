----------------------------- MODULE ConnectPromise -----------------------------
(* What POST /api/agents/{id}/connect promises, whatever the sockets of the      *)
(* agent do meanwhile: the agent hears of a session at most once, a request      *)
(* answered with a failure is never heard of, and one answered with success has  *)
(* been handed over, though it may be lost on the way.  AgentHub implements it.  *)

CONSTANT Requests

VARIABLES
    fate,       (* of the message of a request: "unsent", on its way, heard, lost *)
    answer      (* of the request: "none" yet, "ok", "failed" or "error"          *)

vars == <<fate, answer>>

Init ==
    /\ fate = [q \in Requests |-> "unsent"]
    /\ answer = [q \in Requests |-> "none"]

Becomes(q, f, a) == fate'[q] = f /\ answer'[q] = a

HandOver(q) ==
    fate[q] = "unsent" /\ answer[q] = "none" /\ Becomes(q, "carried", "none")
Hear(q) == fate[q] = "carried" /\ Becomes(q, "heard", answer[q])
Lose(q) == fate[q] = "carried" /\ Becomes(q, "lost", answer[q])
Succeed(q) ==
    fate[q] # "unsent" /\ answer[q] = "none" /\ Becomes(q, fate[q], "ok")
Fail(q) ==
    fate[q] = "unsent" /\ answer[q] = "none" /\ Becomes(q, "unsent", "failed")
(* The handler or the server goes down with the request, and with the message if *)
(* it has not been heard.                                                        *)
Break(q) ==
    /\ answer[q] = "none"
    /\ Becomes(q, IF fate[q] = "heard" THEN "heard" ELSE "lost", "error")

Step(q) ==
    \/ HandOver(q) \/ Hear(q) \/ Lose(q) \/ Succeed(q) \/ Fail(q) \/ Break(q)
    \/ Becomes(q, fate[q], answer[q])

(* A crash of the server is a step of many requests at once. *)
Next ==
    /\ \A q \in Requests : Step(q)
    /\ DOMAIN fate' = Requests
    /\ DOMAIN answer' = Requests

Spec == Init /\ [][Next]_vars

===============================================================================
