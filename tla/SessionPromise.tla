----------------------------- MODULE SessionPromise -----------------------------
(* What the server promises of a session that nothing went wrong with: it is     *)
(* pending, then running or failed, then stopped for good; its container comes   *)
(* while it is pending, is there when it starts to run, goes while it still runs *)
(* and is gone when it stops.  SessionLifecycle implements it.                   *)

CONSTANT Sessions

VARIABLES
    status,     (* of the row of a session                                       *)
    there,      (* the sessions that have a container                            *)
    going,      (* those a DELETE has removed the container of, and nothing else *)
    astray      (* the sessions nothing is promised of any more                  *)

vars == <<status, there, going, astray>>

Init ==
    /\ status = [s \in Sessions |-> "none"]
    /\ there = {}
    /\ going = {}
    /\ astray = {}

Becomes(s, st) == status'[s] = st
Stays(s) == s \in there' <=> s \in there

Ask(s) == status[s] = "none" /\ Becomes(s, "pending") /\ Stays(s)
Start(s) ==
    status[s] = "pending" /\ s \notin there /\ Becomes(s, "pending") /\ s \in there'
Run(s) == status[s] = "pending" /\ s \in there /\ Becomes(s, "running") /\ Stays(s)
Fail(s) ==
    status[s] = "pending" /\ s \notin there /\ Becomes(s, "failed") /\ Stays(s)
Remove(s) ==
    status[s] = "running" /\ s \in there /\ Becomes(s, "running") /\ s \notin there'
Stop(s) ==
    /\ status[s] \in {"running", "failed"} /\ s \notin there
    /\ Becomes(s, "stopped") /\ Stays(s)

Step(s) ==
    \/ Ask(s) \/ Start(s) \/ Run(s) \/ Fail(s) \/ Remove(s) \/ Stop(s)
    \/ Becomes(s, status[s]) /\ Stays(s)

(* Only a DELETE in progress parts a running session from its container. *)
Kept(s) == status'[s] = "running" => s \in there' \cup going'

(* The end of the process is a step of many sessions at once. *)
Next ==
    /\ \A s \in Sessions : (Step(s) /\ Kept(s)) \/ s \in astray'
    /\ DOMAIN status' = Sessions
    /\ there' \subseteq Sessions /\ going' \subseteq Sessions
    /\ astray \subseteq astray' /\ astray' \subseteq Sessions

Spec == Init /\ [][Next]_vars

===============================================================================
