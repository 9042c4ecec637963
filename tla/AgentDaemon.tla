------------------------------ MODULE AgentDaemon ------------------------------
(* The daemon of an installed agent, agent/cmd/rd-agent/main.go, composed with   *)
(* the server of AgentHub: it announces itself over HTTP, keeps one control      *)
(* socket, and makes another three seconds after it has lost that one.  What it  *)
(* has given up may still reach the server later.                                *)
EXTENDS AgentHub

CONSTANT Flaky      (* bound: the sockets on which the network or the database    *)
                    (* may fail while the daemon uses them                        *)

VARIABLES
    loop,       (* where main and runAgentLoop of an agent are                    *)
    cur,        (* the socket it has dialed last                                  *)
    link        (* a socket is fresh, dialed, or accepted: the daemon has the     *)
                (* answer that the server upgraded it                             *)

dvars == <<loop, cur, link>>
allvars == <<vars, dvars>>

DTypeOK ==
    /\ loop \in [Agents -> {"starting", "ready", "dialing", "running", "resting",
                            "stopped", "failed"}]
    /\ cur \in [Agents -> Conns \cup {None}]
    /\ link \in [Conns -> {"fresh", "dialed", "accepted"}]

DInit ==
    /\ Init
    /\ loop = [a \in Agents |-> "starting"]
    /\ cur = [a \in Agents |-> None]
    /\ link = [k \in Conns |-> "fresh"]

Fresh(a) == {k \in Conns : AgentOf[k] = a /\ link[k] = "fresh"}

(* The daemon has closed its end, or has gone. *)
Abandoned(k) ==
    /\ link[k] # "fresh"
    /\ cur[AgentOf[k]] = k => loop[AgentOf[k]] \notin {"dialing", "running"}

At(a, here, there) == loop[a] \in here /\ loop' = [loop EXCEPT ![a] = there]

-------------------------------------------------------------------------------
(* The daemon *)

(* announce, at the start and before each new socket.  Only the first one has to *)
(* succeed: log.Fatalf.                                                          *)
Announce(a) ==
    /\ At(a, {"starting", "resting"}, "ready")
    /\ Presence(a)
    /\ UNCHANGED <<cur, link>>

Refused_Fatal(a) == At(a, {"starting", "resting"}, "failed")
Refused(a) == At(a, {"starting"}, "failed") \/ At(a, {"resting"}, "ready")
AnnounceFails(a) == Refused(a) /\ UNCHANGED <<vars, cur, link>>

Dial(a) ==
    /\ At(a, {"ready"}, "dialing")
    /\ \E k \in Fresh(a) :
          /\ k = CHOOSE j \in Fresh(a) : TRUE
          /\ cur' = [cur EXCEPT ![a] = k]
          /\ link' = [link EXCEPT ![k] = "dialed"]
    /\ UNCHANGED vars

(* The answer to the upgrade comes before the server registers the socket. *)
DialSucceeds(a) ==
    LET k == cur[a]
    IN  /\ At(a, {"dialing"}, "running")
        /\ k \notin gone
        /\ pc[k] = "marked" \/ conn[k] # "none"
        /\ link' = [link EXCEPT ![k] = "accepted"]
        /\ UNCHANGED <<vars, cur>>

(* An answer that is none, or 45 seconds without one. *)
DialFails(a) ==
    /\ At(a, {"dialing"}, "resting")
    /\ cur[a] \in Flaky \/ pc[cur[a]] \in {"closed", "ended"}
    /\ UNCHANGED <<vars, cur, link>>

(* While the server is down there is no connection to begin with. *)
DialRefused(a) ==
    /\ At(a, {"dialing"}, "resting")
    /\ ~Up /\ pc[cur[a]] = "idle"
    /\ link' = [link EXCEPT ![cur[a]] = "fresh"]
    /\ UNCHANGED <<vars, cur>>

(* ReadMessage fails in the reading goroutine, and the loop returns; the end of  *)
(* the server's process closes its sockets.                                      *)
Notices(k) == Broken(k) \/ pc[k] = "ended" \/ ~Up
SocketLost(a) ==
    /\ At(a, {"running"}, "resting")
    /\ Notices(cur[a])
    /\ UNCHANGED <<vars, cur, link>>

(* Every 20 seconds; an error is ignored, and so is that of the UPDATE on the    *)
(* side of the server.  The ping that follows is ReadPing.                       *)
Tick_PingOnly(a) == loop[a] = "running" /\ UNCHANGED allvars
Tick(a) == loop[a] = "running" /\ Presence(a) /\ UNCHANGED dvars

(* A signal, or the end of the process or the computer. *)
Interrupt(a) ==
    /\ At(a, {"starting", "ready", "dialing", "running", "resting"}, "stopped")
    /\ UNCHANGED <<vars, cur, link>>

-------------------------------------------------------------------------------
(* The server, which may get a request to upgrade when the daemon has given up.  *)
(* That nobody asks it for a session meanwhile is what AgentHub adds.            *)
Arrive(k) ==
    /\ link[k] # "fresh"
    /\ \/ MarkOnline(k)
       \/ (k \in Flaky \/ status[AgentOf[k]] = "deleted") /\ Reject(k)

Serve(k) ==
    /\ UNCHANGED dvars
    /\ \/ Arrive(k)
       \/ link[k] = "dialed" /\ k \in Flaky /\ UpgradeFails(k)
       \/ link[k] = "accepted" /\ ReadPing(k)
       \/ Register(k) \/ Greet(k) \/ TakeMessage(k) \/ StopServing(k)
       \/ WriteDone(k) \/ WriteError(k) \/ Unregister(k) \/ MarkOffline(k)
       \/ ReadError(k)
       \/ (k \in Flaky \/ Abandoned(k)) /\ HangUp(k)

Daemon(a) ==
    \/ Announce(a) \/ AnnounceFails(a) \/ Dial(a) \/ DialSucceeds(a) \/ DialFails(a)
    \/ DialRefused(a) \/ SocketLost(a) \/ Tick(a) \/ Interrupt(a)

DNext ==
    \/ \E a \in Agents : Daemon(a)
    \/ \E k \in Conns : Serve(k)
    \/ (\E a \in Agents : DeleteAgent(a)) /\ UNCHANGED dvars
    \/ Restart /\ UNCHANGED dvars

DSpec == DInit /\ [][DNext]_allvars

(* Calls return, with an error if need be (gorilla/websocket bounds the          *)
(* handshake, TCP the rest by its keep-alive), requests that were sent arrive,   *)
(* timers fire, and the server finds out that the daemon has closed a socket.    *)
(* Of the presence calls, again and again, one has an UPDATE that does not fail. *)
DFairness ==
    /\ Fairness
    /\ \A a \in Agents :
          /\ WF_allvars(Announce(a) \/ AnnounceFails(a))
          /\ WF_allvars(Dial(a))
          /\ WF_allvars(DialSucceeds(a) \/ DialFails(a) \/ DialRefused(a))
          /\ WF_allvars(SocketLost(a))
          /\ WF_allvars(Tick(a))
    /\ \A k \in Conns :
          /\ WF_allvars(Abandoned(k) /\ HangUp(k) /\ UNCHANGED dvars)
          /\ WF_allvars(~Abandoned(k) /\ Arrive(k) /\ UNCHANGED dvars)

DFairSpec == DSpec /\ DFairness

-------------------------------------------------------------------------------
(* Properties *)

Served(a) == loop[a] = "running" /\ agents[a] = cur[a]

(* Once it has started, a daemon is never left with a socket that the server     *)
(* does not serve, whatever it has given up registers late, kicks its new socket *)
(* out or takes the server down: it is served in the end, unless it is stopped   *)
(* or its agent deleted.                                                         *)
ComesBack ==
    \A a \in Agents :
        loop[a] \notin {"starting", "failed"}
            ~> Served(a) \/ loop[a] = "stopped" \/ status[a] = "deleted"

(* When the daemon keeps its socket for good, that socket gets and keeps the     *)
(* place in the registry, whatever registers late, and the row does not stay     *)
(* offline although the UPDATE of a replaced socket came after its own.          *)
RowRepaired ==
    \A a \in Agents :
        <>[](loop[a] = "running" /\ status[a] # "deleted")
            => <>[](Served(a) /\ Listed(a) = "online") /\ []<>(status[a] = "online")

(* The server closes a socket that its daemon still uses only for another one of *)
(* the same agent that the daemon has given up, or when it dies.                 *)
OnlyLateKicks ==
    [][\A a \in Agents :
          (/\ loop[a] = "running" /\ cur[a] \notin gone
           /\ conn[cur[a]] = "open" /\ conn'[cur[a]] = "closed")
             => \/ agents'[a] # None /\ Abandoned(agents'[a])
                \/ ~Up]_allvars

-------------------------------------------------------------------------------
(* The invariant behind OnlyLateKicks: a handler gives up only a socket that is  *)
(* broken, and every socket that the server has heard of was dialed.             *)
EndsBroken(k) ==
    /\ pc[k] \in {"idle", "marked"} => reader[k] = "off" /\ chan[k] = "none"
    /\ reader[k] = "done" => Broken(k)
    /\ chan[k] = "closed" => conn[k] = "closed"
    /\ pc[k] = "closing" => Broken(k)
    /\ pc[k] # "idle" => link[k] # "fresh"
UseInv ==
    /\ \A k \in Conns : EndsBroken(k)
    /\ \A a \in Agents : loop[a] \in {"dialing", "running"} =>
                             cur[a] \in Conns /\ AgentOf[cur[a]] = a

===============================================================================
