-------------------------------- MODULE AgentHub --------------------------------
(* The control plane of the installed agents: the registry of their sockets in   *)
(* server/internal/signal/agenthub.go and the HTTP handlers around it in         *)
(* server/internal/api/agents.go, with the agents and sessions rows they write.  *)
(* A socket is driven by the goroutine of its HTTP handler, which writes, and by *)
(* one that reads; a connect request runs on a goroutine of its own.             *)
EXTENDS Naturals, Sequences, FiniteSets

CONSTANTS Agents,     (* the rows of the agents table                            *)
          Conns,      (* the control sockets; each is opened at most once        *)
          AgentOf,    (* AgentOf[k]: the agent whose token socket k presents     *)
          Requests,   (* the POST /api/agents/{id}/connect requests              *)
          Target,     (* Target[q]: the agent request q is for                   *)
          None,       (* no socket, no message                                   *)
          Pong,       (* the answer to a ping                                    *)
          SendCap,    (* capacity of a socket's send channel (32 in the code)    *)
          MaxPings    (* bound: MaxPings[k] is how many pings k's peer sends     *)

ASSUME AgentHubAssumption ==
    /\ None \notin Conns
    /\ None \notin Requests
    /\ Pong \notin Requests
    /\ Pong # None
    /\ AgentOf \in [Conns -> Agents]
    /\ Target \in [Requests -> Agents]
    /\ SendCap \in Nat \ {0}
    /\ MaxPings \in [Conns -> Nat]

(* The connect message of a request is named by the request. *)
Messages == Requests \cup {Pong}

VARIABLES
    agents,     (* AgentHub.agents: the socket registered for an agent           *)
    status,     (* agents.status                                                 *)
    pc,         (* where the handler of a socket is                              *)
    reader,     (* where its reading goroutine is                                *)
    chan,       (* its send channel: not made, open or closed                    *)
    send,       (* what is queued in it                                          *)
    conn,       (* the WebSocket: not made, open, or closed by the server        *)
    out,        (* the message being written                                     *)
    gone,       (* the sockets whose peer has hung up                            *)
    pings,      (* number of pings of a socket handled so far                    *)
    rq,         (* where a connect request is, or how it was answered            *)
    held,       (* the socket it has looked up                                   *)
    sess,       (* the status of the session row it inserted                     *)
    stopping,   (* DELETE of that session: has written the session, not the agent*)
    down,       (* "no", or the reason the server process died                   *)
    heard,      (* history: how often the agent received the message of a request*)
    stuck       (* history: agents left busy, for they were set so after their   *)
                (* last handler had set them offline, or its UPDATE to offline   *)
                (* failed, or the server died                                    *)

vars == <<agents, status, pc, reader, chan, send, conn, out, gone, pings, rq,
          held, sess, stopping, down, heard, stuck>>

sockets == <<agents, pc, reader, chan, send, conn, out, gone, pings, heard>>
requests == <<rq, held, sess, stopping>>
rows == <<status, stuck>>

TypeOK ==
    /\ agents \in [Agents -> Conns \cup {None}]
    /\ status \in [Agents -> {"offline", "online", "busy", "deleted"}]
    /\ pc \in [Conns -> {"idle", "marked", "greeting", "waiting", "writing",
                         "closing", "closed", "ended"}]
    /\ reader \in [Conns -> {"off", "reading", "done"}]
    /\ chan \in [Conns -> {"none", "open", "closed"}]
    /\ send \in [Conns -> Seq(Messages)]
    /\ conn \in [Conns -> {"none", "open", "closed"}]
    /\ out \in [Conns -> Messages \cup {None}]
    /\ gone \in SUBSET Conns
    /\ pings \in [Conns -> Nat]
    /\ rq \in [Requests -> {"idle", "found", "inserted", "sending", "failing",
                            "notified", "refused", "answered", "panicked"}]
    /\ held \in [Requests -> Conns \cup {None}]
    /\ sess \in [Requests -> {"none", "running", "failed", "stopped"}]
    /\ stopping \in SUBSET Requests
    /\ down \in {"no", "pong", "close"}
    /\ heard \in [Requests -> Nat]
    /\ stuck \in SUBSET Agents

Init ==
    /\ agents = [a \in Agents |-> None]
    /\ status = [a \in Agents |-> "offline"]
    /\ pc = [k \in Conns |-> "idle"]
    /\ reader = [k \in Conns |-> "off"]
    /\ chan = [k \in Conns |-> "none"]
    /\ send = [k \in Conns |-> <<>>]
    /\ conn = [k \in Conns |-> "none"]
    /\ out = [k \in Conns |-> None]
    /\ gone = {}
    /\ pings = [k \in Conns |-> 0]
    /\ rq = [q \in Requests |-> "idle"]
    /\ held = [q \in Requests |-> None]
    /\ sess = [q \in Requests |-> "none"]
    /\ stopping = {}
    /\ down = "no"
    /\ heard = [q \in Requests |-> 0]
    /\ stuck = {}

-------------------------------------------------------------------------------

Up == down = "no"
Goto(k, l) == pc' = [pc EXCEPT ![k] = l]
Answer(q, l) == rq' = [rq EXCEPT ![q] = l]
Broken(k) == k \in gone \/ conn[k] = "closed"

(* A handler is running that will set the agent offline when it ends. *)
Active(a) == \E k \in Conns : AgentOf[k] = a /\ pc[k] \notin {"idle", "ended"}

(* UPDATE agents SET status = v WHERE id = a: no row, no effect. *)
SetStatus(a, v) ==
    status' = IF status[a] = "deleted" THEN status ELSE [status EXCEPT ![a] = v]

(* The statement can fail; all who make it drop the error and go on. *)
Update(a, v) ==
    \/ /\ SetStatus(a, v)
       /\ stuck' = IF v = "busy" /\ ~Active(a) THEN stuck \cup {a} ELSE stuck \ {a}
    \/ UNCHANGED rows

(* What GET /api/agents says of the status of a row: the registry overrides it. *)
Listed(a) == IF agents[a] # None THEN "online"
             ELSE IF status[a] = "online" THEN "offline" ELSE status[a]

(* The definitions named X_... are faulty variants of X, each with a mistake     *)
(* that a change of the code could bring in; the specification uses none.        *)

-------------------------------------------------------------------------------
(* handleAgentSocket and HandleAgentSocket *)

(* The token names a row of the table, which is set online.  (A deletion between *)
(* the two statements is a deletion just after.)                                 *)
MarkOnline(k) ==
    /\ Up
    /\ pc[k] = "idle"
    /\ status[AgentOf[k]] # "deleted"
    /\ Update(AgentOf[k], "online")
    /\ Goto(k, "marked")
    /\ UNCHANGED <<agents, reader, chan, send, conn, out, gone, pings, down, heard>>
    /\ UNCHANGED requests

Reject(k) ==
    /\ Up
    /\ pc[k] = "idle"
    /\ Goto(k, "ended")
    /\ UNCHANGED <<agents, rows, reader, chan, send, conn, out, gone, pings,
                   down, heard>>
    /\ UNCHANGED requests

UpgradeFails(k) ==
    /\ Up
    /\ pc[k] = "marked"
    /\ Goto(k, "closed")
    /\ UNCHANGED <<agents, rows, reader, chan, send, conn, out, gone, pings,
                   down, heard>>
    /\ UNCHANGED requests

(* Register, under h.mu: the socket registered before, if any, has its channel   *)
(* and its connection closed, and loses its place.                               *)
Replaced(k) == {j \in Conns : agents[AgentOf[k]] = j}

(* Each socket gets a channel of its own. *)
NewQueue_Inherited(k) ==
    IF agents[AgentOf[k]] = None THEN <<>> ELSE send[agents[AgentOf[k]]]
NewQueue(k) == <<>>

Register(k) ==
    /\ Up
    /\ pc[k] = "marked"
    /\ Goto(k, "greeting")
    /\ chan' = [j \in Conns |-> IF j = k THEN "open"
                                ELSE IF j \in Replaced(k) THEN "closed" ELSE chan[j]]
    /\ conn' = [j \in Conns |-> IF j = k THEN "open"
                                ELSE IF j \in Replaced(k) THEN "closed" ELSE conn[j]]
    /\ down' = IF \E j \in Replaced(k) : chan[j] = "closed" THEN "close" ELSE down
    /\ agents' = [agents EXCEPT ![AgentOf[k]] = k]
    /\ send' = [send EXCEPT ![k] = NewQueue(k)]
    /\ UNCHANGED <<rows, reader, out, gone, pings, heard>>
    /\ UNCHANGED requests

(* The welcome is written, its error ignored, and the reader started. *)
Greet(k) ==
    /\ Up
    /\ pc[k] = "greeting"
    /\ Goto(k, "waiting")
    /\ reader' = [reader EXCEPT ![k] = "reading"]
    /\ UNCHANGED <<agents, rows, chan, send, conn, out, gone, pings, down, heard>>
    /\ UNCHANGED requests

(* The select of the writing loop picks any branch that is ready.  A closed      *)
(* channel still yields what is queued in it.                                    *)
TakeMessage(k) ==
    /\ Up
    /\ pc[k] = "waiting"
    /\ send[k] # <<>>
    /\ out' = [out EXCEPT ![k] = Head(send[k])]
    /\ send' = [send EXCEPT ![k] = Tail(@)]
    /\ Goto(k, "writing")
    /\ UNCHANGED <<agents, rows, reader, chan, conn, gone, pings, down, heard>>
    /\ UNCHANGED requests

StopServing(k) ==
    /\ Up
    /\ pc[k] = "waiting"
    /\ reader[k] = "done" \/ (send[k] = <<>> /\ chan[k] = "closed")
    /\ Goto(k, "closing")
    /\ UNCHANGED <<agents, rows, reader, chan, send, conn, out, gone, pings,
                   down, heard>>
    /\ UNCHANGED requests

(* A write can succeed although the peer is gone: the message is then lost.  A   *)
(* write to a connection that Register has closed cannot.                        *)
WriteDone(k) ==
    /\ Up
    /\ pc[k] = "writing"
    /\ conn[k] = "open"
    /\ heard' = IF out[k] \in Requests /\ k \notin gone
                THEN [heard EXCEPT ![out[k]] = @ + 1] ELSE heard
    /\ out' = [out EXCEPT ![k] = None]
    /\ Goto(k, "waiting")
    /\ UNCHANGED <<agents, rows, reader, chan, send, conn, gone, pings, down>>
    /\ UNCHANGED requests

WriteError(k) ==
    /\ Up
    /\ pc[k] = "writing"
    /\ Broken(k)
    /\ out' = [out EXCEPT ![k] = None]
    /\ Goto(k, "closing")
    /\ UNCHANGED <<agents, rows, reader, chan, send, conn, gone, pings, down,
                   heard>>
    /\ UNCHANGED requests

(* The deferred Unregister, which leaves the registry alone when a newer socket  *)
(* has taken the place, and Close.                                               *)
Remaining_ByAgent(k) == [agents EXCEPT ![AgentOf[k]] = None]
Remaining(k) == [a \in Agents |-> IF agents[a] = k THEN None ELSE agents[a]]

Release_ClosesSend(k) ==
    /\ agents' = Remaining(k)
    /\ chan' = [chan EXCEPT ![k] = "closed"]
    /\ down' = IF chan[k] = "closed" THEN "close" ELSE down
Release(k) == agents' = Remaining(k) /\ UNCHANGED <<chan, down>>

Unregister(k) ==
    /\ Up
    /\ pc[k] = "closing"
    /\ Release(k)
    /\ conn' = [conn EXCEPT ![k] = "closed"]
    /\ Goto(k, "closed")
    /\ UNCHANGED <<rows, reader, send, out, gone, pings, heard>>
    /\ UNCHANGED requests

(* The row is set offline, whether or not another socket serves the agent now,   *)
(* unless the statement fails.                                                   *)
WriteOffline_UnlessBusy(a) ==
    IF status[a] = "busy" THEN UNCHANGED status ELSE SetStatus(a, "offline")
WriteOffline(a) == SetStatus(a, "offline")

MarkOffline(k) ==
    LET a == AgentOf[k]
    IN  /\ Up
        /\ pc[k] = "closed"
        /\ Goto(k, "ended")
        /\ \/ WriteOffline(a) /\ stuck' = stuck \ {a}
           \/ /\ stuck' = IF status[a] = "busy" /\ ~Active(a)' THEN stuck \cup {a}
                                                              ELSE stuck
              /\ UNCHANGED status
        /\ UNCHANGED <<agents, reader, chan, send, conn, out, gone, pings, down, heard>>
        /\ UNCHANGED requests

(* The reader answers pings on the send channel, outside every lock; when        *)
(* Register has closed it the send panics in a goroutine that nothing recovers.  *)
ReadPing(k) ==
    /\ Up
    /\ reader[k] = "reading"
    /\ pings[k] < MaxPings[k]
    /\ pings' = [pings EXCEPT ![k] = @ + 1]
    /\ \/ /\ chan[k] = "closed"
          /\ down' = "pong"
          /\ UNCHANGED send
       \/ /\ chan[k] # "closed"
          /\ Len(send[k]) < SendCap
          /\ send' = [send EXCEPT ![k] = Append(@, Pong)]
          /\ UNCHANGED down
       \/ /\ chan[k] # "closed"
          /\ Len(send[k]) >= SendCap
          /\ UNCHANGED <<send, down>>
    /\ UNCHANGED <<agents, rows, pc, reader, chan, conn, out, gone, heard>>
    /\ UNCHANGED requests

ReadFails_NotWhenClosed(k) == k \in gone
ReadFails_Deadline(k) == TRUE
ReadFails(k) == Broken(k)

ReadError(k) ==
    /\ Up
    /\ reader[k] = "reading"
    /\ ReadFails(k)
    /\ reader' = [reader EXCEPT ![k] = "done"]
    /\ UNCHANGED <<agents, rows, pc, chan, send, conn, out, gone, pings, down,
                   heard>>
    /\ UNCHANGED requests

-------------------------------------------------------------------------------
(* handleConnectAgent *)

Lookup(q) ==
    /\ Up
    /\ rq[q] = "idle"
    /\ \/ status[Target[q]] # "deleted" /\ Answer(q, "found")
       \/ Answer(q, "refused")
    /\ UNCHANGED <<rows, down, held, sess, stopping>>
    /\ UNCHANGED sockets

(* IsOnline, then the INSERT, which can fail, of a session that is running from  *)
(* the start.  (That the agent goes offline between the two is that it does so   *)
(* just after.)                                                                  *)
InsertSession(q) ==
    /\ Up
    /\ rq[q] = "found"
    /\ \/ Answer(q, "refused") /\ UNCHANGED sess
       \/ /\ agents[Target[q]] # None
          /\ Answer(q, "inserted")
          /\ sess' = [sess EXCEPT ![q] = "running"]
    /\ UNCHANGED <<rows, down, held, stopping>>
    /\ UNCHANGED sockets

(* NotifyConnect looks the socket up under the read lock and lets go of it ...   *)
FindSocket(q) == agents[Target[q]]

NotifyConnect(q) ==
    /\ Up
    /\ rq[q] = "inserted"
    /\ held' = [held EXCEPT ![q] = FindSocket(q)]
    /\ Answer(q, IF FindSocket(q) = None THEN "failing" ELSE "sending")
    /\ UNCHANGED <<rows, down, sess, stopping>>
    /\ UNCHANGED sockets

(* ... so that the channel it sends on can have been closed since.  The panic is *)
(* recovered by the router's middleware: the request is answered 500 and the     *)
(* session row stays as it is.                                                   *)
Sent_Failing == "failing"
Sent == "notified"

SendConnect(q) ==
    LET k == held[q]
    IN  /\ Up
        /\ rq[q] = "sending"
        /\ \/ /\ chan[k] = "closed"
              /\ Answer(q, "panicked")
              /\ UNCHANGED send
           \/ /\ chan[k] # "closed"
              /\ Len(send[k]) < SendCap
              /\ Answer(q, Sent)
              /\ send' = [send EXCEPT ![k] = Append(@, q)]
        /\ UNCHANGED <<agents, rows, pc, reader, chan, conn, out, gone, pings,
                       heard, down, held, sess, stopping>>

(* Two seconds with a full queue. *)
Expired_Never(k) == FALSE
Expired(k) == chan[k] # "closed" /\ Len(send[k]) >= SendCap

NotifyTimeout(q) ==
    /\ Up
    /\ rq[q] = "sending"
    /\ Expired(held[q])
    /\ Answer(q, "failing")
    /\ UNCHANGED <<rows, down, held, sess, stopping>>
    /\ UNCHANGED sockets

(* The UPDATEs from here on are made with their errors dropped. *)
MarkFailed(q) ==
    /\ Up
    /\ rq[q] = "failing"
    /\ sess' = [sess EXCEPT ![q] = "failed"] \/ UNCHANGED sess
    /\ Answer(q, "refused")
    /\ UNCHANGED <<rows, down, held, stopping>>
    /\ UNCHANGED sockets

MarkBusy(q) ==
    /\ Up
    /\ rq[q] = "notified"
    /\ Update(Target[q], "busy")
    /\ Answer(q, "answered")
    /\ UNCHANGED <<down, held, sess, stopping>>
    /\ UNCHANGED sockets

-------------------------------------------------------------------------------
(* The other handlers that write these rows *)

(* handleDeleteSession of an agent's session: two statements. *)
StopSession(q) ==
    /\ Up
    /\ sess[q] \in {"running", "failed"}
    /\ q \notin stopping
    /\ sess' = [sess EXCEPT ![q] = "stopped"] \/ UNCHANGED sess
    /\ stopping' = stopping \cup {q}
    /\ UNCHANGED <<rows, down, rq, held>>
    /\ UNCHANGED sockets

FreeAgent(q) ==
    /\ Up
    /\ q \in stopping
    /\ Update(Target[q], "online")
    /\ stopping' = stopping \ {q}
    /\ UNCHANGED <<down, rq, held, sess>>
    /\ UNCHANGED sockets

(* handleAgentPresence *)
Presence(a) ==
    /\ Up
    /\ status[a] # "deleted"
    /\ Update(a, "online")
    /\ UNCHANGED down
    /\ UNCHANGED sockets
    /\ UNCHANGED requests

(* handleDeleteAgent: the row goes, the socket stays. *)
DeleteAgent(a) ==
    /\ Up
    /\ status' = [status EXCEPT ![a] = "deleted"]
    /\ UNCHANGED <<down, stuck>>
    /\ UNCHANGED sockets
    /\ UNCHANGED requests

-------------------------------------------------------------------------------
(* The environment *)

HangUp(k) ==
    /\ pc[k] \notin {"idle", "ended"}
    /\ k \notin gone
    /\ gone' = gone \cup {k}
    /\ UNCHANGED <<agents, rows, pc, reader, chan, send, conn, out, pings, down,
                   heard>>
    /\ UNCHANGED requests

(* Docker starts a new process after a panic: the registry is empty, sockets and *)
(* requests are lost, the rows are as they were.                                 *)
Restart ==
    LET lost == {k \in Conns : pc[k] # "idle"}
    IN  /\ ~Up
        /\ down' = "no"
        /\ agents' = [a \in Agents |-> None]
        /\ pc' = [k \in Conns |-> IF k \in lost THEN "ended" ELSE pc[k]]
        /\ reader' = [k \in Conns |-> IF k \in lost THEN "done" ELSE reader[k]]
        /\ chan' = [k \in Conns |-> IF k \in lost THEN "closed" ELSE chan[k]]
        /\ conn' = [k \in Conns |-> IF k \in lost THEN "closed" ELSE conn[k]]
        /\ send' = [k \in Conns |-> <<>>]
        /\ out' = [k \in Conns |-> None]
        /\ rq' = [q \in Requests |-> IF rq[q] \in {"idle", "refused", "answered"}
                                     THEN rq[q] ELSE "panicked"]
        /\ stopping' = {}
        /\ stuck' = stuck \cup {a \in Agents : status[a] = "busy"}
        /\ UNCHANGED <<status, gone, pings, held, sess, heard>>

Socket(k) ==
    \/ MarkOnline(k) \/ Reject(k) \/ UpgradeFails(k) \/ Register(k) \/ Greet(k)
    \/ TakeMessage(k) \/ StopServing(k) \/ WriteDone(k) \/ WriteError(k)
    \/ Unregister(k) \/ MarkOffline(k)
    \/ ReadPing(k) \/ ReadError(k)
    \/ HangUp(k)

Request(q) ==
    \/ Lookup(q) \/ InsertSession(q) \/ NotifyConnect(q) \/ SendConnect(q)
    \/ NotifyTimeout(q) \/ MarkFailed(q) \/ MarkBusy(q)
    \/ StopSession(q) \/ FreeAgent(q)

Next ==
    \/ \E k \in Conns : Socket(k)
    \/ \E q \in Requests : Request(q)
    \/ \E a \in Agents : Presence(a) \/ DeleteAgent(a)
    \/ Restart

Spec == Init /\ [][Next]_vars

(* Goroutines that can run do, statements on the database return, a read or a    *)
(* write on a broken connection fails, the timer fires, docker restarts the      *)
(* process.  A write to a live peer need not return: nothing in the code bounds  *)
(* it.                                                                           *)
Fairness ==
    /\ \A k \in Conns :
          /\ WF_vars(UpgradeFails(k) \/ Register(k))
          /\ WF_vars(Broken(k) /\ Greet(k))
          /\ WF_vars(TakeMessage(k) \/ StopServing(k))
          /\ WF_vars(WriteError(k))
          /\ WF_vars(Unregister(k))
          /\ WF_vars(MarkOffline(k))
          /\ WF_vars(ReadError(k))
    /\ \A q \in Requests :
          /\ WF_vars(InsertSession(q))
          /\ WF_vars(NotifyConnect(q))
          /\ WF_vars(SendConnect(q) \/ NotifyTimeout(q))
          /\ WF_vars(MarkFailed(q))
          /\ WF_vars(MarkBusy(q))
          /\ WF_vars(FreeAgent(q))
    /\ WF_vars(Restart)

FairSpec == Spec /\ Fairness

(* As FairSpec, for agents that read what they are sent. *)
ReadingPeers == \A k \in Conns : WF_vars(Greet(k)) /\ WF_vars(WriteDone(k))
ReadingSpec == FairSpec /\ ReadingPeers

-------------------------------------------------------------------------------
(* Properties *)

Serving(k) == pc[k] \in {"greeting", "waiting", "writing", "closing"}

(* Of the sockets of an agent that are being served, exactly the last one to     *)
(* register has an open channel, and it is the one in the registry: a socket     *)
(* that ends late does not take down the one that replaced it, and none that has *)
(* ended is ever left there.                                                     *)
LatestServes ==
    \A k \in Conns : (Serving(k) /\ chan[k] = "open") <=> agents[AgentOf[k]] = k

(* Register closes the channel of the socket it replaces at most once, whatever  *)
(* the handlers of the two do meanwhile; the only panic that ends the process is *)
(* the answer to the ping of a replaced socket.                                  *)
OnlyPongPanics == down \in {"no", "pong"}

InQueue(k, q) == \E i \in 1 .. Len(send[k]) : send[k][i] = q
Holders(q) == {k \in Conns : InQueue(k, q) \/ out[k] = q}

(* The agent is told of a session at most once, also when it reconnects while    *)
(* the message is on its way: a replaced socket still writes what it has queued, *)
(* and the one that replaced it starts with nothing.                             *)
HeardOnce == \A q \in Requests : Cardinality(Holders(q)) + heard[q] <= 1

(* The connect message of a request goes to no socket but one of its agent's.    *)
RightAgent == \A q \in Requests : \A k \in Holders(q) : AgentOf[k] = Target[q]

(* When the answer is "failed to reach agent" and the session is set to failed,  *)
(* the agent has not been and will not be told to open it.                       *)
FailedIsUnsent ==
    \A q \in Requests :
        rq[q] \in {"failing", "refused"} \/ sess[q] = "failed"
            => Holders(q) = {} /\ heard[q] = 0

(* The same and more as an abstract specification: what became of the message of *)
(* a request and how the request was answered, read off sockets and requests.    *)
(* After a panic or a crash a message that nobody holds is lost.                 *)
FateOf(q) == IF heard[q] > 0 THEN "heard"
             ELSE IF Holders(q) # {} THEN "carried"
             ELSE IF rq[q] \in {"notified", "answered", "panicked"} THEN "lost"
             ELSE "unsent"
AnswerOf(q) == IF rq[q] = "answered" THEN "ok"
               ELSE IF rq[q] = "refused" THEN "failed"
               ELSE IF rq[q] = "panicked" THEN "error" ELSE "none"

Promise == INSTANCE ConnectPromise
           WITH fate <- [q \in Requests |-> FateOf(q)],
                answer <- [q \in Requests |-> AnswerOf(q)]

(* However sockets replace one another, end and take messages down with them, a  *)
(* connect request keeps what ConnectPromise says: heard of at most once, never  *)
(* after a failure was answered, never handed over again.                        *)
KeepsPromise == Promise!Spec

(* An agent that is busy has a handler that will set it offline, or was left so  *)
(* by one of three events since its row was last written: it was set busy after  *)
(* its last handler had set it offline, its last handler failed to, or the       *)
(* server died.  In no other order of the UPDATEs of sockets that replace one    *)
(* another, requests, deletions and presence calls is it busy for nobody.        *)
LeftBusy ==
    \A a \in Agents : status[a] = "busy" => Active(a) \/ a \in stuck

(* A socket whose peer hung up, or that was replaced, ends: the handler, though  *)
(* it may be stuck in a write, and the reader.                                   *)
SocketEnds ==
    \A k \in Conns : Serving(k) /\ Broken(k) ~> pc[k] = "ended" /\ reader[k] = "done"

(* A connect request is answered, also when the agent does not read.             *)
ConnectAnswered ==
    \A q \in Requests :
        rq[q] = "inserted" ~> rq[q] \in {"answered", "refused", "panicked"}

(* docs/deployment.md:100: "When the agent is online, click Connect - this       *)
(* controls the real machine".  A request answered 201 for an agent that is, at  *)
(* last for good, connected and online is one that the agent gets to hear of,    *)
(* unless the session is stopped.                                                *)
OnlineForGood(a) == <>[](/\ agents[a] # None
                         /\ agents[a] \notin gone
                         /\ status[a] # "deleted")
ConnectControls ==
    \A q \in Requests :
        OnlineForGood(Target[q]) =>
            (rq[q] = "answered" ~> heard[q] > 0 \/ sess[q] # "running")

-------------------------------------------------------------------------------
(* The inductive invariant behind LatestServes and OnlyPongPanics: an agent's    *)
(* place in the registry is only ever held by a socket of that agent.            *)
RegistryInv ==
    /\ OnlyPongPanics
    /\ LatestServes
    /\ \A a \in Agents : agents[a] # None => AgentOf[agents[a]] = a

(* The inductive invariant behind HeardOnce, RightAgent and KeepsPromise: a      *)
(* message is in one place, one of a socket of its agent, from being handed over *)
(* until it is heard or lost, and nowhere before.                                *)
Carries(k, q) == InQueue(k, q) \/ out[k] = q
Unsent(q) == rq[q] \in {"idle", "found", "inserted", "sending", "failing", "refused"}

QueueDistinct(k) ==
    /\ \A i, j \in 1 .. Len(send[k]) : send[k][i] = send[k][j] => i = j \/ send[k][i] = Pong
    /\ \A i \in 1 .. Len(send[k]) : send[k][i] = out[k] => out[k] = Pong
OnePlace(q) ==
    /\ \A j, k \in Conns : Carries(j, q) /\ Carries(k, q) => j = k
    /\ \A k \in Conns : Carries(k, q) => AgentOf[k] = Target[q] /\ heard[q] = 0
    /\ heard[q] <= 1
Handing(q) ==
    /\ Unsent(q) => heard[q] = 0 /\ \A k \in Conns : ~Carries(k, q)
    /\ rq[q] = "sending" => held[q] \in Conns /\ AgentOf[held[q]] = Target[q]
    /\ sess[q] = "failed" => rq[q] = "refused"
DeliveryInv ==
    /\ \A k \in Conns : QueueDistinct(k)
    /\ \A q \in Requests : OnePlace(q) /\ Handing(q)

===============================================================================
