----------------------------- MODULE AgentHub_proofs -----------------------------
(* Safety of the agents' registry for any agents, sockets, requests and capacity, *)
(* and of the registry together with the daemons that connect to it.              *)
EXTENDS AgentDaemon, SequenceTheorems, FiniteSetTheorems, TLAPS

LEMMA SetStatusType ==
    ASSUME TypeOK, NEW a \in Agents, NEW v \in {"offline", "online", "busy"},
           SetStatus(a, v)
    PROVE  status' \in [Agents -> {"offline", "online", "busy", "deleted"}]
  BY DEF TypeOK, SetStatus

LEMMA UpdateType ==
    ASSUME TypeOK, NEW a \in Agents, NEW v \in {"offline", "online", "busy"},
           Update(a, v)
    PROVE  /\ status' \in [Agents -> {"offline", "online", "busy", "deleted"}]
           /\ stuck' \in SUBSET Agents
  BY SetStatusType DEF TypeOK, Update, rows

LEMMA SocketTarget ==
    /\ \A k \in Conns : AgentOf[k] \in Agents
    /\ \A q \in Requests : Target[q] \in Agents
  BY AgentHubAssumption

(* Typing of the steps of a socket's two goroutines. *)
LEMMA SocketTypes ==
    ASSUME TypeOK, NEW k \in Conns, Socket(k)
    PROVE  TypeOK'
<1>1. CASE MarkOnline(k)
  BY <1>1, UpdateType, SocketTarget DEF TypeOK, MarkOnline, Goto, requests, rows
<1>2. CASE Reject(k)
  BY <1>2 DEF TypeOK, Reject, Goto, requests, rows
<1>3. CASE UpgradeFails(k)
  BY <1>3 DEF TypeOK, UpgradeFails, Goto, requests, rows
<1>4. CASE Register(k)
  <2>1. /\ chan' \in [Conns -> {"none", "open", "closed"}]
        /\ conn' \in [Conns -> {"none", "open", "closed"}]
    BY <1>4 DEF TypeOK, Register
  <2>2. send' \in [Conns -> Seq(Messages)]
    <3>1. send' = [send EXCEPT ![k] = <<>>]
      BY <1>4 DEF Register, NewQueue
    <3>2. QED
      BY <3>1 DEF TypeOK
  <2>3. QED
    BY <1>4, <2>1, <2>2, SocketTarget DEF TypeOK, Register, Goto, requests, rows
<1>5. CASE Greet(k)
  BY <1>5 DEF TypeOK, Greet, Goto, requests, rows
<1>6. CASE TakeMessage(k)
  <2>1. Head(send[k]) \in Messages /\ Tail(send[k]) \in Seq(Messages)
    BY <1>6, HeadTailProperties DEF TypeOK, TakeMessage
  <2>2. QED
    BY <1>6, <2>1 DEF TypeOK, TakeMessage, Goto, requests, rows
<1>7. CASE StopServing(k)
  BY <1>7 DEF TypeOK, StopServing, Goto, requests, rows
<1>8. CASE WriteDone(k)
  <2>1. heard' \in [Requests -> Nat]
    <3>1. CASE heard' = heard
      BY <3>1 DEF TypeOK
    <3>2. CASE out[k] \in Requests /\ heard' = [heard EXCEPT ![out[k]] = @ + 1]
      <4>1. heard[out[k]] \in Nat
        BY <3>2 DEF TypeOK
      <4>2. QED
        BY <3>2, <4>1 DEF TypeOK
    <3>3. QED
      BY <1>8, <3>1, <3>2 DEF WriteDone
  <2>2. QED
    BY <1>8, <2>1 DEF TypeOK, WriteDone, Goto, requests, rows
<1>9. CASE WriteError(k)
  BY <1>9 DEF TypeOK, WriteError, Goto, requests, rows
<1>10. CASE Unregister(k)
  BY <1>10 DEF TypeOK, Unregister, Release, Remaining, Goto, requests, rows
<1>11. CASE MarkOffline(k)
  BY <1>11, SetStatusType, SocketTarget
  DEF TypeOK, MarkOffline, WriteOffline, Goto, requests, rows
<1>12. CASE ReadPing(k)
  <2>1. send' \in [Conns -> Seq(Messages)]
    <3>1. CASE send' = send
      BY <3>1 DEF TypeOK
    <3>2. CASE send' = [send EXCEPT ![k] = Append(@, Pong)]
      <4>1. Append(send[k], Pong) \in Seq(Messages)
        BY AppendProperties DEF TypeOK, Messages
      <4>2. QED
        BY <3>2, <4>1 DEF TypeOK
    <3>3. QED
      BY <1>12, <3>1, <3>2 DEF ReadPing
  <2>2. pings' \in [Conns -> Nat]
    <3>1. pings[k] \in Nat
      BY DEF TypeOK
    <3>2. pings' = [pings EXCEPT ![k] = pings[k] + 1]
      BY <1>12 DEF ReadPing
    <3>3. QED
      BY <3>1, <3>2 DEF TypeOK
  <2>3. down' \in {"no", "pong", "close"}
    BY <1>12 DEF TypeOK, ReadPing
  <2>4. QED
    BY <1>12, <2>1, <2>2, <2>3 DEF TypeOK, ReadPing, requests, rows
<1>13. CASE ReadError(k)
  BY <1>13 DEF TypeOK, ReadError, requests, rows
<1>14. CASE HangUp(k)
  BY <1>14 DEF TypeOK, HangUp, requests, rows
<1>15. QED
  BY <1>1, <1>2, <1>3, <1>4, <1>5, <1>6, <1>7, <1>8, <1>9, <1>10, <1>11,
     <1>12, <1>13, <1>14
  DEF Socket

(* Typing of the steps of a connect request and of the session it makes. *)
LEMMA RequestTypes ==
    ASSUME TypeOK, NEW q \in Requests, Request(q)
    PROVE  TypeOK'
<1>1. CASE Lookup(q)
  BY <1>1 DEF TypeOK, Lookup, Answer, sockets, rows
<1>2. CASE InsertSession(q)
  <2>1. CASE Answer(q, "refused") /\ UNCHANGED sess
    BY <1>2, <2>1 DEF TypeOK, InsertSession, Answer, sockets, rows
  <2>2. CASE Answer(q, "inserted") /\ sess' = [sess EXCEPT ![q] = "running"]
    BY <1>2, <2>2 DEF TypeOK, InsertSession, Answer, sockets, rows
  <2>3. QED
    BY <1>2, <2>1, <2>2 DEF InsertSession
<1>3. CASE NotifyConnect(q)
  BY <1>3, SocketTarget DEF TypeOK, NotifyConnect, FindSocket, Answer, sockets, rows
<1>4. CASE SendConnect(q)
  <2>1. send' \in [Conns -> Seq(Messages)]
    <3>1. CASE send' = send
      BY <3>1 DEF TypeOK
    <3>2. CASE send' = [send EXCEPT ![held[q]] = Append(@, q)]
      <4>1. held[q] \in Conns => Append(send[held[q]], q) \in Seq(Messages)
        BY AppendProperties DEF TypeOK, Messages
      <4>2. QED
        BY <3>2, <4>1 DEF TypeOK
    <3>3. QED
      BY <1>4, <3>1, <3>2 DEF SendConnect
  <2>2. rq' \in [Requests -> {"idle", "found", "inserted", "sending", "failing",
                              "notified", "refused", "answered", "panicked"}]
    <3>1. Answer(q, "panicked") \/ Answer(q, "notified")
      BY <1>4 DEF SendConnect, Sent
    <3>2. QED
      BY <3>1 DEF TypeOK, Answer
  <2>3. QED
    BY <1>4, <2>1, <2>2 DEF TypeOK, SendConnect, rows
<1>5. CASE NotifyTimeout(q)
  BY <1>5 DEF TypeOK, NotifyTimeout, Answer, sockets, rows
<1>6. CASE MarkFailed(q)
  BY <1>6 DEF TypeOK, MarkFailed, Answer, sockets, rows
<1>7. CASE MarkBusy(q)
  BY <1>7, UpdateType, SocketTarget DEF TypeOK, MarkBusy, Answer, sockets, rows
<1>8. CASE StopSession(q)
  BY <1>8 DEF TypeOK, StopSession, sockets, rows
<1>9. CASE FreeAgent(q)
  BY <1>9, UpdateType, SocketTarget DEF TypeOK, FreeAgent, sockets, rows
<1>10. QED
  BY <1>1, <1>2, <1>3, <1>4, <1>5, <1>6, <1>7, <1>8, <1>9 DEF Request

(* Every variable keeps its type, whatever sockets and requests do. *)
THEOREM AgentTypeCorrect == Spec => []TypeOK
<1>1. Init => TypeOK
  BY DEF Init, TypeOK
<1>2. TypeOK /\ [Next]_vars => TypeOK'
  <2> SUFFICES ASSUME TypeOK, [Next]_vars PROVE TypeOK'
    OBVIOUS
  <2>1. ASSUME NEW a \in Agents, Presence(a) PROVE TypeOK'
    BY <2>1, UpdateType DEF TypeOK, Presence, sockets, requests, rows
  <2>2. ASSUME NEW a \in Agents, DeleteAgent(a) PROVE TypeOK'
    BY <2>2 DEF TypeOK, DeleteAgent, sockets, requests, rows
  <2>3. ASSUME Restart PROVE TypeOK'
    BY <2>3 DEF TypeOK, Restart
  <2>4. CASE UNCHANGED vars
    BY <2>4 DEF TypeOK, vars
  <2>5. QED
    BY <2>1, <2>2, <2>3, <2>4, SocketTypes, RequestTypes DEF Next
<1>3. QED
  BY <1>1, <1>2, PTL DEF Spec

-------------------------------------------------------------------------------
(* The registry *)

(* A step of anything but Register, Unregister and Restart that serves no new    *)
(* socket and stops serving none.                                                *)
LEMMA RegistryFrame ==
    ASSUME RegistryInv, UNCHANGED <<agents, chan>>, down' \in {"no", "pong"},
           \A k \in Conns : Serving(k)' <=> Serving(k)
    PROVE  RegistryInv'
  BY DEF RegistryInv, LatestServes, OnlyPongPanics

LEMMA SocketRegistry ==
    ASSUME TypeOK, RegistryInv, NEW k \in Conns, Socket(k)
    PROVE  RegistryInv'
<1> USE SocketTarget
<1>1. CASE MarkOnline(k)
  BY <1>1, RegistryFrame DEF TypeOK, RegistryInv, OnlyPongPanics, MarkOnline, Goto,
     Serving
<1>2. CASE Reject(k)
  BY <1>2, RegistryFrame DEF TypeOK, RegistryInv, OnlyPongPanics, Reject, Goto, Serving
<1>3. CASE UpgradeFails(k)
  BY <1>3, RegistryFrame DEF TypeOK, RegistryInv, OnlyPongPanics, UpgradeFails, Goto,
     Serving
<1>4. CASE Register(k)
  <2> DEFINE a == AgentOf[k]
  <2>1. /\ pc[k] = "marked"
        /\ pc' = [pc EXCEPT ![k] = "greeting"]
        /\ agents' = [agents EXCEPT ![a] = k]
        /\ chan' = [j \in Conns |-> IF j = k THEN "open"
                                    ELSE IF j \in Replaced(k) THEN "closed" ELSE chan[j]]
        /\ down' = IF \E j \in Replaced(k) : chan[j] = "closed" THEN "close" ELSE down
    BY <1>4 DEF Register, Goto
  <2>2. \A j \in Conns : j \in Replaced(k) <=> agents[a] = j
    BY DEF Replaced
  <2>3. \A j \in Replaced(k) : AgentOf[j] = a /\ chan[j] = "open" /\ j # k
    <3>1. \A j \in Replaced(k) : j \in Conns /\ agents[a] = j
      BY DEF Replaced
    <3>2. \A j \in Replaced(k) : AgentOf[j] = a
      BY <3>1, AgentHubAssumption DEF RegistryInv
    <3>3. \A j \in Replaced(k) : Serving(j) /\ chan[j] = "open"
      BY <3>1, <3>2 DEF RegistryInv, LatestServes
    <3>4. ~Serving(k)
      BY <2>1 DEF Serving
    <3>5. QED
      BY <3>2, <3>3, <3>4
  <2>4. down' = down
    BY <2>1, <2>3
  <2>5. ASSUME NEW j \in Conns
        PROVE  (Serving(j)' /\ chan'[j] = "open") <=> agents'[AgentOf[j]] = j
    <3>1. CASE j = k
      BY <2>1, <3>1 DEF TypeOK, Serving
    <3>2. CASE j # k /\ AgentOf[j] # a
      <4>1. chan'[j] = chan[j] /\ pc'[j] = pc[j] /\ agents'[AgentOf[j]] = agents[AgentOf[j]]
        BY <2>1, <2>3, <3>2 DEF TypeOK
      <4>2. QED
        BY <4>1 DEF RegistryInv, LatestServes, Serving
    <3>3. CASE j # k /\ AgentOf[j] = a
      <4>1. agents'[AgentOf[j]] # j
        BY <2>1, <3>3 DEF TypeOK
      <4>2. CASE agents[a] = j
        BY <2>1, <2>2, <3>3, <4>1, <4>2
      <4>3. CASE agents[a] # j
        <5>1. chan'[j] = chan[j] /\ pc'[j] = pc[j]
          BY <2>1, <2>2, <3>3, <4>3 DEF TypeOK
        <5>2. QED
          BY <3>3, <4>1, <4>3, <5>1 DEF RegistryInv, LatestServes, Serving
      <4>4. QED
        BY <4>2, <4>3
    <3>4. QED
      BY <3>1, <3>2, <3>3
  <2>6. \A b \in Agents : agents'[b] # None => AgentOf[agents'[b]] = b
    BY <2>1 DEF TypeOK, RegistryInv
  <2>7. QED
    BY <2>4, <2>5, <2>6 DEF RegistryInv, LatestServes, OnlyPongPanics
<1>5. CASE Greet(k)
  BY <1>5, RegistryFrame DEF TypeOK, RegistryInv, OnlyPongPanics, Greet, Goto, Serving
<1>6. CASE TakeMessage(k)
  BY <1>6, RegistryFrame DEF TypeOK, RegistryInv, OnlyPongPanics, TakeMessage, Goto,
     Serving
<1>7. CASE StopServing(k)
  BY <1>7, RegistryFrame DEF TypeOK, RegistryInv, OnlyPongPanics, StopServing, Goto,
     Serving
<1>8. CASE WriteDone(k)
  BY <1>8, RegistryFrame DEF TypeOK, RegistryInv, OnlyPongPanics, WriteDone, Goto,
     Serving
<1>9. CASE WriteError(k)
  BY <1>9, RegistryFrame DEF TypeOK, RegistryInv, OnlyPongPanics, WriteError, Goto,
     Serving
<1>10. CASE Unregister(k)
  <2>1. /\ pc[k] = "closing"
        /\ pc' = [pc EXCEPT ![k] = "closed"]
        /\ agents' = [a \in Agents |-> IF agents[a] = k THEN None ELSE agents[a]]
        /\ UNCHANGED <<chan, down>>
    BY <1>10 DEF Unregister, Release, Remaining, Goto
  <2>2. ASSUME NEW j \in Conns
        PROVE  (Serving(j)' /\ chan'[j] = "open") <=> agents'[AgentOf[j]] = j
    <3>1. CASE j = k
      BY <2>1, <3>1, AgentHubAssumption DEF TypeOK, Serving
    <3>2. CASE j # k
      <4>1. pc'[j] = pc[j]
        BY <2>1, <3>2 DEF TypeOK
      <4>2. agents'[AgentOf[j]] = j <=> agents[AgentOf[j]] = j
        BY <2>1, <3>2, AgentHubAssumption
      <4>3. QED
        BY <2>1, <4>1, <4>2 DEF RegistryInv, LatestServes, Serving
    <3>3. QED
      BY <3>1, <3>2
  <2>3. QED
    BY <2>1, <2>2 DEF RegistryInv, LatestServes, OnlyPongPanics
<1>11. CASE MarkOffline(k)
  BY <1>11, RegistryFrame DEF TypeOK, RegistryInv, OnlyPongPanics, MarkOffline, Goto,
     Serving
<1>12. CASE ReadPing(k)
  BY <1>12, RegistryFrame DEF RegistryInv, OnlyPongPanics, ReadPing, Serving
<1>13. CASE ReadError(k)
  BY <1>13, RegistryFrame DEF RegistryInv, OnlyPongPanics, ReadError, Serving
<1>14. CASE HangUp(k)
  BY <1>14, RegistryFrame DEF RegistryInv, OnlyPongPanics, HangUp, Serving
<1>15. QED
  BY <1>1, <1>2, <1>3, <1>4, <1>5, <1>6, <1>7, <1>8, <1>9, <1>10, <1>11,
     <1>12, <1>13, <1>14
  DEF Socket

(* Requests and the other handlers never touch the registry: a connect that      *)
(* finds its channel closed only brings down its own request.                    *)
LEMMA OthersRegistry ==
    ASSUME RegistryInv,
           \/ \E q \in Requests : Request(q)
           \/ \E a \in Agents : Presence(a) \/ DeleteAgent(a)
    PROVE  RegistryInv'
<1>1. ASSUME NEW q \in Requests, Request(q) PROVE UNCHANGED <<agents, chan, pc, down>>
  BY <1>1 DEF Request, Lookup, InsertSession, NotifyConnect, SendConnect,
     NotifyTimeout, MarkFailed, MarkBusy, StopSession, FreeAgent, sockets, rows
<1>2. ASSUME NEW a \in Agents, Presence(a) \/ DeleteAgent(a)
      PROVE  UNCHANGED <<agents, chan, pc, down>>
  BY <1>2 DEF Presence, DeleteAgent, sockets, rows
<1>3. QED
  BY <1>1, <1>2, RegistryFrame DEF RegistryInv, OnlyPongPanics, Serving

THEOREM RegistryCorrect == Spec => []RegistryInv
<1>1. Init => RegistryInv
  BY AgentHubAssumption
  DEF Init, RegistryInv, LatestServes, OnlyPongPanics, Serving
<1>2. TypeOK /\ RegistryInv /\ [Next]_vars => RegistryInv'
  <2> SUFFICES ASSUME TypeOK, RegistryInv, [Next]_vars PROVE RegistryInv'
    OBVIOUS
  <2>1. ASSUME Restart PROVE RegistryInv'
    <3>1. \A k \in Conns : ~Serving(k)'
      BY <2>1 DEF TypeOK, Restart, Serving
    <3>2. QED
      BY <2>1, <3>1, SocketTarget, AgentHubAssumption
      DEF Restart, RegistryInv, LatestServes, OnlyPongPanics
  <2>2. CASE UNCHANGED vars
    BY <2>2 DEF vars, RegistryInv, LatestServes, OnlyPongPanics, Serving
  <2>3. QED
    BY <2>1, <2>2, SocketRegistry, OthersRegistry DEF Next
<1>3. QED
  BY <1>1, <1>2, AgentTypeCorrect, PTL DEF Spec

(* The last socket to register is the one in the registry, as long as it is      *)
(* served and no longer.                                                         *)
THEOREM LatestWins == Spec => []LatestServes
<1>1. RegistryInv => LatestServes
  BY DEF RegistryInv
<1>2. QED
  BY <1>1, RegistryCorrect, PTL

(* Register never closes a channel twice. *)
THEOREM NoDoubleClose == Spec => []OnlyPongPanics
<1>1. RegistryInv => OnlyPongPanics
  BY DEF RegistryInv
<1>2. QED
  BY <1>1, RegistryCorrect, PTL

-------------------------------------------------------------------------------
(* Delivery of connect messages *)

(* A step that moves no message and gives no request an earlier state. *)
LEMMA DeliveryFrame ==
    ASSUME DeliveryInv, UNCHANGED <<send, out, heard>>,
           \A q \in Requests : UNCHANGED rq[q] /\ UNCHANGED held[q] /\ (sess'[q] = "failed" => sess[q] = "failed")
    PROVE  DeliveryInv'
  BY DEF DeliveryInv, QueueDistinct, OnePlace, Handing, Unsent, Carries, InQueue

(* A request goes on, without its message: *)
LEMMA DeliveryRequest ==
    ASSUME TypeOK, DeliveryInv, UNCHANGED <<send, out, heard>>, NEW q \in Requests,
           \A p \in Requests \ {q} :
               rq'[p] = rq[p] /\ held'[p] = held[p] /\ sess'[p] = sess[p],
           rq'[q] \in {"idle", "found", "inserted", "sending", "failing", "refused"}
               => Unsent(q),
           rq'[q] = "sending" => held'[q] \in Conns /\ AgentOf[held'[q]] = Target[q],
           sess'[q] = "failed" => rq'[q] = "refused"
    PROVE  DeliveryInv'
<1>1. \A k \in Conns : QueueDistinct(k)'
  BY DEF DeliveryInv, QueueDistinct
<1>2. \A k \in Conns, p \in Requests : Carries(k, p)' <=> Carries(k, p)
  BY DEF Carries, InQueue
<1>3. ASSUME NEW p \in Requests PROVE OnePlace(p)'
  BY <1>2 DEF DeliveryInv, OnePlace
<1>4. ASSUME NEW p \in Requests PROVE Handing(p)'
  <2>1. CASE p = q
    BY <1>2, <2>1 DEF DeliveryInv, Handing, Unsent
  <2>2. CASE p # q
    BY <1>2, <2>2 DEF DeliveryInv, Handing, Unsent
  <2>3. QED
    BY <2>1, <2>2
<1>5. QED
  BY <1>1, <1>3, <1>4 DEF DeliveryInv

(* Messages leave the places they are in, or move within their socket. *)
LEMMA DeliveryShrinks ==
    ASSUME DeliveryInv, UNCHANGED <<rq, held, sess, heard>>,
           \A k \in Conns : QueueDistinct(k)',
           \A k \in Conns, q \in Requests : Carries(k, q)' => Carries(k, q)
    PROVE  DeliveryInv'
  BY DEF DeliveryInv, OnePlace, Handing, Unsent

(* A socket that registers has a queue of its own, with nothing in it. *)
LEMMA RegisterDelivery ==
    ASSUME TypeOK, DeliveryInv, NEW k \in Conns, Register(k)
    PROVE  DeliveryInv' /\ (\A j \in Conns, q \in Requests : Carries(j, q)' => Carries(j, q))
<1>1. /\ send' = [send EXCEPT ![k] = <<>>]
      /\ UNCHANGED <<out, rq, held, sess, heard>>
  BY DEF Register, NewQueue, requests
<1>2. /\ Len(send'[k]) = 0 /\ out'[k] = out[k]
      /\ \A j \in Conns \ {k} : send'[j] = send[j] /\ out'[j] = out[j]
  BY <1>1 DEF TypeOK
<1>3. ASSUME NEW j \in Conns PROVE QueueDistinct(j)'
  <2>1. CASE j # k
    BY <1>2, <2>1 DEF DeliveryInv, QueueDistinct
  <2>2. CASE j = k
    BY <1>2, <2>2 DEF QueueDistinct
  <2>3. QED
    BY <2>1, <2>2
<1>4. ASSUME NEW j \in Conns, NEW q \in Requests, Carries(j, q)' PROVE Carries(j, q)
  <2>1. CASE j # k
    BY <1>2, <1>4, <2>1 DEF Carries, InQueue
  <2>2. CASE j = k
    BY <1>2, <1>4, <2>2 DEF Carries, InQueue
  <2>3. QED
    BY <2>1, <2>2
<1>5. QED
  BY <1>1, <1>3, <1>4, DeliveryShrinks

LEMMA TakeDelivery ==
    ASSUME TypeOK, DeliveryInv, NEW k \in Conns, TakeMessage(k)
    PROVE  DeliveryInv' /\ (\A j \in Conns, q \in Requests : Carries(j, q)' => Carries(j, q))
<1>1. /\ send[k] \in Seq(Messages) /\ send[k] # <<>>
      /\ send' = [send EXCEPT ![k] = Tail(send[k])]
      /\ out' = [out EXCEPT ![k] = Head(send[k])]
      /\ UNCHANGED <<rq, held, sess, heard>>
  BY DEF TypeOK, TakeMessage, requests, rows
<1>2. /\ send'[k] = Tail(send[k]) /\ out'[k] = send[k][1]
      /\ \A j \in Conns \ {k} : send'[j] = send[j] /\ out'[j] = out[j]
  BY <1>1 DEF TypeOK
<1>3. /\ Len(send'[k]) = Len(send[k]) - 1 /\ Len(send[k]) \in Nat \ {0}
      /\ \A i \in 1 .. Len(send'[k]) : send'[k][i] = send[k][i + 1]
  <2>1. Len(send[k]) \in Nat \ {0}
    BY <1>1, EmptySeq
  <2>2. /\ Len(Tail(send[k])) = Len(send[k]) - 1
        /\ \A i \in 1 .. Len(Tail(send[k])) : Tail(send[k])[i] = send[k][i + 1]
    BY <1>1, <2>1
  <2>3. QED
    BY <1>2, <2>1, <2>2
<1>4. ASSUME NEW j \in Conns PROVE QueueDistinct(j)'
  <2>1. CASE j # k
    BY <1>2, <2>1 DEF DeliveryInv, QueueDistinct
  <2>2. CASE j = k
    <3>1. QueueDistinct(k)
      BY DEF DeliveryInv
    <3>2. \A i \in 1 .. Len(send'[k]) : i + 1 \in 1 .. Len(send[k]) /\ i + 1 # 1
      BY <1>3
    <3>3. 1 \in 1 .. Len(send[k])
      BY <1>3
    <3>4. \A i, l \in 1 .. Len(send'[k]) : send'[k][i] = send'[k][l] => i = l \/ send'[k][i] = Pong
      BY <1>3, <3>1, <3>2 DEF QueueDistinct
    <3>5. \A i \in 1 .. Len(send'[k]) : send'[k][i] = out'[k] => out'[k] = Pong
      BY <1>2, <1>3, <3>1, <3>2, <3>3 DEF QueueDistinct
    <3>6. QED
      BY <2>2, <3>4, <3>5 DEF QueueDistinct
  <2>3. QED
    BY <2>1, <2>2
<1>5. ASSUME NEW j \in Conns, NEW q \in Requests, Carries(j, q)' PROVE Carries(j, q)
  <2>1. CASE j # k
    BY <1>2, <1>5, <2>1 DEF Carries, InQueue
  <2>2. CASE j = k
    <3>1. \A i \in 1 .. Len(send'[k]) : i + 1 \in 1 .. Len(send[k])
      BY <1>3
    <3>2. 1 \in 1 .. Len(send[k])
      BY <1>3
    <3>3. QED
      BY <1>2, <1>3, <1>5, <2>2, <3>1, <3>2 DEF Carries, InQueue
  <2>3. QED
    BY <2>1, <2>2
<1>6. QED
  BY <1>1, <1>4, <1>5, DeliveryShrinks

(* The message that was being written is gone, heard or not. *)
LEMMA WriteDelivery ==
    ASSUME TypeOK, DeliveryInv, NEW k \in Conns, WriteDone(k) \/ WriteError(k)
    PROVE  DeliveryInv' /\ (\A j \in Conns, q \in Requests : Carries(j, q)' => Carries(j, q))
<1>1. /\ UNCHANGED <<send, rq, held, sess>>
      /\ out' = [out EXCEPT ![k] = None]
      /\ \/ heard' = heard
         \/ out[k] \in Requests /\ heard' = [heard EXCEPT ![out[k]] = @ + 1]
  BY DEF WriteDone, WriteError, requests, rows
<1>2. out'[k] = None /\ \A j \in Conns \ {k} : out'[j] = out[j]
  BY <1>1 DEF TypeOK
<1>3. \A j \in Conns : \A i \in 1 .. Len(send[j]) : send[j][i] \in Messages
  BY ElementOfSeq DEF TypeOK
<1>4. None \notin Messages
  BY AgentHubAssumption DEF Messages
<1>5. ASSUME NEW j \in Conns PROVE QueueDistinct(j)'
  BY <1>1, <1>2, <1>3, <1>4 DEF DeliveryInv, QueueDistinct
<1>6. \A j \in Conns, q \in Requests : Carries(j, q)' => Carries(j, q)
  BY <1>1, <1>2, <1>4 DEF Carries, InQueue, Messages
<1>7. CASE heard' = heard
  BY <1>1, <1>5, <1>6, <1>7, DeliveryShrinks
<1>8. CASE out[k] \in Requests /\ heard' = [heard EXCEPT ![out[k]] = @ + 1]
  <2>0. PICK m \in Requests : m = out[k]
    BY <1>8
  <2>1. m \in Requests /\ Carries(k, m) /\ OnePlace(m) /\ Handing(m)
    BY <2>0 DEF DeliveryInv, Carries
  <2>2. heard[m] = 0 /\ heard'[m] = 1 /\ ~Unsent(m)
    BY <1>8, <2>0, <2>1 DEF TypeOK, OnePlace, Handing
  <2>3. \A q \in Requests \ {m} : heard'[q] = heard[q]
    BY <1>8, <2>0 DEF TypeOK
  <2>4. m # Pong
    BY <2>1, AgentHubAssumption
  <2>5. ~InQueue(k, m)
    BY <2>0, <2>4 DEF DeliveryInv, QueueDistinct, InQueue
  <2>6. ASSUME NEW j \in Conns PROVE ~Carries(j, m)'
    <3>1. CASE j = k
      BY <1>1, <1>2, <1>4, <2>1, <2>5, <3>1 DEF Carries, InQueue, Messages
    <3>2. CASE j # k
      BY <1>6, <2>1, <3>2 DEF OnePlace
    <3>3. QED
      BY <3>1, <3>2
  <2>7. ASSUME NEW q \in Requests PROVE OnePlace(q)' /\ Handing(q)'
    <3>1. CASE q = m
      BY <1>1, <2>1, <2>2, <2>6, <3>1 DEF OnePlace, Handing, Unsent
    <3>2. CASE q # m
      BY <1>1, <1>6, <2>3, <3>2 DEF DeliveryInv, OnePlace, Handing, Unsent
    <3>3. QED
      BY <3>1, <3>2
  <2>8. QED
    BY <1>5, <1>6, <2>7 DEF DeliveryInv
<1>9. QED
  BY <1>1, <1>6, <1>7, <1>8

(* A pong, which is nobody's request, is queued. *)
LEMMA PingDelivery ==
    ASSUME TypeOK, DeliveryInv, NEW k \in Conns, ReadPing(k)
    PROVE  DeliveryInv' /\ (\A j \in Conns, q \in Requests : Carries(j, q)' => Carries(j, q))
<1>1. /\ UNCHANGED <<out, rq, held, sess, heard>>
      /\ send' = send \/ send' = [send EXCEPT ![k] = Append(send[k], Pong)]
  BY DEF ReadPing, requests, rows
<1>2. CASE send' = send
  BY <1>1, <1>2, DeliveryFrame DEF Carries, InQueue
<1>3. CASE send' = [send EXCEPT ![k] = Append(send[k], Pong)]
  <2>1. /\ send'[k] = Append(send[k], Pong) /\ send[k] \in Seq(Messages)
        /\ \A j \in Conns \ {k} : send'[j] = send[j]
    BY <1>3 DEF TypeOK
  <2>2. /\ Len(send[k]) \in Nat /\ Len(send'[k]) = Len(send[k]) + 1
        /\ \A i \in 1 .. Len(send[k]) : send'[k][i] = send[k][i]
        /\ send'[k][Len(send[k]) + 1] = Pong
    BY <2>1
  <2>3. \A i \in 1 .. Len(send'[k]) : i \in 1 .. Len(send[k]) \/ send'[k][i] = Pong
    BY <2>2
  <2>4. ASSUME NEW j \in Conns PROVE QueueDistinct(j)'
    <3>1. CASE j = k
      BY <1>1, <2>2, <2>3, <3>1 DEF DeliveryInv, QueueDistinct
    <3>2. CASE j # k
      BY <1>1, <2>1, <3>2 DEF DeliveryInv, QueueDistinct
    <3>3. QED
      BY <3>1, <3>2
  <2>5. ASSUME NEW j \in Conns, NEW q \in Requests, Carries(j, q)' PROVE Carries(j, q)
    <3>1. q # Pong
      BY AgentHubAssumption
    <3>2. CASE j = k
      BY <1>1, <2>2, <2>3, <2>5, <3>1, <3>2 DEF Carries, InQueue
    <3>3. CASE j # k
      BY <1>1, <2>1, <2>5, <3>3 DEF Carries, InQueue
    <3>4. QED
      BY <3>2, <3>3
  <2>6. QED
    BY <1>1, <2>4, <2>5, DeliveryShrinks
<1>4. QED
  BY <1>1, <1>2, <1>3

(* The message is handed over, to a socket of its agent and for the first time. *)
LEMMA SendDelivery ==
    ASSUME TypeOK, DeliveryInv, NEW q \in Requests, SendConnect(q)
    PROVE  DeliveryInv'
<1>1. /\ rq[q] = "sending" /\ Unsent(q) /\ held[q] \in Conns
      /\ UNCHANGED <<out, heard, held, sess>>
      /\ \/ Answer(q, "panicked") /\ UNCHANGED send
         \/ Answer(q, "notified") /\ send' = [send EXCEPT ![held[q]] = Append(@, q)]
  BY DEF SendConnect, Sent, Unsent, DeliveryInv, Handing
<1>2. CASE Answer(q, "panicked") /\ UNCHANGED send
  <2>1. rq'[q] = "panicked" /\ \A p \in Requests \ {q} : rq'[p] = rq[p]
    BY <1>2 DEF Answer, TypeOK
  <2>2. sess'[q] # "failed"
    BY <1>1 DEF DeliveryInv, Handing
  <2>3. QED
    BY <1>1, <1>2, <2>1, <2>2, DeliveryRequest
<1>3. CASE Answer(q, "notified") /\ send' = [send EXCEPT ![held[q]] = Append(@, q)]
  <2>0. PICK k \in Conns : k = held[q]
    BY <1>1
  <2>1. /\ send'[k] = Append(send[k], q) /\ send[k] \in Seq(Messages)
        /\ \A j \in Conns \ {k} : send'[j] = send[j]
        /\ rq'[q] = "notified" /\ \A p \in Requests \ {q} : rq'[p] = rq[p]
        /\ q \in Messages /\ q # Pong
    BY <1>3, <2>0, AgentHubAssumption DEF TypeOK, Answer, Messages
  <2>2. /\ Len(send[k]) \in Nat /\ Len(send'[k]) = Len(send[k]) + 1
        /\ \A i \in 1 .. Len(send[k]) : send'[k][i] = send[k][i]
        /\ send'[k][Len(send[k]) + 1] = q
    BY <2>1
  <2>3. \A i \in 1 .. Len(send'[k]) : i \in 1 .. Len(send[k]) \/ i = Len(send[k]) + 1
    BY <2>2
  <2>4. /\ heard[q] = 0 /\ \A j \in Conns : ~Carries(j, q)
        /\ AgentOf[k] = Target[q] /\ sess[q] # "failed"
    BY <1>1, <2>0 DEF DeliveryInv, Handing
  <2>5. ASSUME NEW j \in Conns PROVE QueueDistinct(j)'
    <3>1. CASE j = k
      <4>1. QueueDistinct(k) /\ out'[k] = out[k] /\ out[k] # q
            /\ \A i \in 1 .. Len(send[k]) : send[k][i] # q
        BY <1>1, <2>4 DEF DeliveryInv, Carries, InQueue
      <4>2. \A i \in 1 .. Len(send'[k]) : send'[k][i] = out'[k] => out'[k] = Pong
        BY <2>2, <2>3, <4>1 DEF QueueDistinct
      <4>3. \A i, l \in 1 .. Len(send'[k]) : send'[k][i] = send'[k][l] => i = l \/ send'[k][i] = Pong
        BY <2>2, <2>3, <4>1 DEF QueueDistinct
      <4>4. QED
        BY <3>1, <4>2, <4>3 DEF QueueDistinct
    <3>2. CASE j # k
      BY <1>1, <2>1, <3>2 DEF DeliveryInv, QueueDistinct
    <3>3. QED
      BY <3>1, <3>2
  <2>6. ASSUME NEW j \in Conns, NEW p \in Requests, Carries(j, p)'
        PROVE  Carries(j, p) \/ (p = q /\ j = k)
    <3>1. CASE j = k
      BY <1>1, <2>2, <2>3, <2>6, <3>1 DEF Carries, InQueue
    <3>2. CASE j # k
      BY <1>1, <2>1, <2>6, <3>2 DEF Carries, InQueue
    <3>3. QED
      BY <3>1, <3>2
  <2>7. ASSUME NEW p \in Requests PROVE OnePlace(p)' /\ Handing(p)'
    <3>1. CASE p = q
      BY <1>1, <2>1, <2>4, <2>6, <3>1 DEF OnePlace, Handing, Unsent
    <3>2. CASE p # q
      BY <1>1, <2>1, <2>6, <3>2 DEF DeliveryInv, OnePlace, Handing, Unsent
    <3>3. QED
      BY <3>1, <3>2
  <2>8. QED
    BY <2>5, <2>7 DEF DeliveryInv
<1>4. QED
  BY <1>1, <1>2, <1>3

LEMMA RequestDelivery ==
    ASSUME TypeOK, RegistryInv, DeliveryInv, NEW q \in Requests, Request(q)
    PROVE  DeliveryInv'
<1>1. CASE Lookup(q)
  <2>1. /\ Unsent(q) /\ \A p \in Requests \ {q} : rq'[p] = rq[p]
        /\ rq'[q] \in {"refused", "found"} /\ rq[q] = "idle"
        /\ UNCHANGED <<send, out, heard, held, sess>>
    BY <1>1 DEF TypeOK, Lookup, Answer, Unsent, sockets, rows
  <2>2. QED
    BY <2>1, DeliveryRequest DEF DeliveryInv, Handing
<1>2. CASE InsertSession(q)
  <2>1. /\ Unsent(q) /\ \A p \in Requests \ {q} : rq'[p] = rq[p] /\ sess'[p] = sess[p]
        /\ rq'[q] \in {"refused", "inserted"} /\ rq[q] = "found"
        /\ sess'[q] = sess[q] \/ sess'[q] = "running"
        /\ UNCHANGED <<send, out, heard, held>>
    BY <1>2 DEF TypeOK, InsertSession, Answer, Unsent, sockets, rows
  <2>2. QED
    BY <2>1, DeliveryRequest DEF DeliveryInv, Handing
<1>3. CASE NotifyConnect(q)
  <2>1. /\ Unsent(q) /\ rq[q] = "inserted"
        /\ \A p \in Requests \ {q} : rq'[p] = rq[p] /\ held'[p] = held[p]
        /\ rq'[q] \in {"failing", "sending"} /\ held'[q] = agents[Target[q]]
        /\ rq'[q] = "sending" => agents[Target[q]] # None
        /\ UNCHANGED <<send, out, heard, sess>>
    BY <1>3 DEF TypeOK, NotifyConnect, FindSocket, Answer, Unsent, sockets, rows
  <2>2. agents[Target[q]] # None => agents[Target[q]] \in Conns
                                    /\ AgentOf[agents[Target[q]]] = Target[q]
    BY SocketTarget DEF TypeOK, RegistryInv
  <2>3. QED
    BY <2>1, <2>2, DeliveryRequest DEF DeliveryInv, Handing
<1>4. CASE SendConnect(q)
  BY <1>4, SendDelivery
<1>5. CASE NotifyTimeout(q)
  <2>1. /\ Unsent(q) /\ \A p \in Requests \ {q} : rq'[p] = rq[p]
        /\ rq'[q] = "failing" /\ rq[q] = "sending"
        /\ UNCHANGED <<send, out, heard, held, sess>>
    BY <1>5 DEF TypeOK, NotifyTimeout, Answer, Unsent, sockets, rows
  <2>2. QED
    BY <2>1, DeliveryRequest DEF DeliveryInv, Handing
<1>6. CASE MarkFailed(q)
  <2>1. /\ Unsent(q) /\ \A p \in Requests \ {q} : rq'[p] = rq[p] /\ sess'[p] = sess[p]
        /\ rq'[q] = "refused"
        /\ UNCHANGED <<send, out, heard, held>>
    BY <1>6 DEF TypeOK, MarkFailed, Answer, Unsent, sockets, rows
  <2>2. QED
    BY <2>1, DeliveryRequest
<1>7. CASE MarkBusy(q)
  <2>1. /\ \A p \in Requests \ {q} : rq'[p] = rq[p]
        /\ rq'[q] = "answered" /\ rq[q] = "notified"
        /\ UNCHANGED <<send, out, heard, held, sess>>
    BY <1>7 DEF TypeOK, MarkBusy, Answer, sockets, rows
  <2>2. QED
    BY <2>1, DeliveryRequest DEF DeliveryInv, Handing
<1>8. CASE StopSession(q)
  <2>1. /\ \A p \in Requests : sess'[p] = "failed" => sess[p] = "failed"
        /\ UNCHANGED <<send, out, heard, held, rq>>
    BY <1>8 DEF TypeOK, StopSession, sockets, rows
  <2>2. QED
    BY <2>1, DeliveryFrame
<1>9. CASE FreeAgent(q)
  BY <1>9, DeliveryFrame DEF FreeAgent, sockets, rows
<1>10. QED
  BY <1>1, <1>2, <1>3, <1>4, <1>5, <1>6, <1>7, <1>8, <1>9 DEF Request

(* Whatever sockets, requests and restarts do, a connect message is in at most   *)
(* one place.                                                                    *)
THEOREM DeliveryCorrect == Spec => []DeliveryInv
<1>1. Init => DeliveryInv
  BY AgentHubAssumption
  DEF Init, DeliveryInv, QueueDistinct, OnePlace, Handing, Unsent, Carries, InQueue
<1>2. TypeOK /\ RegistryInv /\ DeliveryInv /\ [Next]_vars => DeliveryInv'
  <2> SUFFICES ASSUME TypeOK, RegistryInv, DeliveryInv, [Next]_vars
               PROVE  DeliveryInv'
    OBVIOUS
  <2>1. ASSUME NEW k \in Conns, Socket(k) PROVE DeliveryInv'
    <3>1. CASE TakeMessage(k)
      BY <3>1, TakeDelivery
    <3>2. CASE WriteDone(k) \/ WriteError(k)
      BY <3>2, WriteDelivery
    <3>3. CASE ReadPing(k)
      BY <3>3, PingDelivery
    <3>4. CASE Register(k)
      BY <3>4, RegisterDelivery
    <3>5. CASE ~(\/ TakeMessage(k) \/ WriteDone(k) \/ WriteError(k) \/ ReadPing(k)
                \/ Register(k))
      <4>1. UNCHANGED <<send, out, heard, rq, held, sess>>
        BY <2>1, <3>5 DEF Socket, MarkOnline, Reject, UpgradeFails, Greet,
           StopServing, Unregister, MarkOffline, ReadError, HangUp, requests
      <4>2. QED
        BY <4>1, DeliveryFrame
    <3>6. QED
      BY <3>1, <3>2, <3>3, <3>4, <3>5
  <2>2. ASSUME NEW a \in Agents, Presence(a) \/ DeleteAgent(a) PROVE DeliveryInv'
    BY <2>2, DeliveryFrame DEF Presence, DeleteAgent, sockets, requests, rows
  <2>3. ASSUME Restart PROVE DeliveryInv'
    <3>1. /\ send' = [k \in Conns |-> <<>>] /\ out' = [k \in Conns |-> None]
          /\ UNCHANGED <<held, sess, heard>>
      BY <2>3 DEF Restart
    <3>2. \A q \in Requests : rq'[q] = rq[q] \/ rq'[q] = "panicked"
      BY <2>3 DEF Restart
    <3>3. \A q \in Requests : rq[q] = "refused" => rq'[q] = "refused"
      BY <2>3 DEF Restart
    <3>4. ASSUME NEW k \in Conns, NEW q \in Requests PROVE ~Carries(k, q)'
      BY <3>1, AgentHubAssumption DEF Carries, InQueue
    <3>5. \A k \in Conns : QueueDistinct(k)'
      BY <3>1 DEF QueueDistinct
    <3>6. ASSUME NEW q \in Requests PROVE OnePlace(q)' /\ Handing(q)'
      BY <3>1, <3>2, <3>3, <3>4 DEF DeliveryInv, OnePlace, Handing, Unsent
    <3>7. QED
      BY <3>5, <3>6 DEF DeliveryInv
  <2>4. CASE UNCHANGED vars
    BY <2>4, DeliveryFrame DEF vars
  <2>5. QED
    BY <2>1, <2>2, <2>3, <2>4, RequestDelivery DEF Next
<1>3. QED
  BY <1>1, <1>2, AgentTypeCorrect, RegistryCorrect, PTL DEF Spec

LEMMA HoldersCarry ==
    ASSUME NEW q \in Requests
    PROVE  Holders(q) = {k \in Conns : Carries(k, q)}
  BY DEF Holders, Carries

(* However often an agent reconnects, the message of a request is with one of    *)
(* its sockets or was heard, once.                                               *)
THEOREM DeliveredOnce == Spec => []HeardOnce
<1>1. TypeOK /\ DeliveryInv => HeardOnce
  <2> SUFFICES ASSUME TypeOK, DeliveryInv, NEW q \in Requests
               PROVE  Cardinality(Holders(q)) + heard[q] <= 1
    BY DEF HeardOnce
  <2>1. OnePlace(q) /\ heard[q] \in Nat
    BY DEF TypeOK, DeliveryInv
  <2>2. \A k \in Holders(q) : k \in Conns /\ Carries(k, q)
    BY HoldersCarry
  <2>3. CASE Holders(q) = {}
    BY <2>1, <2>3, FS_EmptySet DEF OnePlace
  <2>4. CASE Holders(q) # {}
    <3>1. PICK k \in Holders(q) : TRUE
      BY <2>4
    <3>2. Holders(q) = {k}
      BY <2>1, <2>2, <3>1 DEF OnePlace
    <3>3. Cardinality(Holders(q)) = 1 /\ heard[q] = 0
      BY <2>1, <2>2, <3>2, FS_Singleton DEF OnePlace
    <3>4. QED
      BY <3>3
  <2>5. QED
    BY <2>3, <2>4
<1>2. QED
  BY <1>1, AgentTypeCorrect, DeliveryCorrect, PTL

(* And never with a socket of another agent. *)
THEOREM DeliveredRight == Spec => []RightAgent
<1>1. DeliveryInv => RightAgent
  BY HoldersCarry DEF DeliveryInv, OnePlace, RightAgent
<1>2. QED
  BY <1>1, DeliveryCorrect, PTL

(* No agent is told to open a session that was reported as failed. *)
THEOREM FailuresUnsent == Spec => []FailedIsUnsent
<1>1. DeliveryInv => FailedIsUnsent
  BY HoldersCarry DEF DeliveryInv, Handing, Unsent, FailedIsUnsent
<1>2. QED
  BY <1>1, DeliveryCorrect, PTL

(* A handler that goes on, or ends for another agent, keeps an agent active. *)
LEMMA ActiveStays ==
    ASSUME TypeOK, NEW k \in Conns, Socket(k), NEW a \in Agents, Active(a)
    PROVE  Active(a)' \/ (MarkOffline(k) /\ AgentOf[k] = a)
<1>1. PICK j \in Conns : AgentOf[j] = a /\ pc[j] \notin {"idle", "ended"}
  BY DEF Active
<1>2. CASE j = k /\ MarkOffline(k)
  BY <1>1, <1>2
<1>3. CASE j # k \/ ~MarkOffline(k)
  <2>1. pc'[j] \notin {"idle", "ended"}
    BY <1>1, <1>3
    DEF TypeOK, Goto, Socket, MarkOnline, Reject, UpgradeFails, Register, Greet,
        TakeMessage, StopServing, WriteDone, WriteError, Unregister, MarkOffline,
        ReadPing, ReadError, HangUp
  <2>2. QED
    BY <1>1, <2>1 DEF Active
<1>4. QED
  BY <1>2, <1>3

(* An UPDATE of the row of b, that may fail: what it makes busy has a handler or *)
(* is recorded.                                                                  *)
LEMMA UpdateBusy ==
    ASSUME TypeOK, LeftBusy, NEW b \in Agents, NEW v \in {"online", "busy"},
           Update(b, v), NEW a \in Agents, status'[a] = "busy"
    PROVE  Active(a) \/ a \in stuck'
<1>1. CASE a = b
  BY <1>1 DEF TypeOK, LeftBusy, Update, SetStatus, rows
<1>2. CASE a # b
  BY <1>2 DEF TypeOK, LeftBusy, Update, SetStatus, rows
<1>3. QED
  BY <1>1, <1>2

(* Whatever the order of the UPDATEs of sockets, requests and deletions, and     *)
(* whichever of them fail.                                                       *)
THEOREM BusyExplained == Spec => []LeftBusy
<1>1. Init => LeftBusy
  BY DEF Init, LeftBusy
<1>2. TypeOK /\ LeftBusy /\ [Next]_vars => LeftBusy'
  <2> SUFFICES ASSUME TypeOK, LeftBusy, [Next]_vars, NEW a \in Agents,
                      status'[a] = "busy"
               PROVE  Active(a)' \/ a \in stuck'
    BY DEF LeftBusy
  <2>1. ASSUME NEW k \in Conns, Socket(k) PROVE Active(a)' \/ a \in stuck'
    <3>1. CASE MarkOffline(k)
      <4>1. status[a] = "busy" /\ (a \in stuck => a \in stuck' \/ AgentOf[k] = a)
        BY <3>1, SocketTarget DEF TypeOK, MarkOffline, WriteOffline, SetStatus
      <4>2. CASE AgentOf[k] # a
        BY <3>1, <4>1, <4>2, <2>1, ActiveStays DEF LeftBusy
      <4>3. CASE AgentOf[k] = a
        BY <3>1, <4>1, <4>3 DEF TypeOK, MarkOffline, WriteOffline, SetStatus
      <4>4. QED
        BY <4>2, <4>3
    <3>2. CASE ~MarkOffline(k)
      <4>1. Active(a) \/ a \in stuck'
        <5>1. CASE MarkOnline(k)
          BY <5>1, SocketTarget, UpdateBusy DEF MarkOnline
        <5>2. CASE ~MarkOnline(k)
          BY <2>1, <3>2, <5>2
          DEF LeftBusy, Socket, Reject, UpgradeFails, Register, Greet, TakeMessage,
              StopServing, WriteDone, WriteError, Unregister, ReadPing, ReadError,
              HangUp, rows
        <5>3. QED
          BY <5>1, <5>2
      <4>2. QED
        BY <2>1, <3>2, <4>1, ActiveStays
    <3>3. QED
      BY <3>1, <3>2
  <2>2. ASSUME NEW q \in Requests, Request(q) PROVE Active(a)' \/ a \in stuck'
    <3>1. pc' = pc
      BY <2>2 DEF Request, Lookup, InsertSession, NotifyConnect, SendConnect,
         NotifyTimeout, MarkFailed, MarkBusy, StopSession, FreeAgent, sockets
    <3>2. Active(a) \/ a \in stuck'
      <4>1. CASE MarkBusy(q) \/ FreeAgent(q)
        BY <4>1, SocketTarget, UpdateBusy DEF MarkBusy, FreeAgent
      <4>2. CASE ~(MarkBusy(q) \/ FreeAgent(q))
        BY <2>2, <4>2
        DEF LeftBusy, Request, Lookup, InsertSession, NotifyConnect, SendConnect,
            NotifyTimeout, MarkFailed, StopSession, rows
      <4>3. QED
        BY <4>1, <4>2
    <3>3. QED
      BY <3>1, <3>2 DEF Active
  <2>3. ASSUME NEW b \in Agents, Presence(b) PROVE Active(a)' \/ a \in stuck'
    BY <2>3, UpdateBusy DEF Presence, sockets, Active
  <2>4. ASSUME NEW b \in Agents, DeleteAgent(b) PROVE Active(a)' \/ a \in stuck'
    BY <2>4 DEF LeftBusy, TypeOK, DeleteAgent, sockets, Active
  <2>5. CASE Restart
    BY <2>5 DEF Restart
  <2>6. CASE UNCHANGED vars
    BY <2>6 DEF vars, LeftBusy, Active
  <2>7. QED
    BY <2>1, <2>2, <2>3, <2>4, <2>5, <2>6 DEF Next
<1>3. QED
  BY <1>1, <1>2, AgentTypeCorrect, PTL DEF Spec

-------------------------------------------------------------------------------
(* The refinement of ConnectPromise, one request at a time *)

(* What the abstract variables are before and after a step. *)
LEMMA PromiseBecomes ==
    ASSUME NEW q \in Requests, NEW f, NEW a, FateOf(q)' = f, AnswerOf(q)' = a
    PROVE  Promise!Becomes(q, f, a)
  BY DEF Promise!Becomes

(* The fate of a message, before and after, in terms of who carries it. *)
LEMMA FateCarried ==
    ASSUME NEW q \in Requests
    PROVE  /\ FateOf(q) = IF heard[q] > 0 THEN "heard"
                          ELSE IF \E k \in Conns : Carries(k, q) THEN "carried"
                          ELSE IF rq[q] \in {"notified", "answered", "panicked"}
                          THEN "lost" ELSE "unsent"
           /\ FateOf(q)' = IF heard'[q] > 0 THEN "heard"
                           ELSE IF \E k \in Conns : Carries(k, q)' THEN "carried"
                           ELSE IF rq'[q] \in {"notified", "answered", "panicked"}
                           THEN "lost" ELSE "unsent"
<1>1. Holders(q) # {} <=> \E k \in Conns : Carries(k, q)
  BY DEF Holders, Carries
<1>2. (Holders(q) # {})' <=> \E k \in Conns : Carries(k, q)'
  BY DEF Holders, Carries
<1>3. QED
  BY <1>1, <1>2 DEF FateOf

(* A message that leaves the place it is in, for no other, is lost. *)
LEMMA PromiseShrinks ==
    ASSUME NEW q \in Requests, Handing(q), TypeOK, rq'[q] = rq[q], heard'[q] = heard[q],
           \A k \in Conns : Carries(k, q)' => Carries(k, q)
    PROVE  Promise!Step(q)
<1>1. AnswerOf(q)' = AnswerOf(q)
  BY DEF AnswerOf
<1>2. CASE FateOf(q)' = FateOf(q)
  BY <1>1, <1>2 DEF Promise!Step, Promise!Becomes
<1>3. CASE FateOf(q)' # FateOf(q)
  <2>1. FateOf(q) = "carried" /\ FateOf(q)' = "lost"
    BY <1>3, FateCarried DEF Handing, Unsent, TypeOK
  <2>2. QED
    BY <1>1, <2>1 DEF Promise!Step, Promise!Becomes, Promise!Lose
<1>4. QED
  BY <1>2, <1>3

(* The handler panics or the server dies. *)
LEMMA PromiseBreaks ==
    ASSUME NEW q \in Requests, Handing(q), TypeOK,
           rq[q] \notin {"refused", "answered", "panicked"}, rq'[q] = "panicked",
           heard'[q] = heard[q], \A k \in Conns : ~Carries(k, q)'
    PROVE  Promise!Step(q)
<1>1. AnswerOf(q) = "none" /\ AnswerOf(q)' = "error"
  BY DEF AnswerOf
<1>2. FateOf(q)' = IF FateOf(q) = "heard" THEN "heard" ELSE "lost"
  BY FateCarried
<1>3. QED
  BY <1>1, <1>2 DEF Promise!Step, Promise!Becomes, Promise!Break

(* Of the requests only q does anything; the others' messages stay, or get lost. *)
LEMMA PromiseOthers ==
    ASSUME TypeOK, DeliveryInv, UNCHANGED <<send, out, heard>>, NEW q \in Requests,
           \A p \in Requests \ {q} : rq'[p] = rq[p], NEW p \in Requests, p # q
    PROVE  Promise!Step(p)
  BY PromiseShrinks DEF DeliveryInv, Carries, InQueue

LEMMA SocketPromise ==
    ASSUME TypeOK, DeliveryInv, NEW k \in Conns, Socket(k), NEW q \in Requests
    PROVE  Promise!Step(q)
<1>1. UNCHANGED <<rq, held, sess>> /\ Handing(q)
  BY DEF Socket, MarkOnline, Reject, UpgradeFails, Register, Greet, TakeMessage,
     StopServing, WriteDone, WriteError, Unregister, MarkOffline, ReadPing,
     ReadError, HangUp, requests, rows, DeliveryInv
<1>2. \A j \in Conns, p \in Requests : Carries(j, p)' => Carries(j, p)
  <2>1. CASE TakeMessage(k)
    BY <2>1, TakeDelivery
  <2>2. CASE WriteDone(k) \/ WriteError(k)
    BY <2>2, WriteDelivery
  <2>3. CASE ReadPing(k)
    BY <2>3, PingDelivery
  <2>4. CASE Register(k)
    BY <2>4, RegisterDelivery
  <2>5. CASE ~(\/ TakeMessage(k) \/ WriteDone(k) \/ WriteError(k) \/ ReadPing(k)
              \/ Register(k))
    <3>1. UNCHANGED <<send, out>>
      BY <2>5 DEF Socket, MarkOnline, Reject, UpgradeFails, Greet,
         StopServing, Unregister, MarkOffline, ReadError, HangUp
    <3>2. QED
      BY <3>1 DEF Carries, InQueue
  <2>6. QED
    BY <2>1, <2>2, <2>3, <2>4, <2>5
<1>3. CASE heard'[q] = heard[q]
  BY <1>1, <1>2, <1>3, PromiseShrinks
<1>4. CASE heard'[q] # heard[q]
  <2>1. WriteDone(k) /\ out[k] = q /\ heard' = [heard EXCEPT ![q] = @ + 1]
    BY <1>4 DEF TypeOK, Socket, MarkOnline, Reject, UpgradeFails, Register, Greet,
       TakeMessage, StopServing, WriteDone, WriteError, Unregister, MarkOffline,
       ReadPing, ReadError, HangUp
  <2>2. Carries(k, q) /\ heard[q] = 0 /\ heard'[q] = 1
    BY <2>1 DEF TypeOK, DeliveryInv, OnePlace, Carries
  <2>3. FateOf(q) = "carried" /\ FateOf(q)' = "heard"
    BY <2>2, FateCarried
  <2>4. AnswerOf(q)' = AnswerOf(q)
    BY <1>1 DEF AnswerOf
  <2>5. QED
    BY <2>3, <2>4 DEF Promise!Step, Promise!Becomes, Promise!Hear
<1>5. QED
  BY <1>3, <1>4

LEMMA RequestPromise ==
    ASSUME TypeOK, DeliveryInv, NEW q \in Requests, Request(q), NEW p \in Requests
    PROVE  Promise!Step(p)
<1>1. UNCHANGED <<out, heard>> /\ Handing(p) /\ Handing(q) /\ heard[q] \in Nat
      /\ \A r \in Requests \ {q} : rq'[r] = rq[r]
  BY DEF TypeOK, Request, Lookup, InsertSession, NotifyConnect, SendConnect,
     NotifyTimeout, MarkFailed, MarkBusy, StopSession, FreeAgent, Answer, sockets, rows,
     DeliveryInv
<1>2. CASE p # q
  <2>1. CASE send' = send
    BY <1>1, <1>2, <2>1, PromiseOthers
  <2>2. CASE send' # send
    <3>1. send' = [send EXCEPT ![held[q]] = Append(@, q)]
      BY <2>2 DEF Request, Lookup, InsertSession, NotifyConnect, SendConnect,
         NotifyTimeout, MarkFailed, MarkBusy, StopSession, FreeAgent, sockets, rows
    <3>2. ASSUME NEW k \in Conns, Carries(k, p)' PROVE Carries(k, p)
      <4>1. CASE k = held[q]
        <5>1. send'[k] = Append(send[k], q) /\ send[k] \in Seq(Messages)
          BY <3>1, <4>1 DEF TypeOK
        <5>2. \A i \in 1 .. Len(send'[k]) :
                 send'[k][i] = p => i \in 1 .. Len(send[k]) /\ send[k][i] = p
          BY <5>1, <1>2
        <5>3. QED
          BY <1>1, <3>2, <5>2 DEF Carries, InQueue
      <4>2. CASE k # held[q]
        BY <1>1, <3>1, <3>2, <4>2 DEF TypeOK, Carries, InQueue
      <4>3. QED
        BY <4>1, <4>2
    <3>3. QED
      BY <1>1, <1>2, <3>2, PromiseShrinks
  <2>3. QED
    BY <2>1, <2>2
<1>3. CASE p = q /\ send' = send
  <2>1. \A k \in Conns : Carries(k, q)' <=> Carries(k, q)
    BY <1>1, <1>3 DEF Carries, InQueue
  <2>2. CASE rq'[q] = rq[q]
    BY <1>1, <1>3, <2>1, <2>2, PromiseShrinks
  <2>3. CASE Unsent(q) /\ rq'[q] \in {"found", "inserted", "sending", "failing"}
             /\ rq[q] # "refused"
    <3>1. FateOf(q)' = FateOf(q) /\ AnswerOf(q)' = AnswerOf(q)
      BY <1>1, <2>1, <2>3, FateCarried DEF AnswerOf, Unsent
    <3>2. QED
      BY <1>3, <3>1 DEF Promise!Step, Promise!Becomes
  <2>4. CASE rq[q] \in {"idle", "found", "failing"} /\ rq'[q] = "refused"
    <3>1. FateOf(q) = "unsent" /\ FateOf(q)' = "unsent"
          /\ AnswerOf(q) = "none" /\ AnswerOf(q)' = "failed"
      BY <1>1, <2>1, <2>4, FateCarried DEF AnswerOf, Handing, Unsent
    <3>2. QED
      BY <1>3, <3>1 DEF Promise!Step, Promise!Becomes, Promise!Fail
  <2>5. CASE rq[q] = "notified" /\ rq'[q] = "answered"
    <3>1. FateOf(q)' = FateOf(q) /\ FateOf(q) # "unsent"
          /\ AnswerOf(q) = "none" /\ AnswerOf(q)' = "ok"
      BY <1>1, <2>1, <2>5, FateCarried DEF AnswerOf
    <3>2. QED
      BY <1>3, <3>1 DEF Promise!Step, Promise!Becomes, Promise!Succeed
  <2>6. CASE rq[q] = "sending" /\ rq'[q] = "panicked"
    <3>1. \A k \in Conns : ~Carries(k, q)'
      BY <1>1, <2>1, <2>6 DEF Handing, Unsent
    <3>2. QED
      BY <1>1, <1>3, <2>6, <3>1, PromiseBreaks
  <2>7. SendConnect(q) => rq[q] = "sending" /\ rq'[q] = "panicked"
    <3>1. SUFFICES ASSUME SendConnect(q), rq'[q] # "panicked" PROVE FALSE
      BY DEF SendConnect
    <3>2. PICK k \in Conns : k = held[q]
      BY <1>1, <3>1 DEF SendConnect, Handing
    <3>3. send' = [send EXCEPT ![k] = Append(@, q)]
      BY <3>1, <3>2 DEF TypeOK, SendConnect, Answer
    <3>4. send'[k] = Append(send[k], q) /\ send[k] \in Seq(Messages)
      BY <3>3 DEF TypeOK
    <3>5. Len(send'[k]) = Len(send[k]) + 1 /\ Len(send[k]) \in Nat
      BY <3>4
    <3>6. QED
      BY <1>3, <3>5
  <2>8. QED
    BY <2>2, <2>3, <2>4, <2>5, <2>6, <2>7
    DEF TypeOK, Request, Lookup, InsertSession, NotifyConnect,
        NotifyTimeout, MarkFailed, MarkBusy, StopSession, FreeAgent, Answer, Unsent
<1>4. CASE p = q /\ send' # send
  <2>1. SendConnect(q) /\ rq[q] = "sending" /\ rq'[q] = "notified"
        /\ send' = [send EXCEPT ![held[q]] = Append(@, q)]
    BY <1>4 DEF TypeOK, Request, Lookup, InsertSession, NotifyConnect, SendConnect,
       NotifyTimeout, MarkFailed, MarkBusy, StopSession, FreeAgent, Answer, Sent, sockets, rows
  <2>2. FateOf(q) = "unsent" /\ AnswerOf(q) = "none" /\ AnswerOf(q)' = "none"
    BY <1>1, <2>1, FateCarried DEF AnswerOf, Handing, Unsent
  <2>3. PICK k \in Conns : k = held[q]
    BY <2>1, <1>1 DEF Handing
  <2>4. InQueue(k, q)'
    <3>1. send'[k] = Append(send[k], q) /\ send[k] \in Seq(Messages)
      BY <2>1, <2>3 DEF TypeOK
    <3>2. Len(send'[k]) = Len(send[k]) + 1 /\ Len(send[k]) \in Nat
          /\ send'[k][Len(send[k]) + 1] = q
      BY <3>1
    <3>3. QED
      BY <3>2 DEF InQueue
  <2>5. heard'[q] = 0 /\ Carries(k, q)'
    BY <1>1, <2>1, <2>4 DEF Carries, Handing, Unsent
  <2>6. FateOf(q)' = "carried"
    BY <2>5, FateCarried
  <2>7. QED
    BY <1>4, <2>2, <2>6 DEF Promise!Step, Promise!Becomes, Promise!HandOver
<1>5. QED
  BY <1>2, <1>3, <1>4

LEMMA RestartPromise ==
    ASSUME TypeOK, DeliveryInv, Restart, NEW q \in Requests
    PROVE  Promise!Step(q)
<1>1. /\ send' = [k \in Conns |-> <<>>] /\ out' = [k \in Conns |-> None]
      /\ heard'[q] = heard[q] /\ Handing(q)
      /\ rq'[q] = IF rq[q] \in {"idle", "refused", "answered"} THEN rq[q] ELSE "panicked"
  BY DEF Restart, DeliveryInv
<1>2. \A k \in Conns : ~Carries(k, q)'
  BY <1>1, AgentHubAssumption DEF Carries, InQueue
<1>3. CASE rq'[q] = rq[q]
  BY <1>1, <1>2, <1>3, PromiseShrinks
<1>4. CASE rq'[q] # rq[q]
  BY <1>1, <1>2, <1>4, PromiseBreaks
<1>5. QED
  BY <1>3, <1>4

(* Sockets, requests and restarts of the hub are steps of ConnectPromise. *)
THEOREM HubKeepsPromise == Spec => KeepsPromise
<1>1. Init => Promise!Init
  <2> SUFFICES ASSUME Init, NEW q \in Requests
               PROVE  FateOf(q) = "unsent" /\ AnswerOf(q) = "none"
    BY DEF Promise!Init
  <2>1. \A k \in Conns : ~Carries(k, q)
    BY AgentHubAssumption DEF Init, Carries, InQueue
  <2>2. QED
    BY <2>1, FateCarried DEF Init, AnswerOf
<1>2. TypeOK /\ DeliveryInv /\ [Next]_vars => [Promise!Next]_Promise!vars
  <2> SUFFICES ASSUME TypeOK, DeliveryInv, [Next]_vars PROVE Promise!Next
    OBVIOUS
  <2>1. ASSUME NEW q \in Requests PROVE Promise!Step(q)
    <3>1. CASE \E a \in Agents : Presence(a) \/ DeleteAgent(a)
      BY <3>1, PromiseShrinks DEF Presence, DeleteAgent, sockets, requests, rows,
         DeliveryInv, Carries, InQueue
    <3>2. CASE UNCHANGED vars
      BY <3>2, PromiseShrinks DEF vars, DeliveryInv, Carries, InQueue
    <3>3. QED
      BY <3>1, <3>2, SocketPromise, RequestPromise, RestartPromise DEF Next
  <2>2. QED
    BY <2>1 DEF Promise!Next
<1>3. QED
  BY <1>1, <1>2, AgentTypeCorrect, DeliveryCorrect, PTL DEF Spec, KeepsPromise, Promise!Spec

-------------------------------------------------------------------------------
(* The daemon and the server together are a behaviour of AgentHub, so that what  *)
(* is proved above holds of an agent that reconnects by itself.                  *)

LEMMA DaemonStep ==
    ASSUME NEW a \in Agents, Daemon(a)
    PROVE  Presence(a) \/ UNCHANGED vars
  BY DEF Daemon, Announce, AnnounceFails, Dial, DialSucceeds, DialFails, DialRefused,
     SocketLost, Tick, Interrupt

LEMMA ServeStep ==
    ASSUME NEW k \in Conns, Serve(k)
    PROVE  Socket(k)
  BY DEF Serve, Arrive, Socket

LEMMA DaemonSteps == [DNext]_allvars => [Next]_vars
  BY DaemonStep, ServeStep DEF DNext, Next, allvars

(* Reconnecting, giving up and announcing are things that AgentHub lets the      *)
(* environment of the server do, and the server does its own part of them.       *)
THEOREM DaemonImplementsHub == DSpec => Spec
<1>1. DInit => Init
  BY DEF DInit
<1>2. QED
  BY <1>1, DaemonSteps, PTL DEF DSpec, Spec

(* So the daemon cannot bring the server to close a channel twice or to lose     *)
(* track of the socket it uses, in whatever order its sockets end.               *)
THEOREM DaemonSafe == DSpec => [](OnlyPongPanics /\ LatestServes)
  BY DaemonImplementsHub, NoDoubleClose, LatestWins, PTL

(* The types of the daemon's own variables. *)
THEOREM DaemonTypeCorrect == DSpec => []DTypeOK
<1>1. DInit => DTypeOK
  BY DEF DInit, DTypeOK
<1>2. DTypeOK /\ [DNext]_allvars => DTypeOK'
  <2> SUFFICES ASSUME DTypeOK, [DNext]_allvars PROVE DTypeOK'
    OBVIOUS
  <2>1. ASSUME NEW a \in Agents, Daemon(a) PROVE DTypeOK'
    <3>1. CASE Dial(a)
      BY <3>1 DEF DTypeOK, Dial, At, Fresh
    <3>2. CASE DialSucceeds(a)
      BY <3>2 DEF DTypeOK, DialSucceeds, At
    <3>3. CASE Announce(a) \/ AnnounceFails(a) \/ DialFails(a) \/ DialRefused(a)
               \/ SocketLost(a) \/ Tick(a) \/ Interrupt(a)
      BY <3>3 DEF DTypeOK, Announce, AnnounceFails, Refused, DialFails, DialRefused,
         SocketLost, Tick, Interrupt, At, dvars
    <3>4. QED
      BY <2>1, <3>1, <3>2, <3>3 DEF Daemon
  <2>2. CASE UNCHANGED dvars
    BY <2>2 DEF dvars, DTypeOK
  <2>3. QED
    BY <2>1, <2>2 DEF DNext, Serve, allvars
<1>3. QED
  BY <1>1, <1>2, PTL DEF DSpec

-------------------------------------------------------------------------------
(* Who takes a socket from a daemon *)

(* The server's steps, but for the two that treat many sockets at once. *)
LEMMA ServeEnds ==
    ASSUME TypeOK, UseInv, NEW k \in Conns, Serve(k), ~Register(k), NEW j \in Conns
    PROVE  EndsBroken(j)'
<1>1. link' = link /\ EndsBroken(j) /\ EndsBroken(k)
  BY DEF Serve, dvars, UseInv
<1>2. CASE j # k
  <2>1. /\ pc'[j] = pc[j] /\ reader'[j] = reader[j] /\ chan'[j] = chan[j]
        /\ conn'[j] = conn[j] /\ (j \in gone => j \in gone')
    BY <1>2 DEF TypeOK, Serve, Arrive, MarkOnline, Reject, UpgradeFails, Greet,
       TakeMessage, StopServing, WriteDone, WriteError, Unregister, Release,
       MarkOffline, ReadPing, ReadError, HangUp, Goto
  <2>2. QED
    BY <1>1, <2>1 DEF EndsBroken, Broken
<1>3. CASE j = k
  <2>1. CASE Arrive(k) \/ UpgradeFails(k)
    BY <1>1, <1>3, <2>1 DEF TypeOK, EndsBroken, Broken, Arrive, MarkOnline, Reject,
       UpgradeFails, Goto
  <2>2. CASE Greet(k) \/ TakeMessage(k) \/ StopServing(k) \/ WriteDone(k) \/ WriteError(k)
    BY <1>1, <1>3, <2>2 DEF TypeOK, EndsBroken, Broken, Greet, TakeMessage,
       StopServing, WriteDone, WriteError, Goto
  <2>3. CASE Unregister(k) \/ MarkOffline(k)
    BY <1>1, <1>3, <2>3 DEF TypeOK, EndsBroken, Broken, Unregister, Release,
       MarkOffline, Goto
  <2>4. CASE ReadPing(k) \/ ReadError(k) \/ HangUp(k)
    BY <1>1, <1>3, <2>4 DEF TypeOK, EndsBroken, Broken, ReadPing, ReadError, ReadFails,
       HangUp
  <2>5. QED
    BY <2>1, <2>2, <2>3, <2>4 DEF Serve
<1>4. QED
  BY <1>2, <1>3

LEMMA RegisterEnds ==
    ASSUME TypeOK, RegistryInv, UseInv, NEW k \in Conns, Register(k), UNCHANGED dvars, NEW j \in Conns
    PROVE  EndsBroken(j)'
<1>1. /\ link' = link /\ EndsBroken(j) /\ reader' = reader /\ gone' = gone
      /\ pc[k] = "marked" /\ pc'[k] = "greeting" /\ (j # k => pc'[j] = pc[j])
  BY DEF TypeOK, Register, Goto, dvars, UseInv
<1>2. CASE j = k
  <2>1. chan'[j] = "open" /\ conn'[j] = "open" /\ reader[j] = "off"
    BY <1>1, <1>2 DEF Register, EndsBroken
  <2>2. QED
    BY <1>1, <1>2, <2>1 DEF EndsBroken, Broken
<1>3. CASE j # k /\ j \in Replaced(k)
  <2>1. chan'[j] = "closed" /\ conn'[j] = "closed"
    BY <1>3 DEF Register
  <2>2. Serving(j)
    BY <1>3, SocketTarget, AgentHubAssumption DEF RegistryInv, LatestServes, Replaced
  <2>3. QED
    BY <1>1, <1>3, <2>1, <2>2 DEF EndsBroken, Broken, Serving
<1>4. CASE j # k /\ j \notin Replaced(k)
  <2>1. chan'[j] = chan[j] /\ conn'[j] = conn[j]
    BY <1>4 DEF Register
  <2>2. QED
    BY <1>1, <1>4, <2>1 DEF EndsBroken, Broken
<1>5. QED
  BY <1>2, <1>3, <1>4

THEOREM UseCorrect == DSpec => []UseInv
<1>1. DInit => UseInv
  BY DEF DInit, Init, UseInv, EndsBroken
<1>2. TypeOK /\ RegistryInv /\ DTypeOK /\ UseInv /\ [DNext]_allvars => UseInv'
  <2> SUFFICES ASSUME TypeOK, RegistryInv, DTypeOK, UseInv, [DNext]_allvars PROVE UseInv'
    OBVIOUS
  <2>1. ASSUME NEW a \in Agents, Daemon(a) PROVE UseInv'
    <3>1. UNCHANGED <<pc, reader, chan, conn, gone>>
      BY <2>1, DaemonStep DEF Presence, sockets, rows, vars
    <3>2. ASSUME NEW k \in Conns PROVE EndsBroken(k)'
      <4>1. pc[k] # "idle" => link'[k] # "fresh"
        BY <2>1 DEF DTypeOK, UseInv, EndsBroken, Daemon, Announce, AnnounceFails, Dial,
           DialSucceeds, DialFails, DialRefused, SocketLost, Tick, Interrupt, dvars
      <4>2. QED
        BY <3>1, <4>1 DEF UseInv, EndsBroken, Broken
    <3>3. ASSUME NEW b \in Agents, loop'[b] \in {"dialing", "running"}
          PROVE  cur'[b] \in Conns /\ AgentOf[cur'[b]] = b
      BY <2>1, <3>3 DEF DTypeOK, UseInv, Daemon, Announce, AnnounceFails, Refused, Dial,
         DialSucceeds, DialFails, DialRefused, SocketLost, Tick, Interrupt, dvars, At,
         Fresh
    <3>4. QED
      BY <3>2, <3>3 DEF UseInv
  <2>2. ASSUME UNCHANGED dvars, \A k \in Conns : EndsBroken(k)' PROVE UseInv'
    BY <2>2 DEF UseInv, dvars
  <2>3. ASSUME NEW k \in Conns, Serve(k) PROVE UseInv'
    BY <2>2, <2>3, ServeEnds, RegisterEnds DEF Serve
  <2>4. ASSUME UNCHANGED dvars, UNCHANGED <<pc, reader, chan, conn, gone>> PROVE UseInv'
    BY <2>2, <2>4 DEF UseInv, EndsBroken, Broken, dvars
  <2>5. CASE (\E a \in Agents : DeleteAgent(a)) /\ UNCHANGED dvars
    BY <2>4, <2>5 DEF DeleteAgent, sockets, rows
  <2>6. CASE Restart /\ UNCHANGED dvars
    BY <2>2, <2>6 DEF UseInv, EndsBroken, Broken, Restart, dvars
  <2>7. CASE UNCHANGED allvars
    BY <2>4, <2>7 DEF allvars, vars, dvars
  <2>8. QED
    BY <2>1, <2>3, <2>5, <2>6, <2>7 DEF DNext
<1>3. QED
  BY <1>1, <1>2, DaemonImplementsHub, AgentTypeCorrect, RegistryCorrect,
     DaemonTypeCorrect, PTL DEF DSpec

(* Only a socket that the daemon has given up, or the death of the server, takes *)
(* a socket from a daemon that uses it.                                          *)
THEOREM LateKicksOnly == DSpec => OnlyLateKicks
<1>1. TypeOK /\ RegistryInv /\ UseInv /\ [DNext]_allvars =>
         [\A a \in Agents :
            (/\ loop[a] = "running" /\ cur[a] \notin gone
             /\ conn[cur[a]] = "open" /\ conn'[cur[a]] = "closed")
               => \/ agents'[a] # None /\ Abandoned(agents'[a])
                  \/ ~Up]_allvars
  <2> SUFFICES ASSUME TypeOK, RegistryInv, UseInv, [DNext]_allvars, NEW a \in Agents,
                      loop[a] = "running", cur[a] \notin gone, Up,
                      conn[cur[a]] = "open", conn'[cur[a]] = "closed"
               PROVE  agents'[a] # None /\ Abandoned(agents'[a])
    OBVIOUS
  <2>1. PICK c \in Conns : c = cur[a] /\ AgentOf[c] = a
    BY DEF UseInv
  <2>2. PICK k \in Conns : Serve(k) /\ (Register(k) \/ Unregister(k))
    <3>1. ~Restart
      BY DEF Restart
    <3>2. ASSUME NEW b \in Agents, Daemon(b) PROVE conn' = conn
      BY <3>2, DaemonStep DEF Presence, sockets, rows, vars
    <3>3. ASSUME NEW k \in Conns, Serve(k), ~Register(k), ~Unregister(k) PROVE conn' = conn
      BY <3>3 DEF Serve, Arrive, MarkOnline, Reject, UpgradeFails, Greet, TakeMessage,
         StopServing, WriteDone, WriteError, MarkOffline, ReadPing, ReadError, HangUp
    <3>4. conn' # conn
      OBVIOUS
    <3>5. QED
      BY <3>1, <3>2, <3>3, <3>4 DEF DNext, DeleteAgent, sockets, rows, allvars, vars
  <2>3. CASE Unregister(k)
    <3>1. c = k
      BY <2>1, <2>3 DEF TypeOK, Unregister
    <3>2. pc[k] = "closing" /\ EndsBroken(k)
      BY <2>3 DEF Unregister, UseInv
    <3>3. QED
      BY <2>1, <3>1, <3>2 DEF EndsBroken, Broken
  <2>4. CASE Register(k)
    <3>1. c # k /\ c \in Replaced(k)
      BY <2>1, <2>4 DEF TypeOK, Register
    <3>2. AgentOf[k] = a
      BY <2>1, <3>1, SocketTarget, AgentHubAssumption DEF RegistryInv, Replaced
    <3>3. agents'[a] = k
      BY <2>4, <3>2 DEF TypeOK, Register
    <3>4. link[k] # "fresh" /\ UNCHANGED dvars
      BY <2>2, <2>4 DEF Register, UseInv, EndsBroken, Serve
    <3>5. Abandoned(k)
      BY <2>1, <3>1, <3>2, <3>4 DEF Abandoned
    <3>6. QED
      BY <3>3, <3>5, AgentHubAssumption
  <2>5. QED
    BY <2>2, <2>3, <2>4
<1>2. QED
  BY <1>1, DaemonImplementsHub, AgentTypeCorrect, RegistryCorrect, UseCorrect, PTL
  DEF DSpec, OnlyLateKicks

===============================================================================
