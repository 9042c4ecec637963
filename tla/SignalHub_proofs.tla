---------------------------- MODULE SignalHub_proofs ----------------------------
(* Safety of the signaling hub for any set of connections, any sessions and     *)
(* any queue capacity.                                                          *)
EXTENDS SignalHub, SequenceTheorems, TLAPS

-------------------------------------------------------------------------------
(* Typing *)

LEMMA SessionType == \A c \in Clients : Session[c] \in Sessions
  BY DEF Sessions

LEMMA PongType == \A c \in Clients : Pong(c) \in Messages
  BY DEF Pong, Messages

LEMMA InType == ASSUME member \in SUBSET Clients, NEW r PROVE In(r) \in SUBSET Clients
  BY DEF In

(* Every variable keeps its type: in particular only clients are ever put in a  *)
(* queue's messages, rooms and recipient sets (all of hub.go).                  *)
THEOREM TypeCorrect == Spec => []TypeOK
<1>1. Init => TypeOK
  BY DEF Init, TypeOK, PC
<1>2. TypeOK /\ [Next]_vars => TypeOK'
  <2> SUFFICES ASSUME TypeOK, [Next]_vars PROVE TypeOK'
    OBVIOUS
  <2>1. ASSUME NEW c \in Clients, Refuse(c) PROVE TypeOK'
    BY <2>1 DEF TypeOK, Refuse, Goto, PC
  <2>2. ASSUME NEW c \in Clients, GetOrCreateRoom(c) PROVE TypeOK'
    <3>1. RoomOf(Session[c], c) \in Rooms
      BY SessionType DEF TypeOK, Rooms, RoomOf
    <3>2. QED BY <2>2, <3>1, SessionType DEF TypeOK, GetOrCreateRoom, Goto, PC
  <2>3. ASSUME NEW c \in Clients, AddClient(c) PROVE TypeOK'
    <3>1. seen' \in [Clients -> [Clients -> Nat]]
      BY <2>3 DEF TypeOK, AddClient
    <3>2. QED BY <2>3, <3>1 DEF TypeOK, AddClient, Goto, PC
  <2>4. ASSUME NEW c \in Clients, ReadMessage(c) PROVE TypeOK'
    <3>1. In(room[c]) \ {c} \in SUBSET Clients
      BY InType DEF TypeOK
    <3>2. todo' \in [Clients -> SUBSET Clients]
      BY <2>4, <3>1 DEF TypeOK, ReadMessage
    <3>3. casts' \in [Clients -> Nat]
      <4>1. casts[c] \in Nat
        BY DEF TypeOK
      <4>2. casts' = [casts EXCEPT ![c] = casts[c] + 1]
        BY <2>4 DEF ReadMessage
      <4>3. QED BY <4>1, <4>2 DEF TypeOK
    <3>4. pc' \in [Clients -> PC]
      BY <2>4 DEF TypeOK, ReadMessage, Goto, PC
    <3>5. QED BY <2>4, <3>2, <3>3, <3>4 DEF TypeOK, ReadMessage
  <2>5. ASSUME NEW c \in Clients, NEW d \in Clients, Offer(c, d) PROVE TypeOK'
    <3>1. [from |-> c, seq |-> casts[c]] \in Messages
      BY DEF TypeOK, Messages
    <3>2. send' \in [Clients -> Seq(Messages)]
      <4>1. CASE send' = send
        BY <4>1 DEF TypeOK
      <4>2. CASE send' = [send EXCEPT ![d] = Append(@, [from |-> c, seq |-> casts[c]])]
        <5>1. Append(send[d], [from |-> c, seq |-> casts[c]]) \in Seq(Messages)
          BY <3>1, AppendProperties DEF TypeOK
        <5>2. QED BY <4>2, <5>1 DEF TypeOK
      <4>3. QED BY <2>5, <4>1, <4>2 DEF Offer
    <3>3. todo' \in [Clients -> SUBSET Clients]
      BY <2>5 DEF TypeOK, Offer, GoRemoveClient
    <3>4. evict' \in SUBSET Clients /\ down' \in {"no", "pong", "send", "close"}
      BY <2>5 DEF TypeOK, Offer, GoRemoveClient
    <3>5. QED BY <2>5, <3>2, <3>3, <3>4 DEF TypeOK, Offer, GoRemoveClient
  <2>6. ASSUME NEW c \in Clients, EndBroadcast(c) PROVE TypeOK'
    BY <2>6 DEF TypeOK, EndBroadcast, Goto, PC
  <2>7. ASSUME NEW c \in Clients, ReadPing(c) PROVE TypeOK'
    <3>1. send' \in [Clients -> Seq(Messages)]
      <4>1. CASE send' = send
        BY <4>1 DEF TypeOK
      <4>2. CASE send' = [send EXCEPT ![c] = Append(@, Pong(c))]
        <5>1. Append(send[c], Pong(c)) \in Seq(Messages)
          BY PongType, AppendProperties DEF TypeOK
        <5>2. QED BY <4>2, <5>1 DEF TypeOK
      <4>3. QED BY <2>7, <4>1, <4>2 DEF ReadPing
    <3>2. pings' \in [Clients -> Nat]
      <4>1. pings[c] \in Nat
        BY DEF TypeOK
      <4>2. pings' = [pings EXCEPT ![c] = pings[c] + 1]
        BY <2>7 DEF ReadPing
      <4>3. QED BY <4>1, <4>2 DEF TypeOK
    <3>3. down' \in {"no", "pong", "send", "close"}
      BY <2>7 DEF TypeOK, ReadPing
    <3>4. QED BY <2>7, <3>1, <3>2, <3>3 DEF TypeOK, ReadPing
  <2>8. ASSUME NEW c \in Clients, ReadError(c) PROVE TypeOK'
    BY <2>8 DEF TypeOK, ReadError, Goto, PC
  <2>9. ASSUME NEW c \in Clients, LeaveRoom(c) PROVE TypeOK'
    BY <2>9, SessionType DEF TypeOK, LeaveRoom, RemoveClient, Goto, PC
  <2>10. ASSUME NEW c \in Clients, ClientCount(c) PROVE TypeOK'
    BY <2>10 DEF TypeOK, ClientCount, IsEmpty, Goto, PC
  <2>11. ASSUME NEW c \in Clients, RemoveRoom(c) PROVE TypeOK'
    BY <2>11 DEF TypeOK, RemoveRoom, Goto, PC
  <2>12. ASSUME NEW c \in Clients, Evict(c) PROVE TypeOK'
    BY <2>12, SessionType DEF TypeOK, Evict, RemoveClient
  <2>13. ASSUME NEW c \in Clients, TakeMessage(c) PROVE TypeOK'
    <3>1. /\ Head(send[c]) \in Messages
          /\ Tail(send[c]) \in Seq(Messages)
      BY <2>13, HeadTailProperties DEF TypeOK, TakeMessage
    <3>2. Head(send[c]).from \in Clients /\ Head(send[c]).seq \in Nat
      BY <3>1 DEF Messages
    <3>3. seen' \in [Clients -> [Clients -> Nat]]
      BY <2>13, <3>2 DEF TypeOK, TakeMessage
    <3>4. QED BY <2>13, <3>1, <3>3 DEF TypeOK, TakeMessage
  <2>14. ASSUME NEW c \in Clients, WriteDone(c) PROVE TypeOK'
    BY <2>14 DEF TypeOK, WriteDone
  <2>15. ASSUME NEW c \in Clients, WriteError(c) PROVE TypeOK'
    BY <2>15 DEF TypeOK, WriteError
  <2>16. ASSUME NEW c \in Clients, EndOfQueue(c) PROVE TypeOK'
    BY <2>16 DEF TypeOK, EndOfQueue
  <2>17. ASSUME NEW c \in Clients, HangUp(c) PROVE TypeOK'
    BY <2>17 DEF TypeOK, HangUp
  <2>18. ASSUME Restart PROVE TypeOK'
    BY <2>18 DEF TypeOK, Restart, PC
  <2>19. CASE UNCHANGED vars
    BY <2>19 DEF TypeOK, vars
  <2>20. QED
    BY <2>1, <2>2, <2>3, <2>4, <2>5, <2>6, <2>7, <2>8, <2>9, <2>10, <2>11,
       <2>12, <2>13, <2>14, <2>15, <2>16, <2>17, <2>18, <2>19
    DEF Next, Handler, ReadPump, WritePump
<1>3. QED
  BY <1>1, <1>2, PTL DEF Spec

-------------------------------------------------------------------------------
(* The channel discipline *)

(* While a Broadcast of a room holds the read lock, none of its recipients can  *)
(* be the client that a RemoveClient takes out.                                 *)
LEMMA LockedOut ==
    ASSUME TypeOK, ChannelInv, NEW c \in Clients, Unlocked(room[c]),
           NEW d \in Clients, pc[d] = "casting"
    PROVE  c \notin todo[d]
<1>1. room[d] # room[c]
  BY DEF Unlocked
<1>2. QED
  BY <1>1 DEF ChannelInv, TypeOK

(* RemoveClient keeps every member's channel open and every Broadcast supplied  *)
(* with members only, whoever calls it.                                         *)
LEMMA RemoveClientKeeps ==
    ASSUME TypeOK, ChannelInv, NEW c \in Clients, RemoveClient(c),
           UNCHANGED <<room, todo>>,
           \A d \in Clients : pc'[d] = pc[d] \/ pc'[d] = "removed"
    PROVE  ChannelInv'
<1>1. down' = down
  BY DEF RemoveClient, ChannelInv
<1>2. member' = member \ {c}
  BY DEF RemoveClient
<1>3. \A d \in Clients : d # c => chan'[d] = chan[d]
  BY DEF RemoveClient, TypeOK
<1>4. c \notin member => chan' = chan
  BY DEF RemoveClient
<1>5. ASSUME NEW d \in Clients, pc'[d] = "casting", NEW e \in todo'[d]
      PROVE  e # d /\ e \in member' /\ room'[e] = room'[d]
  <2>1. pc[d] = "casting" /\ e \in todo[d]
    BY <1>5
  <2>2. e # c
    BY <2>1, LockedOut DEF RemoveClient
  <2>3. QED
    BY <1>2, <2>1, <2>2 DEF ChannelInv
<1>6. \A d \in Clients :
         /\ pc'[d] = "idle" => d \notin member'
         /\ pc'[d] = "joining" => d \notin member' /\ chan'[d] = "open"
         /\ d \in member' => chan'[d] = "open"
  BY <1>2, <1>3, <1>4 DEF ChannelInv
<1>7. QED
  BY <1>1, <1>5, <1>6 DEF ChannelInv

LEMMA ChannelStep == TypeOK /\ ChannelInv /\ [Next]_vars => ChannelInv'
<1> SUFFICES ASSUME TypeOK, ChannelInv, [Next]_vars PROVE ChannelInv'
  OBVIOUS
<1>1. ASSUME NEW c \in Clients, Refuse(c) PROVE ChannelInv'
  BY <1>1 DEF TypeOK, ChannelInv, Refuse, Goto
<1>2. ASSUME NEW c \in Clients, GetOrCreateRoom(c) PROVE ChannelInv'
  <2>1. /\ pc' = [pc EXCEPT ![c] = "joining"]
        /\ chan' = [chan EXCEPT ![c] = "open"]
        /\ \A d \in Clients : d # c => room'[d] = room[d]
        /\ c \notin member
        /\ UNCHANGED <<member, todo, down>>
    BY <1>2 DEF TypeOK, ChannelInv, GetOrCreateRoom, Goto
  <2>2. QED
    BY <2>1 DEF TypeOK, ChannelInv
<1>3. ASSUME NEW c \in Clients, AddClient(c) PROVE ChannelInv'
  BY <1>3 DEF TypeOK, ChannelInv, AddClient, Goto
<1>4. ASSUME NEW c \in Clients, ReadMessage(c) PROVE ChannelInv'
  BY <1>4 DEF TypeOK, ChannelInv, ReadMessage, Goto, In
<1>5. ASSUME NEW c \in Clients, NEW d \in Clients, Offer(c, d) PROVE ChannelInv'
  <2>1. chan[d] = "open"
    BY <1>5 DEF ChannelInv, Offer
  <2>2. UNCHANGED <<down, pc, room, member, chan>>
    BY <1>5, <2>1 DEF Offer
  <2>3. todo' = [todo EXCEPT ![c] = todo[c] \ {d}]
    BY <1>5 DEF Offer
  <2>4. \A e \in Clients : todo'[e] \subseteq todo[e]
    BY <2>3 DEF TypeOK
  <2>5. QED
    BY <2>2, <2>4 DEF ChannelInv
<1>6. ASSUME NEW c \in Clients, EndBroadcast(c) PROVE ChannelInv'
  BY <1>6 DEF TypeOK, ChannelInv, EndBroadcast, Goto
<1>7. ASSUME NEW c \in Clients, ReadPing(c) PROVE ChannelInv'
  BY <1>7 DEF TypeOK, ChannelInv, ReadPing
<1>8. ASSUME NEW c \in Clients, ReadError(c) PROVE ChannelInv'
  BY <1>8 DEF TypeOK, ChannelInv, ReadError, Goto
<1>9. ASSUME NEW c \in Clients, LeaveRoom(c) PROVE ChannelInv'
  <2>1. \A d \in Clients : pc'[d] = pc[d] \/ pc'[d] = "removed"
    BY <1>9 DEF TypeOK, LeaveRoom, Goto
  <2>2. QED
    BY <1>9, <2>1, RemoveClientKeeps DEF LeaveRoom
<1>10. ASSUME NEW c \in Clients, ClientCount(c) PROVE ChannelInv'
  BY <1>10 DEF TypeOK, ChannelInv, ClientCount, Goto
<1>11. ASSUME NEW c \in Clients, RemoveRoom(c) PROVE ChannelInv'
  BY <1>11 DEF TypeOK, ChannelInv, RemoveRoom, Goto
<1>12. ASSUME NEW c \in Clients, Evict(c) PROVE ChannelInv'
  BY <1>12, RemoveClientKeeps DEF Evict
<1>13. ASSUME NEW c \in Clients, WritePump(c) PROVE ChannelInv'
  BY <1>13 DEF ChannelInv, WritePump, TakeMessage, WriteDone, WriteError, EndOfQueue
<1>14. ASSUME NEW c \in Clients, HangUp(c) PROVE ChannelInv'
  BY <1>14 DEF ChannelInv, HangUp
<1>15. ASSUME Restart PROVE ChannelInv'
  BY <1>15 DEF TypeOK, ChannelInv, Restart
<1>16. CASE UNCHANGED vars
  BY <1>16 DEF ChannelInv, vars
<1>17. QED
  BY <1>1, <1>2, <1>3, <1>4, <1>5, <1>6, <1>7, <1>8, <1>9, <1>10, <1>11,
     <1>12, <1>13, <1>14, <1>15, <1>16
  DEF Next, Handler, ReadPump

THEOREM ChannelCorrect == Spec => []ChannelInv
<1>1. Init => ChannelInv
  BY DEF Init, ChannelInv
<1>2. QED
  BY <1>1, ChannelStep, TypeCorrect, PTL DEF Spec

(* Neither Broadcast nor RemoveClient ever panics: the server process dies of   *)
(* nothing in the hub but the answer to a ping (hub.go:193).                    *)
THEOREM NoHubPanic == Spec => []OnlyPongPanics
<1>1. ChannelInv => OnlyPongPanics
  BY DEF ChannelInv, OnlyPongPanics
<1>2. QED
  BY <1>1, ChannelCorrect, PTL

-------------------------------------------------------------------------------
(* Rooms and sessions *)

LEMMA RoomStep == TypeOK /\ ChannelInv /\ RoomInv /\ [Next]_vars => RoomInv'
<1> SUFFICES ASSUME TypeOK, ChannelInv, RoomInv, [Next]_vars PROVE RoomInv'
  OBVIOUS
<1>1. ASSUME NEW c \in Clients, Refuse(c) PROVE RoomInv'
  BY <1>1 DEF TypeOK, RoomInv, Refuse, Goto
<1>2. ASSUME NEW c \in Clients, GetOrCreateRoom(c) PROVE RoomInv'
  <2> DEFINE r == IF rooms[Session[c]] = None THEN c ELSE rooms[Session[c]]
  <2>1. r # None /\ Session[r] = Session[c]
    BY HubAssumption, SessionType DEF RoomInv
  <2>2. /\ pc' = [pc EXCEPT ![c] = "joining"]
        /\ rooms' = [rooms EXCEPT ![Session[c]] = r]
        /\ room' = [room EXCEPT ![c] = r]
        /\ UNCHANGED <<member, casts>>
    BY <1>2 DEF GetOrCreateRoom, RoomOf, Goto
  <2> HIDE DEF r
  <2>3. \A s \in Sessions : rooms'[s] # None => Session[rooms'[s]] = s
    BY <2>1, <2>2, SessionType DEF TypeOK, RoomInv
  <2>4. QED
    BY <2>1, <2>2, <2>3 DEF TypeOK, RoomInv
<1>3. ASSUME NEW c \in Clients, AddClient(c) PROVE RoomInv'
  BY <1>3 DEF TypeOK, RoomInv, AddClient, Goto
<1>4. ASSUME NEW c \in Clients, ReadMessage(c) PROVE RoomInv'
  <2>1. /\ pc[c] = "reading"
        /\ pc' = [pc EXCEPT ![c] = "casting"]
        /\ casts' = [casts EXCEPT ![c] = casts[c] + 1]
        /\ UNCHANGED <<rooms, room, member>>
    BY <1>4 DEF ReadMessage, Goto
  <2>2. casts[c] \in Nat
    BY DEF TypeOK
  <2>3. \A d \in Clients : pc'[d] = "casting" => casts'[d] > 0
    BY <2>1, <2>2 DEF TypeOK, RoomInv
  <2>4. QED
    BY <2>1, <2>3 DEF TypeOK, RoomInv
<1>5. ASSUME NEW c \in Clients, NEW d \in Clients, Offer(c, d) PROVE RoomInv'
  BY <1>5 DEF RoomInv, Offer
<1>6. ASSUME NEW c \in Clients, EndBroadcast(c) PROVE RoomInv'
  BY <1>6 DEF TypeOK, RoomInv, EndBroadcast, Goto
<1>7. ASSUME NEW c \in Clients, ReadPing(c) PROVE RoomInv'
  BY <1>7 DEF RoomInv, ReadPing
<1>8. ASSUME NEW c \in Clients, ReadError(c) PROVE RoomInv'
  BY <1>8 DEF TypeOK, RoomInv, ReadError, Goto
<1>9. ASSUME NEW c \in Clients, LeaveRoom(c) PROVE RoomInv'
  BY <1>9 DEF TypeOK, RoomInv, LeaveRoom, RemoveClient, Goto
<1>10. ASSUME NEW c \in Clients, ClientCount(c) PROVE RoomInv'
  BY <1>10 DEF TypeOK, RoomInv, ClientCount, Goto
<1>11. ASSUME NEW c \in Clients, RemoveRoom(c) PROVE RoomInv'
  BY <1>11, SessionType DEF TypeOK, RoomInv, RemoveRoom, Goto
<1>12. ASSUME NEW c \in Clients, Evict(c) PROVE RoomInv'
  BY <1>12 DEF RoomInv, Evict, RemoveClient
<1>13. ASSUME NEW c \in Clients, WritePump(c) PROVE RoomInv'
  BY <1>13 DEF RoomInv, WritePump, TakeMessage, WriteDone, WriteError, EndOfQueue
<1>14. ASSUME NEW c \in Clients, HangUp(c) PROVE RoomInv'
  BY <1>14 DEF RoomInv, HangUp
<1>15. ASSUME Restart PROVE RoomInv'
  BY <1>15 DEF TypeOK, RoomInv, Restart
<1>16. CASE UNCHANGED vars
  BY <1>16 DEF RoomInv, vars
<1>17. QED
  BY <1>1, <1>2, <1>3, <1>4, <1>5, <1>6, <1>7, <1>8, <1>9, <1>10, <1>11,
     <1>12, <1>13, <1>14, <1>15, <1>16
  DEF Next, Handler, ReadPump

(* No room is ever held for another session than the one it was made for,       *)
(* however GetOrCreateRoom and RemoveRoom interleave.                           *)
THEOREM RoomCorrect == Spec => []RoomInv
<1>1. Init => RoomInv
  BY DEF Init, RoomInv
<1>2. QED
  BY <1>1, RoomStep, ChannelCorrect, TypeCorrect, PTL DEF Spec

(* Appending a message of the same session, or dropping the head, keeps a queue *)
(* within its session.                                                          *)
Own(q, c) ==
    \A i \in 1 .. Len(q) : /\ Session[q[i].from] = Session[c]
                           /\ (q[i].from = c) = (q[i].seq = 0)

LEMMA OwnAppend ==
    ASSUME NEW q \in Seq(Messages), NEW c, Own(q, c), NEW m \in Messages,
           Session[m.from] = Session[c], (m.from = c) = (m.seq = 0)
    PROVE  Own(Append(q, m), c)
<1>1. Len(Append(q, m)) = Len(q) + 1
  BY AppendProperties
<1>2. ASSUME NEW i \in 1 .. Len(q) + 1
      PROVE  Append(q, m)[i] = IF i <= Len(q) THEN q[i] ELSE m
  BY AppendProperties
<1>3. QED
  BY <1>1, <1>2 DEF Own

LEMMA OwnTail ==
    ASSUME NEW q \in Seq(Messages), q # <<>>, NEW c, Own(q, c)
    PROVE  /\ Session[Head(q).from] = Session[c]
           /\ (Head(q).from = c) = (Head(q).seq = 0)
           /\ Own(Tail(q), c)
<1>1. /\ Len(q) > 0
      /\ Head(q) = q[1]
      /\ Len(Tail(q)) = Len(q) - 1
  BY HeadTailProperties, EmptySeq
<1>2. \A i \in 1 .. Len(q) - 1 : Tail(q)[i] = q[i + 1]
  BY HeadTailProperties, <1>1
<1>3. QED
  BY <1>1, <1>2 DEF Own

LEMMA IsolationMeans ==
    SessionIsolation <=>
        \A c \in Clients :
            /\ Own(send[c], c)
            /\ \A d \in Clients : seen[c][d] # 0 => Session[d] = Session[c] /\ d # c
  BY DEF SessionIsolation, Own

LEMMA IsolationStep ==
    TypeOK /\ ChannelInv /\ RoomInv /\ SessionIsolation /\ [Next]_vars
        => SessionIsolation'
<1> SUFFICES ASSUME TypeOK, ChannelInv, RoomInv, SessionIsolation, [Next]_vars
             PROVE  SessionIsolation'
  OBVIOUS
<1>1. ASSUME UNCHANGED <<send, seen>> PROVE SessionIsolation'
  BY <1>1 DEF SessionIsolation
<1>2. ASSUME NEW c \in Clients, NEW m \in Messages, UNCHANGED seen,
             send' = [send EXCEPT ![c] = Append(send[c], m)],
             Session[m.from] = Session[c], (m.from = c) = (m.seq = 0)
      PROVE  SessionIsolation'
  <2>1. Own(Append(send[c], m), c)
    BY <1>2, OwnAppend, IsolationMeans DEF TypeOK
  <2>2. \A d \in Clients : Own(send'[d], d)
    BY <1>2, <2>1, IsolationMeans DEF TypeOK
  <2>3. QED
    BY <1>2, <2>2 DEF SessionIsolation, Own
<1>3. ASSUME NEW c \in Clients, NEW d \in Clients, Offer(c, d)
      PROVE  SessionIsolation'
  <2> DEFINE m == [from |-> c, seq |-> casts[c]]
  <2>1. CASE send' = send
    BY <1>3, <2>1, <1>1 DEF Offer
  <2>2. CASE send' = [send EXCEPT ![d] = Append(send[d], m)]
    <3>1. /\ d # c
          /\ room[d] = room[c]
          /\ room[c] # None
          /\ casts[c] > 0
      BY <1>3 DEF ChannelInv, RoomInv, Offer
    <3>2. Session[d] = Session[c]
      BY <3>1 DEF RoomInv
    <3>3. m \in Messages
      BY DEF TypeOK, Messages
    <3>4. m.from = c /\ m.seq = casts[c] /\ casts[c] # 0
      BY <3>1 DEF TypeOK
    <3> HIDE DEF m
    <3>5. QED
      BY <1>2, <1>3, <2>2, <3>1, <3>2, <3>3, <3>4 DEF Offer
  <2>3. QED
    BY <1>3, <2>1, <2>2 DEF Offer
<1>4. ASSUME NEW c \in Clients, ReadPing(c) PROVE SessionIsolation'
  <2>1. CASE send' = send
    BY <1>4, <2>1, <1>1 DEF ReadPing
  <2>2. CASE send' = [send EXCEPT ![c] = Append(send[c], Pong(c))]
    <3>1. Pong(c).from = c /\ Pong(c).seq = 0
      BY DEF Pong
    <3>2. QED
      BY <1>2, <1>4, <2>2, <3>1, PongType DEF ReadPing
  <2>3. QED
    BY <1>4, <2>1, <2>2 DEF ReadPing
<1>5. ASSUME NEW c \in Clients, TakeMessage(c) PROVE SessionIsolation'
  <2> DEFINE m == Head(send[c])
  <2>1. send[c] \in Seq(Messages) /\ send[c] # <<>>
    BY <1>5 DEF TypeOK, TakeMessage
  <2>2. m \in Messages
    BY <2>1, HeadTailProperties
  <2>3. /\ Session[m.from] = Session[c]
        /\ (m.from = c) = (m.seq = 0)
        /\ Own(Tail(send[c]), c)
    BY <2>1, OwnTail, IsolationMeans
  <2>4. m.from \in Clients
    BY <2>2 DEF Messages
  <2>5. /\ send' = [send EXCEPT ![c] = Tail(send[c])]
        /\ seen' = [seen EXCEPT ![c] = [seen[c] EXCEPT ![m.from] = m.seq]]
    BY <1>5 DEF TakeMessage
  <2> HIDE DEF m
  <2>6. \A d \in Clients : Own(send'[d], d)
    BY <2>3, <2>5, IsolationMeans DEF TypeOK
  <2>7. ASSUME NEW d \in Clients, NEW e \in Clients, seen'[d][e] # 0
        PROVE  Session[e] = Session[d] /\ e # d
    <3>1. CASE d = c /\ e = m.from
      <4>1. seen'[d][e] = m.seq
        BY <2>4, <2>5, <3>1 DEF TypeOK
      <4>2. QED
        BY <2>3, <2>7, <3>1, <4>1
    <3>2. CASE ~(d = c /\ e = m.from)
      <4>1. seen'[d][e] = seen[d][e]
        BY <2>4, <2>5, <3>2 DEF TypeOK
      <4>2. QED
        BY <2>7, <4>1 DEF SessionIsolation
    <3>3. QED
      BY <3>1, <3>2
  <2>8. QED
    BY <2>6, <2>7 DEF SessionIsolation, Own
<1>6. ASSUME Restart PROVE SessionIsolation'
  <2>1. \A c \in Clients : send'[c] = <<>>
    BY <1>6 DEF Restart
  <2>2. QED
    BY <1>6, <2>1 DEF SessionIsolation, Restart
<1>7. ASSUME NEW c \in Clients,
             \/ Refuse(c)
             \/ GetOrCreateRoom(c)
             \/ ReadMessage(c)
             \/ EndBroadcast(c)
             \/ ReadError(c)
             \/ LeaveRoom(c)
             \/ ClientCount(c)
             \/ RemoveRoom(c)
             \/ Evict(c)
             \/ HangUp(c)
      PROVE  UNCHANGED <<send, seen>>
  BY <1>7 DEF Refuse, GetOrCreateRoom, ReadMessage,
     EndBroadcast, ReadError, LeaveRoom, ClientCount, RemoveRoom, Evict, HangUp
<1>8. ASSUME NEW c \in Clients, WriteDone(c) \/ WriteError(c) \/ EndOfQueue(c)
      PROVE  UNCHANGED <<send, seen>>
  BY <1>8 DEF WriteDone, WriteError, EndOfQueue
<1>9. CASE UNCHANGED vars
  BY <1>1, <1>9 DEF vars
<1>10. ASSUME NEW c \in Clients, AddClient(c) PROVE SessionIsolation'
  <2>1. send' = send /\ \A d \in Clients \ {c} : seen'[d] = seen[d]
    BY <1>10 DEF AddClient, TypeOK
  <2>2. \A d \in Clients : seen'[c][d] # 0 => Session[d] = Session[c] /\ d # c
    BY <1>10 DEF AddClient, TypeOK
  <2>3. QED
    BY <2>1, <2>2 DEF SessionIsolation
<1>11. QED
  BY <1>1, <1>3, <1>4, <1>5, <1>6, <1>7, <1>8, <1>9, <1>10
  DEF Next, Handler, ReadPump, WritePump

(* What a client is sent was relayed by another client of its own session, or   *)
(* is a pong to its own ping.                                                   *)
THEOREM Isolation == Spec => []SessionIsolation
<1>1. Init => SessionIsolation
  BY DEF Init, SessionIsolation
<1>2. QED
  BY <1>1, IsolationStep, RoomCorrect, ChannelCorrect, TypeCorrect, PTL DEF Spec

-------------------------------------------------------------------------------
(* The registry of rooms *)

LEMMA LeakStep == TypeOK /\ RoomInv /\ LeakInv /\ [Next]_vars => LeakInv'
<1> SUFFICES ASSUME TypeOK, RoomInv, LeakInv, [Next]_vars PROVE LeakInv'
  OBVIOUS
<1>1. ASSUME NEW c \in Clients, Refuse(c) PROVE LeakInv'
  <2>1. /\ Up
        /\ pc[c] = "idle"
        /\ pc' = [pc EXCEPT ![c] = "ended"]
        /\ UNCHANGED <<rooms, room, member>>
    BY <1>1 DEF Refuse, Goto
  <2>2. \A d \in member' : pc'[d] \in {"reading", "casting", "closing"}
    BY <2>1 DEF TypeOK, LeakInv
  <2>3. \A d \in Clients : pc[d] \in Holding => pc'[d] \in Holding
    BY <2>1 DEF TypeOK, Holding
  <2>4. QED
    BY <2>1, <2>2, <2>3 DEF LeakInv
<1>2. ASSUME NEW c \in Clients, GetOrCreateRoom(c) PROVE LeakInv'
  <2> DEFINE r == IF rooms[Session[c]] = None THEN c ELSE rooms[Session[c]]
  <2>1. /\ Up
        /\ pc[c] = "idle"
        /\ pc' = [pc EXCEPT ![c] = "joining"]
        /\ rooms' = [rooms EXCEPT ![Session[c]] = r]
        /\ room' = [room EXCEPT ![c] = r]
        /\ UNCHANGED member
    BY <1>2 DEF GetOrCreateRoom, RoomOf, Goto
  <2> HIDE DEF r
  <2>2. ASSUME NEW s \in Sessions, rooms'[s] # None
        PROVE  \E d \in Clients : room'[d] = rooms'[s] /\ pc'[d] \in Holding
    <3>1. CASE s = Session[c]
      BY <2>1, <3>1 DEF TypeOK, Holding
    <3>2. CASE s # Session[c]
      <4>1. rooms'[s] = rooms[s]
        BY <2>1, <3>2 DEF TypeOK
      <4>2. PICK d \in Clients : room[d] = rooms[s] /\ pc[d] \in Holding
        BY <2>1, <2>2, <4>1 DEF LeakInv
      <4>3. d # c
        BY <2>1, <4>2 DEF Holding
      <4>4. QED
        BY <2>1, <4>1, <4>2, <4>3 DEF TypeOK
    <3>3. QED
      BY <3>1, <3>2
  <2>3. \A d \in member' : pc'[d] \in {"reading", "casting", "closing"}
    BY <2>1 DEF TypeOK, LeakInv
  <2>4. QED
    BY <2>2, <2>3 DEF LeakInv
<1>3. ASSUME NEW c \in Clients, AddClient(c) PROVE LeakInv'
  BY <1>3 DEF TypeOK, LeakInv, Holding, Up, AddClient, Goto
<1>4. ASSUME NEW c \in Clients, ReadMessage(c) PROVE LeakInv'
  BY <1>4 DEF TypeOK, LeakInv, Holding, Up, ReadMessage, Goto
<1>5. ASSUME NEW c \in Clients, NEW d \in Clients, Offer(c, d) PROVE LeakInv'
  BY <1>5 DEF LeakInv, Up, Offer
<1>6. ASSUME NEW c \in Clients, EndBroadcast(c) PROVE LeakInv'
  BY <1>6 DEF TypeOK, LeakInv, Holding, Up, EndBroadcast, Goto
<1>7. ASSUME NEW c \in Clients, ReadPing(c) PROVE LeakInv'
  BY <1>7 DEF LeakInv, Up, ReadPing
<1>8. ASSUME NEW c \in Clients, ReadError(c) PROVE LeakInv'
  BY <1>8 DEF TypeOK, LeakInv, Holding, Up, ReadError, Goto
<1>9. ASSUME NEW c \in Clients, LeaveRoom(c) PROVE LeakInv'
  <2>1. /\ Up
        /\ pc[c] = "closing"
        /\ pc' = [pc EXCEPT ![c] = "removed"]
        /\ member' = member \ {c}
        /\ UNCHANGED <<rooms, room>>
    BY <1>9 DEF LeaveRoom, RemoveClient, Goto
  <2>2. \A d \in member' : pc'[d] \in {"reading", "casting", "closing"}
    BY <2>1 DEF TypeOK, LeakInv
  <2>3. \A d \in Clients : pc[d] \in Holding => pc'[d] \in Holding
    BY <2>1 DEF TypeOK, Holding
  <2>4. QED
    BY <2>1, <2>2, <2>3 DEF LeakInv
<1>10. ASSUME NEW c \in Clients, ClientCount(c) PROVE LeakInv'
  <2>1. /\ Up
        /\ pc[c] = "removed"
        /\ \A d \in Clients : d # c => pc'[d] = pc[d]
        /\ UNCHANGED <<rooms, room, member, down>>
    BY <1>10 DEF TypeOK, ClientCount, IsEmpty, Goto
  <2>2. c \notin member
    BY <2>1 DEF LeakInv
  <2>3. ASSUME NEW s \in Sessions, rooms[s] # None
        PROVE  \E d \in Clients : room[d] = rooms[s] /\ pc'[d] \in Holding
    <3>1. PICK d \in Clients : room[d] = rooms[s] /\ pc[d] \in Holding
      BY <2>1, <2>3 DEF LeakInv
    <3>2. CASE d # c
      BY <2>1, <3>1, <3>2
    <3>3. CASE d = c /\ In(room[c]) = {}
      <4>1. pc'[c] = "empty"
        BY <1>10, <3>3 DEF TypeOK, ClientCount, IsEmpty, Goto
      <4>2. QED
        BY <3>1, <3>3, <4>1 DEF Holding
    <3>4. CASE d = c /\ In(room[c]) # {}
      <4>1. PICK e \in member : room[e] = room[c]
        BY <3>4 DEF In
      <4>2. e \in Clients /\ e # c /\ pc[e] \in Holding
        BY <2>2, <4>1 DEF TypeOK, LeakInv, Holding
      <4>3. QED
        BY <2>1, <3>1, <3>4, <4>1, <4>2
    <3>5. QED
      BY <3>2, <3>3, <3>4
  <2>4. \A d \in member' : pc'[d] \in {"reading", "casting", "closing"}
    BY <2>1, <2>2 DEF TypeOK, LeakInv
  <2>5. QED
    BY <2>1, <2>3, <2>4 DEF LeakInv
<1>11. ASSUME NEW c \in Clients, RemoveRoom(c) PROVE LeakInv'
  <2>1. /\ Up
        /\ pc[c] = "empty"
        /\ rooms' = [rooms EXCEPT ![Session[c]] = None]
        /\ \A d \in Clients : d # c => pc'[d] = pc[d]
        /\ UNCHANGED <<room, member>>
    BY <1>11 DEF TypeOK, RemoveRoom, Goto
  <2>2. ASSUME NEW s \in Sessions, rooms'[s] # None
        PROVE  \E d \in Clients : room'[d] = rooms'[s] /\ pc'[d] \in Holding
    <3>1. s # Session[c] /\ rooms'[s] = rooms[s]
      BY <2>1, <2>2 DEF TypeOK
    <3>2. PICK d \in Clients : room[d] = rooms[s] /\ pc[d] \in Holding
      BY <2>1, <2>2, <3>1 DEF LeakInv
    <3>3. d # c
      BY <2>2, <3>1, <3>2 DEF RoomInv
    <3>4. QED
      BY <2>1, <3>1, <3>2, <3>3
  <2>3. \A d \in member' : pc'[d] \in {"reading", "casting", "closing"}
    <3>1. c \notin member
      BY <2>1 DEF LeakInv
    <3>2. QED
      BY <2>1, <3>1 DEF TypeOK, LeakInv
  <2>4. QED
    BY <2>2, <2>3 DEF LeakInv
<1>12. ASSUME NEW c \in Clients, Evict(c) PROVE LeakInv'
  BY <1>12 DEF LeakInv, Up, Evict, RemoveClient
<1>13. ASSUME NEW c \in Clients, WritePump(c) PROVE LeakInv'
  BY <1>13 DEF LeakInv, Up, WritePump, TakeMessage, WriteDone, WriteError, EndOfQueue
<1>14. ASSUME NEW c \in Clients, HangUp(c) PROVE LeakInv'
  BY <1>14 DEF LeakInv, Up, HangUp
<1>15. ASSUME Restart PROVE LeakInv'
  BY <1>15 DEF LeakInv, Restart
<1>16. CASE UNCHANGED vars
  BY <1>16 DEF LeakInv, Up, vars
<1>17. QED
  BY <1>1, <1>2, <1>3, <1>4, <1>5, <1>6, <1>7, <1>8, <1>9, <1>10, <1>11,
     <1>12, <1>13, <1>14, <1>15, <1>16
  DEF Next, Handler, ReadPump

(* The hub forgets the room of a session once its last connection has ended.    *)
THEOREM RoomsForgotten == Spec => []NoRoomLeak
<1>1. Init => LeakInv
  BY DEF Init, LeakInv
<1>2. RoomInv /\ LeakInv => NoRoomLeak
  <2> SUFFICES ASSUME RoomInv, LeakInv, Up, NEW s \in Sessions, rooms[s] # None
               PROVE  \E c \in Clients : /\ Session[c] = s
                                         /\ pc[c] \notin {"idle", "ended"}
    BY DEF NoRoomLeak
  <2>1. PICK c \in Clients : room[c] = rooms[s] /\ pc[c] \in Holding
    BY DEF LeakInv
  <2>2. Session[c] = s
    BY <2>1 DEF RoomInv
  <2>3. QED
    BY <2>1, <2>2 DEF Holding
<1>3. QED
  BY <1>1, <1>2, LeakStep, RoomCorrect, TypeCorrect, PTL DEF Spec

THEOREM RegistryCorrect == Spec => []LeakInv
<1>1. Init => LeakInv
  BY DEF Init, LeakInv
<1>2. QED
  BY <1>1, LeakStep, RoomCorrect, TypeCorrect, PTL DEF Spec

(* A step after which nobody new joins, leaves, enters or is about to remove    *)
(* a room keeps SplitInv.                                                       *)
LEMMA SplitFrame ==
    ASSUME SplitInv, UNCHANGED <<rooms, room>>,
           member' \subseteq member, raced \subseteq raced',
           \A d \in Clients :
              /\ pc'[d] = "joining" => pc[d] = "joining"
              /\ pc'[d] = "empty" => pc[d] = "empty"
              /\ pc'[d] \in Holding => pc[d] \in Holding /\ (Out(d) => Out(d)')
              /\ Out(d)' => Out(d)
    PROVE  SplitInv'
<1>1. ASSUME NEW s \in Sessions, Joining(s)' PROVE Joining(s)
  BY <1>1 DEF Joining
<1>2. ASSUME NEW s \in Sessions, Leaving(s)' PROVE Leaving(s)
  BY <1>2 DEF Leaving
<1>3. ASSUME NEW s \in Sessions \ raced', NEW c \in Clients, Session[c] = s
      PROVE  /\ pc'[c] \in Holding =>
                   room'[c] = rooms'[s] \/ (rooms'[s] = None /\ Out(c)')
             /\ pc'[c] = "empty" => \A d \in member' : Session[d] # s
  BY <1>3 DEF SplitInv
<1>4. QED
  BY <1>1, <1>2, <1>3 DEF SplitInv

LEMMA SplitStep ==
    TypeOK /\ RoomInv /\ LeakInv /\ SplitInv /\ [Next]_vars => SplitInv'
<1> SUFFICES ASSUME TypeOK, RoomInv, LeakInv, SplitInv, [Next]_vars
             PROVE  SplitInv'
  OBVIOUS
<1>1. ASSUME NEW c \in Clients, Refuse(c) PROVE SplitInv'
  <2>1. /\ pc[c] = "idle"
        /\ pc' = [pc EXCEPT ![c] = "ended"]
        /\ UNCHANGED <<rooms, room, member, raced>>
    BY <1>1 DEF Refuse, Goto
  <2>2. QED
    BY <2>1, SplitFrame DEF TypeOK, Holding, Out
<1>2. ASSUME NEW c \in Clients, GetOrCreateRoom(c) PROVE SplitInv'
  <2> DEFINE t == Session[c]
             r == IF rooms[t] = None THEN c ELSE rooms[t]
  <2>1. /\ pc[c] = "idle"
        /\ pc' = [pc EXCEPT ![c] = "joining"]
        /\ rooms' = [rooms EXCEPT ![t] = r]
        /\ room' = [room EXCEPT ![c] = r]
        /\ raced' = IF Leaving(t) THEN raced \cup {t} ELSE raced
        /\ UNCHANGED member
    BY <1>2 DEF GetOrCreateRoom, RoomOf, Goto
  <2>2. t \in Sessions
    BY SessionType
  <2>3. \A d \in Clients : /\ Out(d)' <=> Out(d)
                           /\ d # c => pc'[d] = pc[d] /\ room'[d] = room[d]
    BY <2>1 DEF TypeOK, Out
  <2>4. ASSUME NEW s \in Sessions \ raced', s # t
        PROVE  /\ ~(Joining(s)' /\ Leaving(s)')
               /\ \A d \in Clients : Session[d] = s =>
                     /\ pc'[d] \in Holding =>
                           room'[d] = rooms'[s] \/ (rooms'[s] = None /\ Out(d)')
                     /\ pc'[d] = "empty" => \A e \in member' : Session[e] # s
    <3>1. s \in Sessions \ raced
      BY <2>1, <2>4
    <3>2. Joining(s)' => Joining(s)
      BY <2>3, <2>4 DEF Joining
    <3>3. Leaving(s)' => Leaving(s)
      BY <2>3 DEF Leaving
    <3>4. rooms'[s] = rooms[s]
      BY <2>1, <2>4 DEF TypeOK
    <3>5. ASSUME NEW d \in Clients, Session[d] = s
          PROVE  pc'[d] = pc[d] /\ room'[d] = room[d]
      BY <2>3, <2>4, <3>5
    <3>6. QED
      BY <2>1, <2>3, <3>1, <3>2, <3>3, <3>4, <3>5 DEF SplitInv
  <2>5. ASSUME t \notin raced'
        PROVE  /\ ~Leaving(t)'
               /\ \A d \in Clients : Session[d] = t =>
                     /\ pc'[d] \in Holding => room'[d] = rooms'[t]
                     /\ pc'[d] # "empty"
    <3>1. ~Leaving(t) /\ t \notin raced
      BY <2>1, <2>5
    <3>2. ~Leaving(t)'
      BY <2>3, <3>1 DEF Leaving
    <3>3. rooms'[t] = r /\ room'[c] = r /\ pc'[c] = "joining"
      BY <2>1, <2>2 DEF TypeOK
    <3>4. ASSUME NEW d \in Clients, Session[d] = t, d # c, pc'[d] \in Holding
          PROVE  room'[d] = rooms'[t] /\ pc'[d] # "empty"
      <4>1. pc[d] \in Holding /\ room'[d] = room[d]
        BY <2>3, <3>4
      <4>2. ~Out(d)
        BY <3>1, <3>4 DEF Leaving
      <4>3. room[d] = rooms[t]
        BY <2>2, <3>1, <3>4, <4>1, <4>2 DEF SplitInv
      <4>4. room[d] # None
        BY <4>1 DEF RoomInv, Holding
      <4>5. pc[d] # "empty"
        BY <4>2 DEF Out, LeakInv
      <4>6. QED
        BY <2>3, <3>3, <3>4, <4>1, <4>3, <4>4, <4>5
    <3>5. QED
      BY <3>2, <3>3, <3>4 DEF Holding
  <2> HIDE DEF t, r
  <2>6. QED
    BY <2>4, <2>5 DEF SplitInv
<1>3. ASSUME NEW c \in Clients, AddClient(c) PROVE SplitInv'
  <2>1. /\ pc[c] = "joining"
        /\ pc' = [pc EXCEPT ![c] = "reading"]
        /\ member' = member \cup {c}
        /\ UNCHANGED <<rooms, room, raced>>
    BY <1>3 DEF AddClient, Goto
  <2>2. \A d \in Clients : /\ Out(d)' <=> Out(d)
                           /\ pc'[d] = "joining" => pc[d] = "joining"
                           /\ pc'[d] = "empty" => pc[d] = "empty"
                           /\ pc'[d] \in Holding => pc[d] \in Holding
    BY <2>1 DEF TypeOK, Out, Holding
  <2>3. \A s \in Sessions : /\ Joining(s)' => Joining(s)
                            /\ Leaving(s)' => Leaving(s)
    BY <2>2 DEF Joining, Leaving
  <2>4. ASSUME NEW s \in Sessions \ raced, NEW d \in Clients,
               Session[d] = s, pc'[d] = "empty"
        PROVE  \A e \in member' : Session[e] # s
    <3>1. Out(d)
      BY <2>2, <2>4 DEF Out, LeakInv
    <3>2. ~Joining(s)
      BY <2>4, <3>1 DEF SplitInv, Leaving
    <3>3. Session[c] # s
      BY <2>1, <3>2 DEF Joining
    <3>4. QED
      BY <2>1, <2>2, <2>4, <3>3 DEF SplitInv
  <2>5. QED
    BY <2>1, <2>2, <2>3, <2>4 DEF SplitInv
<1>4. ASSUME NEW c \in Clients, ReadMessage(c) PROVE SplitInv'
  <2>1. /\ pc[c] = "reading"
        /\ pc' = [pc EXCEPT ![c] = "casting"]
        /\ UNCHANGED <<rooms, room, member, raced>>
    BY <1>4 DEF ReadMessage, Goto
  <2>2. QED
    BY <2>1, SplitFrame DEF TypeOK, Holding, Out
<1>5. ASSUME NEW c \in Clients, EndBroadcast(c) PROVE SplitInv'
  <2>1. /\ pc[c] = "casting"
        /\ pc' = [pc EXCEPT ![c] = "reading"]
        /\ UNCHANGED <<rooms, room, member, raced>>
    BY <1>5 DEF EndBroadcast, Goto
  <2>2. QED
    BY <2>1, SplitFrame DEF TypeOK, Holding, Out
<1>6. ASSUME NEW c \in Clients, ReadError(c) PROVE SplitInv'
  <2>1. /\ pc[c] = "reading"
        /\ pc' = [pc EXCEPT ![c] = "closing"]
        /\ UNCHANGED <<rooms, room, member, raced>>
    BY <1>6 DEF ReadError, Goto
  <2>2. QED
    BY <2>1, SplitFrame DEF TypeOK, Holding, Out
<1>7. ASSUME NEW c \in Clients, NEW p, pc[c] \in Holding \ {"joining", "empty"},
             p \in Holding \ {"joining", "empty"},
             pc' = [pc EXCEPT ![c] = p] , member' = member \ {c},
             UNCHANGED <<rooms, room>>,
             raced' = IF Joining(Session[c]) THEN raced \cup {Session[c]} ELSE raced
      PROVE  SplitInv'
  <2>1. \A d \in Clients : /\ pc'[d] = "joining" => pc[d] = "joining"
                           /\ pc'[d] = "empty" => pc[d] = "empty"
                           /\ pc'[d] \in Holding => pc[d] \in Holding
                           /\ Out(d) => Out(d)'
                           /\ Out(d)' => Out(d) \/ d = c
    BY <1>7 DEF TypeOK, Out, Holding
  <2>2. \A s \in Sessions : Joining(s)' => Joining(s)
    BY <2>1 DEF Joining
  <2>3. ASSUME NEW s \in Sessions \ raced', Leaving(s)', Joining(s)' PROVE FALSE
    <3>1. Joining(s) /\ s \notin raced
      BY <1>7, <2>2, <2>3
    <3>2. Session[c] # s
      BY <1>7, <2>3, <3>1
    <3>3. Leaving(s)
      BY <2>1, <2>3, <3>2 DEF Leaving
    <3>4. QED
      BY <3>1, <3>3 DEF SplitInv
  <2>4. raced \subseteq raced' /\ member' \subseteq member
    BY <1>7
  <2>5. QED
    BY <1>7, <2>1, <2>3, <2>4 DEF SplitInv
<1>8. ASSUME NEW c \in Clients, LeaveRoom(c) PROVE SplitInv'
  BY <1>7, <1>8 DEF LeaveRoom, RemoveClient, Goto, Holding
<1>9. ASSUME NEW c \in Clients, Evict(c) PROVE SplitInv'
  <2>1. CASE c \in member
    <3>1. pc[c] \in {"reading", "casting", "closing"}
      BY <2>1 DEF LeakInv
    <3>2. pc' = [pc EXCEPT ![c] = pc[c]]
      BY <1>9 DEF TypeOK, Evict
    <3>3. QED
      BY <1>7, <1>9, <2>1, <3>1, <3>2 DEF Evict, RemoveClient, Holding
  <2>2. CASE c \notin member
    <3>1. UNCHANGED <<rooms, pc, room, member, raced>>
      BY <1>9, <2>2 DEF Evict, RemoveClient
    <3>2. QED
      BY <3>1, SplitFrame DEF Out
  <2>3. QED
    BY <2>1, <2>2
<1>10. ASSUME NEW c \in Clients, ClientCount(c) PROVE SplitInv'
  <2>1. /\ pc[c] = "removed"
        /\ UNCHANGED <<rooms, room, member, raced>>
    BY <1>10 DEF ClientCount
  <2>2. CASE In(room[c]) # {}
    <3>1. pc' = [pc EXCEPT ![c] = "ended"]
      BY <1>10, <2>2 DEF ClientCount, IsEmpty, Goto
    <3>2. QED
      BY <2>1, <3>1, SplitFrame DEF TypeOK, Holding, Out
  <2>3. CASE In(room[c]) = {}
    <3>1. pc' = [pc EXCEPT ![c] = "empty"]
      BY <1>10, <2>3 DEF ClientCount, IsEmpty, Goto
    <3>2. \A d \in Clients : /\ Out(d)' <=> Out(d)
                             /\ pc'[d] = "joining" <=> pc[d] = "joining"
                             /\ pc'[d] \in Holding <=> pc[d] \in Holding
                             /\ pc'[d] = "empty" => pc[d] = "empty" \/ d = c
      BY <2>1, <3>1 DEF TypeOK, Out, Holding
    <3>3. \A s \in Sessions : /\ Joining(s)' => Joining(s)
                              /\ Leaving(s)' => Leaving(s)
      BY <3>2 DEF Joining, Leaving
    <3>4. ASSUME NEW e \in member, Session[e] = Session[c], Session[c] \notin raced
          PROVE  FALSE
      <4>1. e \in Clients /\ pc[e] \in Holding /\ ~Out(e)
        BY DEF TypeOK, LeakInv, Holding, Out
      <4>2. room[e] = rooms[Session[c]]
        BY <3>4, <4>1, SessionType DEF SplitInv
      <4>3. rooms[Session[c]] # None
        BY <4>2 DEF RoomInv, TypeOK
      <4>4. room[c] = rooms[Session[c]]
        BY <2>1, <3>4, <4>3, SessionType DEF SplitInv, Holding
      <4>5. QED
        BY <2>3, <4>2, <4>4 DEF In
    <3>5. QED
      BY <2>1, <3>2, <3>3, <3>4 DEF SplitInv
  <2>4. QED
    BY <2>2, <2>3
<1>11. ASSUME NEW c \in Clients, RemoveRoom(c) PROVE SplitInv'
  <2> DEFINE t == Session[c]
  <2>1. /\ pc[c] = "empty"
        /\ pc' = [pc EXCEPT ![c] = "ended"]
        /\ rooms' = [rooms EXCEPT ![t] = None]
        /\ UNCHANGED <<room, member, raced>>
    BY <1>11 DEF RemoveRoom, Goto
  <2>2. Out(c)
    BY <2>1 DEF Out, LeakInv
  <2>3. \A d \in Clients : /\ d # c => (Out(d)' <=> Out(d)) /\ pc'[d] = pc[d]
                           /\ Out(d)' => Out(d)
                           /\ pc'[d] = "joining" => pc[d] = "joining"
                           /\ pc'[d] = "empty" => pc[d] = "empty"
                           /\ pc'[d] \in Holding => pc[d] \in Holding /\ d # c
    BY <2>1 DEF TypeOK, Out, Holding
  <2>4. \A s \in Sessions : /\ Joining(s)' => Joining(s)
                            /\ Leaving(s)' => Leaving(s)
    BY <2>3 DEF Joining, Leaving
  <2>5. ASSUME NEW d \in Clients, Session[d] = t, t \notin raced, pc'[d] \in Holding
        PROVE  rooms'[t] = None /\ Out(d)'
    <3>1. rooms'[t] = None
      BY <2>1, SessionType DEF TypeOK
    <3>2. pc[d] # "joining"
      BY <2>2, <2>5, SessionType DEF SplitInv, Joining, Leaving
    <3>3. d \notin member
      BY <2>1, <2>5, SessionType DEF SplitInv
    <3>4. Out(d)
      BY <2>3, <2>5, <3>2, <3>3 DEF Out, Holding
    <3>5. QED
      BY <2>3, <2>5, <3>1, <3>4
  <2>6. \A s \in Sessions : s # t => rooms'[s] = rooms[s]
    BY <2>1 DEF TypeOK
  <2> HIDE DEF t
  <2>7. QED
    BY <2>1, <2>3, <2>4, <2>5, <2>6 DEF SplitInv
<1>12. ASSUME UNCHANGED <<rooms, pc, room, member, raced>> PROVE SplitInv'
  BY <1>12, SplitFrame DEF Out
<1>13. ASSUME NEW c \in Clients,
              \/ \E d \in Clients : Offer(c, d)
              \/ ReadPing(c)
              \/ WritePump(c)
              \/ HangUp(c)
       PROVE  UNCHANGED <<rooms, pc, room, member, raced>>
  BY <1>13 DEF Offer, ReadPing, WritePump, TakeMessage, WriteDone, WriteError,
     EndOfQueue, HangUp
<1>14. ASSUME Restart PROVE SplitInv'
  <2>1. \A c \in Clients : pc'[c] \in {"idle", "ended"}
    BY <1>14 DEF TypeOK, Restart
  <2>2. \A s \in Sessions : ~Joining(s)'
    BY <2>1 DEF Joining
  <2>3. QED
    BY <2>1, <2>2 DEF SplitInv, Holding
<1>15. CASE UNCHANGED vars
  BY <1>12, <1>15 DEF vars
<1>16. QED
  BY <1>1, <1>2, <1>3, <1>4, <1>5, <1>6, <1>8, <1>9, <1>10, <1>11, <1>12,
     <1>13, <1>14, <1>15
  DEF Next, Handler, ReadPump

(* The whole inductive invariant of the hub. *)
THEOREM HubCorrect == Spec => []HubInv
<1>1. Init => SplitInv
  BY DEF Init, SplitInv, Joining, Holding
<1>2. Spec => []SplitInv
  BY <1>1, SplitStep, RegistryCorrect, RoomCorrect, TypeCorrect, PTL DEF Spec
<1>3. ChannelInv /\ RoomInv /\ LeakInv /\ SplitInv => HubInv
  BY DEF HubInv
<1>4. QED
  BY <1>2, <1>3, ChannelCorrect, RoomCorrect, RegistryCorrect, PTL

(* Two clients of a session are in one room, the registered one, unless a join  *)
(* has overlapped the end of a leave of that session.                           *)
THEOREM NoSplit == Spec => []SplitNeedsRace
<1>1. TypeOK /\ HubInv => SplitNeedsRace
  <2> SUFFICES ASSUME TypeOK, HubInv, NEW c \in member, Session[c] \notin raced
               PROVE  room[c] = rooms[Session[c]]
    BY DEF SplitNeedsRace
  <2>1. c \in Clients /\ pc[c] \in Holding /\ ~Out(c)
    BY DEF TypeOK, HubInv, LeakInv, Holding, Out
  <2>2. QED
    BY <2>1, SessionType DEF HubInv, SplitInv
<1>2. QED
  BY <1>1, HubCorrect, TypeCorrect, PTL

-------------------------------------------------------------------------------
(* Nothing is skipped in silence.  Every step leaves a pair of connections as it *)
(* was, or the receiver out of it, or appends to or takes from its queue.       *)

(* The queue of c after a send on its channel ... *)
LEMMA Appended ==
    ASSUME TypeOK, NEW c \in Clients, NEW d \in Clients, NEW m \in Messages,
           send'[c] = Append(send[c], m)
    PROVE  /\ Len(send[c]) \in Nat
           /\ Queued(c, d)' = IF m.from = d THEN Queued(c, d) \cup {Len(send[c]) + 1}
                                            ELSE Queued(c, d)
           /\ \A i \in Queued(c, d) :
                 i \in 1 .. Len(send[c]) /\ send'[c][i] = send[c][i]
           /\ send'[c][Len(send[c]) + 1] = m
<1>1. send[c] \in Seq(Messages)
  BY DEF TypeOK
<1>2. /\ Len(send[c]) \in Nat /\ Len(send'[c]) = Len(send[c]) + 1
      /\ \A i \in 1 .. Len(send[c]) : send'[c][i] = send[c][i]
      /\ send'[c][Len(send[c]) + 1] = m
  BY <1>1
<1> QED
  BY <1>2 DEF Queued

(* ... and after a receive from it. *)
Shifted(c, d) ==
    /\ \A i \in Queued(c, d)' :
          i \in Nat \ {0} /\ i + 1 \in Queued(c, d) /\ send'[c][i] = send[c][i + 1]
    /\ \A i \in Queued(c, d) : i \in Nat \ {0} /\
          (i = 1 \/ (i - 1 \in Queued(c, d)' /\ send'[c][i - 1] = send[c][i]))

LEMMA Received ==
    ASSUME TypeOK, NEW c \in Clients, NEW d \in Clients, send[c] # <<>>,
           send'[c] = Tail(send[c])
    PROVE  /\ Head(send[c]) = send[c][1] /\ Head(send[c]) \in Messages
           /\ Head(send[c]).from = d <=> 1 \in Queued(c, d)
           /\ Shifted(c, d)
<1>1. send[c] \in Seq(Messages)
  BY DEF TypeOK
<1>2. /\ Head(send[c]) = send[c][1] /\ Head(send[c]) \in Messages
      /\ Len(send[c]) \in Nat \ {0} /\ Len(send'[c]) = Len(send[c]) - 1
      /\ \A i \in 1 .. Len(send[c]) - 1 : send'[c][i] = send[c][i + 1]
  BY <1>1
<1>3. \A i \in 2 .. Len(send[c]) : send'[c][i - 1] = send[c][i]
  BY <1>2
<1> QED
  BY <1>2, <1>3 DEF Queued, Shifted

LEMMA QueuedType ==
    ASSUME TypeOK, NEW c \in Clients, NEW d \in Clients, NEW i \in Queued(c, d)
    PROVE  i \in Nat \ {0} /\ send[c][i] \in Messages /\ send[c][i].seq \in Nat
<1>1. send[c] \in Seq(Messages) /\ i \in 1 .. Len(send[c])
  BY DEF TypeOK, Queued
<1>2. send[c][i] \in Messages
  BY <1>1
<1> QED
  BY <1>1, <1>2 DEF Messages

LEMMA OfferedType ==
    ASSUME TypeOK, RoomInv, NEW c \in Clients, NEW d \in Clients
    PROVE  Offered(c, d) \in Nat /\ seen[c][d] \in Nat /\ casts[d] \in Nat
           /\ Offered(c, d) <= casts[d]
BY DEF TypeOK, RoomInv, Offered

(* The pair is as it was, except that they may have parted. *)
LEMMA LossFrame ==
    ASSUME NEW c \in Clients, NEW d \in Clients, LossOf(c, d),
           send'[c] = send[c], seen'[c][d] = seen[c][d], casts'[d] = casts[d],
           Offered(c, d)' = Offered(c, d),
           c \in member' \ evict' /\ room'[d] = room'[c]
               => c \in member \ evict /\ room[d] = room[c],
           Queued(c, d) # {} => room'[d] = room'[c],
           pc'[c] \in {"idle", "joining"} => pc[c] \in {"idle", "joining"},
           pc'[d] \in {"idle", "joining"} => pc[d] \in {"idle", "joining"}
    PROVE  LossOf(c, d)'
<1>1. Queued(c, d)' = Queued(c, d)
  BY DEF Queued
<1>2. InOrder(c, d)' /\ (NoGap(c, d) => NoGap(c, d)')
  BY <1>1 DEF LossOf, InOrder, NoGap, Queued
<1> QED
  BY <1>1, <1>2 DEF LossOf

(* A pong, or a message of a third client, is queued. *)
LEMMA LossOther ==
    ASSUME TypeOK, NEW c \in Clients, NEW d \in Clients \ {c}, LossOf(c, d),
           Queued(c, d)' = Queued(c, d),
           \A i \in Queued(c, d) : send'[c][i] = send[c][i],
           pc[c] \notin {"idle", "joining"},
           Offered(c, d)' = Offered(c, d),
           UNCHANGED <<pc, room, member, evict, casts, seen>>
    PROVE  LossOf(c, d)'
<1>3. InOrder(c, d)'
  BY DEF LossOf, InOrder
<1>4. NoGap(c, d) => NoGap(c, d)'
  BY DEF NoGap
<1> QED
  BY <1>3, <1>4 DEF LossOf

(* The next message of d is queued. *)
LEMMA LossOffer ==
    ASSUME TypeOK, RoomInv, NEW c \in Clients, NEW d \in Clients \ {c}, LossOf(c, d),
           NEW e \in Nat,
           Queued(c, d)' = Queued(c, d) \cup {e},
           \A i \in Queued(c, d) : i < e /\ send'[c][i] = send[c][i],
           send'[c][e].seq = casts[d],
           pc[d] = "casting", c \in todo[d], c \notin todo'[d], room[d] = room[c],
           pc[c] \notin {"idle", "joining"},
           UNCHANGED <<pc, room, member, evict, casts, seen>>
    PROVE  LossOf(c, d)'
<1>1. /\ Queued(c, d)' = Queued(c, d) \cup {e}
      /\ \A i \in Queued(c, d) : i < e /\ send'[c][i] = send[c][i]
      /\ send'[c][e].seq = casts[d]
  OBVIOUS
<1>2. /\ Offered(c, d) = casts[d] - 1 /\ Offered(c, d)' = casts[d]
      /\ casts[d] \in Nat /\ seen[c][d] \in Nat
      /\ \A i \in Queued(c, d) : i \in Nat /\ send[c][i].seq \in Nat
  BY OfferedType, QueuedType DEF Offered
<1>4. /\ seen[c][d] < casts[d]
      /\ \A i \in Queued(c, d) : send[c][i].seq < casts[d]
  BY <1>2 DEF LossOf
<1>5. InOrder(c, d)'
  <2>1. InOrder(c, d)
    BY DEF LossOf
  <2>2. ASSUME NEW j \in Queued(c, d)'
        PROVE  /\ seen'[c][d] < send'[c][j].seq
               /\ \A i \in Queued(c, d)' : i < j => send'[c][i].seq < send'[c][j].seq
    <3>1. CASE j = e
      BY <1>1, <1>2, <1>4, <3>1
    <3>2. CASE j # e
      BY <1>1, <1>2, <2>1, <2>2, <3>2 DEF InOrder
    <3> QED
      BY <3>1, <3>2
  <2> QED
    BY <2>2 DEF InOrder
<1>6. ASSUME NoGap(c, d) PROVE NoGap(c, d)'
  <2> SUFFICES ASSUME NEW n \in seen[c][d] + 1 .. casts[d]
               PROVE  \E i \in Queued(c, d)' : send'[c][i].seq = n
    BY <1>2 DEF NoGap
  <2>1. CASE n = casts[d]
    BY <1>1, <2>1
  <2>2. CASE n # casts[d]
    <3>1. n \in seen[c][d] + 1 .. casts[d] - 1
      BY <1>2, <2>2
    <3> QED
      BY <1>1, <1>2, <1>6, <3>1 DEF NoGap
  <2> QED
    BY <2>1, <2>2
<1>7. /\ seen'[c][d] <= casts'[d]
      /\ \A i \in Queued(c, d)' : send'[c][i].seq <= casts'[d]
  <2>1. \A i \in Queued(c, d) : send'[c][i].seq <= casts'[d]
    BY <1>1, <1>2, <1>4
  <2>2. send'[c][e].seq <= casts'[d]
    BY <1>1, <1>2
  <2> QED
    BY <1>1, <1>2, <1>4, <2>1, <2>2
<1> QED
  BY <1>2, <1>5, <1>6, <1>7 DEF LossOf

(* The writer of c takes a message. *)
LEMMA LossTake ==
    ASSUME TypeOK, RoomInv, NEW c \in Clients, NEW d \in Clients \ {c}, LossOf(c, d),
           NEW m \in Messages, m = send[c][1], m.from = d <=> 1 \in Queued(c, d),
           Shifted(c, d),
           seen' = [seen EXCEPT ![c] = [seen[c] EXCEPT ![m.from] = m.seq]],
           pc[c] \notin {"idle", "joining"},
           UNCHANGED <<pc, room, member, todo, evict, casts>>
    PROVE  LossOf(c, d)'
<1> USE DEF Shifted
<1>1. /\ m.from \in Clients /\ m.seq \in Nat
      /\ m.from = d => 1 \in Queued(c, d)
  BY DEF Messages
<1>2. seen'[c][d] = IF m.from = d THEN m.seq ELSE seen[c][d]
  BY <1>1 DEF TypeOK
<1>3. /\ Offered(c, d)' = Offered(c, d) /\ Offered(c, d) \in Nat /\ seen[c][d] \in Nat
      /\ \A i \in Queued(c, d) : send[c][i].seq \in Nat
  BY OfferedType, QueuedType DEF Offered
<1>4. \A i \in Queued(c, d) : seen[c][d] < send[c][i].seq
  BY DEF LossOf, InOrder
<1>5. InOrder(c, d)'
  <2>1. \A j \in Queued(c, d)' : seen'[c][d] < send'[c][j].seq
    BY <1>1, <1>2 DEF LossOf, InOrder
  <2>2. \A i, j \in Queued(c, d)' : i < j => send'[c][i].seq < send'[c][j].seq
    BY <1>1 DEF LossOf, InOrder
  <2> QED
    BY <2>1, <2>2 DEF InOrder
<1>6. ASSUME NoGap(c, d) PROVE NoGap(c, d)'
  <2> SUFFICES ASSUME NEW n \in seen'[c][d] + 1 .. Offered(c, d)
               PROVE  \E i \in Queued(c, d)' : send'[c][i].seq = n
    BY <1>3 DEF NoGap
  <2>1. seen[c][d] <= seen'[c][d] /\ seen'[c][d] \in Nat
    BY <1>1, <1>2, <1>3, <1>4
  <2>2. PICK i \in Queued(c, d) : send[c][i].seq = n
    BY <1>3, <1>6, <2>1 DEF NoGap
  <2>3. i # 1
    BY <1>1, <1>2, <2>1, <2>2
  <2> QED
    BY <2>2, <2>3
<1>7. /\ seen'[c][d] <= Offered(c, d)'
      /\ \A i \in Queued(c, d)' : send'[c][i].seq <= Offered(c, d)'
  BY <1>1, <1>2, <1>3 DEF LossOf
<1>8. Queued(c, d)' # {} => Queued(c, d) # {}
  OBVIOUS
<1> QED
  BY <1>5, <1>6, <1>7, <1>8 DEF LossOf

(* Somebody joins: there is nothing to or from him yet, and he starts where the *)
(* others are.                                                                  *)
LEMMA LossJoin ==
    ASSUME TypeOK, ChannelInv, RoomInv, NEW c \in Clients, NEW d \in Clients \ {c}, LossOf(c, d),
           NEW b \in Clients, AddClient(b)
    PROVE  LossOf(c, d)'
<1>1. /\ pc[b] = "joining" /\ member' = member \cup {b}
      /\ pc' = [pc EXCEPT ![b] = "reading"]
      /\ UNCHANGED <<room, send, todo, evict, casts>>
  BY DEF AddClient, Goto
<1>2. Offered(c, d)' = Offered(c, d) /\ Offered(c, d) \in Nat /\ seen[c][d] \in Nat
      /\ Queued(c, d)' = Queued(c, d)
  BY <1>1, OfferedType DEF TypeOK, Offered, Queued
<1>3. CASE c # b
  <2>1. seen'[c] = seen[c]
    BY <1>3 DEF AddClient, TypeOK
  <2>2. pc'[c] = pc[c] /\ (c \in member' <=> c \in member)
    BY <1>1, <1>3 DEF TypeOK
  <2>3. pc'[d] \in {"idle", "joining"} => pc[d] \in {"idle", "joining"}
    BY <1>1 DEF TypeOK
  <2> QED
    BY <1>1, <1>2, <2>1, <2>2, <2>3, LossFrame DEF LossOf
<1>4. CASE c = b
  <2>1. seen'[c][d] = IF Session[d] = Session[c] THEN casts[d] ELSE 0
    BY <1>4 DEF AddClient, TypeOK
  <2>2. Queued(c, d) = {}
    BY <1>1, <1>4 DEF LossOf, Queued
  <2>3. casts[d] \in Nat /\ Offered(c, d) = casts[d]
    BY <1>1, <1>4, OfferedType DEF Offered, ChannelInv
  <2>4. room[d] = room[c] => Session[d] = Session[c]
    BY <1>1, <1>4 DEF RoomInv
  <2>5. InOrder(c, d)'
    BY <1>2, <2>2 DEF InOrder
  <2>6. room[d] = room[c] => NoGap(c, d)'
    BY <1>2, <2>1, <2>3, <2>4 DEF NoGap
  <2> QED
    BY <1>1, <1>2, <1>4, <2>1, <2>2, <2>3, <2>5, <2>6 DEF LossOf, TypeOK
<1> QED
  BY <1>3, <1>4

(* The message of d grows beyond what c has been offered, or c is parted from d *)
(* or about to be.                                                              *)
LEMMA LossGrow ==
    ASSUME TypeOK, RoomInv, NEW c \in Clients, NEW d \in Clients \ {c}, LossOf(c, d),
           send'[c] = send[c], seen' = seen, casts'[d] \in Nat,
           Offered(c, d)' \in Nat, Offered(c, d) <= Offered(c, d)',
           ~(c \in member' \ evict' /\ room'[d] = room'[c]), UNCHANGED room,
           pc'[c] \in {"idle", "joining"} => pc[c] \in {"idle", "joining"},
           pc'[d] \notin {"idle", "joining"}
    PROVE  LossOf(c, d)'
<1>1. Queued(c, d)' = Queued(c, d)
  BY DEF Queued
<1>2. InOrder(c, d)'
  BY <1>1 DEF LossOf, InOrder
<1>3. /\ Offered(c, d) \in Nat /\ seen[c][d] \in Nat
      /\ \A i \in Queued(c, d) : send[c][i].seq \in Nat
  BY OfferedType, QueuedType
<1>4. /\ seen'[c][d] <= Offered(c, d)'
      /\ \A i \in Queued(c, d)' : send'[c][i].seq <= Offered(c, d)'
  BY <1>1, <1>3 DEF LossOf
<1> QED
  BY <1>1, <1>2, <1>4 DEF LossOf

(* d relays its next message: c is to be visited if it is in the room of d. *)
LEMMA LossRead ==
    ASSUME TypeOK, RoomInv, NEW c \in Clients, NEW d \in Clients \ {c}, LossOf(c, d),
           NEW b \in Clients, ReadMessage(b)
    PROVE  LossOf(c, d)'
<1>1. /\ pc[b] = "reading"
      /\ casts' = [casts EXCEPT ![b] = casts[b] + 1]
      /\ todo' = [todo EXCEPT ![b] = In(room[b]) \ {b}]
      /\ pc' = [pc EXCEPT ![b] = "casting"]
      /\ UNCHANGED <<room, member, send, evict, seen>>
  BY DEF ReadMessage, Goto
<1>2. CASE d # b
  <2>1. Offered(c, d)' = Offered(c, d) /\ casts'[d] = casts[d]
    BY <1>1, <1>2 DEF TypeOK, Offered
  <2> QED
    BY <1>1, <1>2, <2>1, LossFrame DEF TypeOK, LossOf
<1>3. CASE d = b
  <2>1. /\ Offered(c, d) = casts[d] /\ casts[d] \in Nat /\ casts'[d] = casts[d] + 1
        /\ pc'[d] = "casting" /\ todo'[d] = In(room[d]) \ {d}
        /\ pc'[c] = pc[c]
    BY <1>1, <1>3 DEF TypeOK, Offered
  <2>2. Queued(c, d)' = Queued(c, d)
    BY <1>1 DEF Queued
  <2>3. CASE c \in In(room[d])
    <3>1. Offered(c, d)' = Offered(c, d)
      BY <2>1, <2>3 DEF Offered
    <3>2. InOrder(c, d)' /\ (NoGap(c, d) => NoGap(c, d)')
      BY <1>1, <2>2, <3>1 DEF LossOf, InOrder, NoGap
    <3> QED
      BY <1>1, <2>1, <2>2, <3>1, <3>2 DEF LossOf
  <2>4. CASE c \notin In(room[d])
    <3>1. Offered(c, d)' = casts[d] + 1
      BY <2>1, <2>4 DEF Offered
    <3>2. ~(c \in member' \ evict' /\ room'[d] = room'[c])
      BY <1>1, <2>4 DEF In
    <3> QED
      BY <1>1, <2>1, <3>1, <3>2, LossGrow
  <2> QED
    BY <2>3, <2>4
<1> QED
  BY <1>2, <1>3

(* A Broadcast of b visits e. *)
LEMMA LossVisit ==
    ASSUME TypeOK, ChannelInv, RoomInv,
           NEW c \in Clients, NEW d \in Clients \ {c}, LossOf(c, d),
           NEW b \in Clients, NEW e \in Clients, Offer(b, e)
    PROVE  LossOf(c, d)'
<1> DEFINE m == [from |-> b, seq |-> casts[b]]
<1>1. /\ pc[b] = "casting" /\ e \in todo[b] /\ e \in member /\ chan[e] = "open"
      /\ room[b] = room[e] /\ pc[e] \notin {"idle", "joining"}
      /\ todo' = [todo EXCEPT ![b] = todo[b] \ {e}]
      /\ UNCHANGED <<pc, room, member, casts, seen>>
  BY DEF Offer, ChannelInv
<1>2. m \in Messages /\ m.from = b /\ m.seq = casts[b]
  BY DEF TypeOK, Messages
<1>3. \/ send' = [send EXCEPT ![e] = Append(send[e], m)] /\ evict' = evict
      \/ send' = send /\ evict' = evict \cup {e}
  BY <1>1 DEF Offer, GoRemoveClient
<1> HIDE DEF m
<1>4. CASE c # e \/ d # b
  <2>1. Offered(c, d)' = Offered(c, d)
    BY <1>1, <1>4 DEF TypeOK, Offered
  <2>2. CASE send'[c] = send[c]
    BY <1>1, <1>3, <2>1, <2>2, LossFrame DEF LossOf
  <2>3. CASE c = e /\ evict' = evict /\ send'[c] = Append(send[c], m)
    <3>1. d # b
      BY <1>4, <2>3
    <3>2. /\ Queued(c, d)' = Queued(c, d)
          /\ \A i \in Queued(c, d) : send'[c][i] = send[c][i]
      BY <1>2, <2>3, <3>1, Appended
    <3> QED
      BY <1>1, <2>1, <2>3, <3>2, LossOther
  <2> QED
    BY <1>3, <2>2, <2>3 DEF TypeOK
<1>5. CASE c = e /\ d = b
  <2>1. c \notin todo'[d]
    BY <1>1, <1>5 DEF TypeOK
  <2>2. CASE send' = send /\ evict' = evict \cup {e}
    <3>1. Offered(c, d) = casts[d] - 1 /\ Offered(c, d)' = casts[d] /\ casts[d] \in Nat
      BY <1>1, <1>5, <2>1, OfferedType DEF Offered
    <3> QED
      BY <1>1, <1>5, <2>2, <3>1, LossGrow
  <2>3. CASE send' = [send EXCEPT ![e] = Append(send[e], m)] /\ evict' = evict
    <3>1. send'[c] = Append(send[c], m)
      BY <1>5, <2>3 DEF TypeOK
    <3>2. /\ Len(send[c]) \in Nat
          /\ Queued(c, d)' = Queued(c, d) \cup {Len(send[c]) + 1}
          /\ \A i \in Queued(c, d) :
                i \in 1 .. Len(send[c]) /\ send'[c][i] = send[c][i]
          /\ send'[c][Len(send[c]) + 1] = m
      BY <1>2, <1>5, <3>1, Appended
    <3>3. PICK n \in Nat : n = Len(send[c]) + 1
      BY <3>2
    <3>4. /\ Queued(c, d)' = Queued(c, d) \cup {n}
          /\ \A i \in Queued(c, d) : i < n /\ send'[c][i] = send[c][i]
          /\ send'[c][n].seq = casts[d]
      BY <1>2, <1>5, <3>2, <3>3
    <3> QED
      BY <1>1, <1>5, <2>1, <2>3, <3>4, LossOffer
  <2> QED
    BY <1>3, <2>2, <2>3
<1> QED
  BY <1>4, <1>5

(* A ping is answered. *)
LEMMA LossPing ==
    ASSUME TypeOK, RoomInv, NEW c \in Clients, NEW d \in Clients \ {c}, LossOf(c, d),
           NEW b \in Clients, ReadPing(b)
    PROVE  LossOf(c, d)'
<1>1. /\ pc[b] = "reading"
      /\ UNCHANGED <<pc, room, member, todo, evict, casts, seen>>
  BY DEF ReadPing
<1>2. Offered(c, d)' = Offered(c, d)
  BY <1>1 DEF Offered
<1>3. CASE send'[c] = send[c]
  BY <1>1, <1>2, <1>3, LossFrame DEF LossOf
<1>4. CASE c = b /\ send'[c] = Append(send[c], Pong(c))
  <2>1. Pong(c).from # d /\ Pong(c) \in Messages
    BY PongType DEF Pong
  <2>2. /\ Queued(c, d)' = Queued(c, d)
        /\ \A i \in Queued(c, d) : send'[c][i] = send[c][i]
    BY <1>4, <2>1, Appended
  <2> QED
    BY <1>1, <1>2, <1>4, <2>2, LossOther
<1>5. send'[c] = send[c] \/ (c = b /\ send'[c] = Append(send[c], Pong(c)))
  BY DEF ReadPing, TypeOK
<1> QED
  BY <1>3, <1>4, <1>5

(* The writer of b takes what is next. *)
LEMMA LossWriter ==
    ASSUME TypeOK, RoomInv, NEW c \in Clients, NEW d \in Clients \ {c}, LossOf(c, d),
           NEW b \in Clients, TakeMessage(b)
    PROVE  LossOf(c, d)'
<1>1. /\ send[b] # <<>> /\ send' = [send EXCEPT ![b] = Tail(send[b])]
      /\ seen' = [seen EXCEPT ![b] = [seen[b] EXCEPT ![Head(send[b]).from] = Head(send[b]).seq]]
      /\ UNCHANGED <<pc, room, member, todo, evict, casts>>
  BY DEF TakeMessage
<1>2. CASE c # b
  <2>1. send'[c] = send[c] /\ seen'[c] = seen[c] /\ Offered(c, d)' = Offered(c, d)
    BY <1>1, <1>2 DEF TypeOK, Offered
  <2> QED
    BY <1>1, <2>1, LossFrame DEF LossOf
<1>3. CASE c = b
  <2>1. send[c] # <<>> /\ send'[c] = Tail(send[c])
    BY <1>1, <1>3 DEF TypeOK
  <2>2. pc[c] \notin {"idle", "joining"}
    BY <2>1 DEF LossOf
  <2>3. /\ Head(send[c]) = send[c][1] /\ Head(send[c]) \in Messages
        /\ Head(send[c]).from = d <=> 1 \in Queued(c, d)
        /\ Shifted(c, d)
    BY <2>1, Received
  <2>4. PICK m \in Messages : m = Head(send[c])
    BY <2>3
  <2>5. seen' = [seen EXCEPT ![c] = [seen[c] EXCEPT ![m.from] = m.seq]]
    BY <1>1, <1>3, <2>4
  <2> QED
    BY <1>1, <2>2, <2>3, <2>4, <2>5, LossTake
<1> QED
  BY <1>2, <1>3

(* The steps of b that leave the queues, and what was relayed, alone. *)
LEMMA LossQuiet ==
    ASSUME TypeOK, ChannelInv, RoomInv,
           NEW c \in Clients, NEW d \in Clients \ {c}, LossOf(c, d), NEW b \in Clients,
           \/ Refuse(b) \/ GetOrCreateRoom(b) \/ EndBroadcast(b) \/ ReadError(b)
           \/ LeaveRoom(b) \/ ClientCount(b) \/ RemoveRoom(b) \/ Evict(b)
           \/ WriteDone(b) \/ WriteError(b) \/ EndOfQueue(b) \/ HangUp(b)
    PROVE  LossOf(c, d)'
<1>1. CASE Refuse(b) \/ GetOrCreateRoom(b)
  <2>1. /\ b \notin member /\ pc[b] = "idle"
        /\ \E l \in {"joining", "ended"} : pc' = [pc EXCEPT ![b] = l]
        /\ \A o \in Clients \ {b} : room'[o] = room[o]
        /\ UNCHANGED <<send, seen, casts, todo, member, evict>>
    BY <1>1 DEF Refuse, GetOrCreateRoom, Goto, ChannelInv, TypeOK
  <2>2. Offered(c, d)' = Offered(c, d)
    BY <2>1 DEF TypeOK, Offered
  <2>3. b \in {c, d} => Queued(c, d) = {} /\ (d = b => Offered(c, d) = 0 /\ seen[c][d] = 0)
    <3>1. CASE c = b
      BY <2>1, <3>1 DEF LossOf, Queued
    <3>2. CASE d = b
      <4>1. Offered(c, d) = 0 /\ seen[c][d] = 0
        BY <2>1, <3>2, OfferedType DEF LossOf, Offered
      <4>2. \A i \in Queued(c, d) : send[c][i].seq \in Nat
        BY QueuedType
      <4>3. Queued(c, d) = {}
        BY <4>1, <4>2 DEF LossOf, InOrder
      <4> QED
        BY <4>1, <4>3
    <3> QED
      BY <3>1, <3>2
  <2>4. CASE b # d
    BY <2>1, <2>2, <2>3, <2>4, LossFrame DEF TypeOK, LossOf
  <2>5. CASE b = d
    <3>1. Queued(c, d)' = {} /\ InOrder(c, d)'
      BY <2>1, <2>3, <2>5 DEF Queued, InOrder
    <3>2. NoGap(c, d)'
      BY <2>1, <2>2, <2>3, <2>5 DEF NoGap
    <3> QED
      BY <2>1, <2>2, <2>3, <2>5, <3>1, <3>2 DEF LossOf, TypeOK
  <2> QED
    BY <2>4, <2>5
<1>2. CASE EndBroadcast(b) \/ ReadError(b) \/ ClientCount(b) \/ RemoveRoom(b)
  <2>1. /\ \E l \in {"reading", "closing", "empty", "ended"} : pc' = [pc EXCEPT ![b] = l]
        /\ pc[b] = "casting" => todo[b] = {}
        /\ UNCHANGED <<send, seen, casts, todo, member, evict, room>>
    BY <1>2 DEF EndBroadcast, ReadError, ClientCount, RemoveRoom, Goto
  <2>2. Offered(c, d)' = Offered(c, d)
    BY <2>1 DEF TypeOK, Offered
  <2> QED
    BY <2>1, <2>2, LossFrame DEF TypeOK, LossOf
<1>3. CASE LeaveRoom(b) \/ Evict(b)
  <2>1. /\ pc' = pc \/ (pc[b] = "closing" /\ pc' = [pc EXCEPT ![b] = "removed"])
        /\ member' = member \ {b}
        /\ evict' = evict \/ evict' = evict \ {b}
        /\ UNCHANGED <<send, seen, casts, todo, room>>
    BY <1>3 DEF LeaveRoom, Evict, RemoveClient, Goto
  <2>2. Offered(c, d)' = Offered(c, d)
    BY <2>1 DEF TypeOK, Offered
  <2> QED
    BY <2>1, <2>2, LossFrame DEF TypeOK, LossOf
<1>4. CASE WriteDone(b) \/ WriteError(b) \/ EndOfQueue(b) \/ HangUp(b)
  <2>1. UNCHANGED <<pc, send, seen, casts, todo, member, evict, room>>
    BY <1>4 DEF WriteDone, WriteError, EndOfQueue, HangUp
  <2>2. Offered(c, d)' = Offered(c, d)
    BY <2>1 DEF Offered
  <2> QED
    BY <2>1, <2>2, LossFrame DEF LossOf
<1> QED
  BY <1>1, <1>2, <1>3, <1>4

(* The process is gone, and its queues with it. *)
LEMMA LossRestart ==
    ASSUME TypeOK, RoomInv, NEW c \in Clients, NEW d \in Clients \ {c}, LossOf(c, d),
           Restart
    PROVE  LossOf(c, d)'
<1>1. /\ \A o \in Clients : pc'[o] = IF pc[o] # "idle" THEN "ended" ELSE "idle"
      /\ send'[c] = <<>> /\ member' = {}
      /\ UNCHANGED <<seen, casts, room>>
  BY DEF Restart
<1>2. Queued(c, d)' = {}
  BY <1>1 DEF Queued
<1>3. Offered(c, d)' = casts[d] /\ seen[c][d] <= casts[d]
  BY <1>1, OfferedType DEF LossOf, Offered
<1>4. InOrder(c, d)'
  BY <1>2 DEF InOrder
<1> QED
  BY <1>1, <1>2, <1>3, <1>4 DEF LossOf

LEMMA LossStep == TypeOK /\ ChannelInv /\ RoomInv /\ LossInv /\ [Next]_vars => LossInv'
<1> SUFFICES ASSUME TypeOK, ChannelInv, RoomInv, LossInv, [Next]_vars,
                    NEW c \in Clients, NEW d \in Clients \ {c}
             PROVE  LossOf(c, d)'
  BY DEF LossInv
<1>1. LossOf(c, d)
  BY DEF LossInv
<1>2. CASE \E b \in Clients : Handler(b)
  BY <1>1, <1>2, LossQuiet, LossJoin DEF Handler
<1>3. CASE \E b \in Clients : ReadPump(b)
  BY <1>1, <1>3, LossQuiet, LossRead, LossVisit, LossPing DEF ReadPump
<1>4. CASE \E b \in Clients : WritePump(b) \/ Evict(b) \/ HangUp(b)
  BY <1>1, <1>4, LossQuiet, LossWriter DEF WritePump
<1>5. CASE Restart
  BY <1>1, <1>5, LossRestart
<1>6. CASE UNCHANGED vars
  <2>1. UNCHANGED <<pc, send, seen, casts, todo, member, evict, room>>
    BY <1>6 DEF vars
  <2>2. Offered(c, d)' = Offered(c, d)
    BY <2>1 DEF Offered
  <2> QED
    BY <1>1, <2>1, <2>2, LossFrame DEF LossOf
<1> QED
  BY <1>2, <1>3, <1>4, <1>5, <1>6 DEF Next

(* The inductive invariant of the queues. *)
THEOREM LossCorrect == Spec => []LossInv
<1>1. Init => LossInv
  <2> SUFFICES ASSUME Init, NEW c \in Clients, NEW d \in Clients \ {c}
               PROVE  LossOf(c, d)
    BY DEF LossInv
  <2>1. send[c] = <<>> /\ seen[c][d] = 0 /\ casts[d] = 0 /\ member = {} /\ pc[d] = "idle"
    BY DEF Init
  <2>2. Queued(c, d) = {} /\ Offered(c, d) = 0
    BY <2>1 DEF Queued, Offered
  <2> QED
    BY <2>1, <2>2 DEF LossOf, InOrder
<1> QED
  BY <1>1, LossStep, TypeCorrect, ChannelCorrect, RoomCorrect, PTL DEF Spec

(* For any number of clients and any queue: what a client gets of another one   *)
(* is in order, and without a gap as long as its connection is not about to be  *)
(* closed (Broadcast, hub.go:85).                                               *)
THEOREM NothingSkipped == Spec => []NoSilentLoss
<1>1. LossInv => NoSilentLoss
  BY DEF LossInv, LossOf, NoSilentLoss
<1> QED
  BY <1>1, LossCorrect, PTL

-------------------------------------------------------------------------------
(* The hub implements Group.                                                    *)

(* Nobody is to be evicted before he is in a room. *)
LEMMA FreshStep == TypeOK /\ ChannelInv /\ FreshInv /\ [Next]_vars => FreshInv'
<1> SUFFICES ASSUME TypeOK, ChannelInv, FreshInv, [Next]_vars PROVE FreshInv'
  OBVIOUS
<1>1. ASSUME NEW b \in Clients, NEW e \in Clients, Offer(b, e) PROVE FreshInv'
  <2>1. e \in member /\ evict' \in {evict, evict \cup {e}} /\ pc' = pc
    BY <1>1 DEF Offer, GoRemoveClient, ChannelInv
  <2> QED
    BY <2>1 DEF FreshInv, ChannelInv
<1>2. ASSUME NEW b \in Clients, Handler(b) PROVE FreshInv'
  BY <1>2 DEF Handler, Refuse, GetOrCreateRoom, AddClient, Goto, TypeOK, FreshInv
<1>3. ASSUME NEW b \in Clients,
             \/ ReadMessage(b) \/ EndBroadcast(b) \/ ReadError(b) \/ LeaveRoom(b)
             \/ ClientCount(b) \/ RemoveRoom(b)
      PROVE  FreshInv'
  BY <1>3 DEF ReadMessage, EndBroadcast, ReadError, LeaveRoom, ClientCount, RemoveRoom,
     Goto, TypeOK, FreshInv
<1>4. ASSUME NEW b \in Clients, ReadPing(b) \/ WritePump(b) \/ Evict(b) \/ HangUp(b)
      PROVE  FreshInv'
  <2>1. pc' = pc /\ evict' \subseteq evict
    BY <1>4 DEF ReadPing, WritePump, TakeMessage, WriteDone, WriteError, EndOfQueue, Evict,
       HangUp
  <2> QED
    BY <2>1 DEF FreshInv
<1>5. CASE Restart
  BY <1>5 DEF Restart, FreshInv
<1>6. CASE UNCHANGED vars
  BY <1>6 DEF vars, FreshInv
<1> QED
  BY <1>1, <1>2, <1>3, <1>4, <1>5, <1>6 DEF Next, ReadPump

THEOREM FreshCorrect == Spec => []FreshInv
<1>1. Init => FreshInv
  BY DEF Init, FreshInv
<1> QED
  BY <1>1, FreshStep, ChannelCorrect, TypeCorrect, PTL DEF Spec

(* How the steps of the hub are read as steps of Group. *)
GroupStep == G!Next \/ UNCHANGED G!vars

LEMMA StateCut ==
    ASSUME NEW C \in SUBSET Clients, UNCHANGED <<casts, seen>>,
           \A o \in Clients : State(o)' = IF o \in C THEN "cut" ELSE State(o)
    PROVE  GroupStep
  BY DEF GroupStep, G!Next, G!Cut

LEMMA StateSame ==
    ASSUME UNCHANGED <<casts, seen>>, \A o \in Clients : State(o)' = State(o)
    PROVE  GroupStep
  BY DEF GroupStep, G!vars

(* A connection comes in, with all that was relayed before behind it. *)
LEMMA GroupJoin ==
    ASSUME TypeOK, FreshInv, NEW b \in Clients, AddClient(b)
    PROVE  GroupStep
<1>1. /\ pc[b] = "joining" /\ member' = member \cup {b} /\ b \notin evict
      /\ pc' = [pc EXCEPT ![b] = "reading"]
      /\ UNCHANGED <<evict, casts>>
      /\ seen' = [seen EXCEPT ![b] = [d \in Clients |->
                     IF d # b /\ Session[d] = Session[b] THEN casts[d] ELSE 0]]
  BY DEF AddClient, Goto, FreshInv
<1>2. State(b) = "out" /\ State(b)' = "in"
  BY <1>1 DEF State, TypeOK
<1>3. \A o \in Clients \ {b} : State(o)' = State(o)
  BY <1>1 DEF State, TypeOK
<1>4. [o \in Clients |-> State(o)'] = [[o \in Clients |-> State(o)] EXCEPT ![b] = "in"]
  BY <1>2, <1>3
<1>5. [d \in Clients |-> IF d # b /\ Session[d] = Session[b] THEN casts[d] ELSE 0]
        = [d \in Clients |-> IF d \in G!Peers(b) THEN casts[d] ELSE 0]
  BY DEF G!Peers
<1>6. G!Join(b)
  BY <1>1, <1>2, <1>4, <1>5 DEF G!Join
<1> QED
  BY <1>6 DEF GroupStep, G!Next

LEMMA GroupSay ==
    ASSUME TypeOK, NEW b \in Clients, ReadMessage(b)
    PROVE  GroupStep
<1>1. /\ pc[b] = "reading" /\ pc' = [pc EXCEPT ![b] = "casting"]
      /\ casts' = [casts EXCEPT ![b] = casts[b] + 1]
      /\ UNCHANGED <<member, evict, seen>>
  BY DEF ReadMessage, Goto
<1>2. \A o \in Clients : State(o)' = State(o)
  BY <1>1 DEF State, TypeOK
<1>3. State(b) # "out"
  BY <1>1 DEF State
<1>4. G!Say(b)
  BY <1>1, <1>2, <1>3 DEF G!Say
<1> QED
  BY <1>4 DEF GroupStep, G!Next

(* What the writer of b takes next is the next message of its sender, or a later *)
(* one if b is cut off; or a pong, which Group has no word for.                  *)
LEMMA GroupHear ==
    ASSUME TypeOK, RoomInv, SessionIsolation, LossInv, NEW b \in Clients, TakeMessage(b)
    PROVE  GroupStep
<1>1. /\ send[b] # <<>> /\ send' = [send EXCEPT ![b] = Tail(send[b])]
      /\ seen' = [seen EXCEPT ![b] = [seen[b] EXCEPT ![Head(send[b]).from] = Head(send[b]).seq]]
      /\ UNCHANGED <<pc, member, evict, casts>>
  BY DEF TakeMessage
<1>2. \A o \in Clients : State(o)' = State(o)
  BY <1>1 DEF State
<1>3. /\ Head(send[b]) = send[b][1] /\ Head(send[b]) \in Messages
      /\ \A d \in Clients : Head(send[b]).from = d <=> 1 \in Queued(b, d)
  <2>1. send'[b] = Tail(send[b])
    BY <1>1 DEF TypeOK
  <2> QED
    BY <1>1, <2>1, Received
<1>4. PICK m \in Messages : m = send[b][1]
  BY <1>3
<1>5. /\ m.from \in Clients /\ m.seq \in Nat /\ 1 \in Queued(b, m.from)
      /\ seen' = [seen EXCEPT ![b] = [seen[b] EXCEPT ![m.from] = m.seq]]
  BY <1>1, <1>3, <1>4 DEF Messages
<1>6. Session[m.from] = Session[b] /\ (m.from = b <=> m.seq = 0)
  BY <1>4, <1>5 DEF SessionIsolation, Queued
<1>7. CASE m.from = b
  <2>1. seen[b][b] = 0
    BY DEF SessionIsolation
  <2>2. seen' = seen
    BY <1>5, <1>6, <1>7, <2>1 DEF TypeOK
  <2> QED
    BY <1>1, <1>2, <2>2, StateSame
<1>8. CASE m.from # b
  <2>1. PICK d \in Clients \ {b} : d = m.from
    BY <1>5, <1>8
  <2>2. PICK n \in Nat : n = m.seq
    BY <1>5
  <2>3. LossOf(b, d) /\ 1 \in Queued(b, d) /\ send[b][1].seq = n
    BY <1>4, <1>5, <2>1, <2>2 DEF LossInv
  <2>4. /\ seen[b][d] \in Nat /\ Offered(b, d) \in Nat /\ casts[d] \in Nat
        /\ Offered(b, d) <= casts[d]
    BY OfferedType
  <2>5. seen[b][d] < n /\ n <= Offered(b, d) /\ room[d] = room[b]
    BY <2>3, <2>4 DEF LossOf, InOrder
  <2>6. State(b) = "in" => n = seen[b][d] + 1
    <3>1. SUFFICES ASSUME b \in member \ evict PROVE n = seen[b][d] + 1
      BY DEF State
    <3>2. NoGap(b, d) /\ InOrder(b, d)
      BY <2>3, <2>5, <3>1 DEF LossOf
    <3>3. seen[b][d] + 1 \in seen[b][d] + 1 .. Offered(b, d)
      BY <2>4, <2>5
    <3>4. PICK i \in Queued(b, d) : send[b][i].seq = seen[b][d] + 1
      BY <3>2, <3>3 DEF NoGap
    <3>5. i \in Nat \ {0}
      BY QueuedType
    <3>6. i # 1 => n < seen[b][d] + 1
      BY <2>3, <3>2, <3>4, <3>5 DEF InOrder
    <3> QED
      BY <2>3, <2>4, <2>5, <3>4, <3>6
  <2>7. State(b) # "out"
    <3>1. pc[b] \notin {"idle", "joining"}
      BY <1>1, <2>3 DEF LossOf
    <3> QED
      BY <3>1 DEF State
  <2>8. State(b) \in {"in", "cut"}
    BY <2>7 DEF State
  <2>9. n \in seen[b][d] + 1 .. casts[d]
    BY <2>4, <2>5
  <2>10. seen' = [seen EXCEPT ![b][d] = n]
    BY <1>5, <2>1, <2>2 DEF TypeOK
  <2>11. d \in G!Peers(b)
    BY <1>6, <2>1 DEF G!Peers
  <2>12. [o \in Clients |-> State(o)][b] = State(b)
    OBVIOUS
  <2>13. G!Hear(b, d)
    BY <1>1, <1>2, <2>6, <2>8, <2>9, <2>10, <2>11, <2>12 DEF G!Hear
  <2> QED
    BY <2>13 DEF GroupStep, G!Next
<1> QED
  BY <1>7, <1>8

(* A connection is refused, is to be evicted, leaves, or goes with the process: it *)
(* is cut off.                                                                  *)
LEMMA GroupCut ==
    ASSUME TypeOK, ChannelInv, FreshInv, NEW b \in Clients,
           Refuse(b) \/ LeaveRoom(b) \/ Evict(b) \/ \E e \in Clients : Offer(b, e)
    PROVE  GroupStep
<1>1. CASE Refuse(b) \/ LeaveRoom(b)
  <2>1. /\ \E l \in {"ended", "removed"} : pc' = [pc EXCEPT ![b] = l]
        /\ b \notin member' /\ \A o \in Clients \ {b} : o \in member' <=> o \in member
        /\ UNCHANGED <<evict, casts, seen>>
    BY <1>1 DEF Refuse, LeaveRoom, RemoveClient, Goto, ChannelInv
  <2>2. \A o \in Clients : State(o)' = IF o \in {b} THEN "cut" ELSE State(o)
    BY <2>1 DEF State, TypeOK
  <2> QED
    BY <2>1, <2>2, StateCut
<1>2. CASE Evict(b)
  <2>1. /\ pc[b] \notin {"idle", "joining"} /\ member' = member \ {b}
        /\ evict' = evict \ {b} /\ UNCHANGED <<pc, casts, seen>>
    BY <1>2 DEF Evict, RemoveClient, FreshInv
  <2>2. \A o \in Clients : State(o)' = IF o \in {b} THEN "cut" ELSE State(o)
    BY <2>1 DEF State, TypeOK
  <2> QED
    BY <2>1, <2>2, StateCut
<1>3. ASSUME NEW e \in Clients, Offer(b, e) PROVE GroupStep
  <2>1. /\ pc[e] \notin {"idle", "joining"} /\ evict' \in {evict, evict \cup {e}}
        /\ UNCHANGED <<pc, member, casts, seen>>
    BY <1>3 DEF Offer, GoRemoveClient, ChannelInv
  <2>2. CASE evict' = evict
    BY <2>1, <2>2, StateSame DEF State
  <2>3. CASE evict' = evict \cup {e}
    <3>1. \A o \in Clients : State(o)' = IF o \in {e} THEN "cut" ELSE State(o)
      BY <2>1, <2>3 DEF State
    <3> QED
      BY <2>1, <3>1, StateCut
  <2> QED
    BY <2>1, <2>2, <2>3
<1> QED
  BY <1>1, <1>2, <1>3

(* Group does not see the rest. *)
LEMMA GroupStutter ==
    ASSUME TypeOK, NEW b \in Clients,
           \/ GetOrCreateRoom(b) \/ EndBroadcast(b) \/ ReadPing(b) \/ ReadError(b)
           \/ ClientCount(b) \/ RemoveRoom(b)
           \/ WriteDone(b) \/ WriteError(b) \/ EndOfQueue(b) \/ HangUp(b)
    PROVE  GroupStep
<1>1. UNCHANGED <<member, evict, casts, seen>>
  BY DEF GetOrCreateRoom, EndBroadcast, ReadPing, ReadError, ClientCount, RemoveRoom,
     WriteDone, WriteError, EndOfQueue, HangUp
<1>2. \A o \in Clients : pc'[o] \in {"idle", "joining"} <=> pc[o] \in {"idle", "joining"}
  BY DEF GetOrCreateRoom, EndBroadcast, ReadPing, ReadError, ClientCount, RemoveRoom,
     WriteDone, WriteError, EndOfQueue, HangUp, Goto, TypeOK
<1>3. \A o \in Clients : State(o)' = State(o)
  BY <1>1, <1>2 DEF State
<1> QED
  BY <1>1, <1>3, StateSame

(* For any number of clients, sessions and messages and any queue: what the      *)
(* clients of a session get of each other is what Group promises.                *)
THEOREM HubKeepsGroup == Spec => KeepsGroup
<1>1. Init => G!Init
  BY DEF Init, G!Init, State
<1>2. ASSUME TypeOK, ChannelInv, RoomInv, SessionIsolation, LossInv, FreshInv, [Next]_vars
      PROVE  GroupStep
  <2>1. CASE Restart
    <3>1. /\ \A o \in Clients : pc'[o] = IF pc[o] # "idle" THEN "ended" ELSE "idle"
          /\ member' = {} /\ UNCHANGED <<casts, seen>>
      BY <2>1 DEF Restart
    <3>2. PICK C \in SUBSET Clients : C = {o \in Clients : pc[o] # "idle"}
      OBVIOUS
    <3>3. \A o \in Clients : State(o)' = IF o \in C THEN "cut" ELSE State(o)
      BY <3>1, <3>2 DEF State
    <3> QED
      BY <3>1, <3>3, StateCut
  <2>2. CASE UNCHANGED vars
    BY <2>2, StateSame DEF vars, State
  <2>3. ASSUME NEW b \in Clients,
               Handler(b) \/ ReadPump(b) \/ WritePump(b) \/ Evict(b) \/ HangUp(b)
        PROVE  GroupStep
    BY <1>2, <2>3, GroupJoin, GroupSay, GroupHear, GroupCut, GroupStutter
    DEF Handler, ReadPump, WritePump
  <2> QED
    BY <1>2, <2>1, <2>2, <2>3 DEF Next
<1> QED
  BY <1>1, <1>2, TypeCorrect, ChannelCorrect, RoomCorrect, Isolation, LossCorrect,
     FreshCorrect, PTL DEF Spec, KeepsGroup, G!Spec, GroupStep

===============================================================================
