------------------------------- MODULE SignalHub -------------------------------
(* The signaling hub of the server, server/internal/signal/hub.go.  Each        *)
(* WebSocket connection is one Client object driven by three goroutines: the    *)
(* HTTP handler, which becomes readPump, and writePump; every full queue adds a *)
(* fourth one, `go r.RemoveClient(c)'.  A step below is what one goroutine does *)
(* between two points where another one can run.                                *)
EXTENDS Naturals, Sequences, FiniteSets

CONSTANTS Clients,    (* the connections; a connection is made at most once     *)
          Session,    (* Session[c]: the session id in the URL of c             *)
          None,       (* no room                                                *)
          SendCap,    (* capacity of Client.Send (256 in the code)              *)
          MaxCasts,   (* bound: MaxCasts[c] is how many messages c has relayed   *)
          MaxPings    (* bound: MaxPings[c] is how many pings c sends            *)

ASSUME HubAssumption ==
    /\ None \notin Clients
    /\ Session \in [Clients -> {Session[c] : c \in Clients}]
    /\ SendCap \in Nat \ {0}
    /\ MaxCasts \in [Clients -> Nat]
    /\ MaxPings \in [Clients -> Nat]

Sessions == {Session[c] : c \in Clients}

(* A *Room is an identity: it is named by the connection that allocated it, so  *)
(* two rooms made for one session id differ.                                    *)
Rooms == Clients

(* A message is its sender and its position in what the sender has relayed.     *)
Messages == [from : Clients, seq : Nat]

VARIABLES
    rooms,      (* Hub.rooms: the room registered for a session id             *)
    pc,         (* where the handler, then readPump, of a connection is        *)
    room,       (* the *Room its goroutines hold                               *)
    member,     (* the clients that are in the clients map of their room       *)
    chan,       (* Send: not made, open or closed; Conn is closed with it      *)
    send,       (* what is queued in Send                                      *)
    writer,     (* where writePump is                                          *)
    todo,       (* the clients a Broadcast in progress has yet to visit        *)
    evict,      (* the clients with a `go r.RemoveClient(c)' not yet run       *)
    gone,       (* the connections whose peer has hung up                      *)
    casts,      (* number of messages of a client relayed so far               *)
    pings,      (* number of pings of a client handled so far                  *)
    down,       (* "no", or the reason the server process died                 *)
    seen,       (* history: seen[c][d] is the last message of d that c's       *)
                (* writePump has taken, or that d relayed before c was in      *)
    raced       (* history: sessions where a join and a leave have overlapped  *)

vars == <<rooms, pc, room, member, chan, send, writer, todo, evict, gone,
          casts, pings, down, seen, raced>>

PC == {"idle", "joining", "reading", "casting", "closing", "removed", "empty",
       "ended"}

TypeOK ==
    /\ rooms \in [Sessions -> Rooms \cup {None}]
    /\ pc \in [Clients -> PC]
    /\ room \in [Clients -> Rooms \cup {None}]
    /\ member \in SUBSET Clients
    /\ chan \in [Clients -> {"none", "open", "closed"}]
    /\ send \in [Clients -> Seq(Messages)]
    /\ writer \in [Clients -> {"off", "waiting", "writing", "done"}]
    /\ todo \in [Clients -> SUBSET Clients]
    /\ evict \in SUBSET Clients
    /\ gone \in SUBSET Clients
    /\ casts \in [Clients -> Nat]
    /\ pings \in [Clients -> Nat]
    /\ down \in {"no", "pong", "send", "close"}
    /\ seen \in [Clients -> [Clients -> Nat]]
    /\ raced \in SUBSET Sessions

Init ==
    /\ rooms = [s \in Sessions |-> None]
    /\ pc = [c \in Clients |-> "idle"]
    /\ room = [c \in Clients |-> None]
    /\ member = {}
    /\ chan = [c \in Clients |-> "none"]
    /\ send = [c \in Clients |-> <<>>]
    /\ writer = [c \in Clients |-> "off"]
    /\ todo = [c \in Clients |-> {}]
    /\ evict = {}
    /\ gone = {}
    /\ casts = [c \in Clients |-> 0]
    /\ pings = [c \in Clients |-> 0]
    /\ down = "no"
    /\ seen = [c \in Clients |-> [d \in Clients |-> 0]]
    /\ raced = {}

-------------------------------------------------------------------------------

Up == down = "no"

(* The clients map of a room. *)
In(r) == {c \in member : room[c] = r}

(* r.mu is read-locked for the whole of a Broadcast, so that no AddClient or    *)
(* RemoveClient of the room runs before it returns.  The other critical         *)
(* sections are single steps.                                                   *)
Unlocked(r) == \A c \in Clients : ~(pc[c] = "casting" /\ room[c] = r)

Goto(c, l) == pc' = [pc EXCEPT ![c] = l]

(* The definitions named X_... are faulty variants of X, each with a mistake    *)
(* that a change of the code could bring in; the specification uses none.       *)
(* The pong of a client is number 0, which no relayed message has. *)
Pong(c) == [from |-> c, seq |-> 0]

(* A join has looked its room up and not yet entered it; a leave is out of the  *)
(* clients map, by its own RemoveClient or because it was evicted, and has not  *)
(* yet decided on the room.                                                     *)
Joining(s) == \E d \in Clients : Session[d] = s /\ pc[d] = "joining"
Out(d) == d \notin member /\ pc[d] \in {"reading", "casting", "closing",
                                       "removed", "empty"}
Leaving(s) == \E d \in Clients : Session[d] = s /\ Out(d)

-------------------------------------------------------------------------------
(* HandleWebSocket *)

(* A missing session, a key that validateSignalingKey refuses or an upgrade     *)
(* that fails.  The session row can change at any moment, so either outcome of  *)
(* the validation is possible whenever it is asked.                             *)
Refuse(c) ==
    /\ Up
    /\ pc[c] = "idle"
    /\ Goto(c, "ended")
    /\ UNCHANGED <<rooms, room, member, chan, send, writer, todo, evict, gone,
                   casts, pings, down, seen, raced>>

(* The room registered for a session, or a new one for the client c. *)
RoomOf_AnySession(s, c) ==
    IF \A t \in Sessions : rooms[t] = None
    THEN c
    ELSE CHOOSE r \in Rooms : \E t \in Sessions : r = rooms[t]
RoomOf(s, c) == IF rooms[s] = None THEN c ELSE rooms[s]

(* The key is accepted, the Client allocated, and the room looked up under h.mu *)
(* or made.                                                                     *)
GetOrCreateRoom(c) ==
    LET s == Session[c]
        r == RoomOf(s, c)
    IN  /\ Up
        /\ pc[c] = "idle"
        /\ Goto(c, "joining")
        /\ rooms' = [rooms EXCEPT ![s] = r]
        /\ room' = [room EXCEPT ![c] = r]
        /\ chan' = [chan EXCEPT ![c] = "open"]
        /\ raced' = IF Leaving(s) THEN raced \cup {s} ELSE raced
        /\ UNCHANGED <<member, send, writer, todo, evict, gone, casts, pings,
                       down, seen>>

(* room.AddClient under r.mu, then the two pumps are started. *)
AddClient(c) ==
    /\ Up
    /\ pc[c] = "joining"
    /\ Unlocked(room[c])
    /\ member' = member \cup {c}
    /\ Goto(c, "reading")
    /\ writer' = [writer EXCEPT ![c] = "waiting"]
    /\ seen' = [seen EXCEPT ![c] = [d \in Clients |->
                   IF d # c /\ Session[d] = Session[c] THEN casts[d] ELSE 0]]
    /\ UNCHANGED <<rooms, room, chan, send, todo, evict, gone, casts, pings,
                   down, raced>>

-------------------------------------------------------------------------------
(* readPump *)

(* Frames the peer sent before the connection was closed can still be read from *)
(* its buffer, so a read may return a message whatever the state of the         *)
(* connection.  A frame that is not JSON is skipped and changes nothing.        *)

(* A relayed message: Broadcast takes the read lock and will visit the others.  *)
ReadMessage(c) ==
    /\ Up
    /\ pc[c] = "reading"
    /\ casts[c] < MaxCasts[c]
    /\ casts' = [casts EXCEPT ![c] = @ + 1]
    /\ todo' = [todo EXCEPT ![c] = In(room[c]) \ {c}]
    /\ Goto(c, "casting")
    /\ UNCHANGED <<rooms, room, member, chan, send, writer, evict, gone, pings,
                   down, seen, raced>>

GoRemoveClient_Omitted(d) == UNCHANGED evict
GoRemoveClient(d) == evict' = evict \cup {d}

(* One iteration of the loop of Broadcast, in the order of Go's map iteration,  *)
(* which is any order.  A send on a closed channel panics.                      *)
Offer(c, d) ==
    /\ Up
    /\ pc[c] = "casting"
    /\ d \in todo[c]
    /\ todo' = [todo EXCEPT ![c] = @ \ {d}]
    /\ \/ /\ chan[d] = "closed"
          /\ down' = "send"
          /\ UNCHANGED <<send, evict>>
       \/ /\ chan[d] # "closed"
          /\ Len(send[d]) < SendCap
          /\ send' = [send EXCEPT ![d] = Append(@, [from |-> c, seq |-> casts[c]])]
          /\ UNCHANGED <<evict, down>>
       \/ /\ chan[d] # "closed"
          /\ Len(send[d]) >= SendCap
          /\ GoRemoveClient(d)
          /\ UNCHANGED <<send, down>>
    /\ UNCHANGED <<rooms, pc, room, member, chan, writer, gone, casts, pings,
                   seen, raced>>

EndBroadcast(c) ==
    /\ Up
    /\ pc[c] = "casting"
    /\ todo[c] = {}
    /\ Goto(c, "reading")
    /\ UNCHANGED <<rooms, room, member, chan, send, writer, todo, evict, gone,
                   casts, pings, down, seen, raced>>

(* A ping is answered on the client's own queue, outside every lock, and the    *)
(* answer is dropped when the queue is full.  If the client has been evicted    *)
(* its channel is closed, and the send panics in a goroutine that nothing       *)
(* recovers: the process dies.                                                  *)
ReadPing(c) ==
    /\ Up
    /\ pc[c] = "reading"
    /\ pings[c] < MaxPings[c]
    /\ pings' = [pings EXCEPT ![c] = @ + 1]
    /\ \/ /\ chan[c] = "closed"
          /\ down' = "pong"
          /\ UNCHANGED send
       \/ /\ chan[c] # "closed"
          /\ Len(send[c]) < SendCap
          /\ send' = [send EXCEPT ![c] = Append(@, Pong(c))]
          /\ UNCHANGED down
       \/ /\ chan[c] # "closed"
          /\ Len(send[c]) >= SendCap
          /\ UNCHANGED <<send, down>>
    /\ UNCHANGED <<rooms, pc, room, member, chan, writer, todo, evict, gone,
                   casts, seen, raced>>

(* The read fails: the peer hung up or RemoveClient closed the connection.      *)
ReadFails_NotWhenGone(c) == chan[c] = "closed"
ReadFails_NotWhenClosed(c) == c \in gone
ReadFails(c) == c \in gone \/ chan[c] = "closed"

ReadError(c) ==
    /\ Up
    /\ pc[c] = "reading"
    /\ ReadFails(c)
    /\ Goto(c, "closing")
    /\ UNCHANGED <<rooms, room, member, chan, send, writer, todo, evict, gone,
                   casts, pings, down, seen, raced>>

(* RemoveClient: delete, close Send and close Conn under r.mu, if c is still in *)
(* the map.  Closing a closed channel panics.                                   *)
RemoveClient_NoLookup(c) ==
    /\ Unlocked(room[c])
    /\ member' = member \ {c}
    /\ chan' = [chan EXCEPT ![c] = "closed"]
    /\ down' = IF chan[c] = "closed" THEN "close" ELSE down

RemoveClient(c) ==
    /\ Unlocked(room[c])
    /\ member' = member \ {c}
    /\ chan' = IF c \in member THEN [chan EXCEPT ![c] = "closed"] ELSE chan
    /\ down' = IF c \in member /\ chan[c] = "closed" THEN "close" ELSE down

(* The deferred calls of readPump: RemoveClient, ClientCount, RemoveRoom.       *)
LeaveRoom(c) ==
    /\ Up
    /\ pc[c] = "closing"
    /\ RemoveClient(c)
    /\ Goto(c, "removed")
    /\ raced' = IF Joining(Session[c]) THEN raced \cup {Session[c]} ELSE raced
    /\ UNCHANGED <<rooms, room, send, writer, todo, evict, gone, casts, pings, seen>>

IsEmpty_CountsItself(r) == Cardinality(In(r)) = 1
IsEmpty(r) == In(r) = {}

ClientCount(c) ==
    /\ Up
    /\ pc[c] = "removed"
    /\ Goto(c, IF IsEmpty(room[c]) THEN "empty" ELSE "ended")
    /\ UNCHANGED <<rooms, room, member, chan, send, writer, todo, evict, gone,
                   casts, pings, down, seen, raced>>

(* RemoveRoom deletes by session id, whichever room is registered there now.    *)
RemoveRoom(c) ==
    /\ Up
    /\ pc[c] = "empty"
    /\ rooms' = [rooms EXCEPT ![Session[c]] = None]
    /\ Goto(c, "ended")
    /\ UNCHANGED <<room, member, chan, send, writer, todo, evict, gone, casts,
                   pings, down, seen, raced>>

(* The goroutine that Broadcast starts for a client whose queue is full.  Two   *)
(* of them for one client are one here: the second finds nothing to remove.     *)
Evict(c) ==
    /\ Up
    /\ c \in evict
    /\ RemoveClient(c)
    /\ evict' = evict \ {c}
    /\ raced' = IF c \in member /\ Joining(Session[c])
                THEN raced \cup {Session[c]} ELSE raced
    /\ UNCHANGED <<rooms, pc, room, send, writer, todo, gone, casts, pings, seen>>

-------------------------------------------------------------------------------
(* writePump *)

(* A closed channel still yields what is queued in it. *)
TakeMessage(c) ==
    /\ Up
    /\ writer[c] = "waiting"
    /\ send[c] # <<>>
    /\ seen' = [seen EXCEPT ![c][Head(send[c]).from] = Head(send[c]).seq]
    /\ send' = [send EXCEPT ![c] = Tail(@)]
    /\ writer' = [writer EXCEPT ![c] = "writing"]
    /\ UNCHANGED <<rooms, pc, room, member, chan, todo, evict, gone, casts,
                   pings, down, raced>>

(* WriteMessage has no deadline: it returns when the peer takes the bytes ...   *)
WriteDone(c) ==
    /\ Up
    /\ writer[c] = "writing"
    /\ chan[c] = "open"
    /\ writer' = [writer EXCEPT ![c] = "waiting"]
    /\ UNCHANGED <<rooms, pc, room, member, chan, send, todo, evict, gone, casts,
                   pings, down, seen, raced>>

(* ... or the connection breaks.  writePump then returns and leaves the client  *)
(* in its room.                                                                 *)
WriteError(c) ==
    /\ Up
    /\ writer[c] = "writing"
    /\ c \in gone \/ chan[c] = "closed"
    /\ writer' = [writer EXCEPT ![c] = "done"]
    /\ UNCHANGED <<rooms, pc, room, member, chan, send, todo, evict, gone, casts,
                   pings, down, seen, raced>>

EndOfQueue(c) ==
    /\ Up
    /\ writer[c] = "waiting"
    /\ send[c] = <<>>
    /\ chan[c] = "closed"
    /\ writer' = [writer EXCEPT ![c] = "done"]
    /\ UNCHANGED <<rooms, pc, room, member, chan, send, todo, evict, gone, casts,
                   pings, down, seen, raced>>

-------------------------------------------------------------------------------
(* The environment *)

HangUp(c) ==
    /\ pc[c] # "idle"
    /\ pc[c] # "ended"
    /\ c \notin gone
    /\ gone' = gone \cup {c}
    /\ UNCHANGED <<rooms, pc, room, member, chan, send, writer, todo, evict,
                   casts, pings, down, seen, raced>>

(* After a panic docker starts a new process with an empty hub; every           *)
(* connection of the old one is lost.                                           *)
Restart ==
    LET lost == {c \in Clients : pc[c] # "idle"}
    IN  /\ ~Up
        /\ down' = "no"
        /\ rooms' = [s \in Sessions |-> None]
        /\ pc' = [c \in Clients |-> IF c \in lost THEN "ended" ELSE pc[c]]
        /\ chan' = [c \in Clients |-> IF c \in lost THEN "closed" ELSE chan[c]]
        /\ writer' = [c \in Clients |-> IF c \in lost THEN "done" ELSE writer[c]]
        /\ send' = [c \in Clients |-> <<>>]
        /\ todo' = [c \in Clients |-> {}]
        /\ member' = {}
        /\ evict' = {}
        /\ UNCHANGED <<room, gone, casts, pings, seen, raced>>

Handler(c) == Refuse(c) \/ GetOrCreateRoom(c) \/ AddClient(c)

ReadPump(c) ==
    \/ ReadMessage(c)
    \/ \E d \in Clients : Offer(c, d)
    \/ EndBroadcast(c)
    \/ ReadPing(c)
    \/ ReadError(c)
    \/ LeaveRoom(c)
    \/ ClientCount(c)
    \/ RemoveRoom(c)

WritePump(c) == TakeMessage(c) \/ WriteDone(c) \/ WriteError(c) \/ EndOfQueue(c)

Next ==
    \/ \E c \in Clients :
          Handler(c) \/ ReadPump(c) \/ WritePump(c) \/ Evict(c) \/ HangUp(c)
    \/ Restart

Spec == Init /\ [][Next]_vars

(* The Go scheduler runs every goroutine that can run, a read or a write on a   *)
(* broken connection fails, and docker restarts the process.  Nothing makes a   *)
(* peer connect, send, read or hang up.                                         *)
Fairness ==
    /\ \A c \in Clients :
          /\ WF_vars(AddClient(c))
          /\ WF_vars(\E d \in Clients : Offer(c, d))
          /\ WF_vars(EndBroadcast(c))
          /\ WF_vars(ReadError(c))
          /\ WF_vars(LeaveRoom(c))
          /\ WF_vars(ClientCount(c) \/ RemoveRoom(c))
          /\ WF_vars(Evict(c))
          /\ WF_vars(TakeMessage(c) \/ WriteError(c) \/ EndOfQueue(c))
    /\ WF_vars(Restart)

FairSpec == Spec /\ Fairness

-------------------------------------------------------------------------------
(* Properties *)

(* Broadcast and RemoveClient run on several goroutines for one client, and a   *)
(* send or a second close on a closed channel would kill the whole server.  The *)
(* map lookup of RemoveClient and the read lock of Broadcast exclude both; the  *)
(* only panic left is the pong of a client that was evicted under its reader.   *)
OnlyPongPanics == down \in {"no", "pong"}

(* What a client is sent comes from its own session and never from itself, but  *)
(* for its pongs: rooms are looked up, emptied and re-created concurrently and  *)
(* yet two sessions never share one.                                            *)
SessionIsolation ==
    \A c \in Clients :
        /\ \A i \in 1 .. Len(send[c]) :
              /\ Session[send[c][i].from] = Session[c]
              /\ (send[c][i].from = c) = (send[c][i].seq = 0)
        /\ \A d \in Clients :
              seen[c][d] # 0 => Session[d] = Session[c] /\ d # c

(* The messages of d that are in the queue of c. *)
Queued(c, d) == {i \in 1 .. Len(send[c]) : send[c][i].from = d}

(* The last message of d that a Broadcast has offered to c. *)
Offered(c, d) == IF pc[d] = "casting" /\ c \in todo[d] THEN casts[d] - 1 ELSE casts[d]

(* What comes to c from d is in the order sent and without duplicates. *)
InOrder(c, d) ==
    \A j \in Queued(c, d) :
        /\ seen[c][d] < send[c][j].seq
        /\ \A i \in Queued(c, d) : i < j => send[c][i].seq < send[c][j].seq

(* All that was offered to c and that it has not taken is in its queue. *)
NoGap(c, d) ==
    \A n \in seen[c][d] + 1 .. Offered(c, d) :
        \E i \in Queued(c, d) : send[c][i].seq = n

(* Per sender, what a client gets is in order and without duplicates; and a     *)
(* client that nobody is about to evict has missed nothing of what the others of *)
(* its room relayed since it joined: an offer or candidate that found the queue *)
(* full costs the client its connection, and is never silently skipped.         *)
NoSilentLoss ==
    \A c \in Clients : \A d \in Clients \ {c} :
        /\ InOrder(c, d)
        /\ c \in member \ evict /\ room[d] = room[c] => NoGap(c, d)

(* The hub implements Group: a client is in while it is in the clients map and  *)
(* nobody is about to evict it, and what it has got is what its writePump took. *)
State(c) ==
    IF pc[c] \in {"idle", "joining"} THEN "out"
    ELSE IF c \in member \ evict THEN "in" ELSE "cut"

G == INSTANCE Group WITH state <- [c \in Clients |-> State(c)], said <- casts, got <- seen

(* So whatever the handlers, the pumps and the evictions do, the offers, answers *)
(* and candidates of a session go to the other side, in order, none missing as  *)
(* long as it is connected, and to no other session.                            *)
KeepsGroup == G!Spec

(* Once nobody of a session is connected or connecting, its room is no longer   *)
(* registered, whatever the order in which the last ones left, were evicted or  *)
(* joined: the hub does not grow with the sessions it has served.               *)
NoRoomLeak ==
    \A s \in Sessions :
        (\A c \in Clients : Session[c] = s => pc[c] \in {"idle", "ended"})
            => rooms[s] = None \/ ~Up

(* As long as no join of a session has overlapped the end of a leave, all who   *)
(* are in the session are in the registered room, so that the viewer and the    *)
(* host meet.  GetOrCreateRoom / AddClient and RemoveClient / ClientCount /     *)
(* RemoveRoom are separate critical sections, and RemoveRoom goes by the id:    *)
(* when they overlap, a client can end up in a room that is registered no more  *)
(* and its peer in another.  For a client that was evicted the leave lasts from *)
(* its eviction to the end of its readPump, which is as long as its peer has    *)
(* frames in the buffer of the connection.                                      *)
SplitNeedsRace ==
    \A c \in member : Session[c] \notin raced => room[c] = rooms[Session[c]]

(* A peer that hung up leaves the room and all its goroutines end.              *)
HungUpLeaves ==
    \A c \in Clients :
        c \in gone ~> /\ c \notin member
                      /\ pc[c] = "ended"
                      /\ writer[c] = "done"

(* A client that is dropped because its queue was full is disconnected, also    *)
(* when its writer is stuck in a write that the peer never takes.               *)
EvictedEnds ==
    \A c \in Clients : c \in evict ~> pc[c] = "ended" /\ writer[c] = "done"

-------------------------------------------------------------------------------
(* The inductive invariant behind OnlyPongPanics, SessionIsolation, NoRoomLeak  *)
(* and SplitNeedsRace.                                                          *)

(* The channel of a client is open from its allocation until it is taken out of *)
(* the map, and a Broadcast in progress has only members of its room ahead.     *)
ChannelInv ==
    /\ down \in {"no", "pong"}
    /\ \A c \in Clients :
          /\ pc[c] = "idle" => c \notin member
          /\ pc[c] = "joining" => c \notin member /\ chan[c] = "open"
          /\ c \in member => chan[c] = "open"
          /\ pc[c] = "casting" =>
                \A d \in todo[c] : d # c /\ d \in member /\ room[d] = room[c]

(* Rooms are only ever held for the session they were made for. *)
RoomInv ==
    /\ \A s \in Sessions : rooms[s] # None => Session[rooms[s]] = s
    /\ \A c \in Clients :
          /\ pc[c] \notin {"idle", "ended"} => room[c] # None
          /\ c \in member => room[c] # None
          /\ room[c] # None => Session[room[c]] = Session[c]
          /\ pc[c] = "casting" => casts[c] > 0

(* A registered room has someone who is still going to count its clients, and   *)
(* a member is always one of them.                                              *)
Holding == {"joining", "reading", "casting", "closing", "removed", "empty"}

LeakInv ==
    /\ \A c \in member : pc[c] \in {"reading", "casting", "closing"}
    /\ Up => \A s \in Sessions : rooms[s] # None =>
                 \E c \in Clients : room[c] = rooms[s] /\ pc[c] \in Holding

(* While no join has overlapped a leave: whoever holds a room holds the         *)
(* registered one, or is on the way out of one that has been forgotten; and     *)
(* when somebody is about to run RemoveRoom there is nobody to be orphaned.     *)
SplitInv ==
    \A s \in Sessions \ raced :
        /\ ~(Joining(s) /\ Leaving(s))
        /\ \A c \in Clients : Session[c] = s =>
              /\ pc[c] \in Holding =>
                    room[c] = rooms[s] \/ (rooms[s] = None /\ Out(c))
              /\ pc[c] = "empty" => \A d \in member : Session[d] # s

HubInv == ChannelInv /\ RoomInv /\ LeakInv /\ SplitInv

(* The inductive invariant behind NoSilentLoss and KeepsGroup: nothing comes    *)
(* from the future or from another room, and nothing to or from a client before *)
(* it is in its room, nor is it to be evicted.                                  *)
LossOf(c, d) ==
    /\ InOrder(c, d)
    /\ c \in member \ evict /\ room[d] = room[c] => NoGap(c, d)
    /\ seen[c][d] <= Offered(c, d)
    /\ \A i \in Queued(c, d) : send[c][i].seq <= Offered(c, d)
    /\ Queued(c, d) # {} => room[d] = room[c]
    /\ pc[c] \in {"idle", "joining"} => send[c] = <<>>
    /\ pc[d] \in {"idle", "joining"} => casts[d] = 0

FreshInv == \A c \in Clients : pc[c] \in {"idle", "joining"} => c \notin evict

LossInv == \A c \in Clients : \A d \in Clients \ {c} : LossOf(c, d)

===============================================================================
