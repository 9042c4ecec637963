# Formal model of LGreco Remote Desktop

TLA+ models of the concurrent core of the remote desktop system in `src/`, TLC configurations that
check them on small instances, and TLAPS proofs of what matters most for every instance.

## The system

A Go server (`src/server`) lets a browser or a Windows client control either a container with a
desktop in it or a real PC. Media flow over WebRTC between the two ends; the server only introduces
them to each other.

| part | state it keeps | operations | talks to |
|---|---|---|---|
| signalling hub (`signal/hub.go`) | a room per session id, the clients in it, a queue of 256 per client | join (with the session's key), broadcast, ping, eviction, leave | host and viewer of a session, by websocket |
| agent registry (`signal/agenthub.go`) | the current socket of each agent, a queue of 32 per socket | register, unregister, notify connect, ping | agent daemons, by websocket; agent requests |
| agent requests (`api/agents.go`) | `agents` and `sessions` rows | create, list, connect, presence, delete, the agent's socket | registry, database |
| session requests (`api/router.go`) | `sessions` rows | create, list, get, delete | orchestration, database |
| orchestration (`orchestration/docker.go`) | the container and the row of a session, the images | create desktop or relay, stop, ensure image | the Docker command, database |
| accounts (`auth/auth.go`, `api/router.go`) | `users` rows, tokens | register, log in, change password, default admin | database |
| noVNC proxy (`api/viewer.go`) | two websockets per viewer | copy in both directions | the container |
| control panel, browser viewer (`webui/static`) | the page, one peer connection | log in, create, connect, view | the API and the hub |
| agent daemon and host (`src/agent`) | its control socket, one peer connection per session | presence, reconnect, offer, input | the registry and the hub |
| client bridge (`src/client-bridge`) | one peer connection, a pipe to the client, sample and frame buffers | connect, forward input, play | the hub, the Windows client |
| container pipelines (`src/desktop-container`, `src/relay-container`) | a GStreamer pipeline | offer, answer, reconnect | the hub |
| Windows client (`src/windows-client`) | the window's session and bridge process | log in, create, connect, disconnect | the API, the bridge |

The server is one process. What is hard in it is that nothing orders its goroutines but a few
mutexes and channels, that a panic in one of them ends the process with everybody's sessions, and that
the rows, the containers and the in-memory maps are written by separate steps that can be interleaved,
fail one by one, or be cut off by a restart. `PROJECT.json` lists these hazards at the lines where they
bite and the properties aimed at each.

What makes the parts correct:

- hub: a message reaches the other clients of its session, those only, and is not silently lost; rooms
  come and go with their clients; a leaving, evicted or broken connection ends; no panic.
- agent registry: the registry holds the socket that registered last; a connect request reaches its agent
  at most once, and not at all when its caller is told it failed; every socket and request ends.
- sessions: no container without a row that leads to it, no running row without its container, stopped
  sessions stay stopped, pending ones are resolved.
- accounts: the default admin is there, and passes the gate only after a change of password; no restart
  takes a changed password back.
- signalling: when host and viewer are both there, the offer meets its answer; no candidate between them
  is lost; one viewer does not take a session over from another.
- Windows client: one bridge at most, for the session shown, and none for a user who is gone; what the
  window says is so.
- agent daemon: whatever it lost or gave up, it comes back to a socket that the server serves, and its row
  says so.
- noVNC proxy: what one end gets is what the other sent, in order - or, when there is no desktop to connect to,
  the proxy's own message and nothing else (viewer.go:130) -, and when one end goes everything ends.
- client bridge: it sends the answer that the library makes to an offer, uses the candidates that follow, deals
  with what comes until its connection is lost, and ends when it is told to.

## The modules

| module | models | checked by | proved in |
|---|---|---|---|
| `SignalHub` | `signal/hub.go` | `MCSignalHub` | `SignalHub_proofs` |
| `Group` | abstract: what a hub promises to the connections of a session; `SignalHub` implements it | by way of `MCSignalHub` | `SignalHub_proofs` |
| `AgentHub` | `signal/agenthub.go`, the agent handlers of `api/agents.go`, the agent branch of `handleDeleteSession` | `MCAgentHub` | `AgentHub_proofs` |
| `ConnectPromise` | abstract: what a connect request promises; `AgentHub` implements it | by way of `MCAgentHub` | `AgentHub_proofs` |
| `AgentDaemon` | `agent/cmd/rd-agent/main.go`, composed with `AgentHub`, which it extends | `MCAgentDaemon` | `AgentHub_proofs` |
| `SessionLifecycle` | `handleCreateSession`, `handleDeleteSession`, `CreateDesktopContainer`, `CreateRelayContainer`, `StopContainer` | `MCSessionLifecycle` | `SessionLifecycle_proofs` |
| `SessionPromise` | abstract: how the row and the container of a session go on; `SessionLifecycle` implements it | by way of `MCSessionLifecycle` | `SessionLifecycle_proofs` |
| `Signaling` | `RunSession` of `agent/internal/host/session.go`, `start` of `viewer.js`, the pages that `app.js` loads for a session | `MCSignaling` | `Signaling_proofs` |
| `Handshake` | abstract: one offer, the first answer, a link to nobody else; `Signaling` implements it | by way of `MCSignaling` | `Signaling_proofs` |
| `WindowsClient` | `MainWindow.xaml.cs`, `Services/BridgeClient.cs`, the calls it awaits in `ApiClient.cs`, attaching and detaching in `InputForwarder.cs` | `MCWindowsClient` | `WindowsClient_proofs` |
| `Viewing` | abstract: one bridge at most, for the session chosen last; `WindowsClient` implements it | by way of `MCWindowsClient` | `WindowsClient_proofs` |
| `NoVNC` | `handleGetViewer`, `handleNoVNCProxy`, `proxyWebSocket`, `copyWebSocket` of `api/viewer.go` | `MCNoVNC` | `NoVNC_proofs` |
| `Relay` | abstract: what a proxy between two ends promises; `NoVNC` implements it | by way of `MCNoVNC` | `NoVNC_proofs` |
| `Bridge` | `cmd/bridge/main.go`, `internal/webrtc/peer.go` and `Serve` of `internal/pipe/pipe.go` of the client bridge | `MCBridge` | `Bridge_proofs` |
| `Accounts` | start-up in `cmd/server/main.go` and `db/db.go`; `auth/auth.go`; `handleRegister`, `handleLogin`, `handleChangePassword`, `requirePasswordRotation` of `api/router.go` | `MCAccounts` | `Accounts_proofs` |

`Signaling` takes from `SignalHub` what that one shows of a room: a member gets what the others send, in
the order of each sender, and misses nothing without losing its connection (`KeepsGroup`).
`AgentDaemon` extends `AgentHub`: each step of the composition is a step of the daemon, of the server, or
of both, and is a step of `AgentHub` for the server's variables. `NoVNC` takes the life of a container and
its row from `SessionLifecycle`. The modules share no variables otherwise: the parts of the system meet at
messages and rows, which each module takes as inputs, and the actions at those places are named after the
handler of the other side.

`PROJECT.json` maps every definition to the lines it stands for. Operators named `X_Something` that
precede a definition `X` are deliberate mistakes in it, the ones each property is known to catch; no
specification uses them.

### SignalHub

A connection is a client `c`; its handler, then its `readPump`, is the program counter `pc[c]`, its
`writePump` is `writer[c]`, its buffered channel `send[c]` with the state of the channel in `chan[c]`.
Each critical section of `Hub.mu` or `Room.mu` is one step, except `Broadcast`: it holds the room's read
lock while it visits the clients in whatever order Go's map iteration gives (`todo`), so the other
sections of that room wait for it (`Unlocked`) and everything that needs no lock - reads, writes, pings,
other rooms - interleaves with it. `go r.RemoveClient(c)` is a pending eviction in `evict` that runs at
any later time. `validateSignalingKey` reads a row that other requests change, so its outcome is a free
choice. A room is named by the connection that allocated it: two rooms made one after the other for one
session id are different rooms, as they are different pointers in the code. Closing a closed channel and
sending on one set `down`, after which only `Restart` can happen.

History variables: `seen`, the last message of each sender that a client's writer has taken - or, before it
takes one, the last that was sent when the client came in; `raced`, the sessions in which a join and a leave
have overlapped.

`Group` is the hub without rooms, locks and queues. A connection is out, in, or cut off; while it is in, what
it hears is what the others of its session say from then on, each speaker's messages in order, once and
without a gap; when it misses one it is cut off for good. It is in from `AddClient` until it is taken out of the
room or is about to be evicted (`State`); what is said is `casts`, what is heard `seen`. Two members of a
session that is split over two rooms hear nothing of each other, which `Group` does not forbid:
`SplitNeedsRace` says when it can happen.

### AgentHub

A socket `k` belongs to agent `AgentOf[k]`; `pc[k]` is its handler, `reader[k]` the goroutine that reads,
`send`/`chan` its channel and `conn` whether `Close` was called on it. A connect request `q` goes through
`Lookup`, `InsertSession`, `NotifyConnect` (which reads the socket under the lock and keeps it in `held`
after unlocking), then `SendConnect` or `NotifyTimeout`, then `MarkBusy` or `MarkFailed`. A send on the
channel of a replaced socket panics; chi's Recoverer catches that one, the request ends as `panicked`
and its row stays running, which no property forbids. `status[a]` is the row of the agent, written by every
handler that writes it, without any order among them but that of the code. Each of these UPDATEs may fail, and
its error is dropped by the code (`Update`, `MarkOffline`). A deleted agent's row stays deleted; its socket
lives. `stuck` is a history variable: the agents whose row says busy because the busy came after the last socket
had gone offline, because the last handler could not write its offline, or because the server died.

`ConnectPromise` says what is left of a request when the sockets are left out: its message is unsent, on its
way, heard or lost, its answer is none, a success, a failure or an error. The refinement maps `fate[q]` from
the places where the message of `q` can be (a channel, the log of what an agent has heard, nowhere any more)
and `answer[q]` from the request's state. It is what the caller of `/connect` may rely on: a failure is
final, so that it can be tried again; a success says that the message was handed over and no more than that.

### AgentDaemon

`loop[a]` is where `main` and `runAgentLoop` are, `cur[a]` the socket it has dialed last, `link[k]` what the
daemon knows of a socket. It announces itself, dials, and reads until the socket breaks, every 20 seconds
announces itself and pings; three seconds after a loss it does it all again. The first announcement must succeed
(`log.Fatalf`), later ones need not. The server answers the upgrade before it registers the socket, and a dial
that the daemon has given up can reach the server any time later: such a socket (`Abandoned`) registers, takes
the place of the one in use, and closes it. The UPDATE of an announcement may fail unseen. `Flaky` bounds the
sockets on which the network or the database may fail while the daemon uses them; what follows from it -
abandoned sockets, replacements, the end of the server - may happen to all.

### NoVNC

One connection. `copier[e]` is the goroutine that copies from end `e`, `errCh` the number of errors in the
channel of two, `conn[e]` a websocket, `gone` the ends that have hung up. `sent`, `taken` and `got` are the
stream: messages are numbered, so that the refinement to `Relay` is the identity on `sent` and `got`, and a
message that is lost in between, repeated or overtakes another is a step that `Relay` does not have. A write
to a peer that is gone may still succeed; the message is then lost. The container may be stopped at any
moment, between the lookup of its name and the dial as well. `told` are the ends that got a message of the proxy
itself: the client, when the dial to the desktop fails. `Relay` lets an end be told that only when it has got
nothing, and get nothing after it.

### Bridge

One process of `rd-bridge`. Listen handles one message after the other; `fate[i]` is how far it has come with
the i-th, step by step where the code can wait or fail in between. An offer that was applied may still have no
answer: CreateAnswer and SetLocalDescription return errors, which are logged (`stuck`, then `silent`), and the
offer stays the remote description for the candidates that follow. What makes it hard is the log: `log`
writes to the standard output, which `BridgeClient.cs:45` redirects into a pipe that nobody reads, under one
lock for all goroutines. `lines` counts what was written; a line for which there is no room waits for ever,
and its goroutine with it. `Serve` and the commands of `pipe.go` add nothing: both programs open a named pipe
that neither creates.

### SessionLifecycle

`kind`, `row` and `name` are columns of the session, `container` what Docker has under the name of the session,
`create[s]` and `delete[d]` where the requests are. Every SQL statement and every Docker command is a
step with a failing outcome. `POST /api/sessions` stores whatever type it is given, and all but "relay" get a
desktop: `kind` "agent" stands for a session posted with that type (those that agents.go makes have no
container and are in `AgentHub`), and "desktop" for every other string. `faulty`, `overlapped` and `misrouted`
are history variables that record the three ways out of the guarantees: a failed statement or command or a
restart in the middle of a request; a DELETE that reads the row before the creation has recorded the container;
and a DELETE of a session posted with type "agent", which stops the row and never goes to Docker
(router.go:357-364, `MarkStopped`), so that the container runs on. `docker run` that fails may leave a
container it created; the properties count that as a fault.

`SessionPromise` leaves the requests out: the row of a session is pending, then running or failed, then stopped
for good; its container comes while the row is pending, goes while it is running, and is gone when it is
stopped; only a DELETE that is about to write the row parts a running session from its container. Of a session
in `faulty`, `overlapped` or `misrouted` nothing is promised (`astray`).

Not decided by the model, because it depends on PostgreSQL: the statement of `StopContainer`
(docker.go:154) uses `$1` both as `$1::text` and in `id = $1` with a `BIGINT` column; should the server
infer one type for it, the SELECT fails each time. `ReadName` allows it to work and to fail.

### Signaling

One session of a real PC. `host` is where `RunSession` is, `view[v]` where the script of page `v` is;
`room`, `inbox` are the members of the room and what is on its way to them. `Load` puts a page into the
panel's frame, which may replace the one before it, or opens it in a tab; `app.js` does the first up to
three times for one click on Connect. Sending the offer takes two steps, as does sending a candidate of the
host: the candidates come on goroutines of the WebRTC library, and nothing keeps one write from
overlapping with another (`ConcurrentWrite` is the panic with which the websocket library answers).
`AddCandidate` fails without a remote description, and nobody minds. The host looks at its connection only
after a message. `Drop` is a connection that ends; nobody dials again. `early` and `refused` are history
variables: candidates sent before the description of their sender, and those that could not be added.
`Handshake` leaves pages, queues and candidates out: an offer, viewers that take it once and answer once, answers
on their way, the first of which counts, and a link to the viewer it came from. The mapping reads the phase of
host and viewers off `host` and `view`, and the answers on their way off the host's queue; that each of these is
there once, of a viewer that has answered (`OnceInv`), is what makes it a refinement.
ICE is external: two peers connect when each has the other's description and one of them a candidate.

### WindowsClient

A handler of the window runs on the UI thread up to its next `await`; the steps are these pieces. `login`,
`creating`, `after` and `lists` are the continuations outstanding, `bridge` the handle `_bridgeProcess`,
`proc[b]` and `serves[b]` every process ever started. `Stopped(killed)` is `BridgeClient.Stop` with both
outcomes of `Kill`; `Start` is `BridgeClient.Start`. `Process.Start` (BridgeClient.cs:56) may also throw
(`ConnectThrows`), with the handle set already (`bridge = Unstarted`): out of the handler of a desktop's creation
or of a session's button the exception ends the program (`app = "crashed"`); a relay's creation is a discarded
task (MainWindow.xaml.cs:145), so that only the rest of it is lost - the buttons stay disabled, no list is asked
for - until the next `Stop` reads `HasExited` of that process and throws in a handler (`StopThrows`). The server
inserts the row of a session before it answers (`row`, `RowInserted`), so that a list can show it before its
creation goes on. `_currentSession` is set before `ConnectToSession`, so
`DisconnectCurrentSession` in it always stops what is there. `Exited` handlers run elsewhere and wait for
the UI thread: `exits`. Closing the window ends the dispatcher, no continuation runs after it.
`unkilled` and `late` are history variables that record the two ways a bridge may outlive its user.
`Viewing` leaves handles, `Exited` handlers, status and list out: a user who is in, out or gone, the session he
chose last, the bridges that run (none or one) and the session each was started for. A bridge that resisted
`Kill` is not among its live ones: nothing is promised of it. Somebody who is out is connected only by the
answer to a creation he asked for when he was in, and to no more than one for each.

The client starts the bridge without the session's signalling key (BridgeClient.cs:42), which the hub asks
for (hub.go:138), and never connects the pipe (`ConnectPipe` has no caller), so that step 5 of
docs/deployment.md:52-56 does not lead to a picture; the model is about the processes and the window only.

### Accounts

`users[n]` is the row of user `n` (user names are unique and never change, so they stand for the ids in
tokens), `server` where `main` is: a server that finds no database starts all the same (`unprepared`) and
uses the database when it is back. Hashing takes long, so `EnsureDefaultAdmin` is a look-up and an
insertion, and `ChangePassword` a check and an UPDATE, with everything else in between. A request behind
`requirePasswordRotation` is `inside` from the reading of the flag on. Requests that are refused change
nothing and have no action. `bootstrap` and `updated` are history variables: the row of the admin is
that of `EnsureDefaultAdmin`; whose password was written.
Tokens do not expire within the model: it is about an admin who is asked for a new password once.

## The runs

| run | instance | what it shows |
|---|---|---|
| `hub_rooms` | 3 connections of a session, queue of 1, one relayed message, two pings | `OnlyPongPanics`, `NoRoomLeak`, `SplitNeedsRace` |
| `hub_delivery` | 2 connections of one session and 1 of another, queue of 1, three relayed messages and one, fairness | `NoSilentLoss`, `KeepsGroup`, `HungUpLeaves`, `EvictedEnds` |
| `agents_sockets` | 1 agent with 2 sockets, one ping, one connect request, queue of 1, fairness | `LatestServes`, `OnlyPongPanics`, `HeardOnce`, `LeftBusy`, `KeepsPromise`, `SocketEnds`, `ConnectAnswered` |
| `agents_controls` | the same without the ping, and agents that read what they are sent | `ConnectControls` is **violated** |
| `agents_daemon` | the daemon of 1 agent with 4 sockets, the first of which may fail in every way, fairness | `ComesBack`, `RowRepaired`, `OnlyLateKicks` |
| `sessions` | 2 sessions of any types, 2 deletions, fairness | `NoContainerLeak`, `KeepsSessionPromise`, `StoppedForGood`, `PendingResolves` |
| `signaling` | 2 pages, one candidate of each peer, fairness | `CandidatesKept`, `KeepsHandshake`, `OfferAnswered`, `AnswerConnects` |
| `signaling_late` | 3 pages, no candidates, fairness | `ViewerControls` is **violated** |
| `windows_client` | 2 sessions, 2 bridges, 2 refreshes besides that of a creation, fairness | `NobodyLeft`, `StatusHonest`, `ListAgrees`, `KeepsViewing`, `ButtonsReturn` |
| `accounts` | the admin and another user, 3 passwords, 2 requests at a time | `RotationFirst`, `AdminThere`, `RowsKept` |
| `proxy` | 3 messages in each direction, fairness | `KeepsRelay`, `BothEnd`, `AllArrives` |
| `bridge` | 3 messages of any kind, a log of 6 lines, fairness | `CandidatesFollow`, `HandlesAll`, `Answers`, `Exits` |

Bounds. Queues hold one message instead of 256 and 32: what matters is that a queue can be full, and a
queue of one is full soonest. Three relayed messages are the fewest that can show a gap: one queued, one
lost, one received after it. Two joins that overlap with a leave need three connections. Two sockets of
an agent are enough for a replacement to interleave with everything the replaced one still does; the
proofs cover any number. In `Signaling` two pages are enough for two answers to one offer and
for a late page beside one that is served; one candidate of each peer can come early or late, and the
first after the description is the one that can be lost. In `WindowsClient` two sessions and two bridges
are the fewest where an old bridge can meet a new one; when no process is left to start, `Start` does
what it does without `rd-bridge.exe`. The artificial guards are on what peers and users do: relayed messages
and pings (`MaxCasts`, `MaxPings`), pages (`Pages`), candidates (`Candidates`), sessions, processes and
unanswered refreshes (`MaxSessions`, `MaxBridges`, `MaxLists`), messages through the proxy and to the bridge
(`MaxSent`, `MaxMessages`). A daemon needs one socket that fails and some that follow from it: the one in use
when the first registers late, the one after that replacement, and one to spare; only `Flaky` sockets may
fail, so that they do not run out. The log of the bridge takes six lines (`LogCap`) instead of the pipe's
4 KB, so that it is full in some runs and not in others.

`CHECK_DEADLOCK FALSE` everywhere: when every connection has ended, or every request was answered, the
modelled part of the system has nothing left to do.

Fairness. Goroutines that can run do run, and the runtime's mutexes are not held for ever: weak fairness for
each goroutine's next step. No fairness for peers - they may never send, read or hang up - except in
`ReadingSpec`, which grants for `agents_controls` that agents read what they are sent. A write is finished by
the peer's reading, so it may be stuck for ever, until the connection is closed. `Restart` is fair since
`docker-compose.yml:33` has `restart: unless-stopped` for the server. In SessionLifecycle every statement
returns, and so does every Docker command: `docker build` and `docker stop` run under timeouts. In Signaling the
programs run on, the hub delivers and ICE tries what it has; nobody has to load or close a page, nothing has to
fail. A daemon's calls return, with an error if need be (the handshake has a time limit, TCP keep-alive ends the
rest), its timers fire, requests that were sent arrive, the UPDATE of a presence call does not fail each time,
and the server learns that the daemon has closed a socket; nobody has to fail or be interrupted. In NoVNC a dial
returns, a goroutine whose read or write can go on or has failed does so, an end that is there reads what it is
sent. In Bridge goroutines that can run do, and one that waits for the log gets it when there is room; the hub
need send nothing. In WindowsClient a request is answered or times out (ApiClient.cs:18) and the UI thread gets
to what waits for it; nobody has to click.

### What the violated properties show

- `ConnectControls` (docs/deployment.md:100): `NotifyConnect` succeeds when the message is in a channel.
  When the agent's socket is replaced, or ends, before that channel is drained, the message is lost: the
  caller has 201 and a running session, the agent is connected for good and never told.
- `ViewerControls` (docs/deployment.md:100): the host sends its offer once (session.go:94) and the hub keeps
  nothing. The panel loads the viewer up to three times for one click (app.js:223, 174 by way of 228, and
  230); when the offer meets an earlier page, the last one joins a room in which the host is and waits there
  for ever.

Without a run: `ChangePassword` (auth.go) wants the current password and a new one of ten characters; the new
one may be the current one. It clears `password_change_required` all the same, and the initial password of
docs/deployment.md:47-48 stays; `RotationFirst` is about a change that was written, whatever to.
`POST /api/sessions` does not check `type`, and with "agent" makes a container that its DELETE does not remove;
no line of the repository says which types it takes, and the properties excuse the session (`misrouted`).
`models.go:19` lists the statuses `pending`, `running`, `stopped`; `handleCreateSession`
(router.go:272) also sets `failed`, which is a status in SessionLifecycle.

## The proofs

All for any sets of clients, agents, sockets, sessions and requests, any capacities and any number of
messages, from the named assumptions of the modules (types of the constants). The inductive invariants were
checked with TLC on the instances of the runs before they were proved; the cfgs list what they imply.

- `SignalHub_proofs`: `HubInv` is inductive: `ChannelInv` ties the channel of a client to its program
  counter and to membership (a channel is open exactly while its client is joining or a member, so a
  broadcast, which visits members under the lock, meets open channels only, and `RemoveClient`, which looks
  the client up first, closes each once); `RoomInv` says that a client's room is one made for its session;
  `LeakInv` that an empty registered room has somebody on the way in or out; `SplitInv` that members of
  a session that has not raced are in the registered room.
  From these, type correctness, no panic but the pong, isolation of sessions (`SessionIsolation`), no leaked
  room, no split without a race. `LossInv`, for `NoSilentLoss`: nothing of a sender comes to a client before
  it is in its room or beyond what a Broadcast has offered it (`Offered`), so that the next message continues
  the sequence or finds the client on its way out. With `FreshInv` (nobody is to be evicted before it has
  joined) these give the refinement of `Group`: `AddClient` maps to `Join`, a broadcast to `Say`, a message
  taken by the writer to `Hear`, an eviction, a leave or the end of the server to `Cut`.
- `AgentHub_proofs`: `RegistryInv`: a place in the registry is held by a socket of that agent, one that is
  being served and whose channel is open; with `LatestServes` and no double close. `DeliveryInv`: where the
  message of each request is, and that a request that is still to be answered has sent at most one. From it
  `HeardOnce`, `RightAgent` (which needs several agents to be of interest, and is only proved), `FailedIsUnsent`,
  `LeftBusy` and the refinement `KeepsPromise`: every step maps to
  steps of requests or a stutter of `ConnectPromise`. And about the daemon: server and daemons together are a
  behaviour of `AgentHub` (`DaemonImplementsHub`), so that what is proved of the hub holds for them
  (`DaemonSafe`); `UseInv`: a handler gives up only a socket that is broken; with it the action property
  `OnlyLateKicks`.
- `NoVNC_proofs`: `ProxyInv`: who copies what while the handler is where (`HandlerInv`), and how far each
  stream has come (`StreamInv`). From it the refinement `KeepsRelay` and that nothing is cut while both ends
  are there (`CutNeedsLoss`). `ErrorInv`: `errCh` holds what was reported and not read yet; so `NoneStuck`, the
  safety part of `BothEnd`: nobody waits for room in it, and nobody on an open connection when
  `proxyWebSocket` has returned.
- `Bridge_proofs`: `BridgeInv`: Listen has one message in hand, the last it read (`ListenInv`), so that an offer
  is applied before any later candidate is looked at; nothing happens before main has connected (`StartInv`);
  answers are of offers past all that can go wrong (`AnswerInv`). From it `CandidatesFollow`, and that the answers
  come in the order of the offers, each once (`AnswersFollow`).
- `SessionLifecycle_proofs`: `LifecycleInv`: a creation works on a pending row unless a DELETE has
  overlapped with it (`CreationInv`); a DELETE past its first read of a sound session has the right name or there is no
  container, and none is left when it has removed it (`DeletionInv`). From these `NoContainerLeak`,
  `RunningHasContainer`, `StoppedForGood` and `AnswerAgrees`, and with them the refinement of
  `SessionPromise`: a sound session has its container exactly between `docker run` and `docker rm`, and a DELETE
  writes the row only when the creation is over.
- `Signaling_proofs`: `SignalingInv`: before the offer is out nobody has it or a candidate that follows it
  (`OfferInv`); in a page's queue no offer comes after a candidate that followed it (`OrderInv`); in the
  host's queue a candidate that followed an answer comes after it (`AnswerInv`, for which a host never
  hears itself, `HostInv`, and pages that are not loaded do nothing, `PageInv`). From these
  `CandidatesKept`, and with `OnceInv` the refinement of `Handshake`. `FirstAnswerStays` is its consequence for
  the host alone.
- `WindowsClient_proofs`: `ClientInv`: together with `OneBridge`, what a current session has to do with the handle
  and the forwarder, also after a Start that threw (`CurrentInv`), and when the buttons are disabled
  (`ButtonsInv`), makes `_currentSession == null` mean that nothing runs, which is what
  `DisconnectCurrentSession` relies on when it does nothing. From it `OneBridge`, `NobodyLeft` and
  `StatusHonest`; with `StartedInv` - a process is started once, for the session in `serves` - the refinement of
  `Viewing`, of which `OneBridge` is the consequence for one state. `ListAgrees` is inductive with type
  correctness: whatever changes the current session also asks for a list, leaves the panel or has thrown, and only
  an answer makes the window quiet.
- `Accounts_proofs`: `AccountsInv`: whoever holds a token has a row and nobody is served while the server
  starts (`TokenInv`), so a row made by `EnsureDefaultAdmin` meets no request that has passed the gate
  already; it asks for another password until one is written (`AdminInv`). From it `RotationFirst`,
  `AdminThere` and the action property `RowsKept`.

Every safety property and every refinement that a run checks is proved. Only model-checked: the liveness
properties (`HungUpLeaves`, `EvictedEnds`, `SocketEnds`, `ConnectAnswered`, `ComesBack`, `RowRepaired`,
`PendingResolves`, `OfferAnswered`, `AnswerConnects`, `ButtonsReturn`, `BothEnd`, `AllArrives`, `HandlesAll`,
`Answers`, `Exits`), as liveness under fairness is out of the prover's reach. No RECURSIVE operator is used, nor
is anything computed by recursion over data.

## What is not modelled

- Contents of messages (SDP, candidates, input events) and payloads; HTTP parsing and authorization of the
  requests in general; listings, which only read; migrations, idempotent DDL run before the server listens;
  deployment files except the restart policy.
- The bridge's pipe commands and shared memory: the pipe is never created, so no command comes, and frames are
  dropped because the shared memory is never mapped. Its sample ring and decoding are not modelled.
- Capture, rendering and input injection, which are calls into Windows; the GStreamer pipelines of the
  containers and their reconnect loop.
- The building of images is one step with two outcomes; the lock around it is not modelled.
- Expiry of sessions: `expires_at` is written and nothing reads it. The status of an agent of which one of two
  sessions is stopped: it gates nothing. Each hazard without a property in `PROJECT.json` says why.

## Plan

1. (done) SignalHub, AgentHub, SessionLifecycle, Signaling, WindowsClient, Accounts with their proofs.
2. (done) AgentDaemon on top of AgentHub, the noVNC proxy, the client bridge; the abstract specifications
   ConnectPromise, Relay, Group, SessionPromise, Handshake and Viewing with the refinements; proofs of all safety
   properties of the runs.
3. The accounts against an abstract specification of their own.
4. ImageBuild: the double-checked lock of the images; the bridge's sample ring; the reconnect loop of the
   container pipelines.
