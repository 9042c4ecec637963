-------------------------------- MODULE Bridge --------------------------------
(* One process of rd-bridge: main.go, webrtc/peer.go and Serve of pipe/pipe.go of *)
(* the client bridge.  Its main goroutine, Listen, Serve and the callbacks of the *)
(* WebRTC library share the log, which goes to the standard output, a pipe that   *)
(* BridgeClient.cs opens and never reads.  The commands of pipe.go are not here:  *)
(* neither program creates the pipe that both open.                               *)
EXTENDS Naturals, Sequences, Functions

CONSTANTS MaxMessages,  (* bound: messages that the hub passes on                 *)
          LogCap        (* how many lines the pipe of the log holds               *)

ASSUME BridgeAssumption == MaxMessages \in Nat /\ LogCap \in Nat /\ LogCap >= 3

(* What can come: an offer that the library applies or refuses, a candidate,     *)
(* what is passed over (pong, an empty candidate), what is only logged.          *)
Kinds == {"offer", "badoffer", "candidate", "other", "unknown"}

VARIABLES
    main,       (* where main and Connect are                                     *)
    serve,      (* where Serve is: off, starting, or trying to open its pipe      *)
    ws,         (* wsConn: none, open, broken by the hub or the network, closed   *)
    peer,       (* the RTCPeerConnection                                          *)
    listen,     (* Listen: off, reading, parting after an error of read, done     *)
    came,       (* the messages that have come, in order                          *)
    fate,       (* what has become of those that Listen has read                  *)
    answers,    (* the offers whose answers went out, in order                    *)
    lines,      (* how many lines the log has written                             *)
    owed        (* how many lines callbacks of the library have yet to write      *)

vars == <<main, serve, ws, peer, listen, came, fate, answers, lines, owed>>

(* Of an offer: taken, applied, set (the answer is the local description),       *)
(* written, answered; stuck and then silent when the library makes no answer to  *)
(* an offer that it has applied; of anything else that fails: refused, until it  *)
(* is logged.                                                                    *)
Pending == {"taken", "applied", "set", "written", "stuck", "refused"}
Accepted == {"applied", "set", "written", "answered", "stuck", "silent"}

BridgeOK ==
    /\ main \in {"starting", "dialing", "fatal", "waiting", "stopping", "closing",
                 "leaving", "ended"}
    /\ serve \in {"off", "starting", "looking"}
    /\ ws \in {"none", "open", "broken", "closed"}
    /\ peer \in {"none", "new", "answered", "connected", "failed", "closed"}
    /\ listen \in {"off", "reading", "parting", "done"}
    /\ came \in Seq(Kinds)
    /\ fate \in Seq(Pending \cup {"answered", "silent", "added", "dropped", "over"})
    /\ answers \in Seq(Nat)
    /\ lines \in 0 .. LogCap /\ owed \in Nat

Init ==
    /\ main = "starting" /\ serve = "off"
    /\ ws = "none" /\ peer = "none" /\ listen = "off"
    /\ came = <<>> /\ fate = <<>> /\ answers = <<>>
    /\ lines = 0 /\ owed = 0

Up == main # "ended"
Main(here, there) == main = here /\ main' = there

(* log.Printf: waits while the pipe is full. *)
Line == lines < LogCap /\ lines' = lines + 1

session == <<ws, peer, listen, came, fate, answers, owed>>

-------------------------------------------------------------------------------
(* main *)

Begin ==
    /\ Main("starting", "dialing")
    /\ lines' = lines + 2
    /\ UNCHANGED <<serve, session>>

Connect ==
    /\ Main("dialing", "waiting")
    /\ ws' = "open" /\ peer' = "new" /\ listen' = "reading" /\ serve' = "starting"
    /\ UNCHANGED <<came, fate, answers, lines, owed>>

ConnectFails == Main("dialing", "fatal") /\ UNCHANGED <<serve, session, lines>>

Fatal == Main("fatal", "ended") /\ Line /\ UNCHANGED <<serve, session>>

Interrupt == Main("waiting", "stopping") /\ UNCHANGED <<serve, session, lines>>

ShutDown_Joins ==
    listen = "done" /\ Main("stopping", "closing") /\ Line /\ UNCHANGED <<serve, session>>
ShutDown == Main("stopping", "closing") /\ Line /\ UNCHANGED <<serve, session>>

(* The deferred Close and Stop. *)
Close ==
    /\ Main("closing", "leaving")
    /\ peer' = "closed" /\ ws' = "closed"
    /\ owed' = owed + 1
    /\ UNCHANGED <<serve, listen, came, fate, answers, lines>>

Leave == Main("leaving", "ended") /\ UNCHANGED <<serve, session, lines>>

Killed == Up /\ main' = "ended" /\ UNCHANGED <<serve, session, lines>>

(* Serve then tries to open a pipe that nobody has created, again and again. *)
Serve ==
    /\ Up /\ serve = "starting"
    /\ serve' = "looking" /\ Line
    /\ UNCHANGED <<main, session>>

-------------------------------------------------------------------------------
(* Listen *)

(* It reads the next message when it has done with the last one. *)
Idle_Async == TRUE
Idle == \A i \in DOMAIN fate : fate[i] \notin Pending

Take ==
    /\ Up /\ listen = "reading" /\ Idle
    /\ ws # "closed" /\ Len(fate) < Len(came)
    /\ fate' = Append(fate, "taken")
    /\ UNCHANGED <<main, serve, ws, peer, listen, came, answers, lines, owed>>

ReadError ==
    /\ Up /\ listen = "reading" /\ Idle
    /\ ws # "open"
    /\ listen' = "parting"
    /\ UNCHANGED <<main, serve, ws, peer, came, fate, answers, lines, owed>>

Part ==
    /\ Up /\ listen = "parting"
    /\ Line
    /\ listen' = "done" /\ ws' = "closed"
    /\ UNCHANGED <<main, serve, peer, came, fate, answers, owed>>

(* Message i goes on from one fate to the next. *)
Goes(i, here, there) ==
    Up /\ fate[i] = here /\ fate' = [fate EXCEPT ![i] = there]
rest == <<main, serve, ws, came, owed>>

PassOver(i) ==
    /\ came[i] = "other" /\ Goes(i, "taken", "over")
    /\ UNCHANGED <<rest, peer, listen, answers, lines>>

Unknown_Returns(i) ==
    /\ came[i] = "unknown" /\ Goes(i, "taken", "refused")
    /\ listen' = "parting"
    /\ UNCHANGED <<rest, peer, answers, lines>>
Unknown(i) ==
    /\ came[i] = "unknown" /\ Goes(i, "taken", "refused")
    /\ UNCHANGED <<rest, peer, listen, answers, lines>>

(* handleOffer *)
ApplyOffer(i) ==
    /\ \/ came[i] = "offer" /\ peer # "closed" /\ Goes(i, "taken", "applied")
       \/ came[i] = "offer" /\ peer = "closed" /\ Goes(i, "taken", "refused")
       \/ came[i] = "badoffer" /\ Goes(i, "taken", "refused")
    /\ UNCHANGED <<rest, peer, listen, answers, lines>>

(* CreateAnswer and SetLocalDescription: either may fail, whatever the state of  *)
(* the connection, and the offer stays applied without an answer.                *)
SetAnswer(i) ==
    /\ \/ /\ peer # "closed" /\ Goes(i, "applied", "set")
          /\ peer' = IF peer = "new" THEN "answered" ELSE peer
       \/ Goes(i, "applied", "stuck") /\ UNCHANGED peer
    /\ UNCHANGED <<rest, listen, answers, lines>>

(* The error of WriteMessage is ignored. *)
WriteAnswer_Logged(i) ==
    /\ Goes(i, "set", "answered")
    /\ Line
    /\ answers' = IF ws = "open" THEN Append(answers, i) ELSE answers
    /\ UNCHANGED <<rest, peer, listen>>
WriteAnswer(i) ==
    /\ Goes(i, "set", "written")
    /\ answers' = IF ws = "open" THEN Append(answers, i) ELSE answers
    /\ UNCHANGED <<rest, peer, listen, lines>>

(* handleICECandidate: the library takes a candidate once it has an offer. *)
AddCandidate(i) ==
    /\ came[i] = "candidate"
    /\ IF peer # "closed" /\ \E j \in DOMAIN fate : fate[j] \in Accepted
       THEN Goes(i, "taken", "added")
       ELSE Goes(i, "taken", "refused")
    /\ UNCHANGED <<rest, peer, listen, answers, lines>>

(* The line that ends a handler. *)
LogFate(i) ==
    /\ \/ Goes(i, "refused", "dropped") \/ Goes(i, "stuck", "silent")
       \/ Goes(i, "written", "answered")
    /\ Line
    /\ UNCHANGED <<rest, peer, listen, answers>>

Handle(i) ==
    \/ PassOver(i) \/ Unknown(i) \/ ApplyOffer(i) \/ SetAnswer(i) \/ WriteAnswer(i)
    \/ AddCandidate(i) \/ LogFate(i)

-------------------------------------------------------------------------------
(* The hub, the network and the library *)

HubSends ==
    /\ Up /\ ws = "open" /\ Len(came) < MaxMessages
    /\ \E k \in Kinds : came' = Append(came, k)
    /\ UNCHANGED <<main, serve, ws, peer, listen, fate, answers, lines, owed>>

HubCloses ==
    /\ Up /\ ws = "open"
    /\ ws' = "broken"
    /\ UNCHANGED <<main, serve, peer, listen, came, fate, answers, lines, owed>>

(* Two lines for the state, and three for two tracks and the data channel, if    *)
(* the host has them.                                                            *)
PeerConnects ==
    /\ Up /\ peer = "answered"
    /\ peer' = "connected"
    /\ \E n \in {2, 5} : owed' = owed + n
    /\ UNCHANGED <<main, serve, ws, listen, came, fate, answers, lines>>

PeerFails ==
    /\ Up /\ peer \in {"answered", "connected"}
    /\ peer' = "failed"
    /\ owed' = owed + 1
    /\ UNCHANGED <<main, serve, ws, listen, came, fate, answers, lines>>

(* Callbacks run each on a goroutine of its own. *)
Callback ==
    /\ Up /\ owed > 0
    /\ owed' = owed - 1 /\ Line
    /\ UNCHANGED <<main, serve, ws, peer, listen, came, fate, answers>>

Next ==
    \/ Begin \/ Connect \/ ConnectFails \/ Fatal \/ Interrupt \/ ShutDown \/ Close
    \/ Leave \/ Killed \/ Serve \/ Take \/ ReadError \/ Part
    \/ \E i \in DOMAIN fate : Handle(i)
    \/ HubSends \/ HubCloses \/ PeerConnects \/ PeerFails \/ Callback

Spec == Init /\ [][Next]_vars

(* Goroutines that can run do, and the dial returns.  A lock that is free is     *)
(* got in the end: a line is written when there is room for good.                *)
Fairness ==
    /\ WF_vars(Begin) /\ WF_vars(Connect \/ ConnectFails) /\ WF_vars(Fatal)
    /\ WF_vars(ShutDown) /\ WF_vars(Close) /\ WF_vars(Leave)
    /\ WF_vars(Serve) /\ WF_vars(Take) /\ WF_vars(ReadError) /\ WF_vars(Part)
    /\ WF_vars(Callback)
    /\ \A i \in 1 .. MaxMessages : WF_vars(i \in DOMAIN fate /\ Handle(i))

FairSpec == Spec /\ Fairness

-------------------------------------------------------------------------------
(* Properties *)

Full == lines = LogCap
Is(i, fates) == i \in DOMAIN fate /\ fate[i] \in fates
Met(i) == i \in DOMAIN fate /\ fate[i] \notin Pending

(* A candidate is thrown away only when no offer that came before it was         *)
(* applied, or at the end.                                                       *)
CandidatesFollow ==
    \A i \in DOMAIN fate :
        came[i] = "candidate" /\ fate[i] \in {"refused", "dropped"} =>
            peer = "closed" \/ \A j \in 1 .. i - 1 : fate[j] \notin Accepted

(* The hub gets the answers in the order of the offers, each once.               *)
AnswersFollow ==
    \A m, n \in DOMAIN answers : m < n => answers[m] < answers[n]

(* No message but a loss of the connection makes the bridge stop listening: it   *)
(* deals with everything the hub passes on, unless nobody reads its log.         *)
HandlesAll ==
    \A i \in 1 .. MaxMessages :
        Len(came) >= i /\ ws = "open" ~> Met(i) \/ ws = "broken" \/ Full \/ ~Up

(* An offer that the library has applied and made an answer to is answered to    *)
(* the hub, even with the log full, unless the connection is lost.               *)
Answers ==
    \A i \in 1 .. MaxMessages :
        Is(i, {"applied", "set"})
            ~> i \in Range(answers) \/ Is(i, {"stuck", "silent"}) \/ ws = "broken" \/ ~Up

(* A signal or a refusal by the hub ends the process, unless nobody reads its    *)
(* log, whatever Listen, Serve and the callbacks are at.                         *)
Exits == main \in {"fatal", "stopping"} ~> ~Up \/ Full

-------------------------------------------------------------------------------
(* The inductive invariant behind CandidatesFollow and AnswersFollow: nothing is *)
(* read or logged before main has connected; Listen has one message in hand, the *)
(* last that it read, so that an offer is applied before any later candidate is  *)
(* read; the peer connection stays closed; and an offer is answered when it is   *)
(* past all that can go wrong with it.                                           *)
StartInv ==
    /\ main = "starting" => lines = 0 /\ owed = 0 /\ serve = "off" /\ listen = "off"
    /\ listen = "off" => fate = <<>> /\ peer \in {"none", "closed"}

ListenInv ==
    /\ Len(fate) <= Len(came)
    /\ peer = "closed" => main \in {"leaving", "ended"}
    /\ \A i \in DOMAIN fate : fate[i] \in Pending => i = Len(fate)
    /\ CandidatesFollow

AnswerInv ==
    /\ \A m \in DOMAIN answers :
          answers[m] \in DOMAIN fate /\ fate[answers[m]] \in {"written", "answered"}
    /\ AnswersFollow

BridgeInv == BridgeOK /\ StartInv /\ ListenInv /\ AnswerInv

===============================================================================
