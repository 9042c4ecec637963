-------------------------------- MODULE Signaling --------------------------------
(* One session of a real PC, end to end: the agent's host                        *)
(* (agent/internal/host/session.go), the panel that loads the viewer             *)
(* (webui/static/app.js) and the viewer pages (webui/static/viewer.js).  They    *)
(* exchange offer, answer and ICE candidates through the session's room, of      *)
(* which this module takes what SignalHub shows: while a connection is in the    *)
(* room, every message of the others reaches it, in the order of its sender.     *)
EXTENDS Naturals, Sequences

CONSTANTS Pages,       (* how many viewer pages are loaded for the session: the  *)
                       (* panel loads three for one click, users may load more   *)
          Candidates   (* bound: ICE candidates that each peer gathers           *)

ASSUME SignalingAssumption == Pages \in Nat \ {0} /\ Candidates \in Nat

Viewers == 1 .. Pages
Host == 0
Peers == {Host} \cup Viewers

Messages == [type : {"offer", "answer", "ice-candidate"}, from : Peers,
             n : 0 .. Candidates]
Offer == [type |-> "offer", from |-> Host, n |-> 0]
Answer(v) == [type |-> "answer", from |-> v, n |-> 0]
Candidate(p, i) == [type |-> "ice-candidate", from |-> p, n |-> i]

VARIABLES
    host,      (* where RunSession is; "crashed" with the process of the agent   *)
    writing,   (* OnICECandidate is in WriteMessage                              *)
    peer,      (* the viewer whose answer is the host's remote description       *)
    page,      (* the pages loaded so far: the last one in the panel's frame, or *)
               (* in a tab of its own                                            *)
    view,      (* where the script of a viewer page is                           *)
    room,      (* who is in the room of the session                              *)
    inbox,     (* what is on its way to a peer                                   *)
    left,      (* candidates a peer has yet to gather and send                   *)
    knows,     (* the peers of whom a peer has added a candidate                 *)
    link,      (* the state of the host's peer connection                        *)
    early,     (* history: candidates sent before the description of their sender*)
    refused    (* history: <<p, m>> where p could not add the candidate of m     *)

vars == <<host, writing, peer, page, view, room, inbox, left, knows, link,
          early, refused>>
hosting == <<host, writing, peer, link>>
viewing == <<page, view>>

TypeOK ==
    /\ host \in {"off", "joined", "described", "offering", "serving", "ended", "crashed"}
    /\ writing \in BOOLEAN
    /\ peer \in Peers
    /\ page \in 0 .. Pages
    /\ view \in [Viewers -> {"none", "loading", "waiting", "applying", "described",
                             "negotiating", "closed"}]
    /\ room \in SUBSET Peers
    /\ inbox \in [Peers -> Seq(Messages)]
    /\ left \in [Peers -> 0 .. Candidates]
    /\ knows \in [Peers -> SUBSET Peers]
    /\ link \in {"none", "up", "failed"}
    /\ early \in SUBSET Messages
    /\ refused \in SUBSET (Peers \X Messages)

(* peer = Host: there is no remote description. *)
Init ==
    /\ host = "off"
    /\ writing = FALSE
    /\ peer = Host
    /\ page = 0
    /\ view = [v \in Viewers |-> "none"]
    /\ room = {}
    /\ inbox = [p \in Peers |-> <<>>]
    /\ left = [p \in Peers |-> Candidates]
    /\ knows = [p \in Peers |-> {}]
    /\ link = "none"
    /\ early = {}
    /\ refused = {}

-------------------------------------------------------------------------------

See(v, l) == view' = [view EXCEPT ![v] = l]

(* What the hub does with a message of p, nothing if p has left. *)
Broadcast(p, m) ==
    inbox' = [q \in Peers |-> IF {p, q} \subseteq room /\ q # p THEN Append(inbox[q], m)
                                                              ELSE inbox[q]]

Take(p) == inbox' = [inbox EXCEPT ![p] = Tail(@)]
Leave(ps) ==
    /\ room' = room \ ps
    /\ inbox' = [p \in Peers |-> IF p \in ps THEN <<>> ELSE inbox[p]]

(* The definitions named X_... are faulty variants of X, each with a mistake     *)
(* that a change of the code could bring in; the specification uses none.        *)

(* AddICECandidate fails without a remote description, and nobody minds. *)
AddCandidate_Ignored(p, m, able) == UNCHANGED <<knows, refused>>
AddCandidate(p, m, able) ==
    /\ knows' = IF able THEN [knows EXCEPT ![p] = @ \cup {m.from}] ELSE knows
    /\ refused' = IF able THEN refused ELSE refused \cup {<<p, m>>}

(* The callback comes once more, with no candidate, when there are no more. *)
Gathers(p) == left[p] > 0

-------------------------------------------------------------------------------
(* The host: RunSession *)

(* RunSession returns: its websocket and its peer connection are closed. *)
HostLeaves(how) ==
    /\ host' = how
    /\ writing' = FALSE
    /\ Leave({Host})
    /\ link' = IF link = "up" THEN "failed" ELSE link

(* The dial works, or RunSession returns. *)
Dial ==
    /\ host = "off"
    /\ \/ host' = "joined" /\ room' = room \cup {Host}
       \/ host' = "ended" /\ UNCHANGED room
    /\ UNCHANGED <<writing, peer, link, inbox, left, knows, early, refused>>
    /\ UNCHANGED viewing

(* CreateOffer, and SetLocalDescription, with which the gathering of candidates  *)
(* begins.  After an error of NewPeerConnection or of any call up to these       *)
(* RunSession returns.                                                           *)
Describe ==
    /\ host = "joined"
    /\ \/ host' = "described" /\ UNCHANGED <<writing, link, room, inbox>>
       \/ HostLeaves("ended")
    /\ UNCHANGED <<peer, left, knows, early, refused>>
    /\ UNCHANGED viewing

(* The offer is sent, once: a viewer that joins later is sent nothing. *)
BeginOffer ==
    /\ host = "described"
    /\ host' = "offering"
    /\ UNCHANGED <<writing, peer, link, room, inbox, left, knows, early, refused>>
    /\ UNCHANGED viewing

EndOffer ==
    /\ host = "offering"
    /\ host' = "serving"
    /\ Broadcast(Host, Offer)
    /\ UNCHANGED <<writing, peer, link, room, left, knows, early, refused>>
    /\ UNCHANGED viewing

(* OnICECandidate, on goroutines of the WebRTC library: nothing keeps its write  *)
(* from overlapping with that of the offer.                                      *)
BeginCandidate ==
    /\ host \in {"described", "offering", "serving"}
    /\ ~writing
    /\ Gathers(Host)
    /\ writing' = TRUE
    /\ UNCHANGED <<host, peer, link, room, inbox, left, knows, early, refused>>
    /\ UNCHANGED viewing

EndCandidate ==
    LET m == Candidate(Host, left[Host])
    IN  /\ writing
        /\ writing' = FALSE
        /\ left' = [left EXCEPT ![Host] = @ - 1]
        /\ Broadcast(Host, m)
        /\ early' = IF host = "serving" THEN early ELSE early \cup {m}
        /\ UNCHANGED <<host, peer, link, room, knows, refused>>
        /\ UNCHANGED viewing

(* Two writes at once: the websocket library panics when it notices, and with    *)
(* the process go all sessions of this PC.                                       *)
ConcurrentWrite ==
    /\ host = "offering"
    /\ writing
    /\ HostLeaves("crashed")
    /\ UNCHANGED <<peer, left, knows, early, refused>>
    /\ UNCHANGED viewing

(* An answer counts when there is none yet: after that the state is stable and   *)
(* SetRemoteDescription(answer) an error, which is logged.                       *)
AcceptsAnswer_Always == TRUE
AcceptsAnswer == peer = Host

(* One message, then a look at the state of the connection - which is not looked *)
(* at while no message comes.                                                    *)
HostReceives ==
    LET m == Head(inbox[Host])
    IN  /\ host = "serving"
        /\ inbox[Host] # <<>>
        /\ \/ /\ m.type = "answer"
              /\ peer' = IF AcceptsAnswer THEN m.from ELSE peer
              /\ UNCHANGED <<knows, refused>>
           \/ /\ m.type = "ice-candidate"
              /\ AddCandidate(Host, m, peer # Host)
              /\ UNCHANGED peer
        /\ IF link = "failed" THEN HostLeaves("ended")
                              ELSE Take(Host) /\ UNCHANGED <<host, writing, link, room>>
        /\ UNCHANGED <<left, early>>
        /\ UNCHANGED viewing

HostReadError ==
    /\ host \in {"offering", "serving"}
    /\ Host \notin room
    /\ HostLeaves("ended")
    /\ UNCHANGED <<peer, left, knows, early, refused>>
    /\ UNCHANGED viewing

-------------------------------------------------------------------------------
(* The panel and the pages *)

(* A page is torn down, with its websocket and its peer connection. *)
Closing(ps) == {v \in ps : view[v] # "none"}

(* connectAgent and openViewer set the frame's src, which replaces the page in   *)
(* it; openViewer may also be used while other pages are open.                   *)
Load ==
    LET v == page + 1
    IN  /\ page < Pages
        /\ page' = v
        /\ \E old \in SUBSET Closing({page} \cap Viewers) :
              /\ view' = [w \in Viewers |-> IF w = v THEN "loading"
                                            ELSE IF w \in old THEN "closed" ELSE view[w]]
              /\ Leave(old)
        /\ UNCHANGED <<left, knows, early, refused>>
        /\ UNCHANGED hosting

Close(v) ==
    /\ view[v] \notin {"none", "closed"}
    /\ See(v, "closed")
    /\ Leave({v})
    /\ UNCHANGED <<page, left, knows, early, refused>>
    /\ UNCHANGED hosting

(* start: the ICE servers are loaded, the websocket is opened. *)
Join(v) ==
    /\ view[v] = "loading"
    /\ See(v, "waiting")
    /\ room' = room \cup {v}
    /\ UNCHANGED <<page, inbox, left, knows, early, refused>>
    /\ UNCHANGED hosting

(* onmessage, offer: setRemoteDescription and createAnswer are awaited. *)
TakeOffer(v) ==
    /\ view[v] = "waiting"
    /\ inbox[v] # <<>>
    /\ Head(inbox[v]).type = "offer"
    /\ See(v, "applying")
    /\ Take(v)
    /\ UNCHANGED <<page, room, left, knows, early, refused>>
    /\ UNCHANGED hosting

(* setLocalDescription, with which the gathering begins. *)
SetLocalDescription(v) ==
    /\ view[v] = "applying"
    /\ See(v, "described")
    /\ UNCHANGED <<page, room, inbox, left, knows, early, refused>>
    /\ UNCHANGED hosting

AnswerSent_Dropped(v) == UNCHANGED inbox
AnswerSent(v) == Broadcast(v, Answer(v))

SendAnswer(v) ==
    /\ view[v] = "described"
    /\ See(v, "negotiating")
    /\ AnswerSent(v)
    /\ UNCHANGED <<page, room, left, knows, early, refused>>
    /\ UNCHANGED hosting

(* onicecandidate: sent if the websocket is open. *)
SendCandidate(v) ==
    LET m == Candidate(v, left[v])
    IN  /\ view[v] \in {"described", "negotiating"}
        /\ Gathers(v)
        /\ left' = [left EXCEPT ![v] = @ - 1]
        /\ Broadcast(v, m)
        /\ early' = IF view[v] = "negotiating" THEN early ELSE early \cup {m}
        /\ UNCHANGED <<page, view, room, knows, refused>>
        /\ UNCHANGED hosting

(* onmessage, ice-candidate, of the host or of another viewer.  While the offer  *)
(* is being applied, addIceCandidate waits for it.                               *)
Able_WhenApplied(v) == view[v] \in {"described", "negotiating"}
Able(v) == view[v] \in {"applying", "described", "negotiating"}

TakeCandidate(v) ==
    LET m == Head(inbox[v])
    IN  /\ view[v] \notin {"none", "loading", "closed"}
        /\ inbox[v] # <<>>
        /\ m.type = "ice-candidate"
        /\ AddCandidate(v, m, Able(v))
        /\ Take(v)
        /\ UNCHANGED <<page, view, room, left, early>>
        /\ UNCHANGED hosting

(* The answers of other viewers are of no interest. *)
SkipAnswer(v) ==
    /\ inbox[v] # <<>>
    /\ Head(inbox[v]).type = "answer"
    /\ Take(v)
    /\ UNCHANGED <<page, view, room, left, knows, early, refused>>
    /\ UNCHANGED hosting

-------------------------------------------------------------------------------
(* The environment *)

(* The network or the hub drops a connection; nobody connects again. *)
Drop(p) ==
    /\ p \in room
    /\ Leave({p})
    /\ UNCHANGED <<left, knows, early, refused>>
    /\ UNCHANGED hosting
    /\ UNCHANGED viewing

(* Both have a description of the other, and one of them a candidate. *)
Connects(v) ==
    /\ peer = v
    /\ host = "serving"
    /\ view[v] = "negotiating"
    /\ Host \in knows[v] \/ v \in knows[Host]

Connect ==
    /\ link = "none"
    /\ \E v \in Viewers : Connects(v)
    /\ link' = "up"
    /\ UNCHANGED <<host, writing, peer, room, inbox, left, knows, early, refused>>
    /\ UNCHANGED viewing

(* The page is closed, or the network fails. *)
LinkFails ==
    /\ link = "up"
    /\ link' = "failed"
    /\ UNCHANGED <<host, writing, peer, room, inbox, left, knows, early, refused>>
    /\ UNCHANGED viewing

HostWrites == BeginOffer \/ EndOffer
HostSteps == Dial \/ Describe \/ HostWrites \/ HostReceives \/ HostReadError
GatherSteps == BeginCandidate \/ EndCandidate
Reads(v) == TakeOffer(v) \/ TakeCandidate(v) \/ SkipAnswer(v)
Answers(v) == Join(v) \/ SetLocalDescription(v) \/ SendAnswer(v)

Next ==
    \/ HostSteps \/ GatherSteps \/ ConcurrentWrite
    \/ \E v \in Viewers : Reads(v) \/ Answers(v) \/ SendCandidate(v) \/ Close(v)
    \/ \E p \in Peers : Drop(p)
    \/ Load \/ Connect \/ LinkFails

Spec == Init /\ [][Next]_vars

(* The programs run, the hub delivers, ICE tries what it has.  Nobody has to     *)
(* load or close a page, and nothing has to fail.                                *)
Fairness ==
    /\ WF_vars(HostSteps) /\ WF_vars(GatherSteps) /\ WF_vars(Connect)
    /\ \A v \in Viewers :
          WF_vars(Reads(v)) /\ WF_vars(Answers(v)) /\ WF_vars(SendCandidate(v))

FairSpec == Spec /\ Fairness

-------------------------------------------------------------------------------
(* Properties *)

Open(v) == view[v] \notin {"none", "closed"}
Together(v) == {Host, v} \subseteq room
HostGone == host \in {"ended", "crashed"}

(* A session is not taken over: the first viewer to answer stays the host's      *)
(* peer, whoever else answers the same offer.                                    *)
FirstAnswerStays == [][peer # Host => peer' = peer]_vars

(* Between the host and a viewer, a candidate is lost only if it was sent before *)
(* the description of its sender, or to a viewer that came too late for that.    *)
CandidatesKept ==
    \A r \in refused :
        LET p == r[1]
            m == r[2]
        IN  \/ m \in early
            \/ p # Host /\ (m.from # Host \/ view[p] \in {"waiting", "closed"})

(* The inductive invariant behind CandidatesKept. *)
Unoffered == host \in {"off", "joined", "described", "offering"}
Late(m) == m.from = Host /\ m \notin early
NoOffer(q) == \A i \in DOMAIN q : q[i].type # "offer"

HostInv ==
    /\ writing => left[Host] > 0
    /\ \A i \in DOMAIN inbox[Host] : inbox[Host][i].from # Host
    /\ NoOffer(inbox[Host])

PageInv == \A v \in Viewers : v > page => view[v] = "none"

(* Until the offer is out, nobody has it or a candidate that follows it. *)
OfferInv ==
    Unoffered =>
        /\ \A v \in Viewers :
              /\ view[v] \notin {"applying", "described", "negotiating"}
              /\ NoOffer(inbox[v])
              /\ \A i \in DOMAIN inbox[v] : ~Late(inbox[v][i])
        /\ \A r \in refused : ~Late(r[2])

(* No offer follows a candidate that followed it. *)
OrderInv ==
    /\ \A v \in Viewers : \A i, j \in DOMAIN inbox[v] :
          i < j /\ Late(inbox[v][i]) => inbox[v][j].type # "offer"
    /\ \A r \in refused : r[1] # Host /\ Late(r[2]) =>
          view[r[1]] \in {"waiting", "closed"} /\ NoOffer(inbox[r[1]])

(* The host has an answer before a candidate that followed one. *)
Answered(n) == \E j \in DOMAIN inbox[Host] : j < n /\ inbox[Host][j].type = "answer"

AnswerInv ==
    /\ \A r \in refused : r[1] = Host => r[2] \in early
    /\ peer = Host =>
          /\ \A i \in DOMAIN inbox[Host] :
                inbox[Host][i] \in early \/ inbox[Host][i].type = "answer" \/ Answered(i)
          /\ \A v \in Viewers : view[v] = "negotiating" /\ Together(v) =>
                Answered(Len(inbox[Host]) + 1)

SignalingInv == TypeOK /\ HostInv /\ PageInv /\ OfferInv /\ OrderInv /\ AnswerInv

(* The handshake of one offer and the first answer, whatever pages are loaded,   *)
(* closed and dropped meanwhile: nobody takes the offer twice, the host hears    *)
(* each answer at most once and stays with the first it heard, and it connects   *)
(* to nobody else.                                                               *)
HostPhase ==
    IF Unoffered THEN "before" ELSE IF host = "serving" THEN "offered" ELSE "gone"
Phase(v) ==
    IF view[v] \in {"none", "loading", "waiting"} THEN "waiting"
    ELSE IF view[v] \in {"applying", "described"} THEN "took"
    ELSE IF view[v] = "negotiating" THEN "answered" ELSE "gone"
AnswerAt(i) == i \in DOMAIN inbox[Host] /\ inbox[Host][i].type = "answer"
OnTheWay == {v \in Viewers : \E i \in DOMAIN inbox[Host] :
                                AnswerAt(i) /\ inbox[Host][i].from = v}

Shakes == INSTANCE Handshake WITH
              None   <- Host,
              host   <- HostPhase,
              viewer <- [v \in Viewers |-> Phase(v)],
              way    <- OnTheWay

KeepsHandshake == Shakes!Spec

(* Why: an answer in the host's queue is the only one of a viewer that has       *)
(* answered, there is no link without an answer, and none that outlives          *)
(* RunSession.                                                                   *)
OnceInv ==
    /\ \A i, j \in DOMAIN inbox[Host] :
          AnswerAt(i) /\ AnswerAt(j) /\ inbox[Host][i].from = inbox[Host][j].from =>
              i = j
    /\ \A v \in OnTheWay : view[v] \in {"negotiating", "closed"}
    /\ link # "none" => peer # Host
    /\ link = "up" => host = "serving"

(* A viewer that takes the offer brings the negotiation to its end, its own or   *)
(* that of another viewer, as long as it and the host stay in the room.          *)
OfferAnswered ==
    \A v \in Viewers :
        view[v] = "applying" ~> peer # Host \/ HostGone \/ ~Together(v)

(* A host that has an answer connects, unless one end is gone or every candidate *)
(* of both was sent early.                                                       *)
AllEarly(p) == \A i \in 1 .. Candidates : Candidate(p, i) \in early

AnswerConnects ==
    \A v \in Viewers :
        peer = v ~> \/ link # "none" \/ HostGone
                    \/ ~Open(v) \/ ~Together(v)
                    \/ AllEarly(Host) /\ AllEarly(v)

(* docs/deployment.md:100, "When the agent is online, click Connect - this       *)
(* controls the real machine": the last page that is loaded does not wait for    *)
(* ever in a room where the host is.                                             *)
LastWaits == page = Pages /\ view[Pages] = "waiting" /\ Together(Pages)

ViewerControls == LastWaits ~> ~LastWaits
===============================================================================
